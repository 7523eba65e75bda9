------------------------------ MODULE Session ------------------------------
(***************************************************************************)
(* What a krouter worker does with the bytes its clients send:             *)
(* client_event_read (server.c), the decoder (decoder.c), the message it   *)
(* builds (message.c), the command it runs (command.c, command_func.c) and *)
(* the counters and object pools it touches on the way.                    *)
(*                                                                         *)
(* A worker is one thread: it handles one event of one client at a time.   *)
(* Workers run in parallel and share the server's counter req_ok, which    *)
(* they update without a lock.                                             *)
(*                                                                         *)
(* A line is abstracted to what the decoder makes of it:                   *)
(*   [head |-> "command", name, args]  "+name" (args = <<>>) or            *)
(*                                     "+name text" (args = <<atoi(text)>>)*)
(*   [head |-> "str"]                  "$text"                             *)
(*   [head |-> "kv"]                   "%key=value"                        *)
(*   [head |-> "other"]                anything else, an empty line, a "+" *)
(*                                     alone, a "%" without "=" included   *)
(***************************************************************************)
EXTENDS Integers, Sequences, FiniteSets, FiniteSetsExt

CONSTANTS Clients,    \* connected clients
          Workers,    \* worker threads
          home,       \* home[c]: the worker of client c
          Lines,      \* the lines that clients send
          MaxLines,   \* bound: lines that the clients send together
          NodeCount,  \* Ketama_get_server_num()
          UIntMod,    \* size of uint32_t, 2^32 in the code
          ParamMod    \* size of the uint16_t param_count, 2^16 in the code

ASSUME HomeAssumption == home \in [Clients -> Workers]
ASSUME MaxLinesAssumption == MaxLines \in Nat
ASSUME NodeCountAssumption == NodeCount \in Nat
ASSUME ModAssumption == UIntMod \in Nat \ {0} /\ ParamMod \in Nat \ {0}
ASSUME FiniteAssumption == IsFiniteSet(Clients) /\ IsFiniteSet(Workers)
ASSUME LinesAssumption ==
  \A l \in Lines : \/ l.head \in {"str", "kv", "other"}
                   \/ l.head = "command" /\ l.args \in Seq(Int) /\ Len(l.args) <= 1

VARIABLES
  alive,    \* the process runs
  open,     \* open[c]: not released yet
  sent,     \* sent[c]: all lines the client sent on the connection
  moved,    \* moved[c]: half lines of them that reached c->evbuf; reads cut lines
  taken,    \* taken[c]: lines of them that evbuffer_readln has taken out again
  msg,      \* msg[c]: client_t.msg
  c_all,    \* c_all[c]: client_t.req_all,
  c_ok,     \*   client_t.req_ok,
  c_err,    \*   client_t.req_err
  w_all,    \* w_all[w]: worker_t.req_all,
  w_ok,     \*   worker_t.req_ok,
  w_err,    \*   worker_t.req_err
  s_ok,     \* server_t.req_ok
  held,     \* held[c]: pool objects and line buffers in use for client c, by kind
  wpc,      \* wpc[w]: what worker w does next
  serving,  \*   the client whose event it handles (a set of at most one)
  sreg,     \*   server_t.req_ok as loaded for req_ok++
  log       \* history: log[c] is what came of each request or bad line, in order

bufferVars == <<sent, moved, taken>>
countVars  == <<c_all, c_ok, c_err, w_all, w_ok, w_err>>
threadVars == <<wpc, serving, sreg>>
vars == <<alive, open, bufferVars, msg, countVars, s_ok, held, threadVars, log>>

-----------------------------------------------------------------------------
(* The message under construction. *)

NoMsg    == [stat |-> "absent", name |-> "", count |-> 0, params |-> <<>>]
EmptyMsg == [stat |-> "none", name |-> "", count |-> 0, params |-> <<>>]

Kinds == {"msg", "cmd", "str", "param", "kv", "line"}
Nothing == [k \in Kinds |-> 0]
Sum(a, b) == [k \in Kinds |-> a[k] + b[k]]
Minus(a, b) == [k \in Kinds |-> a[k] - b[k]]

Count(m, kind) == Cardinality({i \in DOMAIN m.params : m.params[i] = kind})

\* What msg_clean gives back: every parameter with its strings and its line, and the
\* command with its name and its line.
Cleaned(m) ==
  LET hasCmd == IF m.stat \in {"more", "done"} THEN 1 ELSE 0
  IN  [Nothing EXCEPT !["cmd"]   = hasCmd,
                      !["str"]   = hasCmd + Count(m, "str") + 2 * Count(m, "kv"),
                      !["param"] = Len(m.params),
                      !["kv"]    = Count(m, "kv"),
                      !["line"]  = hasCmd + Len(m.params)]

\* What msg_free gives back.
Freed(m) ==
  IF m.stat = "absent" THEN Nothing ELSE [Cleaned(m) EXCEPT !["msg"] = 1]

-----------------------------------------------------------------------------
(* The decoder: decoder_run on message m and line l. *)

\* Mutant of ParamCount: the field is as wide as what is compared.
ParamCountWide(l) == IF l.args = <<>> THEN 0 ELSE l.args[1] % UIntMod

\* The number of parameters that a command line announces.  It is compared with 0 as
\* a uint32_t and stored as a uint16_t.
Announced(l) == IF l.args = <<>> THEN 0 ELSE l.args[1] % UIntMod
ParamCount(l) == Announced(l) % ParamMod

IsCommand(l) == l.head = "command" /\ (l.args = <<>> \/ Announced(l) > 0)
IsParam(l) == l.head \in {"str", "kv"}

Decodes(m, l) == IF m.stat = "none" THEN IsCommand(l) ELSE IsParam(l)

\* Mutant of Complete: one parameter more than announced.
CompleteLate(n, count) == n > count

\* The n parameters there are as many as were announced.
Complete(n, count) == n >= count

\* msg_set_cmd and msg_add_param.
Decoded(m, l) ==
  IF m.stat = "none"
    THEN [stat |-> IF ParamCount(l) > 0 THEN "more" ELSE "done",
          name |-> l.name, count |-> ParamCount(l), params |-> <<>>]
    ELSE [m EXCEPT !.params = Append(@, l.head),
                   !.stat = IF Complete(Len(m.params) + 1, m.count) THEN "done" ELSE "more"]

\* The objects taken from the pools for the line, and the line itself.
Allocated(m, l) ==
  IF m.stat = "none"
    THEN [Nothing EXCEPT !["cmd"] = 1, !["str"] = 1, !["line"] = 1]
    ELSE IF l.head = "str"
      THEN [Nothing EXCEPT !["param"] = 1, !["str"] = 1, !["line"] = 1]
      ELSE [Nothing EXCEPT !["param"] = 1, !["str"] = 2, !["kv"] = 1, !["line"] = 1]

-----------------------------------------------------------------------------
(* The commands: command_proc on a message that is done. *)

\* command_list_load.
Registered == {"GET", "PING"}

\* command_GET reads the first parameter without asking whether there is one.
Crashes(m) == m.name = "GET" /\ m.params = <<>>

\* The reply, or why there is none.
Outcome(m) ==
  IF m.name \notin Registered THEN "ERROR unknown command"
  ELSE IF m.name = "PING" THEN "PONG"
  ELSE IF m.params[1] # "str" THEN "no reply: param type"
  ELSE IF NodeCount = 0 THEN "no reply: zero nodes"
  ELSE "NODE"

\* Mutant of Succeeded: what the command returned is not looked at.
SucceededAlways(outcome) == TRUE

\* command_proc returned CMD_FUNC_DONE.
Succeeded(outcome) == outcome \in {"PONG", "NODE"}

-----------------------------------------------------------------------------
(* What msg_clean makes of message m of client c; h is what is held for the client. *)

\* Mutants of Clean: the message goes on; its objects are not given back.
CleanNot(c, m, h) ==
  /\ msg' = [msg EXCEPT ![c] = m]
  /\ held' = [held EXCEPT ![c] = h]

CleanLeaks(c, m, h) ==
  /\ msg' = [msg EXCEPT ![c] = EmptyMsg]
  /\ held' = [held EXCEPT ![c] = h]

Clean(c, m, h) ==
  /\ msg' = [msg EXCEPT ![c] = EmptyMsg]
  /\ held' = [held EXCEPT ![c] = Minus(h, Cleaned(m))]

-----------------------------------------------------------------------------
(* The counters.  Each is written by one worker only. *)

WorkerReqOk(w) ==
  /\ w_all' = [w_all EXCEPT ![w] = @ + 1]
  /\ w_ok' = [w_ok EXCEPT ![w] = @ + 1]
  /\ UNCHANGED w_err

WorkerReqErr(w) ==
  /\ w_all' = [w_all EXCEPT ![w] = @ + 1]
  /\ w_err' = [w_err EXCEPT ![w] = @ + 1]
  /\ UNCHANGED w_ok

\* client_increase_req_ok, and the increment of a command that failed.
ClientReqOk(c, failed) ==
  /\ c_all' = [c_all EXCEPT ![c] = @ + 1]
  /\ c_ok' = [c_ok EXCEPT ![c] = @ + (IF failed THEN 2 ELSE 1)]
  /\ UNCHANGED c_err

ClientReqErr(c) ==
  /\ c_all' = [c_all EXCEPT ![c] = @ + 1]
  /\ c_err' = [c_err EXCEPT ![c] = @ + 1]
  /\ UNCHANGED c_ok

-----------------------------------------------------------------------------
Init ==
  /\ alive = TRUE
  /\ open = [c \in Clients |-> TRUE]
  /\ sent = [c \in Clients |-> <<>>]
  /\ moved = [c \in Clients |-> 0]
  /\ taken = [c \in Clients |-> 0]
  /\ msg = [c \in Clients |-> NoMsg]
  /\ c_all = [c \in Clients |-> 0]
  /\ c_ok = [c \in Clients |-> 0]
  /\ c_err = [c \in Clients |-> 0]
  /\ w_all = [w \in Workers |-> 0]
  /\ w_ok = [w \in Workers |-> 0]
  /\ w_err = [w \in Workers |-> 0]
  /\ s_ok = 0
  /\ held = [c \in Clients |-> Nothing]
  /\ wpc = [w \in Workers |-> "dispatch"]
  /\ serving = [w \in Workers |-> {}]
  /\ sreg = [w \in Workers |-> 0]
  /\ log = [c \in Clients |-> <<>>]

\* The sum of n[c] over the clients of C, as the number of pairs below it.
SumOver(C, n) == Cardinality(UNION {{c} \X (1 .. n[c]) : c \in C})

\* The client sends one more line.
Send(c, l) ==
  /\ alive
  /\ open[c]
  /\ SumOver(Clients, [d \in Clients |-> Len(sent[d])]) < MaxLines
  /\ sent' = [sent EXCEPT ![c] = Append(@, l)]
  /\ UNCHANGED <<alive, open, moved, taken, msg, countVars, s_ok, held, threadVars, log>>

-----------------------------------------------------------------------------
(* client_event_read *)

\* The event loop calls it when bytes came: some whole lines and possibly a part of
\* one more.  The message object is there from the first call on.
BeginRead(w, c) ==
  /\ alive
  /\ wpc[w] = "dispatch"
  /\ home[c] = w
  /\ open[c]
  /\ \E n \in (moved[c] + 1) .. (2 * Len(sent[c])) : moved' = [moved EXCEPT ![c] = n]
  /\ msg' = [msg EXCEPT ![c] = IF @ = NoMsg THEN EmptyMsg ELSE @]
  /\ held' = [held EXCEPT ![c] =
                IF msg[c] = NoMsg THEN Sum(@, [Nothing EXCEPT !["msg"] = 1]) ELSE @]
  /\ wpc' = [wpc EXCEPT ![w] = "lines"]
  /\ serving' = [serving EXCEPT ![w] = {c}]
  /\ UNCHANGED <<alive, open, sent, taken, countVars, s_ok, sreg, log>>

\* evbuffer_readln finds a complete line.
LineReady(c) == taken[c] < moved[c] \div 2
NextLine(c) == sent[c][taken[c] + 1]

\* DR_ERR_FORMAT, DR_ERR_PARAM_FORMAT: the message is cleaned, the line is not freed.
RejectLine(w, c) ==
  /\ alive
  /\ wpc[w] = "lines"
  /\ c \in serving[w]
  /\ LineReady(c)
  /\ ~ Decodes(msg[c], NextLine(c))
  /\ taken' = [taken EXCEPT ![c] = @ + 1]
  /\ WorkerReqErr(w)
  /\ ClientReqErr(c)
  /\ Clean(c, msg[c], Sum(held[c], [Nothing EXCEPT !["line"] = 1]))
  /\ log' = [log EXCEPT ![c] = Append(@, IF msg[c].stat = "none" THEN "ERROR format"
                                                                ELSE "ERROR parameter")]
  /\ UNCHANGED <<alive, open, sent, moved, s_ok, threadVars>>

\* DR_OK, and more parameters are to come.
TakeLine(w, c) ==
  /\ alive
  /\ wpc[w] = "lines"
  /\ c \in serving[w]
  /\ LineReady(c)
  /\ Decodes(msg[c], NextLine(c))
  /\ Decoded(msg[c], NextLine(c)).stat = "more"
  /\ taken' = [taken EXCEPT ![c] = @ + 1]
  /\ msg' = [msg EXCEPT ![c] = Decoded(@, NextLine(c))]
  /\ held' = [held EXCEPT ![c] = Sum(@, Allocated(msg[c], NextLine(c)))]
  /\ UNCHANGED <<alive, open, sent, moved, countVars, s_ok, threadVars, log>>

\* DR_OK, and the line completes the message: it is counted and its command runs.  What
\* write() makes of the reply is ignored, so the reply is as good as sent; the pool
\* objects it is built from are all given back.
CompleteLine(w, c) ==
  LET m == Decoded(msg[c], NextLine(c))
      grown == Sum(held[c], Allocated(msg[c], NextLine(c)))
  IN
  /\ alive
  /\ wpc[w] = "lines"
  /\ c \in serving[w]
  /\ LineReady(c)
  /\ Decodes(msg[c], NextLine(c))
  /\ m.stat = "done"
  /\ taken' = [taken EXCEPT ![c] = @ + 1]
  /\ WorkerReqOk(w)
  /\ ClientReqOk(c, ~ Crashes(m) /\ ~ Succeeded(Outcome(m)))
  /\ \/ /\ Crashes(m)
        /\ alive' = FALSE
        /\ msg' = [msg EXCEPT ![c] = m]
        /\ held' = [held EXCEPT ![c] = grown]
        /\ UNCHANGED <<wpc, log>>
     \/ /\ ~ Crashes(m)
        /\ Succeeded(Outcome(m))
        /\ log' = [log EXCEPT ![c] = Append(@, Outcome(m))]
        /\ Clean(c, m, grown)
        /\ UNCHANGED <<alive, wpc>>
     \/ /\ ~ Crashes(m)
        /\ ~ Succeeded(Outcome(m))
        /\ log' = [log EXCEPT ![c] = Append(@, Outcome(m))]
        /\ msg' = [msg EXCEPT ![c] = m]
        /\ held' = [held EXCEPT ![c] = grown]
        /\ wpc' = [wpc EXCEPT ![w] = "load"]
        /\ UNCHANGED alive
  /\ UNCHANGED <<open, sent, moved, s_ok, serving, sreg>>

\* Mutant of OneMore: the loaded value is stored back.
NotOneMore(n) == n

OneMore(n) == n + 1

\* s->req_ok++ after a command that failed: a load and a store, other workers between.
LoadServerOk(w) ==
  /\ alive
  /\ wpc[w] = "load"
  /\ sreg' = [sreg EXCEPT ![w] = s_ok]
  /\ wpc' = [wpc EXCEPT ![w] = "store"]
  /\ UNCHANGED <<alive, open, bufferVars, msg, countVars, s_ok, held, serving, log>>

\* The store, and msg_clean.
StoreServerOk(w, c) ==
  /\ alive
  /\ wpc[w] = "store"
  /\ c \in serving[w]
  /\ s_ok' = OneMore(sreg[w])
  /\ sreg' = [sreg EXCEPT ![w] = 0]
  /\ Clean(c, msg[c], held[c])
  /\ wpc' = [wpc EXCEPT ![w] = "lines"]
  /\ UNCHANGED <<alive, open, bufferVars, countVars, serving, log>>

\* No complete line is left: the handler returns.
EndRead(w, c) ==
  /\ alive
  /\ wpc[w] = "lines"
  /\ c \in serving[w]
  /\ ~ LineReady(c)
  /\ wpc' = [wpc EXCEPT ![w] = "dispatch"]
  /\ serving' = [serving EXCEPT ![w] = {}]
  /\ UNCHANGED <<alive, open, bufferVars, msg, countVars, s_ok, held, sreg, log>>

-----------------------------------------------------------------------------
\* The connection is closed or lost: client_connection_release and client_free, with
\* the message as it is.
Release(w, c) ==
  /\ alive
  /\ wpc[w] = "dispatch"
  /\ home[c] = w
  /\ open[c]
  /\ open' = [open EXCEPT ![c] = FALSE]
  /\ msg' = [msg EXCEPT ![c] = NoMsg]
  /\ held' = [held EXCEPT ![c] = Minus(@, Freed(msg[c]))]
  /\ UNCHANGED <<alive, bufferVars, countVars, s_ok, threadVars, log>>

Handler(w) ==
  \/ \E c \in Clients : \/ RejectLine(w, c)
                        \/ TakeLine(w, c)
                        \/ CompleteLine(w, c)
                        \/ StoreServerOk(w, c)
                        \/ EndRead(w, c)
  \/ LoadServerOk(w)

Next ==
  \/ \E c \in Clients, l \in Lines : Send(c, l)
  \/ \E w \in Workers, c \in Clients : BeginRead(w, c) \/ Release(w, c)
  \/ \E w \in Workers : Handler(w)

\* A worker goes on with the handler it is in, and its event loop comes back to every
\* client that has bytes to read.
Fairness ==
  /\ \A w \in Workers : WF_vars(Handler(w))
  /\ \A w \in Workers, c \in Clients : SF_vars(BeginRead(w, c))

Spec == Init /\ [][Next]_vars /\ Fairness

-----------------------------------------------------------------------------
(* Properties. *)

\* Names of commands, those of replies included.
Names == {"", "PONG", "NODE", "ERROR"} \cup {l.name : l \in {k \in Lines : k.head = "command"}}
Messages == [stat: {"absent", "none", "more", "done"}, name: Names,
             count: 0 .. (ParamMod - 1), params: Seq({"str", "kv"})]
BadLine == {"ERROR format", "ERROR parameter"}
Failed == {"ERROR unknown command", "no reply: param type", "no reply: zero nodes"}
Results == BadLine \cup Failed \cup {"PONG", "NODE"}

TypeOK ==
  /\ alive \in BOOLEAN
  /\ open \in [Clients -> BOOLEAN]
  /\ sent \in [Clients -> Seq(Lines)]
  /\ moved \in [Clients -> Nat] /\ taken \in [Clients -> Nat]
  /\ \A c \in Clients : 2 * taken[c] <= moved[c] /\ moved[c] <= 2 * Len(sent[c])
  /\ msg \in [Clients -> Messages]
  /\ c_all \in [Clients -> Nat] /\ c_ok \in [Clients -> Nat] /\ c_err \in [Clients -> Nat]
  /\ w_all \in [Workers -> Nat] /\ w_ok \in [Workers -> Nat] /\ w_err \in [Workers -> Nat]
  /\ s_ok \in Nat
  /\ held \in [Clients -> [Kinds -> Nat]]
  /\ wpc \in [Workers -> {"dispatch", "lines", "load", "store"}]
  /\ serving \in [Workers -> SUBSET Clients]
  /\ sreg \in [Workers -> Nat]
  /\ log \in [Clients -> Seq(Results)]

\* A message on which the worker is not at work waits for its first line or has fewer
\* parameters than announced: what is left over by a bad line, a failed command or the
\* end of a read never leaks into the next request (server.c:260-299).
MessageWaits ==
  \A c \in Clients :
    (alive /\ wpc[home[c]] \in {"dispatch", "lines"}) =>
      /\ msg[c].stat \in {"absent", "none", "more"}
      /\ msg[c].stat = "more" => Len(msg[c].params) < msg[c].count
      /\ msg[c].stat # "more" => msg[c].params = <<>> /\ msg[c].count = 0
      /\ ~ open[c] => msg[c] = NoMsg

\* The protocol as a client sees it, read request by request: a command line with the
\* parameter lines it announces, or what is wrong with it.  The request at line i of s:
RequestAt(s, i) == [name |-> s[i].name,
                    params |-> [j \in 1 .. ParamCount(s[i]) |-> s[i + j].head]]
LastLine(s, i) == i + ParamCount(s[i])
Broken(s, i) == {j \in (i + 1) .. LastLine(s, i) : j <= Len(s) /\ ~ IsParam(s[j])}

\* It is not there, or not whole yet, or the server does not survive it.
Unanswered(s, i) ==
  \/ i > Len(s)
  \/ /\ IsCommand(s[i])
     /\ Broken(s, i) = {}
     /\ LastLine(s, i) > Len(s) \/ Crashes(RequestAt(s, i))

Answer(s, i) ==
  IF ~ IsCommand(s[i]) THEN "ERROR format"
  ELSE IF Broken(s, i) # {} THEN "ERROR parameter"
  ELSE Outcome(RequestAt(s, i))

\* Where the next request begins: a request that is broken by another line ends there and
\* takes that line with it.
Following(s, i) ==
  IF ~ IsCommand(s[i]) THEN i + 1
  ELSE IF Broken(s, i) # {} THEN Min(Broken(s, i)) + 1
  ELSE LastLine(s, i) + 1

RequestLog(s) ==
  LET Result[i \in 1 .. (Len(s) + 1)] ==
        IF Unanswered(s, i) THEN <<>> ELSE <<Answer(s, i)>> \o Result[Following(s, i)]
  IN  Result[1]

\* However the network cuts the bytes into reads and whatever went wrong before, the
\* requests and errors that the server sees in a client's lines are those that the
\* protocol says (server.c:252-299, decoder.c:5-95).
RequestsAsSent ==
  \A c \in Clients : log[c] = RequestLog(SubSeq(sent[c], 1, taken[c]))

\* Objects and line buffers in use for a client are those of its message under
\* construction, plus one line buffer for each of its lines that was rejected: whatever
\* sequence of lines, errors and disconnections, no object is lost or returned twice
\* (message.c:32, client.c:24), and the lines of DR_ERR_* (server.c:260) are all that leaks.
PoolBalance ==
  \A c \in Clients :
    held[c] = Sum(Freed(msg[c]), [Nothing EXCEPT !["line"] = c_err[c]])

Errors(s) == Cardinality({i \in DOMAIN s : s[i] \in BadLine})
Failures(s) == Cardinality({i \in DOMAIN s : s[i] \in Failed})

ClientsOf(w) == {c \in Clients : home[c] = w}
Pending == {w \in Workers : wpc[w] \in {"load", "store"}}
AllFailures == SumOver(Clients, [c \in Clients |-> Failures(log[c])])

\* The counter of failed commands that the workers share (server.c:296) may lose
\* updates but never counts one that did not happen, and never loses all of them.
ServerOkBounds ==
  /\ s_ok <= AllFailures - Cardinality(Pending)
  /\ AllFailures > Cardinality(Pending) => s_ok > 0

\* Each worker's and each client's counters tell what came of the requests (worker.c:51,
\* client.c:34): a request that its command rejects is counted as an error nowhere, and
\* twice among the successes of its client, which then exceed all its requests.
CountersTell ==
  /\ \A w \in Workers :
       /\ w_all[w] = w_ok[w] + w_err[w]
       /\ w_err[w] = SumOver(ClientsOf(w), c_err)
       /\ w_all[w] = SumOver(ClientsOf(w), c_all)
  /\ \A c \in Clients : c_err[c] = Errors(log[c])
  /\ alive => \A c \in Clients :
       /\ c_all[c] = Len(log[c])
       /\ c_ok[c] = Len(log[c]) - Errors(log[c]) + Failures(log[c])

\* Lines that a client sent are worked off, unless it is gone or the process is
\* (server.c:252).
LinesWorkedOff ==
  \A c \in Clients, n \in 1 .. MaxLines :
    Len(sent[c]) >= n ~> taken[c] >= n \/ ~ open[c] \/ ~ alive
=============================================================================
