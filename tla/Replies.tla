------------------------------- MODULE Replies -------------------------------
(***************************************************************************)
(* The replies of the workers of module Session, on their way to clients:  *)
(* response.c, and the part of message.c that builds a reply.              *)
(*                                                                         *)
(* A reply is a message like a request, built of pool objects.  resp_msg   *)
(* writes it line by line to the client's socket, which does not block:    *)
(* write takes what there is room for, and fails if there is none or the   *)
(* connection is gone.  A line counts as two halves, so that it can be cut.*)
(* The handler goes on when the reply is over, however it ended.           *)
(***************************************************************************)
EXTENDS Session, Functions

CONSTANT Room  \* half lines that the send buffer of a socket holds

ASSUME RoomAssumption == Room \in Nat \ {0}
ASSUME WidthAssumption == UIntMod > 2 /\ ParamMod > 2   \* replies have up to two parameters

VARIABLES
  rmsg,      \* rmsg[w]: the reply that worker w is at, or NoMsg
  rline,     \* rline[w]: the line of it that is written next; 0 when it is over
  borrowed,  \* borrowed[w]: pool objects and line buffers that it holds
  room,      \* room[c]: free half lines in the send buffer of client c's socket
  reset,     \* reset[c]: client c has broken the connection
  stream,    \* history: stream[c] is what was put into that buffer, half lines in order:
             \*   <<number of the reply in log[c], line, half>>
  short      \* history: short[c] says that some write to client c did not take all

replyVars == <<rmsg, rline, borrowed>>
socketVars == <<room, reset, stream, short>>
allVars == <<vars, replyVars, socketVars>>

InitReplies ==
  /\ Init
  /\ rmsg = [w \in Workers |-> NoMsg]
  /\ rline = [w \in Workers |-> 0]
  /\ borrowed = [w \in Workers |-> Nothing]
  /\ room = [c \in Clients |-> Room]
  /\ reset = [c \in Clients |-> FALSE]
  /\ stream = [c \in Clients |-> <<>>]
  /\ short = [c \in Clients |-> FALSE]

-----------------------------------------------------------------------------
(* Building a reply. *)

Command(name, args) == [head |-> "command", name |-> name, args |-> args]
Str == [head |-> "str"]

\* Mutant of ErrorLines: more parameters announced than there are.
ErrorLinesThree == <<Command("ERROR", <<3>>), Str, Str>>

\* The error's number and its text.
ErrorLines == <<Command("ERROR", <<2>>), Str, Str>>

\* The lines of the reply to a request with this outcome; <<>> for none.
LinesOf(outcome) ==
  IF outcome = "PONG" THEN <<Command("PONG", <<>>)>>
  ELSE IF outcome = "NODE" THEN <<Command("NODE", <<1>>), Str>>
  ELSE IF outcome \in BadLine \cup {"ERROR unknown command"} THEN ErrorLines
  ELSE <<>>

\* The message that msg_init, msg_gen_cmd, msg_set_cmd, msg_gen_param_str and msg_add_param
\* make of a command line and up to two parameters, and the objects that takes.
Started == [m |-> EmptyMsg, objects |-> [Nothing EXCEPT !["msg"] = 1]]
With(b, l) == [m |-> Decoded(b.m, l), objects |-> Sum(b.objects, Allocated(b.m, l))]
Build(lines) ==
  LET bare == With(Started, lines[1])
      one  == With(bare, lines[2])
  IN  IF Len(lines) = 1 THEN bare ELSE IF Len(lines) = 2 THEN one ELSE With(one, lines[3])

Replying(w) == rmsg[w] # NoMsg

\* What client c's handler has added to the log is answered.  resp_msg refuses a message
\* that is not done.
Reply(w, c) ==
  LET lines == IF log'[c] = log[c] THEN <<>> ELSE LinesOf(log'[c][Len(log'[c])])
      b     == Build(lines)
  IN IF lines = <<>>
       THEN UNCHANGED replyVars
       ELSE /\ rmsg' = [rmsg EXCEPT ![w] = b.m]
            /\ rline' = [rline EXCEPT ![w] = IF b.m.stat = "done" THEN 1 ELSE 0]
            /\ borrowed' = [borrowed EXCEPT ![w] = b.objects]

\* A step of the read handler, with the reply it begins.
Handle(w) ==
  /\ ~ Replying(w)
  /\ Handler(w)
  /\ \E c \in serving[w] : Reply(w, c)
  /\ UNCHANGED socketVars

-----------------------------------------------------------------------------
(* Writing it. *)

LineCount(m) == 1 + Len(m.params)

\* What write takes of a line: what there is room for, and none of it (EAGAIN, EPIPE, with
\* SIGPIPE handled) is a failure.
Taken(c) == IF reset[c] THEN 0 ELSE Min({2, room[c]})

\* Mutants of NextWritten: a failure is ignored; the line is tried again; the last
\* parameter is not the last.
NextWrittenAlways(m, j, n) == IF j = LineCount(m) THEN 0 ELSE j + 1
NextWrittenAgain(m, j, n) == IF n = 0 THEN j ELSE IF j = LineCount(m) THEN 0 ELSE j + 1
NextWrittenPast(m, j, n) == IF n = 0 THEN 0 ELSE j + 1

\* After a write of line j that took n halves: a failure ends the reply, half a line
\* passes for a whole one.
NextWritten(m, j, n) == IF n = 0 \/ j = LineCount(m) THEN 0 ELSE j + 1

WriteLine(w, c) ==
  /\ alive
  /\ c \in serving[w]
  /\ rline[w] # 0
  /\ stream' = [stream EXCEPT ![c] =
                  @ \o [h \in 1 .. Taken(c) |-> <<Len(log[c]), rline[w], h>>]]
  /\ room' = [room EXCEPT ![c] = @ - Taken(c)]
  /\ short' = [short EXCEPT ![c] = @ \/ Taken(c) < 2]
  /\ rline' = [rline EXCEPT ![w] = NextWritten(rmsg[w], @, Taken(c))]
  /\ UNCHANGED <<vars, rmsg, borrowed, reset>>

\* Mutant of GivenBack: only the message object is returned.
GivenBackOne(m) == [Nothing EXCEPT !["msg"] = 1]

\* What msg_free of the reply gives back.
GivenBack(m) == Freed(m)

FinishReply(w) ==
  /\ alive
  /\ Replying(w)
  /\ rline[w] = 0
  /\ rmsg' = [rmsg EXCEPT ![w] = NoMsg]
  /\ borrowed' = [borrowed EXCEPT ![w] = Minus(@, GivenBack(rmsg[w]))]
  /\ UNCHANGED <<vars, rline, socketVars>>

-----------------------------------------------------------------------------
(* The other side. *)

Receive(c) ==
  /\ alive
  /\ ~ reset[c]
  /\ \E n \in (room[c] + 1) .. Room : room' = [room EXCEPT ![c] = n]
  /\ UNCHANGED <<vars, replyVars, reset, stream, short>>

Reset(c) ==
  /\ alive
  /\ open[c]
  /\ ~ reset[c]
  /\ reset' = [reset EXCEPT ![c] = TRUE]
  /\ UNCHANGED <<vars, replyVars, room, stream, short>>

SendLine(c, l) == ~ reset[c] /\ Send(c, l) /\ UNCHANGED <<replyVars, socketVars>>
ReadEvent(w, c) == BeginRead(w, c) /\ UNCHANGED <<replyVars, socketVars>>
ReleaseEvent(w, c) == Release(w, c) /\ UNCHANGED <<replyVars, socketVars>>

-----------------------------------------------------------------------------
Work(w) ==
  \/ Handle(w)
  \/ \E c \in Clients : WriteLine(w, c)
  \/ FinishReply(w)

NextReplies ==
  \/ \E c \in Clients, l \in Lines : SendLine(c, l)
  \/ \E c \in Clients : Receive(c) \/ Reset(c)
  \/ \E w \in Workers, c \in Clients : ReadEvent(w, c) \/ ReleaseEvent(w, c)
  \/ \E w \in Workers : Work(w)

\* As in Session; no client need ever read.
FairnessReplies ==
  /\ \A w \in Workers : WF_allVars(Work(w))
  /\ \A w \in Workers, c \in Clients : SF_allVars(ReadEvent(w, c))

SpecReplies == InitReplies /\ [][NextReplies]_allVars /\ FairnessReplies

-----------------------------------------------------------------------------
(* Properties. *)

Halfs == Nat \X (Nat \ {0}) \X {1, 2}

RepliesTypeOK ==
  /\ rmsg \in [Workers -> Messages]
  /\ \A w \in Workers : /\ rmsg[w].name \in {"", "PONG", "NODE", "ERROR"}
                        /\ rline[w] \in 0 .. LineCount(rmsg[w])
                        /\ rline[w] # 0 => Replying(w)
  /\ rline \in [Workers -> Nat]
  /\ borrowed \in [Workers -> [Kinds -> Nat]]
  /\ room \in [Clients -> 0 .. Room]
  /\ reset \in [Clients -> BOOLEAN] /\ short \in [Clients -> BOOLEAN]
  /\ stream \in [Clients -> Seq(Halfs)]

\* All half lines of the replies to requests with these outcomes.
AllHalves(outcomes) ==
  UNION {{i} \X (1 .. Len(LinesOf(outcomes[i]))) \X {1, 2} : i \in DOMAIN outcomes}

Before(p, q) ==
  \/ p[1] < q[1]
  \/ p[1] = q[1] /\ p[2] < q[2]
  \/ p[1] = q[1] /\ p[2] = q[2] /\ p[3] < q[3]

\* A client whose socket took every write got the reply of every request, whole, and nothing
\* else: as many parameters are added as the command announces, else resp_msg would write
\* nothing (response.c:15-40, response.c:43-97).  Nobody gets anything twice or out of order.
RepliesArrive ==
  \A c \in Clients :
    /\ (~ short[c] /\ ~ \E w \in Workers : c \in serving[w]) =>
         Range(stream[c]) = AllHalves(log[c])
    /\ \A i, k \in DOMAIN stream[c] : i < k => Before(stream[c][i], stream[c][k])

\* What may come after half line p in a stream: its other half; the next line of the reply,
\* also after a line that was cut; a later reply from its beginning.
Follows(p, q) ==
  \/ q = <<p[1], p[2], 2>> /\ p[3] = 1
  \/ q = <<p[1], p[2] + 1, 1>>
  \/ q[1] > p[1] /\ q[2] = 1 /\ q[3] = 1

\* Whatever the socket refuses, a client never gets a parameter of a reply of which it did
\* not get, in part at least, the line before, nor the end of a reply after a later one: a
\* failed write ends the reply (response.c:24-36).  Half a line may stand for a whole one.
NoHoles ==
  \A c \in Clients : \A i \in 2 .. Len(stream[c]) : Follows(stream[c][i - 1], stream[c][i])

\* However a reply ends, all objects that it took go back (response.c:60, message.c:201).
BorrowedReturned == \A w \in Workers : borrowed[w] = Freed(rmsg[w])
=============================================================================
