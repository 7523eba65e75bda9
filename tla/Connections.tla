---------------------------- MODULE Connections ----------------------------
(***************************************************************************)
(* The life of a connection in krouter (server.c, worker.c, client.c).     *)
(*                                                                         *)
(* The accept thread runs server_event_accept for one connection at a      *)
(* time: it adds up the workers' client counts without their locks,        *)
(* refuses the connection if the sum reached the limit, and otherwise      *)
(* looks for the least loaded worker, again without locks, and counts the  *)
(* connection there under that worker's lock.  Each worker thread runs     *)
(* client_connection_release for its own clients.  One action is what a    *)
(* thread does between two accesses to memory that others write.           *)
(***************************************************************************)
EXTENDS Integers, FiniteSets

CONSTANTS Conns,        \* connections that clients may open (a slot is reused)
          WorkerCount,  \* server->worker_count
          MaxConn,      \* setting_get_max_connections()
          CountMod      \* conn_cur_count is counted modulo this, 2^64 in the code

ASSUME ConnsAssumption == IsFiniteSet(Conns)
ASSUME WorkerCountAssumption == WorkerCount \in Nat \ {0}
ASSUME MaxConnAssumption == MaxConn \in Nat
ASSUME CountModAssumption == CountMod \in Nat \ {0}

Workers == 0 .. (WorkerCount - 1)

VARIABLES
  conn,            \* conn[c]: where connection c is in its life, see Stages
  home,            \* home[c]: c->worker, the worker that c was given to
  num_client,      \* num_client[w]: worker_t.num_client
  lock,            \* lock[w]: who holds worker_t.lock
  conn_cur_count,  \* server_t.conn_cur_count
  conn_max,        \* server_t.conn_max
  apc,             \* the accept thread: what it does next,
  client,          \*   the connection at hand (a set of at most one),
  idx,             \*   i of the loop it runs,
  cons,            \*   cons of server_get_current_connections,
  best,            \*   w of server_get_least_connection_worker,
  seen,            \*   the oldest count a plain read of num_client may return,
  areg,            \*   num_client as loaded for num_client++
  wpc,             \* wpc[w]: what worker w does next,
  victim,          \*   the client it releases (a set of at most one),
  wreg,            \*   num_client as loaded for num_client--,
  creg,            \*   conn_cur_count as loaded for conn_cur_count--
  before           \* history: connections counted when the handler at hand began

connVars   == <<conn, home>>
countVars  == <<num_client, lock>>
serverVars == <<conn_cur_count, conn_max>>
acceptVars == <<apc, client, idx, cons, best, seen, areg, before>>
workerVars == <<wpc, victim, wreg, creg>>
vars == <<connVars, countVars, serverVars, acceptVars, workerVars>>

Stages == {"away",       \* no connection
           "backlog",    \* waits in the listening socket's queue
           "accepting",  \* server_event_accept runs, the limit is not passed yet
           "admitted",   \* passed the limit, num_client does not count it yet
           "counted",    \* num_client counts it, its events are not enabled yet
           "open",       \* its worker serves it
           "closing",    \* its worker releases it, num_client still counts it
           "uncounted"}  \* released from num_client, not yet from the server

Counted == {c \in Conns : conn[c] \in {"counted", "open", "closing"}}
CountedOn(w) == {c \in Counted : home[c] = w}

Init ==
  /\ conn = [c \in Conns |-> "away"]
  /\ home = [c \in Conns |-> 0]
  /\ num_client = [w \in Workers |-> 0]
  /\ lock = [w \in Workers |-> "free"]
  /\ conn_cur_count = 0
  /\ conn_max = 0
  /\ apc = "dispatch"
  /\ client = {}
  /\ idx = 0
  /\ cons = 0
  /\ best = 0
  /\ seen = [w \in Workers |-> 0]
  /\ areg = 0
  /\ wpc = [w \in Workers |-> "dispatch"]
  /\ victim = [w \in Workers |-> {}]
  /\ wreg = [w \in Workers |-> 0]
  /\ creg = [w \in Workers |-> 0]
  /\ before = {}

-----------------------------------------------------------------------------
(* The network: a client connects and waits in the listen backlog. *)

Arrive(c) ==
  /\ conn[c] = "away"
  /\ conn' = [conn EXCEPT ![c] = "backlog"]
  /\ UNCHANGED <<home, countVars, serverVars, acceptVars, workerVars>>

-----------------------------------------------------------------------------
(* The accept thread: server_event_accept. *)

\* Mutant of FirstSummed: the sum starts at worker 1, as the search does.
SecondSummed == 1

FirstSummed == 0

\* The listener hands over a new socket; server_get_current_connections starts.
Accept(c) ==
  /\ apc = "dispatch"
  /\ conn[c] = "backlog"
  /\ conn' = [conn EXCEPT ![c] = "accepting"]
  /\ client' = {c}
  /\ before' = Counted
  /\ apc' = "sum"
  /\ idx' = FirstSummed
  /\ cons' = 0
  /\ UNCHANGED <<home, countVars, serverVars, best, seen, areg, workerVars>>

\* cons += worker_get_count(wl[i]); the lock of worker i is not taken.
SumStep ==
  /\ apc = "sum"
  /\ idx < WorkerCount
  /\ cons' = cons + num_client[idx]
  /\ idx' = idx + 1
  /\ UNCHANGED <<connVars, countVars, serverVars, apc, client, best, seen, areg,
                 before, workerVars>>

\* Mutants of LimitReached: one connection too many, one too few.
LimitPassed(n) == MaxConn < n
LimitNear(n) == MaxConn <= n + 1

LimitReached(n) == MaxConn <= n

CheckLimit ==
  /\ apc = "sum"
  /\ idx = WorkerCount
  /\ IF LimitReached(cons)
       THEN /\ apc' = "refuse"
            /\ UNCHANGED conn
       ELSE /\ apc' = "peak"
            /\ conn' = [c \in Conns |-> IF c \in client THEN "admitted" ELSE conn[c]]
  /\ UNCHANGED <<home, countVars, serverVars, client, idx, cons, best, seen, areg,
                 before, workerVars>>

\* The maximum kept for debugging; then the search for the least loaded worker
\* starts at worker 0.
UpdatePeak ==
  /\ apc = "peak"
  /\ conn_max' = IF conn_cur_count > conn_max THEN conn_cur_count ELSE conn_max
  /\ apc' = "least"
  /\ best' = 0
  /\ idx' = 1
  /\ seen' = num_client
  /\ UNCHANGED <<connVars, countVars, conn_cur_count, client, cons, areg, before,
                 workerVars>>

\* Mutant of Busier: the comparison the wrong way round.
LessBusy(m, n) == m < n

\* A worker with m clients has more than one with n.
Busier(m, n) == m > n

\* The search reads num_client of two workers with plain loads and no lock: the
\* processor and the compiler may take each value from any moment since the
\* search began, but for one worker never an older one than the read before.
\* Workers only decrease the counts meanwhile.
LeastStep ==
  /\ apc = "least"
  /\ idx < WorkerCount
  /\ \E l \in num_client[best] .. seen[best], r \in num_client[idx] .. seen[idx] :
       /\ best' = IF Busier(l, r) THEN idx ELSE best
       /\ seen' = [seen EXCEPT ![best] = l, ![idx] = r]
  /\ idx' = idx + 1
  /\ UNCHANGED <<connVars, countVars, serverVars, apc, client, cons, areg, before,
                 workerVars>>

\* client_init ties the client to the worker found; worker_add_new_connection
\* goes on to worker_increase_count.
Place ==
  /\ apc = "least"
  /\ idx = WorkerCount
  /\ home' = [c \in Conns |-> IF c \in client THEN best ELSE home[c]]
  /\ apc' = "lock"
  /\ UNCHANGED <<conn, countVars, serverVars, client, idx, cons, best, seen, areg,
                 before, workerVars>>

\* Mutants of Unlocked, Unlock: no waiting for the lock; one side forgets to unlock.
UnlockedAlways(w) == TRUE
UnlockAcceptor(w, who) == IF who = "acceptor" THEN lock' = [lock EXCEPT ![w] = "free"]
                                              ELSE UNCHANGED lock
UnlockWorker(w, who) == IF who = "worker" THEN lock' = [lock EXCEPT ![w] = "free"]
                                          ELSE UNCHANGED lock

\* pthread_mutex_lock returns; pthread_mutex_unlock.
Unlocked(w) == lock[w] = "free"
Unlock(w, who) == lock' = [lock EXCEPT ![w] = "free"]

LockForIncrease ==
  /\ apc = "lock"
  /\ Unlocked(best)
  /\ lock' = [lock EXCEPT ![best] = "acceptor"]
  /\ areg' = num_client[best]
  /\ apc' = "store"
  /\ UNCHANGED <<connVars, num_client, serverVars, client, idx, cons, best, seen,
                 before, workerVars>>

StoreIncrease ==
  /\ apc = "store"
  /\ num_client' = [num_client EXCEPT ![best] = areg + 1]
  /\ Unlock(best, "acceptor")
  /\ conn' = [c \in Conns |-> IF c \in client THEN "counted" ELSE conn[c]]
  /\ apc' = "enable"
  /\ UNCHANGED <<home, serverVars, client, idx, cons, best, seen, areg, before,
                 workerVars>>

\* What both ends of the handler have in common: its locals are gone.
HandlerReturns ==
  /\ apc' = "dispatch"
  /\ client' = {}
  /\ idx' = 0
  /\ cons' = 0
  /\ best' = 0
  /\ seen' = [w \in Workers |-> 0]
  /\ areg' = 0
  /\ before' = {}

\* bufferevent_setcb and bufferevent_enable: the worker sees the client's events.
Enable ==
  /\ apc = "enable"
  /\ conn' = [c \in Conns |-> IF c \in client THEN "open" ELSE conn[c]]
  /\ HandlerReturns
  /\ UNCHANGED <<home, countVars, serverVars, workerVars>>

\* resp_error_max_connection and close: the early return.
Refuse ==
  /\ apc = "refuse"
  /\ conn' = [c \in Conns |-> IF c \in client THEN "away" ELSE conn[c]]
  /\ HandlerReturns
  /\ UNCHANGED <<home, countVars, serverVars, workerVars>>

-----------------------------------------------------------------------------
(* A worker thread: client_event_error and client_connection_release. *)

\* The peer closed or the socket failed: the event loop calls client_event_error,
\* which closes the socket.
BeginRelease(w, c) ==
  /\ wpc[w] = "dispatch"
  /\ conn[c] = "open"
  /\ home[c] = w
  /\ conn' = [conn EXCEPT ![c] = "closing"]
  /\ wpc' = [wpc EXCEPT ![w] = "lock"]
  /\ victim' = [victim EXCEPT ![w] = {c}]
  /\ UNCHANGED <<home, countVars, serverVars, acceptVars, wreg, creg>>

LockForDecrease(w) ==
  /\ wpc[w] = "lock"
  /\ Unlocked(w)
  /\ lock' = [lock EXCEPT ![w] = "worker"]
  /\ wreg' = [wreg EXCEPT ![w] = num_client[w]]
  /\ wpc' = [wpc EXCEPT ![w] = "store"]
  /\ UNCHANGED <<connVars, num_client, serverVars, acceptVars, victim, creg>>

StoreDecrease(w) ==
  /\ wpc[w] = "store"
  /\ num_client' = [num_client EXCEPT ![w] = wreg[w] - 1]
  /\ Unlock(w, "worker")
  /\ conn' = [c \in Conns |-> IF c \in victim[w] THEN "uncounted" ELSE conn[c]]
  /\ wreg' = [wreg EXCEPT ![w] = 0]
  /\ wpc' = [wpc EXCEPT ![w] = "load"]
  /\ UNCHANGED <<home, serverVars, acceptVars, victim, creg>>

\* s->conn_cur_count--, a load and a store with no lock around them: the workers
\* may overwrite each other's result.  Nothing ever increments the counter.
LoadCurCount(w) ==
  /\ wpc[w] = "load"
  /\ creg' = [creg EXCEPT ![w] = conn_cur_count]
  /\ wpc' = [wpc EXCEPT ![w] = "curstore"]
  /\ UNCHANGED <<connVars, countVars, serverVars, acceptVars, victim, wreg>>

\* Mutant of Decremented: a signed counter goes below zero.
DecrementedSigned(n) == n - 1

Decremented(n) == (n + CountMod - 1) % CountMod

\* The store, and client_free.
StoreCurCount(w) ==
  /\ wpc[w] = "curstore"
  /\ conn_cur_count' = Decremented(creg[w])
  /\ conn' = [c \in Conns |-> IF c \in victim[w] THEN "away" ELSE conn[c]]
  /\ wpc' = [wpc EXCEPT ![w] = "dispatch"]
  /\ victim' = [victim EXCEPT ![w] = {}]
  /\ creg' = [creg EXCEPT ![w] = 0]
  /\ UNCHANGED <<home, countVars, conn_max, acceptVars, wreg>>

-----------------------------------------------------------------------------
AcceptHandler ==
  \/ SumStep
  \/ CheckLimit
  \/ UpdatePeak
  \/ LeastStep
  \/ Place
  \/ LockForIncrease
  \/ StoreIncrease
  \/ Enable
  \/ Refuse

ReleaseHandler(w) ==
  \/ LockForDecrease(w)
  \/ StoreDecrease(w)
  \/ LoadCurCount(w)
  \/ StoreCurCount(w)

Next ==
  \/ \E c \in Conns : Arrive(c) \/ Accept(c)
  \/ AcceptHandler
  \/ \E w \in Workers, c \in Conns : BeginRelease(w, c)
  \/ \E w \in Workers : ReleaseHandler(w)

SafeSpec == Init /\ [][Next]_vars

\* A thread that can go on does.  The listen backlog is a queue, so a connection
\* in it is taken if the accept thread returns to its event loop again and again.
\* Nothing makes a client connect or hang up.
Fairness ==
  /\ \A c \in Conns : SF_vars(Accept(c))
  /\ WF_vars(AcceptHandler)
  /\ \A w \in Workers : WF_vars(ReleaseHandler(w))

Spec == SafeSpec /\ Fairness

-----------------------------------------------------------------------------
(* Properties. *)

\* Every variable stays in its type; the counter conn_cur_count (server.c:202)
\* stays in its width and num_client never goes below zero.
TypeOK ==
  /\ conn \in [Conns -> Stages]
  /\ home \in [Conns -> Workers]
  /\ num_client \in [Workers -> Nat]
  /\ lock \in [Workers -> {"free", "acceptor", "worker"}]
  /\ conn_cur_count \in 0 .. (CountMod - 1)
  /\ conn_max \in 0 .. (CountMod - 1)
  /\ apc \in {"dispatch", "sum", "peak", "least", "lock", "store", "enable", "refuse"}
  /\ client \in SUBSET Conns
  /\ idx \in 0 .. WorkerCount
  /\ cons \in Nat
  /\ best \in Workers
  /\ seen \in [Workers -> Nat]
  /\ areg \in Nat
  /\ wpc \in [Workers -> {"dispatch", "lock", "store", "load", "curstore"}]
  /\ victim \in [Workers -> SUBSET Conns]
  /\ wreg \in [Workers -> Nat]
  /\ creg \in [Workers -> 0 .. (CountMod - 1)]
  /\ before \in SUBSET Conns

Admitted == {c \in Conns : conn[c] = "admitted"} \cup Counted

\* Although the limit is checked (server.c:153) against counts that the workers
\* are changing, and the new connection is counted only much later, there are
\* never more connections past the check than the limit.
ConnLimit == Cardinality(Admitted) <= MaxConn

\* A connection is refused (server.c:155) only if as many connections as the limit
\* allows were counted when its handler began: the sum read worker by worker,
\* which need not be a total that ever existed, never refuses without cause.
NoSpuriousRefusal == apc = "refuse" => Cardinality(before) >= MaxConn

\* The unlocked search for a worker (server.c:77) is never misled by a count that
\* is stale: when the connection is given to a worker (server.c:171), that worker
\* has no more clients than any other had when the handler began.
LeastLoaded ==
  apc \in {"lock", "store"} =>
    \A w \in Workers :
      num_client[best] <= Cardinality({c \in before : home[c] = w})

\* Incremented by the accept thread and decremented by the worker (worker.c:32,
\* worker.c:39), num_client is at any time the number of the worker's clients.
CountExact == \A w \in Workers : num_client[w] = Cardinality(CountedOn(w))

\* A connection in the listen backlog is eventually served or refused (server.c:143).
Answered == \A c \in Conns : conn[c] = "backlog" ~> conn[c] \in {"open", "away"}

\* A connection that its client left is eventually released completely, whatever
\* lock its worker has to wait for (server.c:189).
Released == \A c \in Conns : conn[c] = "closing" ~> conn[c] = "away"

\* The state of module Admission: who waits, who has its turn, who was there then.
Waiting == {c \in Conns : conn[c] = "backlog"}
Asking == {c \in Conns : conn[c] = "accepting"}
Present == IF Asking = {} THEN {} ELSE before
Adm == INSTANCE Admission WITH
         waiting <- Waiting, asking <- Asking, present <- Present, admitted <- Admitted

\* The threads implement the admission control of module Admission (server.c:143
\* and server.c:189): a connection is judged at one moment between its turn and
\* its answer.
AdmissionSafe == Adm!SafeSpec

\* What the server logs as "max" connections when a client leaves (server.c:200),
\* conn_max, is a number of connections it may have had.
PeakWithinLimit == conn_max <= MaxConn
=============================================================================
