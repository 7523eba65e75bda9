# krouter: a verification development

krouter (directory `src/src`) is a small server that tells clients which node of a
cluster is responsible for a key. One thread accepts connections and hands each to a
worker thread; a worker reads the lines of its clients with libevent, decodes them to
messages, runs their commands (`PING`, `GET`) and writes replies. The node of a key
comes from a ketama hash ring.

This directory holds TLA+ models of that code, TLC configurations that check them on
small instances, and proofs for the TLA+ proof system.

## The system

| component | code | state | operations |
|---|---|---|---|
| connections | `server.c`, `worker.c`, `client.c` | `worker_t.num_client` and its lock, `server_t.conn_cur_count`, `conn_max` | `server_event_accept`, `client_connection_release` |
| sessions | `server.c`, `decoder.c`, `message.c`, `command.c`, `command_func.c` | `client_t.msg`, `evbuf`, the counters `req_ok`, `req_err`, `req_all` of client, worker and server | `client_event_read`, `msg_clean`, `msg_free`, `command_proc` |
| replies | `response.c`, `message.c` | the reply, the socket's buffer | `resp_msg`, `resp_error`, `resp_node`, `resp_pong` |
| ring | `ketama.c`, `md5.c` | the nodes and the sorted points | `Ketama_add_server`, `Ketama_create_continuum`, `Ketama_get_server_ordinal` |
| object pools | `pabuf.c`, `str.c` | free objects and free list shells of each pool, with limits | `pabuf_get`, `pabuf_back` |
| sliding window counter | `countque.c` | ticks of the window | `cq_tic`, `cq_count`; called by nothing in the program |
| start and stop | `krouter.c`, `setting.c` | command line, settings, log level, threads | `main`, `setting_load`, `setting_get_log_level`, `server_start`, `worker_start` |
| logging, texts | `logging.c`, `utime.c`, ... | none | output |

How they interact:

* The accept thread calls `server_event_accept` for one connection at a time. It reads
  every worker's `num_client` without its lock, and later takes one worker's lock to
  increment one of them. A worker takes its own lock to decrement its own count.
* From `bufferevent_enable` on, a client belongs to its worker's event loop, which
  calls `client_event_read` and `client_event_error` one after the other. Workers share
  `server_t`: `conn_cur_count` and `req_ok` are changed without a lock.
* Messages are built from objects of the worker's pools. An unknown command and a
  refused connection are answered from the server's pools, which several threads use;
  the build (`Makefile.am:4`, `PABUF_NOLOCK`) leaves the locks of all pools out, those included.
* `main` reads the settings, builds the server and its ring, creates the threads and pauses; from
  then on the threads only share what is said above.
* A worker writes replies to the client's socket itself, past libevent: `write` does not
  wait, and the code looks at nothing but a negative result.
* The ring is built by `server_init` before there are threads and only read later.

What is hard here: counts that are read while they change, locks between the two kinds
of threads, counters without locks, messages that span reads and break off half built, replies that are
written in part, the arithmetic of a hand-written binary search, and a start whose steps
may fail one by one. `PROJECT.json` lists each place.

For each component, what makes it correct: connections: the limit holds, nobody is
refused without cause, the least loaded worker is found, everyone is answered and
released. Sessions: requests are seen as they were sent, however they are cut and
whatever went wrong before, and every object goes back to its pool once. Replies: a client
that reads gets all of them, one that does not holds up nobody. Ring: a lookup
finds the owner of the key and ends; the ring fits its memory. Pools: no object is with
two owners, counts and lists agree (not so in the server's: see the run `shared_pool`).
Window: its count is the ticks in the window. Start
and stop: a router that serves does what its file says, a start ends, and a thread that does not
run gets no connections (it does: see the run `threads`).

## Modules

| module | models | runs |
|---|---|---|
| `Admission` | abstract: what the server promises those who connect | |
| `Connections` | the accept handler and the release handlers of all workers | `accept`, `accept_live`, `conn_max` |
| `ConnectionsProofs` | proofs about `Connections`, refinement of `Admission` included | |
| `Session` | the read handlers of all workers, with decoder, message, commands | `requests` |
| `SessionProofs` | proofs about `Session` | |
| `RequestsProofs` | proof that `Session` sees the requests that were sent, on top of `SessionProofs` | |
| `Replies` | extends `Session`: its replies, written line by line to sockets that fill up or break | `replies` |
| `RepliesProofs` | proofs about `Replies`, on top of `SessionProofs` | |
| `Ketama` | nodes, ring, binary search | `ring` |
| `KetamaProofs` | proofs about `Ketama` | |
| `ObjectStore` | abstract: what an object pool promises its threads | |
| `Pool` | one pool: free objects, shells, limits, the lock or none | `pool`, `shared_pool` |
| `PoolProofs` | proofs about `Pool`, refinement of `ObjectStore` included | |
| `Countque` | the sliding window counter | `window` |
| `CountqueProofs` | proofs about `Countque` | |
| `Startup` | command line, settings, threads, signals, the end | `startup`, `threads`, `err_level` |
| `StartupProofs` | proofs about `Startup` | |
| `MCConnections`, `MCSession`, `MCReplies`, `MCKetama`, `MCPool`, `MCStartup` | values of the constants for TLC | |

Mutant operators (their comments begin with "Mutant of") change one definition the way
a plausible slip would. They occur in no specification; each shows that a property
notices the slip.

### Connections

`conn[c]` is where a connection is in its life. The accept thread has a program counter
`apc` and the locals of the functions it calls (`idx`, `cons`, `best`, `areg`); each
worker has `wpc`, its `victim` and the values it loaded (`wreg`, `creg`). An action is
what a thread does between two accesses to memory that another thread writes:

    server_event_accept:  Accept, SumStep for each worker, CheckLimit, then Refuse, or
                          UpdatePeak, LeastStep for each worker, Place,
                          LockForIncrease, StoreIncrease, Enable
    client_connection_release:  BeginRelease, LockForDecrease, StoreDecrease,
                          LoadCurCount, StoreCurCount

`num_client++` under the lock is a load and a store, because the unlocked readers and a
missing lock could come between. The search for the least loaded worker compares two
counts with plain loads, which the compiler may merge with earlier ones; `LeastStep`
therefore takes any value that the count had since the search began, never an older one
than was seen before. `worker_get_count` in the sum is a call in another file, read once.
`before` is a history variable: the connections counted when the handler began.
The two further sums that are only logged (`server.c:178`, `server.c:200`) are left out.
A slot of `Conns` is reused after a release, as descriptors are.

`Admission` is the promise without threads: who waits, who is being answered, who was
admitted when it got its turn, who is admitted. The mapping is at the end of `Connections`.
A connection is refused only if the server was full when its turn came, and admitted
only while there is room.

### Session

A line is what the decoder makes of it: a command with a name and the number `atoi`
reads, a string parameter, a key and value, or anything else. `sent` and `taken` are the
lines that a client sent and that its worker has worked off; `moved` counts half lines,
so that a read may end within a line. `msg` is the message under construction, `held[c]`
counts the pool objects and line buffers that are in use for client `c`: no object is shared by two
clients' messages, so that each client balances for itself. `log` is the history of what came of the
requests, from which the counters are computed; `SumOver` adds a counter up over clients.

    client_event_read:  BeginRead, then for each complete line RejectLine, TakeLine or
                        CompleteLine (with LoadServerOk and StoreServerOk if the command
                        fails), and EndRead
    client_event_error: Release

`CompleteLine` contains the command and its reply. `GET` without a parameter ends the
process (`alive`). The width of numbers matters in one place, the count of parameters,
which is compared as a `uint32_t` and kept as a `uint16_t`: `UIntMod` and `ParamMod` are
those widths. In `Session` a reply is as good as sent, since the handler ignores what `write` says,
and the objects that it borrows are returned in the same call; `Replies` opens that call up.

`RequestLog` is the protocol written down independently, request by request on the whole
sequence of lines: a request at a line has no answer yet (`Unanswered`), or it has one (`Answer`) and
the next begins at the line `Following`. `RequestsAsSent` compares this with what the handlers did line
by line.

### Replies

`Replies` takes the actions of `Session` and lets the worker go on only when the reply that a step
began is over. `Handle` is a step of the read handler that builds the reply (`Build` runs the same
`Decoded` and `Allocated` as requests do, since both are made by `msg_set_cmd` and
`msg_add_param`), `WriteLine` is one `write` of `resp_msg`, `FinishReply` is `msg_free`:

    resp_error, resp_node, resp_pong:  Handle, WriteLine for each line, FinishReply

A line is two halves, so that `write` can take a part of it. `room[c]` is what fits into the
client's socket; `Receive` is a client that reads, `Reset` one that breaks the connection. `stream`
is the history of what the kernel took. A `write` that takes nothing is a failure and ends the
reply; one that takes half a line passes for a whole one, and the next line follows
(`response.c:24`): a reply with a torn line is what `NoHoles` allows, since the code does that.
`RepliesArrive` says that a client whose socket took every write got exactly the replies to its
requests: `AllHalves` are the half lines of the replies to a log of outcomes, and the stream holds
these, in order and no other. When the process has crashed nobody writes (`alive`). `WidthAssumption`
says that the one or two parameters of a reply fit the counter of `msg_set_cmd`. `SIGPIPE` has a handler (`krouter.c:64`), so it ends nothing.

### Ketama

`AddServer`, `CreateContinuum`, `NextNode` and `AddPoint` for each node's points,
`FinishContinuum`; then `BeginSearch`, and for each turn of the loop `Wrap`, `Hit` or
`Narrow`. Points are any values, since MD5 is any function. The final `qsort` is modelled by
inserting each point in its place at once; nobody reads the ring before it is complete, and
equal points end up in any order. `Hashes` is the rounded share of a node: what `floorf` leaves of
the exact share after single precision has rounded it down or up, by less than one part in
`Precision`. That may be one less than the exact floor or one more. The model says "may"; compiled
with gcc the expression of `ketama.c:204` gives 62 hashes, not 63, for weight 21 of 40 with three
nodes, 39, not 40, for 61 nodes of the same weight, and 41, not 40, for weight 341667 of 1000001
with three nodes. `PrecisionAssumption` keeps the points of a ring below `Precision`, about 2^21:
13,000 nodes. The weights need no bound.

### Pool

`first`, `first_eshell`, `next` and `obj` are the pointers of `pabuf.c`; a list exists only
through them. Objects and shells are addresses, `objectHeap` and `shellHeap` what calloc has
handed out. `owned[t]` is what thread `t` has got and not given back.

    pabuf_get:   GetNew, Calloc   or   GetFirst, Pop (with BackEshell)
    pabuf_back:  BackSurplus, Free   or   BackShell (with TakeEshell), Push

The first action of each takes the lock and the last gives it back, but `Calloc` and `Free`
come after the unlock, as in the code: the counters run ahead of the heap. A critical section
is cut in two, where a thread holds what it read from the pool: `shell[t]` and `object[t]`.

`locked` says that the pool has a lock, `users` which threads use it: `Init` takes all pools, with
any of the `Limits`, and `Spec` is what any of them does. The build sets `PABUF_NOLOCK`
(`Makefile.am:4`), and the program then has two kinds of pools: those of the workers, each with one
user, and those of the server, which all workers and the accept thread use (`command.c:73`,
`server.c:156`). `SerialSpec` is the pools that have a lock or one user. What `pabuf.c` promises holds of
these; of the server's pools it does not, and the run `shared_pool` shows two threads
with one object. Without a lock threads come between any two accesses, of which the two steps of a
critical section are some: what goes wrong in the model goes wrong in the program, and more does.

`remain_count` and `eshell_count` wrap as a `uint32_t` does (`More`, `Less`, `CountMod`), since an
unlocked pool can count below zero; `count` and `shell_memory` are read by nothing.

`ObjectStore` is the promise: an object that a thread gets belongs to nobody else, and at most
the pool's limit are kept. `SerialSpec` implements it. A thread owns an object until `Push` or `Free` completes.

### Countque

The list is a sequence. `pc` says whether a call is in `cq_adjust`:

    cq_tic, cq_tic_time:  Tic, at any time of the clock, then Expire for each tick taken off, Return
    cq_count:             Count, then the same
    cq_free and cq_init:  Renew

`calls` is a history of the calls, from which `SurvivorsCounted` computes the count in one go, without
a list.

### Startup

`pc` is where `main` is, `end` how the process ended. A configuration file is what GLib makes of
it: readable or not, well-formed or not, its groups, and for each key a number (0 for a text that is
none), a word, or nothing.

    main:            Usage, TakeOption for each option, then LoadFails or Load
    setting_load:    LacksGroup, LacksPort or SetDefaults; then SetLevel
    server_init:     NoWorkerBase, BuildFails or Build
    threads:         Create or NotCreated for each worker, Sleep, and the same for the server
    pause:           Signal, Return
    created threads: WorkerStarts; ServerStarts, CannotListen or NoServerBase; GiveTo,
                     GiveToNobody

`getopt` moves options before other arguments, and `main` then takes `argv[1]` for the name of the
file: `Permuted`, which is the one order with the options first and everything else as it was, and
`conf_file`. `-t` therefore never has an effect: a router that was given an
option does not serve (`ServesAsConfigured`). With `MayFail` threads may not be created and event bases
not be had; a process that goes down for that ends with "no resources", to tell it from a crash that
the file brings about. `GiveTo` is the accept handler of `Connections` as far as
it matters here: any worker of `worker_list` may be the least loaded.

## What the runs check

All properties are stated with a comment in the modules; here is what each run asks.

| run | instance | properties | states |
|---|---|---|---|
| `accept` | 4 connections, limit 3, 2 workers, symmetric | `TypeOK`, `ConnLimit`, `NoSpuriousRefusal`, `LeastLoaded`, `CountExact`, `AdmissionSafe` | 134,262 |
| `accept_live` | 4 connections, limit 3, 1 worker, fair | `Answered`, `Released` | 34,876 |
| `requests` | 2 clients with a worker each, 8 kinds of line, 4 lines in all, symmetric | `TypeOK`, `MessageWaits`, `RequestsAsSent`, `PoolBalance`, `CountersTell`, `ServerOkBounds` | 2,176,792 |
| `replies` | 1 client, 4 kinds of line, 2 lines, room for 3 halves | `RepliesTypeOK`, `RepliesArrive`, `NoHoles`, `BorrowedReturned`, `LinesWorkedOff` | 22,156 |
| `ring` | up to 3 nodes of weight 1 or 3, 6 points of 4 values | `TypeOK`, `RingFits`, `LookupRight`, `LookupEnds` | 650,307 |
| `pool` | 1 to 3 threads with a lock or 1 without, limits 3 and 1 or 2 and 2, 5 objects, symmetric | `TypeOK`, `ListsSound`, `Accounting`, `ShellsBounded`, `ShellsKept`, `StoreSafe` | 2,221 |
| `window` | 5 calls at 10 times, periods of 2, window of 2 | `TypeOK`, `SurvivorsCounted`, `WindowExact` | 235,885 |
| `startup` | 31 command lines, 93 files | `TypeOK`, `ServesAsConfigured`, `SoundFileServes`, `StartEnds` | 177,706 |
| `conn_max` | 1 connection | `PeakWithinLimit`, violated | |
| `shared_pool` | 2 threads, 3 objects, symmetric | `OneOwner`, violated | |
| `threads` | as `startup` | `AssertedThreads`, violated | |
| `err_level` | as `startup` | `LevelAsDocumented`, violated | |

Four runs end in a violation, and mean it:

* `conn_max`: `conn_cur_count` is decremented at `server.c:202` and incremented nowhere.
  After the first client left it is 2^64-1, and the next accept takes that for the peak,
  which the log calls `max`.
* `shared_pool`: every pool is declared with a lock (`pabuf.h:16`), but the build leaves it out of all
  of them (`Makefile.am:4`), the server's included. In the trace two threads read the
  first shell of the list and its object before either takes it off, and both use that object.
* `threads`: `assert(worker_id >= 0)` (`krouter.c:161`) is meant to stop a start whose thread was
  not created, but `pthread_create` fails with a positive number. The worker stays in the list,
  has the fewest clients, and its clients wait for ever.
* `err_level`: `setting.h:29` lists `err` as a log level. `setting_get_log_level` compares five
  characters with `ERROR` (`setting.c:187`), so that `err` means `warn`.

What passing runs show of the code as it is, and a reader may not expect: `CountersTell`
states that a command that fails is counted twice as a success of its client and never as
an error; `PoolBalance` that a rejected line is never freed; `ServerOkBounds` that the
server's counter may lose updates, but not all of them; `RequestsAsSent` that a `GET` with a
key and value gets no reply, and that 65536 announced parameters are none; `ServesAsConfigured` that
options and a file do not go together. Nothing in the repository says that the first, second and fourth of
these should be otherwise, so that no run refutes anything; `PROJECT.json` lists them among the hazards.

The models have, and no property objects to:

* The numbers that a command is registered with are never compared. `command.h:16` calls `param_min` the
  "number of mandatory parameters", and `GET` is registered with 1, but a line `+GET` runs `command_GET`
  without one, which reads through a null pointer (`command_func.c:9`): `Crashes`, after which no client is
  served. `command.h:17` calls `param_max` "parameter limitation"; `PING` is registered with 0, and
  `+PING 1` with a parameter gets its `PONG` all the same.
* `SoundFileServes` leaves out the files that make the start crash: one without the port, whose message
  (`setting.c:76`) prints an error that GLib has not set, and one that asks for fewer workers than one.

`SurvivorsCounted` says what the window counts when the clock goes back: ticks that a clock ahead of
its time has left keep those behind them. `ShellsKept` says that with limits like those the program
uses the branch that frees a shell is never taken.

### Bounds, and why they are enough

* `Conns`, `MaxConn`: one connection more than there are places is the least for a refusal;
  four connections for three places leave room for one client to be judged while one leaves
  from each worker. `WorkerCount` 2 gives the search one comparison, and every worker has
  the same code. Limits and numbers of any size are covered by the proofs.
* `accept_live`: one worker, so that a connection is placed where another is released and either thread
  finds the lock taken. Four connections on two workers have too many states (610,104) for
  checking liveness; the code that waits is the same for every worker.
* `CountMod` (2^64): in `accept` 2, enough to wrap; in `accept_live` 1, since nothing
  waits for that counter; in `conn_max` 4.
* `MaxLines` 4, the lines of all clients together: a command with its parameter, twice; a broken request
  followed by a whole one; up to four requests that fail, so that the workers meet at their shared
  counter.
  `ParamMod` 4 and `UIntMod` 16 stand for 2^16 and 2^32; the lines announce none, zero, one, a
  number that is zero in the narrow width, and a negative one that is two in it.
* `ring`: `Precision` 8 is just more than the points of a ring, so that shares are rounded either way.
* `pool`: limits of 3 objects and 1 shell, so that both are reached and shells are freed; two
  threads can be in different stages while the third waits. The bound is `Objects`. Four shells
  are one more than a correct pool ever has, and `CountMod` 8 is more than any count of theirs. With limits of 2 and 2 three objects lie beyond the limit.
* `replies`: two lines are two bad ones (replies of three lines), two requests, or a `GET` with its key.
  Three halves of room cut a reply in the middle of its first, second or third line, and what a client
  reads meanwhile lets the rest pass. One client: a worker answers one at a time, and the rest
  of a stream depends on that client's socket alone.
* `startup`: two arguments are the least for an option next to the name of the file. Two or three
  workers, so that one may fail and another not. The limit is none, 0 or 5 in the file. A signal is modelled once.
* `window`: five calls in five periods, twice the window and one more; two seconds of each period.
* `Share` 2 and `PerHash` 1 (40 and 4 in the code) with three nodes give six points, searched in
  up to four turns, and shares that are rounded; `PointMod` 4 makes collisions unavoidable.

### Deadlock and fairness

TLC checks for deadlock in the runs of `Connections`, `Ketama` and `Pool`, and in `window`. In
`Session` and `Replies` a client may stop sending and leave, and the process may crash, and in
`Startup` it ends: their runs say `CHECK_DEADLOCK FALSE`.

Fairness is what the operating system and libevent give, no more. A thread within a handler
goes on if it can (`WF` of `AcceptHandler`, `ReleaseHandler`, `Handler`, `SearchStep`).
Weak fairness is enough for the locks: a holder always releases, and only two threads compete
for one. The event loops return to every descriptor that is ready, and the listen queue is
first in first out, so `Accept(c)` and `BeginRead(w, c)` are strongly fair: they are disabled
while their thread is in another handler. Nothing makes a client connect, send, read or leave,
and nothing sends a signal. In `Startup`, `Main` and the created threads run (`WF`); the failure of
`pthread_create` is one of the ways in which `Main` goes on. No call need fail.

## What is proved

`tlapm` checks every proof of the eight proof modules; the theorems hold for every value of the
constants under the named assumptions of the modules, which TLC evaluates in the runs:

* finite sets: `ConnsAssumption`, and `FiniteAssumption` in `Session` (clients, workers) and in `Pool`
  (threads, objects, shells), since what is counted are members of these;
* numbers that the code could not do without: at least one worker, positive weights and widths, a
  share of more than the one hash that rounding takes away, a ring with fewer points than single
  precision counts (`PrecisionAssumption`), limits that fit a `uint32_t` (`CountModAssumption`,
  `LimitAssumption`), a period of at least a second (the code
  divides by it), room for a half line, and
  `WidthAssumption` (above);
* what the inputs look like: `LinesAssumption` (a command line has one number or none),
  `TextsAssumption` and `InvocationsAssumption` (the keys of a file, the arguments of a command line).

None bounds a number of clients, lines, calls or steps, but for `MaxLines`, `MaxServers`, `MaxCalls` and
`MaxTime`, which are any numbers. Every safety property that a passing run checks, invariants and
action properties, is stated by one of the theorems, and so are the two refinements.

`ConnectionsProofs`: `TypeCorrect`, `CountsExact`, `LimitHolds`, `RefusalsJustified`,
`PlacementBalanced` and `ConnectionsImplementAdmission`. None of the properties is inductive
by itself. The invariant `IInv` adds, in named parts:

* `Locks`: a worker's lock is held exactly between load and store, and what was loaded is
  still there; with `CountExact`, which needs it.
* `AcceptStages`, `ReleaseStages`: which program counter goes with which stage of which
  connection, so that no connection is counted or released twice.
* `HandlerView`: while the accept handler runs, connections only leave, so those counted now
  are among those of `before`.
* `SumBounds`: the sum so far is at least the clients that the workers read have now, and at
  most those they had in `before`. At the end of the loop the first gives `ConnLimit` (by
  `PlaceKept`: the place found free stays free, for there is one accept thread), the second
  `NoSpuriousRefusal`.
* `ScanBounds`: what the search read is an upper bound of what is there and a lower bound of
  what was there when the handler began, which gives `LeastLoaded`.

For the refinement, `InitMaps` and `NextMaps` show that each step is one of `Admission`'s or
leaves its variables alone, with `IInv` as context.

`SessionProofs`: `TypeCorrect`, `MessagesWait`, `ObjectsBalance`, `CountersRight` and
`SharedCounterBounded`. `IInv` adds to the properties:

* `ServingInv`: a worker in its handler serves one client, its own, which is open and has a message;
  between load and store of the shared counter that message is whole.
* `MessagesInv`: a message is empty or waits for parameters, unless its worker is at work on it (or
  was when the process crashed); a client that left has none. `MessageWaits` is what this says
  between two lines.
* `SharedInv`: what a worker loaded of `server_t.req_ok` and has not stored is less than the failures so
  far, by those that are still pending. A store of an old value can then lose updates, never invent
  any. `ServerOkBounds` alone is not inductive, because it says nothing of `sreg`.

`CountersTell` speaks of sums over clients and of how often an outcome occurs in a log; the lemmas
`SumZero`, `SumSame`, ... and `Occurrences` say how these change when one client or one entry is added.

`RequestsProofs`: `RequestsSeenAsSent`, which is `RequestsAsSent`. `RequestsInv` says of each client that
there are lines `b[1]`, `b[2]`, ... at which its requests begin:

* `Cut`: each entry of the log is the `Answer` of the request at its line, and the next one begins at
  the line that is `Following`; the request at the last of these lines is `Unanswered`.
* `MadeOf`: while the worker goes on with the client, the message is what the lines from there on
  say: nothing, if there are none, or the command and the parameters that came so far.

`RequestGrows` is what one line more does to the request it belongs to, in each of the ways the handler
has; `AnswerStays` says that what has an answer keeps it. From `Cut` the log is `RequestLog` of
the lines: `ResultExists` shows that its recursive function exists, and `CutIsLog` that its value is
the log, both from the last line backwards. What is an induction is stated as the least element
of a set of counterexamples (`Least`), which needs no schema with an operator as its parameter.

`RepliesProofs`: `RepliesTypeCorrect`, `RepliesReturnObjects`, `RepliesWithoutHoles` and `RepliesWhole`.
Each step of `Replies` is one of `Session` or leaves its variables alone (`SessionStep`), so that `IInv`
holds here, too. `RInv` adds `AnswersInv`, a reply belongs to the last request of the client that is
served and has as many lines as it must, and `StreamsInv`: `Sound` says of each stream, for the line at
which its reply is, that it is in order, follows `Follows`, ends just before that line, and is
complete up to it if no write was short. `RepliesArrive` and `NoHoles` are `Sound` when no reply is
under way.

`KetamaProofs`: `TypeCorrect`, `LookupsFindOwner`, `RingWithinMemory` and `RingNotEmpty`. `RingInv` says
that there is always a node of average weight or more (`HeavyKept`), which has at least one hash whatever
rounding does, so that a ring that is ready has a point. `RoomInv` says that there is a running sum of the
weights, and that the points so far times the sum of all weights are at most the share of
the nodes worked off (`NodeShare`); at the end that is the whole ring (`WholeShare`). A share that is rounded up is still below
the exact one and a part of it that `Precision` makes too small for a whole point (`RoundedShare`). `SearchInv` is the
loop invariant: all points before `lowp` are before the key, and those behind `highp` are not.

`PoolProofs`: `TypeCorrect`, `ListsStaySound`, `AccountsBalance`, `ShellsWithinLimit`, the action property
`NoShellFreed`, and `PoolImplementsStore`, all of `SerialSpec`: of `Spec` the last is false, as
`shared_pool` shows. `ListsSound` says that there are two lists that the pointers
spell out; each step lemma names the lists after the step, a rest of the old one (`ListRest`) or
one with a shell in front (`ListLonger`), or the same (`ListKept`). `IInv` adds:

* `Serialized`: only one thread is between lock and unlock, because there is a lock or only one thread.
  All else rests on this, and it is what the build takes from the server's own pools. The
  counts then stay within their limits, so that they never wrap (`CountsInWidth`, `RoomToPush`).
* `Hands`: what a thread read before it went on is still so: the first shell, the object that it gives back.
* `Owners`: no object is with two threads or in two shells, or in a shell and with a thread,
  except while `pabuf_back` moves it.
* `ShellsCounted`, `SpareCounted`: each shell is counted in one place, and `remain_count` is the number of
  objects in the list. From these `ShellsBounded` and the limit that `ObjectStore` promises.

For the refinement, each step is one of `ObjectStore`'s or leaves `owned` and the spare objects alone.

`StartupProofs`: `TypeCorrect`, `SoundFilesServe` and `ServesItsFile`, for any set of command lines and
files. `IInv` follows `main`: `OptionsSeen` (options stand first, so that one that was
worked off shows in `argv[1]`, no start with one gets past `setting_load`, and `-t` is never used),
`SettingsLoaded` (the settings are the file's, then with the defaults, and the level comes from
them), `ThreadsBuilt` (the server has as many workers as the settings say, and connections come only when
`main` pauses). Of a router that serves `AsConfigured` then says that its workers and limit
are those that its file asks for, or their defaults, and its level the one of that word, if `main` knows it:
`err`, which it does not know, is the run `err_level`.

`CountqueProofs`: `TypeCorrect`, `SurvivorsAreCounted` and `WindowIsExact`. Neither of the last two
speaks of the ticks one by one, or is inductive. `IInv` says that the ticks cut the calls into stretches, one
behind the other (`TicksInv`, with the ends `c`):

* `Divided`: each tick counts the events of its stretch, which begins with one and has only events of the
  tick's period, and `count` is that of all stretches.
* `Gone`: each event before the first stretch had expired at some call since.
* `Kept`: a tick that had expired at some call and is still there has one before it that had
  not. While `cq_adjust` runs that one may just have been taken off, and the tick is next.
* `TicksDiffer`: two ticks in a row are of different periods, so that with a steady clock their periods
  grow, and no more than `tic_max_cnt` fit into the window.
* `CallInv`: `base_time` is the period of the last call.

Only model-checked:

* `Answered`, `Released`, `LinesWorkedOff`, `LookupEnds`, `StartEnds`: liveness is not for this prover.

## Not modelled

* `md5.c`, the contents of strings, logging and texts: no property is about them.
* libevent: its dispatching is the order of the handlers' actions, its functions are atomic.
  The program uses a base from two threads with libevent's locking switched off
  (`krouter.c:98`); what may happen inside libevent then is not in the repository.
* The error reply to a refused connection (`server.c:156`) is part of `Refuse` in
  `Connections` and sent with the server's pools, see `Pool`.
* `client_free` (`client.c:19`) leaves the `client_t` and its bufferevent behind. Nothing
  refers to them any more; a property would only say that nothing frees them.
* A signal that comes before `pause`, or to another thread, changes nothing: that is in
  `Startup` as the absence of a step, and no property is about it.
* The widths of `count` and `shell_memory` in `pabuf.c` and of the counters of `countque.c`, and a calloc
  that fails: the code checks neither. Of an unlocked pool that is shared, threads that come between two
  accesses of one step: `shared_pool` needs no more than whole steps.

## Plan

Done: `Admission`, `Connections`, `Session`, `Replies`, `Ketama`, `Pool`, which refines `ObjectStore`,
`Countque`, `Startup`, and proofs about all of them. A next step would be a pool that is shared with
the replies of `Session`: today `Replies` counts the objects that `Pool` hands out one by one.
