------------------------------- MODULE Startup -------------------------------
(***************************************************************************)
(* From the command line to a router that serves, and to the end of the    *)
(* process: main (krouter.c), the settings it reads (setting.c), the log   *)
(* level it derives from them, and the threads it creates.                 *)
(*                                                                         *)
(* An argument is "-h", "-v", "-t" (with a number of its own), "-x" (an    *)
(* option that does not exist) or the name of the configuration file.      *)
(* Numbers in the file are what GLib reads, 0 for what is no number.       *)
(***************************************************************************)
EXTENDS Integers, Sequences

CONSTANTS Invocations,  \* command lines: sequences of arguments
          Texts,        \* what the configuration file may be, [readable, parses, groups, keys]
          Counts,       \* numbers that -t may give
          Server,       \* the thread that listens; workers are numbered
          Absent,       \* what a key has that is not in the file
          MayFail       \* pthread_create and event_base_new may fail, for want of resources

Options == {"-h", "-v", "-t", "-x"}
Keys == {"port", "number-of-workers", "max-connections", "log-level"}
Words == {"debug", "info", "warn", "err", "error", "other"}

ASSUME TextsAssumption ==
  \A t \in Texts : /\ DOMAIN t = {"readable", "parses", "groups", "keys"}
                   /\ DOMAIN t.keys = Keys
                   /\ \A k \in Keys \ {"log-level"} : t.keys[k] \in Int \cup {Absent}
                   /\ t.keys["log-level"] \in Words \cup {Absent}
ASSUME InvocationsAssumption ==
  \A args \in Invocations : Len(args) \in Nat /\ DOMAIN args = 1 .. Len(args)
ASSUME NumberAssumption == Counts \subseteq Int /\ MayFail \in BOOLEAN
ASSUME ServerAssumption == Server \notin Int
ASSUME AbsentAssumption == Absent \notin Int /\ Absent \notin Words

VARIABLES
  argv,          \* the arguments, which getopt puts in another order
  optind,        \* options that getopt has worked off
  wt,            \* the number that -t gave, or 0
  text,          \* the file on disk
  ini,           \* the settings: keys with their values
  level,         \* the log level
  pc,            \* what main does next
  end,           \* how the process ended, or "not"
  worker_count,  \* server_t.worker_count
  i,             \* i of main's loop
  created,       \* workers and "server": the threads that were created
  running,       \* those of them that are in their event loops
  given,         \* workers that were given a connection
  interrupted    \* history: a signal came while main was in pause

confVars == <<argv, text, ini>>
threadVars == <<created, running, given>>
vars == <<confVars, optind, wt, level, pc, end, worker_count, i, threadVars, interrupted>>

DEBUG == 1
INFO  == 2
WARN  == 3
ERR   == 4

IsOption(a) == a \in Options

\* getopt moves the options to the front and leaves the order otherwise: the one member of
\* this set.
Permuted(args) ==
  LET Sorted(p) ==
        \A m, n \in DOMAIN args : m < n =>
          \/ IsOption(args[p[m]]) /\ ~ IsOption(args[p[n]])
          \/ (IsOption(args[p[m]]) <=> IsOption(args[p[n]])) /\ p[m] < p[n]
  IN  {[n \in DOMAIN args |-> args[p[n]]] :
         p \in {q \in [DOMAIN args -> DOMAIN args] : Sorted(q)}}

Init ==
  /\ \E args \in Invocations : argv \in Permuted(args)
  /\ text \in Texts
  /\ ini = [k \in Keys |-> Absent]
  /\ optind = 0 /\ wt = 0
  /\ level = DEBUG
  /\ pc = "options"
  /\ end = "not"
  /\ worker_count = 0 /\ i = 0
  /\ created = {} /\ running = {} /\ given = {}
  /\ interrupted = FALSE

\* Main at stage p of a process that runs.
At(p) == end = "not" /\ pc = p

End(how) ==
  /\ end' = how
  /\ UNCHANGED <<confVars, optind, wt, level, pc, worker_count, i, threadVars, interrupted>>

-----------------------------------------------------------------------------
(* main: the command line *)

OptionLeft == optind < Len(argv) /\ IsOption(argv[optind + 1])

\* print_help, print_version
Usage ==
  /\ At("options")
  /\ \/ argv = <<>>
     \/ OptionLeft /\ argv[optind + 1] \in {"-h", "-v"}
  /\ End("exit 0")

\* -t, or an option that getopt complains of.
TakeOption ==
  /\ At("options")
  /\ OptionLeft
  /\ argv[optind + 1] \in {"-t", "-x"}
  /\ IF argv[optind + 1] = "-t" THEN wt' \in Counts ELSE UNCHANGED wt
  /\ optind' = optind + 1
  /\ UNCHANGED <<confVars, level, pc, end, worker_count, i, threadVars, interrupted>>

\* Mutant of conf_file: what getopt has left, if anything.
conf_file_left == Append(argv, "-x")[optind + 1]

\* argv[1], whatever that is after getopt.
conf_file == argv[1]

-----------------------------------------------------------------------------
(* setting_load *)

\* No file is called like an option.
Loads == ~ IsOption(conf_file) /\ text.readable /\ text.parses

LoadFails ==
  /\ At("options")
  /\ argv # <<>> /\ ~ OptionLeft
  /\ ~ Loads
  /\ End("exit 1")

Load ==
  /\ At("options")
  /\ argv # <<>> /\ ~ OptionLeft
  /\ Loads
  /\ ini' = text.keys
  /\ pc' = "mandatory"
  /\ UNCHANGED <<argv, text, optind, wt, level, end, worker_count, i, threadVars, interrupted>>

\* Mutant of Default: no number where a number is needed.
DefaultNone(k) == IF k = "log-level" THEN "warn" ELSE 0

Default(k) ==
  IF k = "number-of-workers" THEN 4
  ELSE IF k = "max-connections" THEN 10000
  ELSE IF k = "log-level" THEN "warn"
  ELSE Absent

\* setting_check_mandatory: a group is missing.
LacksGroup ==
  /\ At("mandatory")
  /\ text.groups # {"global", "cluster"}
  /\ End("exit -1")

\* The port is missing.  GLib says so by its result alone and leaves err NULL, which the
\* message dereferences.
LacksPort ==
  /\ At("mandatory")
  /\ text.groups = {"global", "cluster"}
  /\ ini["port"] = Absent
  /\ End("crash")

SetDefaults ==
  /\ At("mandatory")
  /\ text.groups = {"global", "cluster"}
  /\ ini["port"] # Absent
  /\ ini' = [k \in Keys |-> IF ini[k] = Absent THEN Default(k) ELSE ini[k]]
  /\ pc' = "level"
  /\ UNCHANGED <<argv, text, optind, wt, level, end, worker_count, i, threadVars, interrupted>>

\* Mutant of setting_get_log_level: the default is to say nothing.
setting_get_log_level_silent ==
  IF ini["log-level"] = "debug" THEN DEBUG ELSE ERR + 1

\* Compared on as many characters as the long name has: "err" is none of them.
setting_get_log_level ==
  IF ini["log-level"] = "debug" THEN DEBUG
  ELSE IF ini["log-level"] = "info" THEN INFO
  ELSE IF ini["log-level"] = "error" THEN ERR
  ELSE WARN

SetLevel ==
  /\ At("level")
  /\ level' = setting_get_log_level
  /\ pc' = "build"
  /\ UNCHANGED <<confVars, optind, wt, end, worker_count, i, threadVars, interrupted>>

-----------------------------------------------------------------------------
(* server_init, and the threads *)

Workers == IF wt # 0 THEN wt ELSE ini["number-of-workers"]

\* worker_init: the system has no event base for a worker, and event_base_new returns NULL,
\* to which event_base_add_virtual adds.  What a call through such a pointer does is a crash.
NoWorkerBase ==
  /\ MayFail
  /\ At("build")
  /\ Workers > 0
  /\ End("no resources")

\* A negative number is a huge size_t: calloc fails, and the first worker is written
\* through NULL.
BuildFails ==
  /\ At("build")
  /\ Workers < 0
  /\ End("crash")

Build ==
  /\ At("build")
  /\ Workers >= 0
  /\ worker_count' = Workers
  /\ pc' = "create"
  /\ UNCHANGED <<confVars, optind, wt, level, end, i, threadVars, interrupted>>

\* The next thread that main creates: a worker, then after sleep(1), which a signal cuts
\* short, the server.
Creating(t) ==
  /\ end = "not"
  /\ \/ pc = "create" /\ i < worker_count /\ t = i
     \/ pc = "server" /\ t = Server

\* Mutant of Step: the loop does not go on.
StepStays(t) == UNCHANGED <<i, pc>>

Step(t) == IF t = Server THEN pc' = "pause" /\ UNCHANGED i
                           ELSE i' = i + 1 /\ UNCHANGED pc

Create(t) ==
  /\ Creating(t)
  /\ created' = created \cup {t}
  /\ Step(t)
  /\ UNCHANGED <<confVars, optind, wt, level, end, worker_count, running, given, interrupted>>

\* pthread_create fails with a positive number, which the assertion lets pass.  What
\* pthread_detach makes of a pthread_t that was never set is undefined: nothing, ...
NotCreated(t) ==
  /\ MayFail
  /\ Creating(t)
  /\ Step(t)
  /\ UNCHANGED <<confVars, optind, wt, level, end, worker_count, threadVars, interrupted>>

\* ... or a crash.
NotCreatedFatal(t) ==
  /\ MayFail
  /\ Creating(t)
  /\ End("no resources")

Sleep ==
  /\ At("create")
  /\ i = worker_count
  /\ pc' = "server"
  /\ UNCHANGED <<confVars, optind, wt, level, end, worker_count, i, threadVars, interrupted>>

\* A handled signal ends pause, and main returns; it changes nothing at any other time or
\* in any other thread.
Signal ==
  /\ At("pause")
  /\ ~ interrupted
  /\ interrupted' = TRUE
  /\ UNCHANGED <<confVars, optind, wt, level, pc, end, worker_count, i, threadVars>>

Return ==
  /\ At("pause")
  /\ interrupted
  /\ End("exit 0")

-----------------------------------------------------------------------------
(* The threads *)

\* worker_start
WorkerStarts(w) ==
  /\ end = "not"
  /\ w \in created \ (running \cup {Server})
  /\ running' = running \cup {w}
  /\ UNCHANGED <<confVars, optind, wt, level, pc, end, worker_count, i, created, given, interrupted>>

\* server_start: the listener is bound, ...
ServerStarts ==
  /\ end = "not"
  /\ Server \in created \ running
  /\ running' = running \cup {Server}
  /\ UNCHANGED <<confVars, optind, wt, level, pc, end, worker_count, i, created, given, interrupted>>

\* ... or the port is taken.
CannotListen ==
  /\ end = "not"
  /\ Server \in created \ running
  /\ End("exit -1")

\* Or the server has no event base, which nobody uses before: event_base_dispatch and the
\* listener go through NULL.
NoServerBase ==
  /\ MayFail
  /\ end = "not"
  /\ Server \in created \ running
  /\ End("no resources")

\* A connection comes to a server that admits any: to some worker, and if there is none,
\* through what stands behind an empty array.
GiveTo(w) ==
  /\ end = "not"
  /\ Server \in running
  /\ ini["max-connections"] # 0
  /\ w \in 0 .. (worker_count - 1)
  /\ given' = given \cup {w}
  /\ UNCHANGED <<confVars, optind, wt, level, pc, end, worker_count, i, created, running, interrupted>>

GiveToNobody ==
  /\ end = "not"
  /\ Server \in running
  /\ ini["max-connections"] # 0
  /\ worker_count = 0
  /\ End("crash")

-----------------------------------------------------------------------------
Ids == 0 .. (worker_count - 1)

Main ==
  \/ Usage \/ TakeOption
  \/ LoadFails \/ Load
  \/ LacksGroup \/ LacksPort \/ SetDefaults \/ SetLevel
  \/ BuildFails \/ Build
  \/ \E t \in Ids \cup {Server} : Create(t) \/ NotCreated(t)
  \/ Sleep
  \/ Return

Starting == ServerStarts \/ CannotListen \/ \E w \in Ids : WorkerStarts(w)

Next ==
  \/ Main
  \/ NoWorkerBase \/ NoServerBase
  \/ \E t \in Ids \cup {Server} : NotCreatedFatal(t)
  \/ Starting
  \/ Signal
  \/ \E w \in Ids : GiveTo(w)
  \/ GiveToNobody

\* Main and the new threads are run; nobody need send a signal or connect, and no call need
\* fail or, where it is undefined, crash.
Fairness ==
  /\ WF_vars(Main)
  /\ WF_vars(ServerStarts \/ CannotListen)
  /\ WF_vars(\E w \in Ids : WorkerStarts(w))

Spec == Init /\ [][Next]_vars /\ Fairness
-----------------------------------------------------------------------------
(* Properties. *)

TypeOK ==
  /\ \E args \in Invocations : argv \in Permuted(args)
  /\ text \in Texts
  /\ \A k \in Keys \ {"log-level"} : ini[k] \in Int \cup {Absent}
  /\ ini["log-level"] \in Words \cup {Absent}
  /\ optind \in Nat
  /\ wt \in Counts \cup {0}
  /\ level \in {DEBUG, INFO, WARN, ERR}
  /\ pc \in {"options", "mandatory", "level", "build", "create", "server", "pause"}
  /\ end \in {"not", "exit 0", "exit 1", "exit -1", "crash", "no resources"}
  /\ worker_count \in Nat
  /\ i \in 0 .. worker_count
  /\ running \subseteq created /\ created \subseteq Ids \cup {Server}
  /\ given \subseteq Ids
  /\ interrupted \in BOOLEAN

NoOptions == \A n \in DOMAIN argv : ~ IsOption(argv[n])

\* What the file asks for, if need be by the default that setting.h:22-29 names.
Asked(k, default) == IF text.keys[k] = Absent THEN default ELSE text.keys[k]

\* The number of workers and the limit are those of the file, and so is the log level if it
\* is one that the program knows by that name; a word that is none means the default.
AsTheFileSays ==
  /\ worker_count = Asked("number-of-workers", 4)
  /\ ini["max-connections"] = Asked("max-connections", 10000)
  /\ LET word == Asked("log-level", "warn") IN
     /\ word = "debug" => level = DEBUG
     /\ word = "info"  => level = INFO
     /\ word = "warn"  => level = WARN
     /\ word = "error" => level = ERR
     /\ word = "other" => level = WARN

\* A router that serves was given its file and nothing else, and has the workers, the limit
\* and the log level that it asks for: an option, -t for the number of workers included,
\* comes to stand where the name of the file is looked for (krouter.c:129), so no router
\* that serves has seen one.
ServesAsConfigured == given # {} => NoOptions /\ AsTheFileSays

\* A router that serves logs from the level on that its file names, for each of the four
\* names that setting.h:29 lists.
LevelAsDocumented ==
  given # {} =>
    LET word == text.keys["log-level"] IN
    /\ word = "debug" => level = DEBUG
    /\ word = "info"  => level = INFO
    /\ word = "warn"  => level = WARN
    /\ word = "err"   => level = ERR

\* A file that has the port and does not ask for fewer than one worker is enough: defaults
\* and connections do the rest without a crash, as long as the system has a thread and an
\* event base for each of them (setting.c:82, server.c:31, server.c:80).
SoundFileServes ==
  /\ text.keys["port"] # Absent
  /\ text.keys["number-of-workers"] = Absent \/ text.keys["number-of-workers"] > 0
  => end # "crash"

\* The start ends: the process is over, or main pauses and all threads that could be created
\* are at work (krouter.c:157-171).
StartEnds == <>(end # "not" \/ (pc = "pause" /\ created \subseteq running))

\* Every worker that is given a connection has a thread, as the assertion of krouter.c:161
\* takes for granted.
AssertedThreads == given \subseteq created
=============================================================================
