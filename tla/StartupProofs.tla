---------------------------- MODULE StartupProofs ----------------------------
(***************************************************************************)
(* Proofs about module Startup: for every set of command lines and of      *)
(* configuration files, a router that serves has the workers, the limit    *)
(* and the log level of its file, and a sound file does not crash the      *)
(* start.                                                                  *)
(***************************************************************************)
EXTENDS Startup, TLAPS

\* Names for parts of actions; the proofs see through them.
USE DEF At, Step, Ids, confVars, threadVars

USE TextsAssumption, NumberAssumption, ServerAssumption, AbsentAssumption

\* The stages of main, and the stages after p.
Later == {"level", "build", "create", "server", "pause"}
Built == {"create", "server", "pause"}

\* An option that was worked off stands first, where the name of the file should be.
OptionsSeen ==
  /\ optind > 0 => IsOption(argv[1])
  /\ wt # 0 => optind > 0
  /\ pc # "options" => ~ IsOption(argv[1])

\* The settings are those of the file, and then with the defaults.
SettingsLoaded ==
  /\ pc = "mandatory" => ini = text.keys
  /\ pc \in Later => /\ text.keys["port"] # Absent
                     /\ ini = [k \in Keys |-> IF text.keys[k] = Absent THEN Default(k)
                                                                      ELSE text.keys[k]]
  /\ pc \in Later \ {"level"} => level = setting_get_log_level

\* Threads are created when the server is built, which takes its size from the settings.
ThreadsBuilt ==
  /\ pc \in Built => worker_count = ini["number-of-workers"]
  /\ pc \notin Built => created = {} /\ i = 0
  /\ Server \in created => pc = "pause"
  /\ given # {} => Server \in running

IInv == TypeOK /\ OptionsSeen /\ SettingsLoaded /\ ThreadsBuilt /\ SoundFileServes

-----------------------------------------------------------------------------
(* Lemmas. *)

\* With the defaults every key but the port has a value, whatever the file.
LEMMA Defaults ==
  ASSUME NEW t \in Texts,
         NEW s, s = [k \in Keys |-> IF t.keys[k] = Absent THEN Default(k) ELSE t.keys[k]]
  PROVE  /\ \A k \in Keys \ {"log-level"} : s[k] \in Int \cup {Absent}
         /\ s["log-level"] \in Words
         /\ s["number-of-workers"] \in Int
         /\ t.keys["number-of-workers"] = Absent => s["number-of-workers"] = 4
         /\ t.keys["number-of-workers"] # Absent =>
              s["number-of-workers"] = t.keys["number-of-workers"]
         /\ t.keys["max-connections"] = Absent => s["max-connections"] = 10000
         /\ t.keys["max-connections"] # Absent => s["max-connections"] = t.keys["max-connections"]
  BY DEF Default, Keys, Words

\* The settings once the defaults are in.
LEMMA Settings ==
  ASSUME TypeOK, SettingsLoaded, pc \in Later
  PROVE  /\ ini["log-level"] \in Words
         /\ ini["number-of-workers"] \in Int
         /\ ini["number-of-workers"] = Asked("number-of-workers", 4)
         /\ ini["max-connections"] = Asked("max-connections", 10000)
         /\ ini["log-level"] = Asked("log-level", "warn")
  <1>1. text \in Texts
    BY DEF TypeOK
  <1>2. ini = [k \in Keys |-> IF text.keys[k] = Absent THEN Default(k) ELSE text.keys[k]]
    BY DEF SettingsLoaded
  <1>3. "log-level" \in Keys /\ Default("log-level") = "warn"
    BY DEF Keys, Default
  <1> QED
    BY <1>1, <1>2, <1>3, Defaults DEF Asked

-----------------------------------------------------------------------------
(* The parts of the invariant that the properties need. *)

LEMMA InvariantInit == Init => IInv
  <1> SUFFICES ASSUME Init PROVE IInv
    OBVIOUS
  <1>1. TypeOK
    <2>1. \A k \in Keys : ini[k] = Absent
      BY DEF Init
    <2>2. "log-level" \in Keys /\ level \in {DEBUG, INFO, WARN, ERR}
      BY DEF Init, Keys
    <2>3. /\ \E args \in Invocations : argv \in Permuted(args)
          /\ text \in Texts
      BY DEF Init
    <2>4. optind \in Nat /\ wt \in Counts \cup {0} /\ worker_count \in Nat /\ i \in 0 .. worker_count
      BY DEF Init
    <2> QED
      BY <2>1, <2>2, <2>3, <2>4 DEF Init, TypeOK
  <1>2. OptionsSeen /\ SettingsLoaded /\ ThreadsBuilt /\ SoundFileServes
    BY DEF Init, OptionsSeen, SettingsLoaded, ThreadsBuilt, SoundFileServes, Later, Built
  <1> QED
    BY <1>1, <1>2 DEF IInv

\* A step of main before the server is built.
Early == Usage \/ TakeOption \/ LoadFails \/ Load \/ LacksGroup \/ LacksPort \/ SetDefaults
         \/ SetLevel

LEMMA EarlyStep == IInv /\ Early => IInv'
  <1> SUFFICES ASSUME IInv, Early PROVE IInv'
    OBVIOUS
  <1> USE DEF IInv
  <1>1. CASE Usage
    BY <1>1 DEF Usage, End, TypeOK, OptionsSeen, SettingsLoaded, ThreadsBuilt, SoundFileServes,
                Later, Built, setting_get_log_level
  <1>2. CASE TakeOption
    <2>1. TypeOK'
      BY <1>2 DEF TakeOption, TypeOK
    <2>2. OptionsSeen'
      BY <1>2 DEF TakeOption, OptionLeft, OptionsSeen, TypeOK
    <2>3. SettingsLoaded' /\ ThreadsBuilt' /\ SoundFileServes'
      BY <1>2 DEF TakeOption, SettingsLoaded, ThreadsBuilt, SoundFileServes, Later, Built,
                  setting_get_log_level
    <2> QED
      BY <2>1, <2>2, <2>3
  <1>3. CASE LoadFails
    BY <1>3 DEF LoadFails, End, TypeOK, OptionsSeen, SettingsLoaded, ThreadsBuilt, SoundFileServes,
                Later, Built, setting_get_log_level
  <1>4. CASE Load
    <2>1. TypeOK'
      BY <1>4 DEF Load, TypeOK, Keys
    <2>2. OptionsSeen'
      BY <1>4 DEF Load, Loads, conf_file, OptionsSeen
    <2>3. SettingsLoaded' /\ ThreadsBuilt' /\ SoundFileServes'
      BY <1>4 DEF Load, SettingsLoaded, ThreadsBuilt, SoundFileServes, Later, Built, TypeOK
    <2> QED
      BY <2>1, <2>2, <2>3
  <1>5. CASE LacksGroup
    BY <1>5 DEF LacksGroup, End, TypeOK, OptionsSeen, SettingsLoaded, ThreadsBuilt, SoundFileServes,
                Later, Built, setting_get_log_level
  <1>6. CASE LacksPort
    BY <1>6 DEF LacksPort, End, TypeOK, OptionsSeen, SettingsLoaded, ThreadsBuilt, SoundFileServes,
                Later, Built, setting_get_log_level
  <1>7. CASE SetDefaults
    <2>1. ini = text.keys /\ text \in Texts
      BY <1>7 DEF SetDefaults, SettingsLoaded, TypeOK
    <2>2. TypeOK'
      BY <1>7, <2>1, Defaults DEF SetDefaults, TypeOK
    <2>3. OptionsSeen' /\ ThreadsBuilt' /\ SoundFileServes'
      BY <1>7 DEF SetDefaults, OptionsSeen, ThreadsBuilt, SoundFileServes, Built, TypeOK
    <2>4. SettingsLoaded'
      BY <1>7, <2>1 DEF SetDefaults, SettingsLoaded, Later
    <2> QED
      BY <2>2, <2>3, <2>4
  <1>8. CASE SetLevel
    <2>1. TypeOK'
      BY <1>8 DEF SetLevel, TypeOK, setting_get_log_level, DEBUG, INFO, WARN, ERR
    <2>2. OptionsSeen' /\ ThreadsBuilt' /\ SoundFileServes'
      BY <1>8 DEF SetLevel, OptionsSeen, ThreadsBuilt, SoundFileServes, Built
    <2>3. SettingsLoaded'
      BY <1>8 DEF SetLevel, SettingsLoaded, Later, setting_get_log_level
    <2> QED
      BY <2>1, <2>2, <2>3
  <1> QED
    BY <1>1, <1>2, <1>3, <1>4, <1>5, <1>6, <1>7, <1>8 DEF Early

\* The number of workers is the file's, since -t came with an option.
LEMMA WorkersOfFile ==
  ASSUME IInv, pc # "options"
  PROVE  Workers = ini["number-of-workers"]
  BY DEF IInv, OptionsSeen, Workers

\* A step of main from there on.
Late ==
  \/ NoWorkerBase \/ BuildFails \/ Build \/ Sleep \/ Return
  \/ \E t \in Ids \cup {Server} : Create(t) \/ NotCreated(t) \/ NotCreatedFatal(t)

LEMMA LateStep == IInv /\ Late => IInv'
  <1> SUFFICES ASSUME IInv, Late PROVE IInv'
    OBVIOUS
  <1> USE DEF IInv
  <1>1. CASE BuildFails
    <2>1. pc = "build" /\ end = "not" /\ Workers < 0
      BY <1>1 DEF BuildFails
    <2>2. ini["number-of-workers"] < 0
      BY <2>1, WorkersOfFile
    <2>3. text.keys["number-of-workers"] # Absent /\ ~ (text.keys["number-of-workers"] > 0)
      BY <2>1, <2>2, Settings DEF Later, Asked
    <2>4. SoundFileServes'
      BY <1>1, <2>3 DEF BuildFails, End, SoundFileServes
    <2>5. TypeOK' /\ OptionsSeen' /\ SettingsLoaded' /\ ThreadsBuilt'
      BY <1>1 DEF BuildFails, End, TypeOK, OptionsSeen, SettingsLoaded, ThreadsBuilt,
                  setting_get_log_level
    <2> QED
      BY <2>4, <2>5
  <1>2. CASE Build
    <2>1. pc = "build" /\ pc' = "create" /\ end = "not" /\ Workers >= 0 /\ worker_count' = Workers
      BY <1>2 DEF Build
    <2>2. Workers = ini["number-of-workers"] /\ Workers \in Int
      BY <2>1, WorkersOfFile, Settings DEF Later
    <2>3. created = {} /\ running = {} /\ given = {} /\ i = 0
      BY <2>1 DEF ThreadsBuilt, Built, TypeOK
    <2>4. i' \in 0 .. worker_count'
      BY <1>2, <2>1, <2>2, <2>3 DEF Build
    <2>5. TypeOK'
      BY <1>2, <2>1, <2>2, <2>3, <2>4 DEF Build, TypeOK
    <2>6. OptionsSeen' /\ SettingsLoaded' /\ ThreadsBuilt' /\ SoundFileServes'
      BY <1>2, <2>1, <2>2, <2>3 DEF Build, OptionsSeen, SettingsLoaded, ThreadsBuilt,
                  SoundFileServes, setting_get_log_level, Later, Built
    <2> QED
      BY <2>5, <2>6
  <1>3. CASE Sleep
    BY <1>3 DEF Sleep, TypeOK, OptionsSeen, SettingsLoaded, ThreadsBuilt, SoundFileServes,
                setting_get_log_level, Later, Built
  <1>4. CASE Return
    BY <1>4 DEF Return, End, TypeOK, OptionsSeen, SettingsLoaded, ThreadsBuilt, SoundFileServes,
                setting_get_log_level
  <1>5. ASSUME NEW t \in Ids \cup {Server}, Create(t) PROVE IInv'
    <2>1. end = "not" /\ UNCHANGED <<confVars, optind, wt, level, end, worker_count, running, given>>
      BY <1>5 DEF Create, Creating
    <2>2. /\ pc \in Built /\ pc' \in Built
          /\ i' \in 0 .. worker_count
          /\ created' = created \cup {t}
          /\ pc = "pause" => pc' = "pause"
          /\ t = Server => pc' = "pause"
      BY <1>5 DEF Create, Creating, Built, TypeOK
    <2>3. TypeOK'
      BY <1>5, <2>1, <2>2 DEF Create, TypeOK, Built
    <2>4. OptionsSeen' /\ SettingsLoaded' /\ ThreadsBuilt' /\ SoundFileServes'
      BY <2>1, <2>2 DEF OptionsSeen, SettingsLoaded, ThreadsBuilt, SoundFileServes,
                setting_get_log_level, Later, Built
    <2> QED
      BY <2>3, <2>4
  <1>6. ASSUME NEW t \in Ids \cup {Server}, NotCreated(t) PROVE IInv'
    <2>1. end = "not" /\ UNCHANGED <<confVars, optind, wt, level, end, worker_count, threadVars>>
      BY <1>6 DEF NotCreated, Creating
    <2>2. /\ pc \in Built /\ pc' \in Built
          /\ i' \in 0 .. worker_count
          /\ pc = "pause" => pc' = "pause"
      BY <1>6 DEF NotCreated, Creating, Built, TypeOK
    <2>3. TypeOK'
      BY <1>6, <2>1, <2>2 DEF NotCreated, TypeOK, Built
    <2>4. OptionsSeen' /\ SettingsLoaded' /\ ThreadsBuilt' /\ SoundFileServes'
      BY <2>1, <2>2 DEF OptionsSeen, SettingsLoaded, ThreadsBuilt, SoundFileServes,
                setting_get_log_level, Later, Built
    <2> QED
      BY <2>3, <2>4
  <1>7. ASSUME NEW t \in Ids \cup {Server}, NotCreatedFatal(t) PROVE IInv'
    BY <1>7 DEF NotCreatedFatal, Creating, End, TypeOK, OptionsSeen, SettingsLoaded, ThreadsBuilt,
                SoundFileServes, setting_get_log_level
  <1>8. CASE NoWorkerBase
    BY <1>8 DEF NoWorkerBase, End, TypeOK, OptionsSeen, SettingsLoaded, ThreadsBuilt,
                SoundFileServes, setting_get_log_level
  <1> QED
    BY <1>1, <1>2, <1>3, <1>4, <1>5, <1>6, <1>7, <1>8 DEF Late

\* A step of a signal, of a new thread or of a connection.
Others ==
  \/ Starting \/ NoServerBase \/ Signal \/ GiveToNobody
  \/ \E w \in Ids : GiveTo(w)

LEMMA OtherStep == IInv /\ Others => IInv'
  <1> SUFFICES ASSUME IInv, Others PROVE IInv'
    OBVIOUS
  <1> USE DEF IInv
  <1>1. CASE Signal
    BY <1>1 DEF Signal, TypeOK, OptionsSeen, SettingsLoaded, ThreadsBuilt, SoundFileServes,
                setting_get_log_level
  <1>2. CASE ServerStarts
    BY <1>2 DEF ServerStarts, TypeOK, OptionsSeen, SettingsLoaded, ThreadsBuilt, SoundFileServes,
                setting_get_log_level
  <1>3. CASE CannotListen
    BY <1>3 DEF CannotListen, End, TypeOK, OptionsSeen, SettingsLoaded, ThreadsBuilt,
                SoundFileServes, setting_get_log_level
  <1>4. ASSUME NEW w \in Ids, WorkerStarts(w) PROVE IInv'
    <2>1. TypeOK'
      BY <1>4 DEF WorkerStarts, TypeOK
    <2>2. OptionsSeen' /\ SettingsLoaded' /\ SoundFileServes'
      BY <1>4 DEF WorkerStarts, OptionsSeen, SettingsLoaded, SoundFileServes, setting_get_log_level
    <2>3. ThreadsBuilt'
      BY <1>4 DEF WorkerStarts, TypeOK, ThreadsBuilt
    <2>4. QED
      BY <2>1, <2>2, <2>3
  <1>5. ASSUME NEW w \in Ids, GiveTo(w) PROVE IInv'
    <2>1. TypeOK'
      BY <1>5 DEF GiveTo, TypeOK
    <2>2. OptionsSeen' /\ SettingsLoaded' /\ SoundFileServes'
      BY <1>5 DEF GiveTo, OptionsSeen, SettingsLoaded, SoundFileServes, setting_get_log_level
    <2>3. ThreadsBuilt'
      BY <1>5 DEF GiveTo, TypeOK, ThreadsBuilt
    <2>4. QED
      BY <2>1, <2>2, <2>3
  <1>6. CASE GiveToNobody
    <2>1. pc = "pause" /\ worker_count = 0
      BY <1>6 DEF GiveToNobody, TypeOK, ThreadsBuilt
    <2>2. text.keys["number-of-workers"] = 0
      BY <2>1, Settings DEF ThreadsBuilt, Later, Built, Asked
    <2>3. SoundFileServes'
      BY <1>6, <2>2 DEF GiveToNobody, End, SoundFileServes
    <2>4. TypeOK' /\ OptionsSeen' /\ SettingsLoaded' /\ ThreadsBuilt'
      BY <1>6 DEF GiveToNobody, End, TypeOK, OptionsSeen, SettingsLoaded, ThreadsBuilt,
                setting_get_log_level
    <2> QED
      BY <2>3, <2>4
  <1>7. CASE NoServerBase
    BY <1>7 DEF NoServerBase, End, TypeOK, OptionsSeen, SettingsLoaded, ThreadsBuilt,
                SoundFileServes, setting_get_log_level
  <1> QED
    BY <1>1, <1>2, <1>3, <1>4, <1>5, <1>6, <1>7 DEF Others, Starting

LEMMA InvariantStep == IInv /\ [Next]_vars => IInv'
  <1>1. Next => Early \/ Late \/ Others
    BY DEF Next, Main, Early, Late, Others
  <1>2. IInv /\ UNCHANGED vars => IInv'
    <2> SUFFICES ASSUME IInv, UNCHANGED vars PROVE IInv'
      OBVIOUS
    <2>1. TypeOK'
      BY DEF vars, IInv, TypeOK
    <2>2. OptionsSeen' /\ SettingsLoaded' /\ ThreadsBuilt' /\ SoundFileServes'
      BY DEF vars, IInv, OptionsSeen, SettingsLoaded, ThreadsBuilt, SoundFileServes,
             setting_get_log_level
    <2> QED
      BY <2>1, <2>2 DEF IInv
  <1> QED
    BY <1>1, <1>2, EarlyStep, LateStep, OtherStep

\* Behind an argument that is no option there is none, since getopt moved them all in front.
LEMMA NoOptionLater ==
  ASSUME NEW args \in Invocations, NEW a \in Permuted(args), ~ IsOption(a[1])
  PROVE  \A n \in DOMAIN a : ~ IsOption(a[n])
  <1>1. Len(args) \in Nat /\ DOMAIN args = 1 .. Len(args)
    BY InvocationsAssumption
  <1>2. PICK p \in [DOMAIN args -> DOMAIN args] :
          /\ a = [n \in DOMAIN args |-> args[p[n]]]
          /\ \A m, n \in DOMAIN args : m < n =>
               \/ IsOption(args[p[m]]) /\ ~ IsOption(args[p[n]])
               \/ (IsOption(args[p[m]]) <=> IsOption(args[p[n]])) /\ p[m] < p[n]
    BY DEF Permuted
  <1>3. ASSUME NEW n \in DOMAIN a, n > 1 PROVE ~ IsOption(a[n])
    <2>1. 1 \in DOMAIN args /\ n \in DOMAIN args /\ 1 < n
      BY <1>1, <1>2, <1>3
    <2> QED
      BY <1>2, <2>1
  <1> QED
    BY <1>1, <1>2, <1>3

\* A router that serves has the settings of its file.
LEMMA AsConfigured ==
  ASSUME IInv, given # {}
  PROVE  AsTheFileSays
  <1>1. pc = "pause"
    BY DEF IInv, ThreadsBuilt, TypeOK
  <1>2. worker_count = ini["number-of-workers"] /\ level = setting_get_log_level
    BY <1>1 DEF IInv, ThreadsBuilt, SettingsLoaded, Built, Later
  <1>3. /\ ini["number-of-workers"] = Asked("number-of-workers", 4)
        /\ ini["max-connections"] = Asked("max-connections", 10000)
        /\ ini["log-level"] = Asked("log-level", "warn")
    BY <1>1, Settings DEF IInv, Later
  <1>4. /\ ini["log-level"] = "debug" => level = DEBUG
        /\ ini["log-level"] = "info"  => level = INFO
        /\ ini["log-level"] = "warn"  => level = WARN
        /\ ini["log-level"] = "error" => level = ERR
        /\ ini["log-level"] = "other" => level = WARN
    BY <1>2 DEF setting_get_log_level
  <1> QED
    BY <1>2, <1>3, <1>4 DEF AsTheFileSays

-----------------------------------------------------------------------------
(* Theorems. *)

\* The start keeps to its stages (krouter.c:89-174).
THEOREM Invariant == Spec => []IInv
  BY InvariantInit, InvariantStep, PTL DEF Spec

\* Every variable keeps its type: threads are created before they run, and connections are
\* given to workers of the list only (krouter.c:158, server.c:77).
THEOREM TypeCorrect == Spec => []TypeOK
  <1>1. IInv => TypeOK
    BY DEF IInv
  <1> QED
    BY <1>1, Invariant, PTL

\* Whatever files there may be, one with a port and at least one worker does not crash the
\* start, as long as threads and event bases can be had (setting.c:82, server.c:31,
\* server.c:80).
THEOREM SoundFilesServe == Spec => []SoundFileServes
  <1>1. IInv => SoundFileServes
    BY DEF IInv
  <1> QED
    BY <1>1, Invariant, PTL

\* A router that serves has as many workers as its file says, the limit that it says and, if
\* the program knows it by that name, its log level, each by default where the file is
\* silent, and it saw no option: getopt puts options before the name of the file, which is
\* looked for in their place (krouter.c:129-155, setting.c:170-196).
THEOREM ServesItsFile == Spec => []ServesAsConfigured
  <1>1. IInv => ServesAsConfigured
    <2> SUFFICES ASSUME IInv, given # {} PROVE NoOptions /\ AsTheFileSays
      BY DEF ServesAsConfigured
    <2>1. pc = "pause" /\ ~ IsOption(argv[1])
      BY DEF IInv, ThreadsBuilt, OptionsSeen, TypeOK
    <2>2. NoOptions
      BY <2>1, NoOptionLater DEF IInv, TypeOK, NoOptions
    <2> QED
      BY <2>2, AsConfigured
  <1> QED
    BY <1>1, Invariant, PTL
=============================================================================
