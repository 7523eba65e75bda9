------------------------------ MODULE MCStartup ------------------------------
(* Command lines and configuration files for TLC. *)
EXTENDS Startup, FiniteSetsExt

\* Up to two arguments.
CommandLines == {<<>>} \cup [1 .. 1 -> Options \cup {"conf"}] \cup [1 .. 2 -> Options \cup {"conf"}]

File(groups, port, workers, max, log) ==
  [readable |-> TRUE, parses |-> TRUE, groups |-> groups,
   keys |-> [k \in Keys |-> CASE k = "port" -> port
                              [] k = "number-of-workers" -> workers
                              [] k = "max-connections" -> max
                              [] k = "log-level" -> log]]

Both == {"global", "cluster"}
Good == File(Both, 7, Absent, Absent, Absent)

\* Files that are not there, do not parse, lack a group or the port, and files with every
\* kind of number and word.
Files ==
  {[Good EXCEPT !.readable = FALSE], [Good EXCEPT !.parses = FALSE]}
  \cup {File(groups, port, 2, Absent, "info") : groups \in SUBSET Both, port \in {7, Absent}}
  \cup {File(Both, 7, workers, max, log) :
          workers \in {Absent, -1, 0, 2}, max \in {Absent, 0, 5}, log \in Words \cup {Absent}}
=============================================================================
