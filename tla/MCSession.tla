----------------------------- MODULE MCSession -----------------------------
(* Instances of Session for TLC. *)
EXTENDS Session, TLC

CONSTANTS c1, c2, w1, w2   \* model values: clients and workers

Command(name, args) == [head |-> "command", name |-> name, args |-> args]
Str == [head |-> "str"]
KV == [head |-> "kv"]

\* Announced parameters: none, one, a zero, one whose uint16_t is zero, a negative.  The line
\* with a zero is one that is neither a command nor a parameter.
AllLines == {Command("PING", <<>>), Command("SET", <<>>), Command("GET", <<1>>),
             Command("GET", <<0>>), Command("GET", <<ParamMod>>), Command("SET", <<-14>>),
             Str, KV}

TwoHomes == [c \in Clients |-> IF c = c1 THEN w1 ELSE w2]

\* Clients are interchangeable together with their workers.
Symmetry == {p \in Permutations(Clients \cup Workers) :
               \A c \in Clients : p[c] \in Clients /\ p[home[c]] = home[p[c]]}
=============================================================================
