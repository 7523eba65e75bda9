------------------------------ MODULE MCReplies ------------------------------
(* Instances of Replies for TLC. *)
EXTENDS Replies

CONSTANTS c1, w1   \* model values: a client and a worker

OneHome == [c \in Clients |-> w1]

\* Requests with one, two and three lines of reply, and with none.
FewLines == {Command("PING", <<>>), Command("GET", <<1>>), Str, [head |-> "kv"]}
=============================================================================
