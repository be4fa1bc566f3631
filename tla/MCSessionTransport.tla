------------------------- MODULE MCSessionTransport -------------------------
(* SessionTransport with two clients. *)
EXTENDS SessionTransport, TLC

CONSTANTS c1, c2

\* In two processes, in one event loop, and in two event loops of one process.
Apart == [c \in {c1, c2} |-> [process |-> c, loop |-> c]]
Together == [c \in {c1, c2} |-> [process |-> 0, loop |-> 0]]
TwoLoops == [c \in {c1, c2} |-> [process |-> 0, loop |-> c]]
MCLayouts == {Apart, Together, TwoLoops}
\* Clients and prompts are interchangeable in a set of layouts that does not tell them apart.
Alike == Permutations({c1, c2}) \cup Permutations(Prompts)
=============================================================================
