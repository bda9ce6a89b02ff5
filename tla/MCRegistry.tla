------------------------------- MODULE MCRegistry -------------------------------
(* Instances of Registry for TLC. *)
EXTENDS Registry, TLC

CONSTANTS theUser

\* All connections are of one user.
OneUser == [c \in Conns |-> theUser]
Mix(i, c, f) == [instances |-> i, clients |-> c, faults |-> f]
\* Calls of instances only, of both, and of clients only.
Mixes == { Mix(3, 0, 1), Mix(2, 1, 0), Mix(1, 2, 0), Mix(0, 3, 1), Mix(0, 4, 0) }
Symmetry == Permutations(Handlers) \cup Permutations(Gateways) \cup Permutations(Conns)
================================================================================
