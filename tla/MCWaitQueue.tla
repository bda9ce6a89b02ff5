------------------------------ MODULE MCWaitQueue ------------------------------
(* Instances of WaitQueue for TLC. *)
EXTENDS WaitQueue

CONSTANTS g1, m1, m2, m3, u1, u2

\* Two messages for one user and one for the other, who comes first in the rounds.
TwoToOne == [m \in Msgs |-> IF m = m3 THEN u2 ELSE u1]
OtherFirst == [u \in Users |-> IF u = u2 THEN 1 ELSE 2]
AllAtOne == [u \in Users |-> g1]
================================================================================
