---------------------------- MODULE MCOfflineQueue -----------------------------
(* The instance of OfflineQueue for TLC. *)
EXTENDS OfflineQueue

CONSTANTS g1, g2, m1, m2

\* One worker of Send has both messages.
M1First == [m \in Msgs |-> IF m = m2 THEN {m1} ELSE {}]
\* The gateways are alike: the first connection is made to g1, the second to either.
G1First == << {g1}, {g1, g2} >>
================================================================================
