------------------------------ MODULE MCStreamFlow ------------------------------
(* Instances of StreamFlow for TLC. *)
EXTENDS StreamFlow

CONSTANTS on, on2, off

\* Two writers finish with the first entry, so that two pull loops may read the
\* second, which is for a user who is offline as well.
MixedTargets == [e \in Entries |-> IF e = 1 THEN {on, on2} ELSE {on, off}]
\* The writers have an entry each, and pings come through the second one's channel.
TakeTurns == [e \in Entries |-> IF e = 1 THEN {on2} ELSE {on, off}]

\* Both entries have the id of one message, or each that of its own.
OneId == [e \in Entries |-> 1]
OwnIds == [e \in Entries |-> e]
================================================================================
