------------------------------- MODULE MCMsgStore -------------------------------
(* Instances of MsgStore for TLC. *)
EXTENDS MsgStore

CONSTANTS s1, s2, f1, f2, m1, m2, m3

\* The third message is sent by another process, which makes an id that is taken.
TwoToOne == [m \in Msgs |-> IF m = m3 THEN s2 ELSE s1]
SameId == [m \in Msgs |-> IF m = m1 THEN 1 ELSE 2]
================================================================================
