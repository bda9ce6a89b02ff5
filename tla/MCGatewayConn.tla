----------------------------- MODULE MCGatewayConn -----------------------------
(* Instances of GatewayConn for TLC. *)
EXTENDS GatewayConn, TLC

CONSTANTS u1

\* One user, who reconnects.
OneUser == [c \in Conns |-> u1]
ToOneUser == [m \in Msgs |-> {u1}]

\* Messages are interchangeable.
MessageSymmetry == Permutations(Msgs)
================================================================================
