------------------------------- MODULE MCMonitor -------------------------------
(* The instance of Monitor for TLC. *)
EXTENDS Monitor

CONSTANTS t1, t2, t3, t4
================================================================================
