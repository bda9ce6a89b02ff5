----------------------------- MODULE MCSendDispatch ----------------------------
(* Instances of SendDispatch for TLC. *)
EXTENDS SendDispatchInv, TLC

CONSTANTS m1, m2, r1, r2

\* Two messages, one of two batches and one of a single target.
TwoMessages == (r1 :> m1) @@ (r2 :> m2)
TwoSizes == (r1 :> 3) @@ (r2 :> 1)

\* Workers are interchangeable.
WorkerSymmetry == Permutations(Workers)

\* For liveness: two batches of one target, and one target.
SmallSizes == (r1 :> 2) @@ (r2 :> 1)
================================================================================
