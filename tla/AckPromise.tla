------------------------------- MODULE AckPromise ------------------------------
(***************************************************************************)
(* What the Send service promises about one dispatched request: targets    *)
(* settle one way or the other, and a verdict is given once, when all have *)
(* settled - an ACK if every target was handled, a failure (the sender     *)
(* retries) if some target was lost.                                       *)
(***************************************************************************)
EXTENDS Naturals

CONSTANTS Requests, Size

VARIABLES
  fate,      \* fate[r][u]: what has become of target u of request r
  verdict    \* verdict[r]: what the sender was told

PromiseInit ==
  /\ fate = [r \in Requests |-> [u \in 1 .. Size[r] |-> "open"]]
  /\ verdict = [r \in Requests |-> "none"]

\* Some targets settle; a settled target stays as it is.
Settle(r) ==
  /\ \E settled \in SUBSET (1 .. Size[r]) :
       \E how \in [settled -> {"handled", "lost"}] :
         /\ \A u \in settled : fate[r][u] = "open"
         /\ fate' = [fate EXCEPT ![r] = [u \in 1 .. Size[r] |->
                                         IF u \in settled THEN how[u] ELSE @[u]]]
  /\ UNCHANGED verdict

Ack(r) ==
  /\ verdict[r] = "none"
  /\ \A u \in 1 .. Size[r] : fate[r][u] = "handled"
  /\ verdict' = [verdict EXCEPT ![r] = "acked"]
  /\ UNCHANGED fate

Fail(r) ==
  /\ verdict[r] = "none"
  /\ \A u \in 1 .. Size[r] : fate[r][u] # "open"
  /\ \E u \in 1 .. Size[r] : fate[r][u] = "lost"
  /\ verdict' = [verdict EXCEPT ![r] = "failed"]
  /\ UNCHANGED fate

Next == \E r \in Requests : Settle(r) \/ Ack(r) \/ Fail(r)

Spec == PromiseInit /\ [][Next]_<<fate, verdict>>
================================================================================
