----------------------------- MODULE MCDelivery -----------------------------
(* Instances of Delivery for TLC.                                          *)
EXTENDS Delivery
CONSTANTS t1, t2, m1

\* Every turn carries the one message m1: a second turn is a duplicate of the first.
MCMsgOf == [t \in Turns |-> m1]

\* A turn that was answered without a failure, with no fallback of its under way.
Answered(t) == pc[t] = "returned" /\ fallback[t] \in {"none", "sent", "removed"}

\* Bound: the dedup key expires only behind a turn that has been answered, as it does when
\* turns last less than its 300 s; the duplicate then runs in full.
ExpiresBehind == expiries' # expiries => faults = 0 /\ \E t \in Turns : Answered(t)
=============================================================================
