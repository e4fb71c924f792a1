-------------------------- MODULE EmbeddingAdapter --------------------------
(***************************************************************************)
(* The adapter process in front of the embedding provider: POST /embed and *)
(* POST /rerank go through a circuit breaker and a limiter of concurrent   *)
(* requests (embedding-adapter/src).  A request is checked and counted in  *)
(* one step, waits for the provider, and is settled in another.            *)
(*                                                                         *)
(* Both routes use the breaker of one provider (jina, the default of       *)
(* both).  Whether the time of the next attempt has come is a choice made  *)
(* at each check; failureCount is only ever compared with the threshold,   *)
(* so it stops there.                                                      *)
(***************************************************************************)
EXTENDS Naturals, FiniteSets

CONSTANTS
    Threshold,  \* CIRCUIT_FAILURE_THRESHOLD
    MaxActive   \* MAX_CONCURRENT_REQUESTS

ASSUME AdapterAssumption ==
    /\ Threshold \in Nat \ {0}
    /\ MaxActive \in Nat \ {0}

VARIABLES
    circuit,    \* the state of the breaker
    failures,   \* failureCount
    active,     \* activeRequests
    orphans     \* requests in flight whose caller has died

adapterVars == <<circuit, failures, active, orphans>>

-----------------------------------------------------------------------------
(* Mistakes the properties are there to catch; nothing below uses them.    *)
ReleaseAfterAnswer(outcome) == IF outcome = "upstream" THEN active ELSE active - 1
-----------------------------------------------------------------------------
(* checkCall(): an open circuit throws, or, once its time has come, is     *)
(* half open, and stays so until a request reports, whatever becomes of    *)
(* this one.                                                               *)
Checked == IF circuit = "OPEN" THEN "HALF_OPEN" ELSE circuit

(* acquire() throws.                                                       *)
Full == active >= MaxActive

Refuse ==
    /\ \/ circuit = "OPEN" /\ UNCHANGED circuit
       \/ Full /\ circuit' = Checked
    /\ UNCHANGED <<failures, active>>

Admit ==
    /\ ~Full
    /\ circuit' = Checked
    /\ active' = active + 1
    /\ UNCHANGED failures

-----------------------------------------------------------------------------
(* What becomes of an admitted request: the provider answers; it answers   *)
(* and the answer cannot be used; it fails or is too slow; or the request  *)
(* fails for a reason that is not the provider's.                          *)
Outcome == {"answer", "unusable", "upstream", "other"}

(* The finally block.                                                      *)
Release(outcome) == IF active > 0 THEN active - 1 ELSE 0

Tripped(n) == circuit = "HALF_OPEN" \/ n >= Threshold

RecordSuccess ==
    /\ failures' = 0
    /\ circuit' = IF circuit = "HALF_OPEN" THEN "CLOSED" ELSE circuit

RecordFailure ==
    LET n == IF failures < Threshold THEN failures + 1 ELSE failures IN
    /\ failures' = n
    /\ circuit' = IF Tripped(n) THEN "OPEN" ELSE circuit

Record(outcome) ==
    \/ outcome \in {"answer", "unusable"} /\ RecordSuccess
    \/ outcome = "upstream" /\ RecordFailure
    \/ outcome = "other" /\ UNCHANGED <<circuit, failures>>

Settle(outcome) ==
    /\ Record(outcome)
    /\ active' = Release(outcome)

-----------------------------------------------------------------------------
(* A request goes on without its caller.                                   *)
OrphanSettles ==
    /\ orphans > 0
    /\ \E outcome \in Outcome : Settle(outcome)
    /\ orphans' = orphans - 1

AdapterInit ==
    /\ circuit = "CLOSED"
    /\ failures = 0
    /\ active = 0
    /\ orphans = 0

-----------------------------------------------------------------------------
(* The limiter never goes over its limit, and a closed circuit has fewer   *)
(* failures in a row than open it.                                         *)
AdapterOK ==
    /\ circuit \in {"CLOSED", "OPEN", "HALF_OPEN"}
    /\ failures \in 0..Threshold
    /\ circuit = "CLOSED" => failures < Threshold
    /\ active \in 0..MaxActive
    /\ orphans \in 0..MaxActive
=============================================================================
