---------------------------- MODULE AnswerLedger ----------------------------
(***************************************************************************)
(* What the delivery ledger promises for one channel turn, whoever does    *)
(* the work: at most one fallback text, at most one governed answer, the   *)
(* answer only after the decision, no decision to send the fallback after  *)
(* it.  Nothing is promised to happen: a decision may never be followed by *)
(* its message.                                                            *)
(***************************************************************************)
EXTENDS Naturals

CONSTANT Turns

VARIABLES
  state,      \* delivery_records.state
  fallbacks,  \* fallback texts published
  finals      \* governed answers published

ledgerVars == <<state, fallbacks, finals>>

LInit ==
  /\ state = [t \in Turns |-> "none"]
  /\ fallbacks = [t \in Turns |-> 0]
  /\ finals = [t \in Turns |-> 0]

Advance(t, from, to) ==
  /\ state[t] \in from
  /\ state' = [state EXCEPT ![t] = to]
  /\ UNCHANGED <<fallbacks, finals>>

Open(t)       == Advance(t, {"none"}, "pending")
FallBack(t)   == Advance(t, {"pending"}, "fallback_sent")
DecideOnce(t) == Advance(t, {"pending", "fallback_sent"}, "final_delivered")

EmitFallback(t) ==
  /\ state[t] \in {"fallback_sent", "final_delivered"}
  /\ fallbacks[t] = 0
  /\ fallbacks' = [fallbacks EXCEPT ![t] = 1]
  /\ UNCHANGED <<state, finals>>

EmitFinal(t) ==
  /\ state[t] = "final_delivered"
  /\ finals[t] = 0
  /\ finals' = [finals EXCEPT ![t] = 1]
  /\ UNCHANGED <<state, fallbacks>>

LNext ==
  \E t \in Turns :
    Open(t) \/ FallBack(t) \/ DecideOnce(t) \/ EmitFallback(t) \/ EmitFinal(t)

LSpec == LInit /\ [][LNext]_ledgerVars
=============================================================================
