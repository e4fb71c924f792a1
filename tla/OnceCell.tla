------------------------------ MODULE OnceCell ------------------------------
(***************************************************************************)
(* What the tool gateway promises for an idempotency key: the external     *)
(* effect of a write happens at most once, only under a committed          *)
(* reservation, and an outcome, once recorded, is the outcome for ever.    *)
(***************************************************************************)
CONSTANTS Keys, Calls

VARIABLES
  key,      \* the key of a call
  cell,     \* what is recorded for a key
  effects   \* the calls whose effect has happened

cellVars == <<key, cell, effects>>

CInit ==
  /\ key \in [Calls -> Keys]
  /\ cell = [k \in Keys |-> "none"]
  /\ effects = {}

Record(k, from, to) ==
  /\ cell[k] = from
  /\ cell' = [cell EXCEPT ![k] = to]
  /\ UNCHANGED <<key, effects>>

\* A write reserves the key and closes it; a read only leaves its record.
Reserved(k) == Record(k, "none", "pending")
Closed(k)   == Record(k, "pending", "ok") \/ Record(k, "pending", "failed")
Noted(k)    == Record(k, "none", "ok")

Effect(c) ==
  /\ cell[key[c]] = "pending"
  /\ \A d \in effects : key[d] # key[c]
  /\ effects' = effects \cup {c}
  /\ UNCHANGED <<key, cell>>

CNext ==
  \/ \E k \in Keys : Reserved(k) \/ Closed(k) \/ Noted(k)
  \/ \E c \in Calls : Effect(c)

CSpec == CInit /\ [][CNext]_cellVars
=============================================================================
