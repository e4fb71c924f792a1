--------------------------- MODULE ProviderConfig ---------------------------
(***************************************************************************)
(* The rows that say which model serves a persona: one override per        *)
(* persona and one default per tenant, saved by administrators through     *)
(* ProviderConfigService and read by every agent turn (resolution.ts).     *)
(*                                                                         *)
(* A save is a SELECT, a comparison of versions and an UPDATE or INSERT,   *)
(* with no transaction around them: other saves, deletions and turns run   *)
(* between its steps.  An endpoint, a model and a key together are one     *)
(* member of Conf; the SSRF check and the encryption that come first only  *)
(* decide whether a save begins.                                           *)
(***************************************************************************)
EXTENDS Naturals, FiniteSets

CONSTANTS
    Scope,      \* personas (overrides) and tenants (defaults)
    Conf,       \* endpoint, model and key of a provider
    Stored,     \* the scopes that have a row when the model starts
    Saver,      \* requests that save a configuration
    MaxRows,    \* bound: how often a row of a scope is created
    MaxVersion, \* bound: versions a save may expect or produce
    NoRow,      \* there is no row for the scope
    AnyVersion  \* the request names no version

ASSUME ConfigAssumption ==
    /\ Scope # {} /\ Stored \subseteq Scope
    /\ Conf # {} /\ IsFiniteSet(Conf)
    /\ MaxRows \in Nat \ {0} /\ MaxVersion \in Nat

VARIABLES
    row,        \* the two tables: scope -> row
    created,    \* how many rows a scope has had (a row's id is its number)
    save        \* the requests

configVars == <<row, created, save>>

-----------------------------------------------------------------------------
Rows == [id : 1..MaxRows, version : 0..MaxVersion, conf : Conf, enabled : BOOLEAN]

Saves ==
    [at : {"idle", "update", "insert", "fetch", "saved", "refused", "failed"},
     scope : Scope, conf : Conf, enabled : BOOLEAN,
     expected : (0..MaxVersion) \cup {AnyVersion},
     id : 0..MaxRows, version : 0..MaxVersion, raced : BOOLEAN]

NewSave == [at |-> "idle", scope |-> CHOOSE s \in Scope : TRUE, conf |-> CHOOSE c \in Conf : TRUE,
            enabled |-> TRUE, expected |-> AnyVersion, id |-> 0, version |-> 0, raced |-> FALSE]

(* The request is over, and with it what it carried.                       *)
Over(at) == [NewSave EXCEPT !.at = at]

(* Mistakes the properties are there to catch; nothing below uses them.    *)
BumpTwice(w) == save[w].version + 2
EnabledRowWithoutFilter(s) == row[s] # NoRow
-----------------------------------------------------------------------------
(* The version named by the request is not the one just read.              *)
LockRefuses(s, expected) == expected # AnyVersion /\ expected # row[s].version

(* SELECT id, version; then refuse, or go on to the UPDATE or the INSERT.  *)
SelectExisting(w, s, conf, enabled, expected) ==
    /\ save[w].at = "idle"
    /\ save' = [save EXCEPT ![w] =
         IF row[s] # NoRow /\ LockRefuses(s, expected) THEN Over("refused")
         ELSE [at |-> IF row[s] = NoRow THEN "insert" ELSE "update",
               scope |-> s, conf |-> conf, enabled |-> enabled, expected |-> expected,
               id |-> IF row[s] = NoRow THEN 0 ELSE row[s].id,
               version |-> IF row[s] = NoRow THEN 0 ELSE row[s].version,
               raced |-> FALSE]]
    /\ UNCHANGED <<row, created>>

(* A write to scope s: the saves of s between their SELECT and their write *)
(* have been overtaken.                                                    *)
Overtake(s, saves) ==
    [x \in Saver |-> [saves[x] EXCEPT !.raced =
        @ \/ (saves[x].at \in {"update", "insert"} /\ saves[x].scope = s)]]

BumpVersion(w) == save[w].version + 1

(* UPDATE ... WHERE id = existing.id, version = existing.version + 1.  The *)
(* row may be gone by now, and then nothing is written.                    *)
UpdateRow(w) ==
    LET s == save[w].scope
        hit == row[s] # NoRow /\ row[s].id = save[w].id IN
    /\ save[w].at = "update"
    /\ save[w].version < MaxVersion
    /\ row' = IF hit
              THEN [row EXCEPT ![s] = [id |-> save[w].id, version |-> BumpVersion(w),
                                       conf |-> save[w].conf, enabled |-> save[w].enabled]]
              ELSE row
    /\ save' = IF hit THEN Overtake(s, [save EXCEPT ![w].at = "fetch"])
               ELSE [save EXCEPT ![w].at = "fetch"]
    /\ UNCHANGED created

(* The row is read again for the response; a missing row is a TypeError.   *)
Refetch(w) ==
    LET s == save[w].scope IN
    /\ save[w].at = "fetch"
    /\ save' = [save EXCEPT ![w] =
         Over(IF row[s] # NoRow /\ row[s].id = save[w].id THEN "saved" ELSE "failed")]
    /\ UNCHANGED <<row, created>>

(* The unique index of the scope admits one row: the slower of two inserts *)
(* fails.                                                                  *)
InsertRow(w) ==
    LET s == save[w].scope IN
    /\ save[w].at = "insert"
    /\ created[s] < MaxRows
    /\ IF row[s] = NoRow
       THEN /\ row' = [row EXCEPT ![s] = [id |-> created[s] + 1, version |-> 0,
                                          conf |-> save[w].conf, enabled |-> save[w].enabled]]
            /\ created' = [created EXCEPT ![s] = @ + 1]
            /\ save' = Overtake(s, [save EXCEPT ![w] = Over("saved")])
       ELSE /\ save' = [save EXCEPT ![w] = Over("failed")]
            /\ UNCHANGED <<row, created>>

DeleteRow(s) ==
    /\ row[s] # NoRow
    /\ row' = [row EXCEPT ![s] = NoRow]
    /\ save' = Overtake(s, save)
    /\ UNCHANGED created

ConfigInit ==
    /\ \E conf \in [Stored -> Conf] :
         row = [s \in Scope |-> IF s \in Stored
                               THEN [id |-> 1, version |-> 0, conf |-> conf[s], enabled |-> TRUE]
                               ELSE NoRow]
    /\ created = [s \in Scope |-> IF s \in Stored THEN 1 ELSE 0]
    /\ save = [w \in Saver |-> NewSave]

ConfigNext ==
    \/ \E w \in Saver, s \in Scope, c \in Conf, e \in BOOLEAN,
          v \in (0..MaxVersion) \cup {AnyVersion} : SelectExisting(w, s, c, e, v)
    \/ \E w \in Saver : UpdateRow(w) \/ Refetch(w) \/ InsertRow(w)
    \/ \E s \in Scope : DeleteRow(s)

-----------------------------------------------------------------------------
(* resolution.ts: a row counts only while it is enabled.                   *)
EnabledRow(s) == row[s] # NoRow /\ row[s].enabled

ConfigTypeOK ==
    /\ row \in [Scope -> Rows \cup {NoRow}]
    /\ created \in [Scope -> 0..MaxRows]
    /\ save \in [Saver -> Saves]
=============================================================================
