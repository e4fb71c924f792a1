----------------------------- MODULE AgentProofs -----------------------------
(***************************************************************************)
(* The agent's turns (Executor) and the tool calls they make (ToolGateway).*)
(*                                                                         *)
(* For any turns, personas, configurations, saves and size of the pool:    *)
(* turns and clients are kept apart by the one port.  A turn that waits    *)
(* for its agent holds it, a live client belongs to such a turn, so a turn *)
(* that gets the port finds no live client: it starts its own, and nobody  *)
(* else's prompt, answer, eviction or reaping ever meets it.               *)
(*                                                                         *)
(* For any calls, keys and tools, any permission and any number of faults: *)
(* a write takes effect at most once per key and never without a committed *)
(* reservation, replies tell the truth, and the gateway implements         *)
(* OnceCell.  The unique index makes one call the author of a key's row;   *)
(* the inductive invariant GatewayInv follows the author from its          *)
(* reservation to the outcome and shows that nobody else comes near the    *)
(* effect.                                                                 *)
(***************************************************************************)
EXTENDS Executor, ToolGateway, FiniteSetTheorems, WellFoundedInduction, TLAPS

-----------------------------------------------------------------------------
(* The executor.                                                           *)

Live(c) == Running(c) /\ ~client[c].dead

(* A client serves its own turn, waits for its answer while it lives, and  *)
(* is dead once its process has ended.                                     *)
Faithful(c) ==
    /\ client[c].asked \subseteq {c}
    /\ client[c].listener \in {c, None}
    /\ Live(c) => c \in client[c].asked
    /\ client[c].stage = "exited" => client[c].dead

PortHeld == \A t \in Turn : turn[t].at = "agent" => port = t
AllFaithful == \A c \in Turn : Faithful(c)
PoolStarted ==
    \A k \in Conf : pool[k] # NoEntry =>
        pool[k].client \in Turn /\ client[pool[k].client].stage # "none"

Inv == TypeOK /\ PortHeld /\ NoOrphans /\ AllFaithful /\ PoolStarted /\ OwnAnswer

-----------------------------------------------------------------------------
(* A nonempty set of naturals has a smallest element.                      *)
LEMMA NatMin ==
    ASSUME NEW S \in SUBSET Nat, S # {}
    PROVE  \E m \in S : \A n \in S : m <= n
<1> DEFINE R == StrictSubsetOrdering(Nat)
           Below(n) == 0 .. (n - 1)
           T == {Below(n) : n \in S}
<1>1. IsWellFoundedOn(R, FiniteSubsetsOf(Nat))
  BY FS_StrictSubsetOrderingWellFounded
<1>2. \A n \in S : Below(n) \in SUBSET Nat /\ IsFiniteSet(Below(n))
  BY FS_Interval
<1>3. T \subseteq FiniteSubsetsOf(Nat) /\ T # {}
  BY <1>2 DEF FiniteSubsetsOf
<1>4. PICK x \in T : \A y \in T : <<y, x>> \notin R
  BY <1>1, <1>3, WFMin
<1>5. PICK m \in S : x = Below(m)
  BY <1>4
<1>6. ASSUME NEW n \in S, n < m PROVE FALSE
  <2>1. Below(n) \subseteq Below(m) /\ n \in Below(m) /\ n \notin Below(n)
    BY <1>6
  <2>2. Below(n) \in T /\ <<Below(n), x>> \in R
    BY <1>2, <1>5, <2>1 DEF StrictSubsetOrdering
  <2> QED
    BY <1>4, <2>2
<1> QED
  BY <1>6

LEMMA OldestIsPooled ==
    ASSUME TypeOK, Pooled # {}
    PROVE  Oldest \in Pooled
<1> DEFINE S == {pool[c].at : c \in Pooled}
<1>1. S \in SUBSET Nat /\ S # {}
  BY DEF TypeOK, Pooled
<1>2. PICK m \in S : \A n \in S : m <= n
  BY <1>1, NatMin
<1>3. \E c \in Pooled : \A d \in Pooled : pool[c].at <= pool[d].at
  BY <1>2
<1> QED
  BY <1>3 DEF Oldest

(* Evicts is decided with a full pool, and a full pool is not empty.       *)
LEMMA PooledFinite == IsFiniteSet(Pooled) /\ Cardinality(Pooled) \in Nat
<1>1. Pooled \in SUBSET Conf
  BY DEF Pooled
<1> QED
  BY <1>1, ConfigAssumption, FS_Subset, FS_CardinalityType

LEMMA EvictedIsPooled ==
    ASSUME TypeOK, Evicts
    PROVE  Oldest \in Pooled
<1>1. Pooled # {}
  BY ExecutorAssumption, FS_EmptySet DEF Evicts
<1> QED
  BY <1>1, OldestIsPooled

(* Nobody waits for an agent while the port is free, and so nobody lives.  *)
LEMMA FreePort ==
    ASSUME Inv, PortFree
    PROVE  /\ \A t \in Turn : turn[t].at # "agent"
           /\ \A c \in Turn : ~Live(c)
           /\ \A k \in Conf : ~Warm(k)
<1>1. \A t \in Turn : turn[t].at # "agent"
  BY ExecutorAssumption DEF Inv, PortHeld, PortFree
<1>2. \A c \in Turn : ~Live(c)
  BY <1>1 DEF Inv, NoOrphans, Live
<1>3. ASSUME NEW k \in Conf, Warm(k) PROVE FALSE
  <2>1. pool[k].client \in Turn /\ ~client[pool[k].client].dead
        /\ client[pool[k].client].stage # "none"
    BY <1>3 DEF Warm, Inv, PoolStarted
  <2>2. client[pool[k].client].stage \in {"initialize", "session", "prompt", "exited"}
    BY <2>1 DEF Inv, TypeOK, Clients
  <2> QED
    BY <1>2, <2>1, <2>2 DEF Inv, AllFaithful, Faithful, Live, Running
<1> QED
  BY <1>1, <1>2, <1>3

-----------------------------------------------------------------------------
(* The rows and their saves.                                               *)
LEMMA ConfigTyped ==
    ASSUME ConfigTypeOK, ConfigNext
    PROVE  ConfigTypeOK'
<1> USE ConfigAssumption
<1>n. NewSave \in Saves
  BY DEF NewSave, Saves
<1>o. \A at \in {"saved", "refused", "failed"} : Over(at) \in Saves
  BY <1>n DEF Over, Saves
<1>v. ASSUME NEW s, NEW f \in [Saver -> Saves] PROVE Overtake(s, f) \in [Saver -> Saves]
  <2>1. ASSUME NEW x \in Saver
        PROVE [f[x] EXCEPT !.raced =
                 @ \/ (f[x].at \in {"update", "insert"} /\ f[x].scope = s)] \in Saves
    BY DEF Saves
  <2> QED
    BY <2>1 DEF Overtake
<1>1. ASSUME NEW w \in Saver, NEW s \in Scope, NEW c \in Conf, NEW e \in BOOLEAN,
             NEW v \in (0..MaxVersion) \cup {AnyVersion}, SelectExisting(w, s, c, e, v)
      PROVE ConfigTypeOK'
  <2>1. row[s] # NoRow => row[s].id \in 0..MaxRows /\ row[s].version \in 0..MaxVersion
    BY DEF ConfigTypeOK, Rows
  <2>2. save' \in [Saver -> Saves]
    BY <1>1, <1>o, <2>1 DEF SelectExisting, ConfigTypeOK, Saves
  <2> QED
    BY <1>1, <2>2 DEF SelectExisting, ConfigTypeOK
<1>2. ASSUME NEW w \in Saver, UpdateRow(w) PROVE ConfigTypeOK'
  <2> DEFINE s == save[w].scope
  <2>1. s \in Scope /\ save[w].version \in Nat /\ save[w].version + 1 \in 0..MaxVersion
        /\ save[w].conf \in Conf /\ save[w].enabled \in BOOLEAN
    BY <1>2 DEF UpdateRow, ConfigTypeOK, Saves
  <2>2. [save EXCEPT ![w].at = "fetch"] \in [Saver -> Saves]
    BY DEF ConfigTypeOK, Saves
  <2>3. row' \in [Scope -> Rows \cup {NoRow}]
    <3>1. CASE row[s] # NoRow /\ row[s].id = save[w].id
      <4>1. row[s].id \in 1..MaxRows
        BY <2>1, <3>1 DEF ConfigTypeOK, Rows
      <4>2. [id |-> save[w].id, version |-> BumpVersion(w), conf |-> save[w].conf,
             enabled |-> save[w].enabled] \in Rows
        BY <2>1, <3>1, <4>1 DEF Rows, BumpVersion
      <4> QED
        BY <1>2, <3>1, <4>2 DEF UpdateRow, ConfigTypeOK
    <3>2. CASE ~(row[s] # NoRow /\ row[s].id = save[w].id)
      BY <1>2, <3>2 DEF UpdateRow, ConfigTypeOK
    <3> QED
      BY <3>1, <3>2
  <2>4. save' \in [Saver -> Saves]
    BY <1>2, <1>v, <2>2 DEF UpdateRow
  <2> QED
    BY <1>2, <2>3, <2>4 DEF UpdateRow, ConfigTypeOK
<1>3. ASSUME NEW w \in Saver, Refetch(w) PROVE ConfigTypeOK'
  BY <1>3, <1>o DEF Refetch, ConfigTypeOK
<1>4. ASSUME NEW w \in Saver, InsertRow(w) PROVE ConfigTypeOK'
  <2> DEFINE s == save[w].scope
  <2>1. s \in Scope /\ save[w].conf \in Conf /\ save[w].enabled \in BOOLEAN
        /\ created[s] + 1 \in 1..MaxRows
    BY <1>4 DEF InsertRow, ConfigTypeOK, Saves
  <2>2. \A at \in {"saved", "failed"} : [save EXCEPT ![w] = Over(at)] \in [Saver -> Saves]
    BY <1>o DEF ConfigTypeOK
  <2>3. CASE row[s] = NoRow
    <3>1. [id |-> created[s] + 1, version |-> 0, conf |-> save[w].conf,
           enabled |-> save[w].enabled] \in Rows
      BY <2>1 DEF Rows
    <3>2. row' \in [Scope -> Rows \cup {NoRow}]
      BY <1>4, <2>3, <3>1 DEF InsertRow, ConfigTypeOK
    <3>3. created' \in [Scope -> 0..MaxRows]
      BY <1>4, <2>1, <2>3 DEF InsertRow, ConfigTypeOK
    <3>4. save' \in [Saver -> Saves]
      <4>1. save' = Overtake(s, [save EXCEPT ![w] = Over("saved")])
        BY <1>4, <2>3 DEF InsertRow
      <4>2. [save EXCEPT ![w] = Over("saved")] \in [Saver -> Saves]
        BY <2>2
      <4> QED
        BY <1>v, <4>1, <4>2
    <3> QED
      BY <3>2, <3>3, <3>4 DEF ConfigTypeOK
  <2>4. CASE row[s] # NoRow
    BY <1>4, <2>2, <2>4 DEF InsertRow, ConfigTypeOK
  <2> QED
    BY <2>3, <2>4
<1>5. ASSUME NEW s \in Scope, DeleteRow(s) PROVE ConfigTypeOK'
  BY <1>5, <1>v DEF DeleteRow, ConfigTypeOK
<1> QED
  BY <1>1, <1>2, <1>3, <1>4, <1>5 DEF ConfigNext

LEMMA LeaveTyped ==
    ASSUME NEW r \in Turns, NEW at \in {"thin", "agent-answered"}
    PROVE  /\ Leave(r, at) \in Turns /\ Leave(r, at).at = at
           /\ Leave(r, at).text = r.text /\ Leave(r, at).served = r.served
           /\ Leave(r, at).brokered = r.brokered /\ Leave(r, at).torn = r.torn
  BY DEF Leave, Turns

LEMMA InitInv == Init => Inv
<1> SUFFICES ASSUME Init PROVE Inv
  OBVIOUS
<1> USE ConfigAssumption, ExecutorAssumption
<1>1. ConfigTypeOK
  <2>1. NewSave \in Saves
    BY DEF NewSave, Saves
  <2>2. ConfigInit
    BY DEF Init
  <2>3. PICK conf \in [Stored -> Conf] :
          row = [s \in Scope |-> IF s \in Stored
                   THEN [id |-> 1, version |-> 0, conf |-> conf[s], enabled |-> TRUE]
                   ELSE NoRow]
    BY <2>2 DEF ConfigInit
  <2>4. \A s \in Stored : [id |-> 1, version |-> 0, conf |-> conf[s], enabled |-> TRUE] \in Rows
    BY DEF Rows
  <2>5. row \in [Scope -> Rows \cup {NoRow}]
    BY <2>3, <2>4
  <2> QED
    BY <2>1, <2>2, <2>5 DEF ConfigInit, ConfigTypeOK
<1>2. TypeOK
  BY <1>1 DEF Init, TypeOK, Turns, Clients, NoEntry
<1>3. PortHeld /\ NoOrphans /\ AllFaithful /\ OwnAnswer
  BY DEF Init, PortHeld, NoOrphans, AllFaithful, Faithful, Live, Running, OwnAnswer
<1>4. PoolStarted
  BY DEF Init, PoolStarted
<1> QED
  BY <1>2, <1>3, <1>4 DEF Inv

(* What only moves a turn that has no agent and starts none.               *)
AsideStep(t, r) ==
    /\ turn' = [turn EXCEPT ![t] = r]
    /\ turn[t].at # "agent" /\ r.at # "agent" /\ r.text = turn[t].text
    /\ UNCHANGED <<configVars, client, pool, clock>>
    /\ port' = port \/ (PortFree /\ port' \in Turn) \/ (port = t /\ port' = None)
    /\ registry' \in [Tool -> Entry \cup {None}]

LEMMA Aside ==
    ASSUME Inv, NEW t \in Turn, NEW r \in Turns, AsideStep(t, r)
    PROVE  Inv'
<1> USE DEF AsideStep
<1>1. TypeOK'
  BY ExecutorAssumption DEF Inv, TypeOK, ConfigTypeOK, configVars
<1>2. PortHeld'
  BY FreePort DEF Inv, TypeOK, PortHeld
<1>3. NoOrphans'
  BY DEF Inv, TypeOK, NoOrphans, Running
<1>4. AllFaithful' /\ PoolStarted'
  BY DEF Inv, AllFaithful, Faithful, Live, Running, PoolStarted
<1>5. OwnAnswer'
  BY DEF Inv, TypeOK, OwnAnswer
<1> QED
  BY <1>1, <1>2, <1>3, <1>4, <1>5 DEF Inv

LEMMA ResolvingStep ==
    ASSUME Inv, NEW t \in Turn,
           ReadOverride(t) \/ ReadDefault(t) \/ ResolveFails(t) \/ Decrypt(t) \/ LoadTools(t)
             \/ ClosePort(t) \/ Complete(t)
    PROVE  Inv'
<1> USE ExecutorAssumption
<1>0. turn \in [Turn -> Turns] /\ turn[t] \in Turns /\ PersonaOf[t] \in Scope
      /\ TenantOf[PersonaOf[t]] \in Scope /\ EntryOf(t) \in Entry
      /\ (\A s \in Scope : row[s] # NoRow => row[s].conf \in Conf)
      /\ registry \in [Tool -> Entry \cup {None}]
  BY CatalogAssumption DEF Inv, TypeOK, ConfigTypeOK, Rows, EntryOf
<1>1. CASE ReadOverride(t)
  <2> DEFINE r == IF EnabledRow(PersonaOf[t])
                  THEN [turn[t] EXCEPT !.at = "resolved", !.conf = row[PersonaOf[t]].conf]
                  ELSE [turn[t] EXCEPT !.at = "default"]
  <2>1. r \in Turns
    BY <1>0 DEF Turns, EnabledRow
  <2>2. AsideStep(t, r)
    BY <1>0, <1>1 DEF ReadOverride, AsideStep, Turns
  <2> HIDE DEF r
  <2> QED
    BY <2>1, <2>2, Aside
<1>2. CASE ReadDefault(t)
  <2> DEFINE d == TenantOf[PersonaOf[t]]
             r == [turn[t] EXCEPT !.at = "resolved", !.torn = FALSE,
                     !.conf = IF EnabledRow(d) THEN row[d].conf ELSE Platform]
  <2>1. r \in Turns
    BY <1>0 DEF Turns, EnabledRow
  <2>2. AsideStep(t, r)
    BY <1>0, <1>2 DEF ReadDefault, AsideStep, Turns
  <2> HIDE DEF r
  <2> QED
    BY <2>1, <2>2, Aside
<1>3. CASE Decrypt(t)
  <2>1. PICK ok \in BOOLEAN :
          turn' = [turn EXCEPT ![t].at = "broker", ![t].conf = IF ok THEN @ ELSE Platform]
    BY <1>3 DEF Decrypt
  <2> DEFINE r == [turn[t] EXCEPT !.at = "broker", !.conf = IF ok THEN @ ELSE Platform]
  <2>2. r \in Turns
    BY <1>0 DEF Turns
  <2>3. AsideStep(t, r)
    BY <1>0, <1>3, <2>1 DEF Decrypt, AsideStep, Turns
  <2> HIDE DEF r
  <2> QED
    BY <2>2, <2>3, Aside
<1>4. CASE LoadTools(t)
  <2>1. PICK found \in Discovered :
          /\ turn' = [turn EXCEPT ![t] = [turn[t] EXCEPT !.at = "listen", !.brokered = found]]
          /\ registry' = IF found THEN [registry EXCEPT ![ToolOf(t)] = EntryOf(t)]
                         ELSE registry
    BY <1>0, <1>4 DEF LoadTools
  <2> DEFINE r == [turn[t] EXCEPT !.at = "listen", !.brokered = found]
  <2>2. found \in BOOLEAN
    BY DEF Discovered, Lists
  <2>3. r \in Turns
    BY <1>0, <2>2 DEF Turns
  <2>4. registry' \in [Tool -> Entry \cup {None}]
    BY <1>0, <2>1
  <2>5. AsideStep(t, r)
    BY <1>0, <1>4, <2>1, <2>4 DEF LoadTools, AsideStep, Turns
  <2> HIDE DEF r
  <2> QED
    BY <2>3, <2>5, Aside
<1>5. CASE ClosePort(t)
  <2> DEFINE r == [turn[t] EXCEPT !.brokered = FALSE]
  <2>1. r \in Turns
    BY <1>0 DEF Turns
  <2>2. AsideStep(t, r)
    BY <1>0, <1>5 DEF ClosePort, AsideStep, Turns
  <2> HIDE DEF r
  <2> QED
    BY <2>1, <2>2, Aside
<1>6. CASE Complete(t)
  <2>1. PICK end \in {"thin-answered", "failed"} : turn' = [turn EXCEPT ![t].at = end]
    BY <1>6 DEF Complete
  <2> DEFINE r == [turn[t] EXCEPT !.at = end]
  <2>2. r \in Turns
    BY <1>0 DEF Turns
  <2>3. AsideStep(t, r)
    BY <1>0, <1>6, <2>1 DEF Complete, AsideStep, Turns
  <2> HIDE DEF r
  <2> QED
    BY <2>2, <2>3, Aside
<1>7. CASE ResolveFails(t)
  <2> DEFINE r == [turn[t] EXCEPT !.at = "failed"]
  <2>1. r \in Turns
    BY <1>0 DEF Turns
  <2>2. AsideStep(t, r)
    BY <1>0, <1>7 DEF ResolveFails, AsideStep, Turns
  <2> HIDE DEF r
  <2> QED
    BY <2>1, <2>2, Aside
<1> QED
  BY <1>1, <1>2, <1>3, <1>4, <1>5, <1>6, <1>7

(* A killed client is otherwise what it was.                               *)
LEMMA KilledTyped ==
    ASSUME NEW k \in Clients, NEW b \in BOOLEAN
    PROVE  /\ [k EXCEPT !.dead = b] \in Clients
           /\ [k EXCEPT !.dead = b].stage = k.stage
           /\ [k EXCEPT !.dead = b].asked = k.asked
           /\ [k EXCEPT !.dead = b].listener = k.listener
           /\ [k EXCEPT !.dead = b].dead = b
<1>1. [k EXCEPT !.dead = b] \in Clients
  BY DEF Clients
<1> QED
  BY <1>1 DEF Clients

(* A turn that gets the port starts a client of its own: an eviction meets *)
(* only the dead.                                                          *)
LEMMA StartStep ==
    ASSUME Inv, NEW t \in Turn, Listen(t), PortFree
    PROVE  Inv'
<1> USE ExecutorAssumption
<1>0. /\ turn \in [Turn -> Turns] /\ client \in [Turn -> Clients]
      /\ pool \in [Conf -> [client : Turn \cup {None}, at : Nat]] /\ clock \in Nat
  BY DEF Inv, TypeOK
<1>1. turn[t].at = "listen" /\ port' = t /\ clock' = clock + 1 /\ StartClient(t)
      /\ UNCHANGED <<configVars, registry>>
  <2>1. ~Warm(turn[t].conf)
    BY FreePort DEF Warm
  <2> QED
    BY <2>1 DEF Listen
<1> DEFINE conf == turn[t].conf
           late == turn[t].timedOut
           evicts == conf \in Conf /\ Evicts
           kept == IF evicts THEN Killed(client, pool[Oldest].client) ELSE client
           slots == IF evicts THEN [pool EXCEPT ![Oldest] = NoEntry] ELSE pool
           n == [stage |-> "initialize", dead |-> late, knows |-> turn[t].brokered,
                 asked |-> IF late THEN {} ELSE {t}, listener |-> None]
           r == IF late THEN Leave(turn[t], "thin") ELSE [turn[t] EXCEPT !.at = "agent"]
<1>2. evicts => Oldest \in Conf /\ pool[Oldest].client \in Turn
  BY EvictedIsPooled DEF Inv, PoolStarted, Pooled
<1>3. /\ kept \in [Turn -> Clients]
      /\ \A c \in Turn : /\ kept[c].stage = client[c].stage /\ kept[c].asked = client[c].asked
                         /\ kept[c].listener = client[c].listener
                         /\ client[c].dead => kept[c].dead
  <2>1. CASE evicts
    <3>1. pool[Oldest].client \in Turn /\ kept = [client EXCEPT ![pool[Oldest].client].dead = TRUE]
      BY <1>2, <2>1 DEF Killed
    <3> HIDE DEF kept, evicts
    <3> QED
      BY <1>0, <3>1, KilledTyped, ZenonT(40)
  <2>2. CASE ~evicts
    BY <1>0, <2>2
  <2> QED
    BY <2>1, <2>2
<1>4. /\ slots \in [Conf -> [client : Turn \cup {None}, at : Nat]]
      /\ \A k \in Conf : slots[k] = NoEntry \/ slots[k] = pool[k]
  BY <1>0, <1>2 DEF NoEntry
<1>5. n \in Clients /\ n.stage = "initialize" /\ n.dead = late /\ n.listener = None
      /\ n.asked = IF late THEN {} ELSE {t}
  BY <1>0 DEF Clients, Turns
<1>6. r \in Turns /\ r.text = turn[t].text /\ r.at = IF late THEN "thin" ELSE "agent"
  <2>1. CASE late
    BY <1>0, <2>1, LeaveTyped
  <2>2. CASE ~late
    <3> DEFINE w == [turn[t] EXCEPT !.at = "agent"]
    <3>1. r = w
      BY <2>2
    <3>2. w \in Turns
      BY <1>0 DEF Turns
    <3>3. w.at = "agent" /\ w.text = turn[t].text
      BY <1>0 DEF Turns
    <3> HIDE DEF r, w
    <3> QED
      BY <2>2, <3>1, <3>2, <3>3
  <2> QED
    BY <2>1, <2>2
<1>7. client' = [kept EXCEPT ![t] = n] /\ turn' = [turn EXCEPT ![t] = r]
  BY <1>0, <1>1 DEF StartClient
<1>8. /\ pool' \in [Conf -> [client : Turn \cup {None}, at : Nat]]
      /\ \A k \in Conf : \/ pool'[k] = slots[k]
                         \/ pool'[k] = [client |-> t, at |-> clock + 1]
  BY <1>0, <1>1, <1>4 DEF StartClient
<1> HIDE DEF kept, slots, n, r, evicts
<1>9. \A c \in Turn : ~Live(c) /\ turn[c].at # "agent"
  BY FreePort
<1>10. TypeOK'
  BY <1>0, <1>1, <1>3, <1>5, <1>6, <1>7, <1>8 DEF Inv, TypeOK, ConfigTypeOK, configVars
<1>11. PortHeld'
  BY <1>0, <1>1, <1>6, <1>7, <1>9 DEF PortHeld
<1>12. \A c \in Turn : c # t => ~Live(c)'
  BY <1>0, <1>3, <1>7, <1>9 DEF Live, Running
<1>13. NoOrphans'
  BY <1>0, <1>3, <1>5, <1>6, <1>7, <1>12 DEF NoOrphans, Live, Running
<1>14. AllFaithful'
  <2>1. ASSUME NEW c \in Turn, c # t PROVE Faithful(c)'
    BY <1>0, <1>3, <1>7, <1>12, <2>1 DEF Inv, AllFaithful, Faithful
  <2>2. Faithful(t)'
    BY <1>0, <1>3, <1>5, <1>7 DEF Faithful, Live, Running
  <2> QED
    BY <2>1, <2>2 DEF AllFaithful
<1>15. PoolStarted'
  <2>1. \A c \in Turn : client[c].stage # "none" => client'[c].stage # "none"
    BY <1>3, <1>5, <1>7
  <2>2. client'[t].stage # "none"
    BY <1>3, <1>5, <1>7
  <2> QED
    BY <1>4, <1>8, <2>1, <2>2 DEF Inv, PoolStarted, NoEntry
<1>16. OwnAnswer'
  BY <1>0, <1>6, <1>7 DEF Inv, OwnAnswer
<1> QED
  BY <1>10, <1>11, <1>13, <1>14, <1>15, <1>16 DEF Inv

LEMMA ListenStep ==
    ASSUME Inv, NEW t \in Turn, Listen(t)
    PROVE  Inv'
<1>1. CASE PortFree
  BY <1>1, StartStep
<1>2. CASE ~PortFree
  <2> DEFINE r == [Leave(turn[t], "thin") EXCEPT !.brokered = FALSE]
  <2>0. turn \in [Turn -> Turns] /\ turn[t] \in Turns /\ registry \in [Tool -> Entry \cup {None}]
    BY DEF Inv, TypeOK
  <2>1. r \in Turns /\ r.at = "thin" /\ r.text = turn[t].text
    BY <2>0, LeaveTyped, ZenonT(40) DEF Turns
  <2>2. turn' = [turn EXCEPT ![t] = r] /\ turn[t].at # "agent"
    BY <1>2, <2>0 DEF Listen
  <2> HIDE DEF r
  <2>3. AsideStep(t, r)
    BY <1>2, <2>0, <2>1, <2>2 DEF Listen, AsideStep
  <2> QED
    BY <2>1, <2>3, Aside
<1> QED
  BY <1>1, <1>2

-----------------------------------------------------------------------------
LEMMA RespondStep ==
    ASSUME Inv, NEW c \in Turn, Respond(c)
    PROVE  Inv'
<1>0. turn \in [Turn -> Turns] /\ client \in [Turn -> Clients]
  BY DEF Inv, TypeOK
<1> DEFINE n == IF client[c].stage = "initialize" THEN [client[c] EXCEPT !.stage = "session"]
                ELSE [client[c] EXCEPT !.stage = "prompt", !.listener = c]
<1>1. /\ n \in Clients /\ n.stage \in {"session", "prompt"}
      /\ n.dead = client[c].dead /\ n.asked = client[c].asked
      /\ n.listener = client[c].listener \/ n.listener = c
  <2>0. client[c] \in Clients
    BY <1>0
  <2>1. CASE client[c].stage = "initialize"
    <3>1. n = [client[c] EXCEPT !.stage = "session"]
      BY <2>1
    <3> QED
      BY <2>0, <3>1 DEF Clients
  <2>2. CASE client[c].stage # "initialize"
    <3>1. n = [client[c] EXCEPT !.stage = "prompt", !.listener = c]
      BY <2>2
    <3> QED
      BY <2>0, <3>1 DEF Clients
  <2> QED
    BY <2>1, <2>2
<1>2. /\ client' = [client EXCEPT ![c] = n] /\ Live(c)
      /\ UNCHANGED <<configVars, turn, pool, clock, port, registry>>
  BY DEF Respond, Live, Running
<1> HIDE DEF n
<1>3. TypeOK'
  BY <1>0, <1>1, <1>2 DEF Inv, TypeOK, ConfigTypeOK, configVars
<1>4. NoOrphans'
  BY <1>0, <1>1, <1>2 DEF Inv, NoOrphans, Live, Running
<1>5. AllFaithful'
  BY <1>0, <1>1, <1>2 DEF Inv, AllFaithful, Faithful, Live, Running
<1>6. PoolStarted'
  BY <1>0, <1>1, <1>2 DEF Inv, PoolStarted
<1> QED
  BY <1>2, <1>3, <1>4, <1>5, <1>6 DEF Inv, PortHeld, OwnAnswer

LEMMA ReplyStep ==
    ASSUME Inv, NEW c \in Turn, NEW t \in Turn, Reply(c, t)
    PROVE  Inv'
<1>0. turn \in [Turn -> Turns] /\ client \in [Turn -> Clients]
  BY DEF Inv, TypeOK
<1>1. t = c
  BY DEF Reply, Inv, AllFaithful, Faithful
<1>2. PICK r \in Turns : /\ turn' = [turn EXCEPT ![c] = r]
                         /\ r.at # "agent" /\ r.text = turn[c].text
  BY <1>0, <1>1, LeaveTyped DEF Reply
<1> DEFINE n == [client[c] EXCEPT !.asked = @ \ {c}, !.dead = TRUE]
<1>3. /\ n \in Clients /\ n.stage = client[c].stage /\ n.dead
      /\ n.asked \subseteq client[c].asked /\ n.listener = client[c].listener
  <2>1. client[c] \in Clients
    BY <1>0
  <2>2. n \in Clients
    BY <2>1 DEF Clients
  <2> QED
    BY <2>1, <2>2 DEF Clients
<1>4. /\ client' = [client EXCEPT ![c] = n]
      /\ UNCHANGED <<configVars, pool, clock, port, registry>>
  BY <1>0, <1>1 DEF Reply, AfterRunTurn, Killed
<1> HIDE DEF n
<1>5. TypeOK'
  BY <1>0, <1>2, <1>3, <1>4 DEF Inv, TypeOK, ConfigTypeOK, configVars
<1>6. PortHeld' /\ OwnAnswer'
  BY <1>0, <1>2, <1>4 DEF Inv, PortHeld, OwnAnswer
<1>7. NoOrphans'
  BY <1>0, <1>2, <1>3, <1>4 DEF Inv, NoOrphans, Running
<1>8. AllFaithful'
  BY <1>0, <1>3, <1>4 DEF Inv, AllFaithful, Faithful, Live, Running
<1>9. PoolStarted'
  BY <1>0, <1>3, <1>4 DEF Inv, PoolStarted
<1> QED
  BY <1>5, <1>6, <1>7, <1>8, <1>9 DEF Inv

(* A piece of an answer, or of a tool's result, is all that is added.      *)
LEMMA CollectStep ==
    ASSUME Inv, NEW c \in Turn, NEW t \in Turn, Chunk(c, t) \/ CallTool(c)
    PROVE  Inv'
<1>0. turn \in [Turn -> Turns] /\ client \in [Turn -> Clients]
      /\ registry \in [Tool -> Entry \cup {None}] /\ EntryOf(c) \in Entry
  BY ExecutorAssumption, CatalogAssumption DEF Inv, TypeOK, EntryOf
<1>1. PICK u \in Turn, r \in Turns :
        /\ turn' = [turn EXCEPT ![u] = r]
        /\ r.at = turn[u].at /\ r.text \in {turn[u].text, turn[u].text \cup {u}}
  <2>1. CASE Chunk(c, t)
    <3>1. client[c].listener = c /\ t = c
      BY <2>1 DEF Chunk, Inv, AllFaithful, Faithful
    <3> DEFINE r == [turn[c] EXCEPT !.text = @ \cup {c}]
    <3>2. r \in Turns /\ r.at = turn[c].at /\ r.text = turn[c].text \cup {c}
      BY <1>0 DEF Turns
    <3>3. turn' = [turn EXCEPT ![c] = r]
      BY <2>1, <3>1 DEF Chunk
    <3> QED
      BY <3>2, <3>3
  <2>2. CASE CallTool(c)
    <3> DEFINE r == [turn[c] EXCEPT !.served = @ \cup {registry[ToolOf(c)]}]
    <3>1. registry[ToolOf(c)] \in Entry \cup {None}
      BY <1>0 DEF ToolOf, Tool
    <3>2. r \in Turns /\ r.at = turn[c].at /\ r.text = turn[c].text
      BY <1>0, <3>1 DEF Turns
    <3>3. turn' = [turn EXCEPT ![c] = r]
      BY <2>2 DEF CallTool
    <3> QED
      BY <3>2, <3>3
  <2> QED
    BY <2>1, <2>2
<1>2. UNCHANGED <<configVars, client, pool, clock, port, registry>>
  BY DEF Chunk, CallTool
<1>3. TypeOK'
  BY <1>0, <1>1, <1>2 DEF Inv, TypeOK, ConfigTypeOK, configVars
<1>4. PortHeld' /\ NoOrphans' /\ OwnAnswer'
  BY <1>0, <1>1, <1>2 DEF Inv, PortHeld, NoOrphans, Running, OwnAnswer
<1> QED
  BY <1>2, <1>3, <1>4 DEF Inv, AllFaithful, Faithful, Live, Running, PoolStarted

LEMMA ExitStep ==
    ASSUME Inv, NEW c \in Turn, Exit(c)
    PROVE  Inv'
<1>0. turn \in [Turn -> Turns] /\ client \in [Turn -> Clients]
  BY DEF Inv, TypeOK
<1> DEFINE n == [client[c] EXCEPT !.stage = "exited", !.dead = TRUE, !.asked = {},
                                  !.listener = None, !.knows = FALSE]
<1>1. n \in Clients /\ n.stage = "exited" /\ n.dead /\ n.asked = {} /\ n.listener = None
  <2>1. client[c] \in Clients
    BY <1>0
  <2>2. n \in Clients
    BY <2>1 DEF Clients
  <2> QED
    BY <2>1, <2>2 DEF Clients
<1>2. /\ client' = [client EXCEPT ![c] = n]
      /\ UNCHANGED <<configVars, pool, clock, port, registry>>
  BY <1>0 DEF Exit
<1> HIDE DEF n
<1>3. /\ turn' \in [Turn -> Turns]
      /\ \A t \in Turn : /\ turn'[t].text = turn[t].text
                         /\ turn'[t].at = turn[t].at \/ turn'[t].at = "thin"
                         /\ t # c => turn'[t] = turn[t]
  BY <1>0, LeaveTyped DEF Exit, RejectPending, Inv, AllFaithful, Faithful
<1>4. TypeOK'
  BY <1>0, <1>1, <1>2, <1>3 DEF Inv, TypeOK, ConfigTypeOK, configVars
<1>5. PortHeld' /\ OwnAnswer'
  BY <1>0, <1>2, <1>3 DEF Inv, PortHeld, OwnAnswer
<1>6. NoOrphans'
  BY <1>0, <1>1, <1>2, <1>3 DEF Inv, NoOrphans, Running
<1>7. AllFaithful'
  BY <1>0, <1>1, <1>2 DEF Inv, AllFaithful, Faithful, Live, Running
<1>8. PoolStarted'
  BY <1>0, <1>1, <1>2 DEF Inv, PoolStarted
<1> QED
  BY <1>4, <1>5, <1>6, <1>7, <1>8 DEF Inv

(* Killing any clients, and forgetting entries of the pool, keeps it all.  *)
LEMMA KillStep ==
    ASSUME Inv, NEW t \in Turn, Timeout(t) \/ Reap
    PROVE  Inv'
<1>0. /\ turn \in [Turn -> Turns] /\ client \in [Turn -> Clients]
      /\ pool \in [Conf -> [client : Turn \cup {None}, at : Nat]]
  BY DEF Inv, TypeOK
<1>1. /\ client' \in [Turn -> Clients]
      /\ \A c \in Turn : /\ client'[c].stage = client[c].stage
                         /\ client'[c].asked = client[c].asked
                         /\ client'[c].listener = client[c].listener
                         /\ client[c].dead => client'[c].dead
  <2>1. CASE Timeout(t)
    BY <1>0, <2>1, KilledTyped, ZenonT(40) DEF Timeout, Killed
  <2>2. CASE Reap
    <3> DEFINE old == {k \in Pooled : client[pool[k].client].dead \/ Idle(k)}
               b(c) == client[c].dead \/ \E k \in old : pool[k].client = c
    <3>1. client' = [c \in Turn |-> [client[c] EXCEPT !.dead = b(c)]]
      BY <2>2 DEF Reap
    <3>2. \A c \in Turn : b(c) \in BOOLEAN /\ (client[c].dead => b(c))
      OBVIOUS
    <3> HIDE DEF b
    <3> QED
      BY <1>0, <3>1, <3>2, KilledTyped, ZenonT(40)
  <2> QED
    BY <2>1, <2>2
<1>2. /\ turn' \in [Turn -> Turns]
      /\ \A u \in Turn : turn'[u].at = turn[u].at /\ turn'[u].text = turn[u].text
  <2>1. CASE Timeout(t)
    <3> DEFINE r == [turn[t] EXCEPT !.timedOut = TRUE]
    <3>1. turn' = [turn EXCEPT ![t] = r]
      BY <2>1 DEF Timeout
    <3>2. r \in Turns
      <4>1. turn[t] \in Turns
        BY <1>0
      <4> QED
        BY <4>1 DEF Turns
    <3>3. r.at = turn[t].at /\ r.text = turn[t].text
      BY <1>0 DEF Turns
    <3> HIDE DEF r
    <3> QED
      BY <1>0, <3>1, <3>2, <3>3
  <2>2. CASE Reap
    BY <1>0, <2>2 DEF Reap
  <2> QED
    BY <2>1, <2>2
<1>3. /\ pool' \in [Conf -> [client : Turn \cup {None}, at : Nat]]
      /\ \A k \in Conf : pool'[k] = pool[k] \/ pool'[k] = NoEntry
  BY <1>0, ExecutorAssumption DEF Timeout, Reap, NoEntry
<1>4. UNCHANGED <<configVars, clock, port, registry>>
  BY DEF Timeout, Reap
<1>5. TypeOK'
  BY <1>1, <1>2, <1>3, <1>4 DEF Inv, TypeOK, ConfigTypeOK, configVars
<1>6. PortHeld' /\ OwnAnswer'
  BY <1>2, <1>4 DEF Inv, PortHeld, OwnAnswer
<1>7. NoOrphans'
  BY <1>1, <1>2, SMTT(30) DEF Inv, NoOrphans, Running, TypeOK, Clients
<1>8. AllFaithful'
  BY <1>0, <1>1 DEF Inv, AllFaithful, Faithful, Live, Running, Clients
<1>9. PoolStarted'
  BY <1>1, <1>3 DEF Inv, PoolStarted, NoEntry
<1> QED
  BY <1>5, <1>6, <1>7, <1>8, <1>9 DEF Inv

LEMMA ConfigKeeps ==
    ASSUME Inv, ConfigStep
    PROVE  Inv'
<1>0. turn \in [Turn -> Turns]
  BY DEF Inv, TypeOK
<1>1. ConfigTypeOK'
  BY ConfigTyped DEF Inv, TypeOK, ConfigStep
<1>2. /\ turn' \in [Turn -> Turns]
      /\ \A u \in Turn : turn'[u].at = turn[u].at /\ turn'[u].text = turn[u].text
  <2> DEFINE b(u) == turn[u].torn \/ (turn[u].at = "default" /\ row' # row)
  <2>1. turn' = [u \in Turn |-> [turn[u] EXCEPT !.torn = b(u)]]
    BY DEF ConfigStep
  <2>2. \A u \in Turn : b(u) \in BOOLEAN
    OBVIOUS
  <2> HIDE DEF b
  <2>3. \A u \in Turn : [turn[u] EXCEPT !.torn = b(u)] \in Turns
    BY <1>0, <2>2 DEF Turns
  <2>4. \A u \in Turn : [turn[u] EXCEPT !.torn = b(u)].at = turn[u].at
                         /\ [turn[u] EXCEPT !.torn = b(u)].text = turn[u].text
    BY <1>0 DEF Turns
  <2> QED
    BY <2>1, <2>3, <2>4
<1>3. UNCHANGED <<client, pool, clock, port, registry>>
  BY DEF ConfigStep
<1>4. TypeOK'
  BY <1>1, <1>2, <1>3 DEF Inv, TypeOK
<1> QED
  BY <1>2, <1>3, <1>4 DEF Inv, PortHeld, NoOrphans, AllFaithful, Faithful, Live, Running,
     PoolStarted, OwnAnswer

LEMMA StepInv == Inv /\ [Next]_vars => Inv'
<1> SUFFICES ASSUME Inv, [Next]_vars PROVE Inv'
  OBVIOUS
<1>1. CASE \E t \in Turn : TurnStep(t)
  BY <1>1, ResolvingStep, ListenStep DEF TurnStep
<1>2. CASE (\E t \in Turn : Timeout(t)) \/ Reap
  <2>1. Turn # {}
    BY <1>2 DEF Reap, Pooled, Inv, PoolStarted
  <2> QED
    BY <1>2, <2>1, KillStep
<1>3. CASE \E c \in Turn : Respond(c) \/ CallTool(c) \/ Exit(c)
  BY <1>3, RespondStep, CollectStep, ExitStep
<1>4. CASE \E c, t \in Turn : Reply(c, t) \/ Chunk(c, t)
  BY <1>4, ReplyStep, CollectStep
<1>5. CASE ConfigStep
  BY <1>5, ConfigKeeps
<1>6. CASE UNCHANGED vars
  BY <1>6 DEF vars, configVars, execVars, Inv, TypeOK, ConfigTypeOK, PortHeld, NoOrphans,
     AllFaithful, Faithful, Live, Running, PoolStarted, OwnAnswer
<1> QED
  BY <1>1, <1>2, <1>3, <1>4, <1>5, <1>6 DEF Next

LEMMA Invariance == Spec => []Inv
  BY InitInv, StepInv, PTL DEF Spec

-----------------------------------------------------------------------------
(* What every step but these four leaves of a turn's reading and tools.    *)
Special ==
    \E t \in Turn : ReadOverride(t) \/ ReadDefault(t) \/ LoadTools(t) \/ CallTool(t)

Plain(t) ==
    /\ turn'[t].at = turn[t].at \/ turn'[t].at \notin {"default", "resolved"}
    /\ turn[t].torn => turn'[t].torn
    /\ turn'[t].brokered => turn[t].brokered
    /\ client'[t].knows => client[t].knows \/ turn[t].brokered
    /\ turn'[t].served = turn[t].served

LEMMA PlainSteps ==
    ASSUME Inv, Next, ~Special
    PROVE  registry' = registry /\ \A t \in Turn : Plain(t)
<1> USE ExecutorAssumption
<1>0. turn \in [Turn -> Turns] /\ client \in [Turn -> Clients]
  BY DEF Inv, TypeOK
<1>l. \A t \in Turn : \A at \in {"thin", "agent-answered"} :
        /\ Leave(turn[t], at).at = at /\ Leave(turn[t], at).served = turn[t].served
        /\ Leave(turn[t], at).brokered = turn[t].brokered
        /\ Leave(turn[t], at).torn = turn[t].torn /\ Leave(turn[t], at) \in Turns
  BY <1>0, LeaveTyped
<1>1. ASSUME NEW t \in Turn, ResolveFails(t) \/ Decrypt(t) \/ ClosePort(t) \/ Complete(t)
      PROVE  registry' = registry /\ \A u \in Turn : Plain(u)
  <2>1. client' = client /\ registry' = registry
    BY <1>1 DEF ResolveFails, Decrypt, ClosePort, Complete
  <2>2. \A u \in Turn : u # t => turn'[u] = turn[u]
    BY <1>0, <1>1 DEF ResolveFails, Decrypt, ClosePort, Complete
  <2>3. /\ turn'[t].at = turn[t].at \/ turn'[t].at \notin {"default", "resolved"}
        /\ turn'[t].served = turn[t].served
    BY <1>0, <1>1 DEF ResolveFails, Decrypt, ClosePort, Complete, Turns
  <2>4. turn'[t].torn = turn[t].torn
    BY <1>0, <1>1 DEF ResolveFails, Decrypt, ClosePort, Complete, Turns
  <2>5. turn'[t].brokered => turn[t].brokered
    BY <1>0, <1>1 DEF ResolveFails, Decrypt, ClosePort, Complete, Turns
  <2> QED
    BY <2>1, <2>2, <2>3, <2>4, <2>5 DEF Plain
<1>2. ASSUME NEW t \in Turn, Listen(t)
      PROVE  registry' = registry /\ \A u \in Turn : Plain(u)
  <2>1. registry' = registry
    BY <1>2 DEF Listen
  <2>2. CASE PortFree
    <3>1. StartClient(t)
      BY <1>2, <2>2, FreePort DEF Warm, Listen
    <3> DEFINE kept == IF turn[t].conf \in Conf /\ Evicts
                       THEN Killed(client, pool[Oldest].client) ELSE client
    <3>k. \A u \in Turn : kept[u].knows = client[u].knows
      <4>1. \A k \in Clients : [k EXCEPT !.dead = TRUE].knows = k.knows
        BY DEF Clients
      <4>2. \A u \in Turn : kept[u] = client[u] \/ kept[u] = [client[u] EXCEPT !.dead = TRUE]
        BY <1>0 DEF Killed
      <4> QED
        BY <1>0, <4>1, <4>2
    <3>2. \A u \in Turn : u # t => turn'[u] = turn[u] /\ client'[u].knows = client[u].knows
      <4>1. \A u \in Turn : u # t => turn'[u] = turn[u]
        BY <1>0, <3>1 DEF StartClient
      <4>2. \A u \in Turn : u # t => client'[u] = kept[u]
        BY <1>0, <3>1 DEF StartClient, Killed
      <4> QED
        BY <3>k, <4>1, <4>2
    <3>3. client'[t].knows = turn[t].brokered
      BY <1>0, <3>1 DEF StartClient, Killed
    <3> DEFINE a == [turn[t] EXCEPT !.at = "agent"]
    <3>4. turn'[t] = Leave(turn[t], "thin") \/ turn'[t] = a
      BY <1>0, <3>1 DEF StartClient
    <3>5. a.at = "agent" /\ a.served = turn[t].served
      BY <1>0 DEF Turns
    <3>6. a.torn = turn[t].torn
      BY <1>0 DEF Turns
    <3>7. a.brokered = turn[t].brokered
      BY <1>0 DEF Turns
    <3> HIDE DEF a
    <3> QED
      BY <1>l, <2>1, <3>2, <3>3, <3>4, <3>5, <3>6, <3>7 DEF Plain
  <2>3. CASE ~PortFree
    <3> DEFINE r == Leave(turn[t], "thin")
               a == [r EXCEPT !.brokered = FALSE]
    <3>1. turn' = [turn EXCEPT ![t] = a] /\ client' = client
      BY <1>2, <2>3 DEF Listen
    <3> HIDE DEF r
    <3>2. r \in Turns /\ r.at = "thin" /\ r.served = turn[t].served /\ r.torn = turn[t].torn
      BY <1>l DEF r
    <3>3. a.at = "thin" /\ a.served = turn[t].served
      BY <3>2 DEF Turns
    <3>4. a.torn = turn[t].torn
      BY <3>2 DEF Turns
    <3>5. a.brokered = FALSE
      BY <3>2 DEF Turns
    <3> HIDE DEF a
    <3> QED
      BY <1>0, <2>1, <3>1, <3>3, <3>4, <3>5 DEF Plain
  <2> QED
    BY <2>2, <2>3
<1>3. ASSUME NEW t \in Turn, Timeout(t)
      PROVE  registry' = registry /\ \A u \in Turn : Plain(u)
  <2>1. registry' = registry /\ \A u \in Turn : client'[u].knows = client[u].knows
    BY <1>0, <1>3 DEF Timeout, Killed, Clients
  <2>2. turn' = [turn EXCEPT ![t].timedOut = TRUE]
    BY <1>3 DEF Timeout
  <2>3. \A u \in Turn : turn'[u].at = turn[u].at /\ turn'[u].served = turn[u].served
    BY <1>0, <2>2 DEF Turns
  <2>4. \A u \in Turn : turn'[u].torn = turn[u].torn /\ turn'[u].brokered = turn[u].brokered
    BY <1>0, <2>2 DEF Turns
  <2> QED
    BY <2>1, <2>3, <2>4 DEF Plain
<1>4. ASSUME NEW c \in Turn, Respond(c)
      PROVE  registry' = registry /\ \A u \in Turn : Plain(u)
  <2>1. registry' = registry /\ turn' = turn
    BY <1>4 DEF Respond
  <2>2. \A u \in Turn : client'[u].knows = client[u].knows
    BY <1>0, <1>4 DEF Respond, Clients
  <2> QED
    BY <2>1, <2>2 DEF Plain
<1>5. ASSUME NEW c \in Turn, Exit(c)
      PROVE  registry' = registry /\ \A u \in Turn : Plain(u)
  <2>1. registry' = registry
    BY <1>5 DEF Exit
  <2>2. \A u \in Turn : client'[u].knows => client[u].knows
    BY <1>0, <1>5 DEF Exit, Clients
  <2>3. \A u \in Turn : turn'[u] = turn[u] \/ turn'[u] = Leave(turn[u], "thin")
    BY <1>5 DEF Exit, RejectPending
  <2> QED
    BY <1>l, <2>1, <2>2, <2>3 DEF Plain
<1>6. ASSUME NEW c \in Turn, NEW t \in Turn, Reply(c, t)
      PROVE  registry' = registry /\ \A u \in Turn : Plain(u)
  <2>1. registry' = registry
    BY <1>6 DEF Reply
  <2>2. \A u \in Turn : client'[u].knows = client[u].knows
    BY <1>0, <1>6 DEF Reply, AfterRunTurn, Killed, Clients
  <2>3. \A u \in Turn : \/ turn'[u] = turn[u] \/ turn'[u] = Leave(turn[u], "thin")
                        \/ turn'[u] = Leave(turn[u], "agent-answered")
    BY <1>0, <1>6 DEF Reply
  <2> QED
    BY <1>l, <2>1, <2>2, <2>3 DEF Plain
<1>7. ASSUME NEW c \in Turn, NEW t \in Turn, Chunk(c, t)
      PROVE  registry' = registry /\ \A u \in Turn : Plain(u)
  <2> DEFINE v == client[c].listener
  <2>1. registry' = registry /\ client' = client
        /\ turn' = [turn EXCEPT ![v].text = @ \cup {t}]
    BY <1>7 DEF Chunk
  <2>2. \A u \in Turn : turn'[u].at = turn[u].at /\ turn'[u].served = turn[u].served
    BY <1>0, <2>1 DEF Turns
  <2>3. \A u \in Turn : turn'[u].torn = turn[u].torn /\ turn'[u].brokered = turn[u].brokered
    BY <1>0, <2>1 DEF Turns
  <2> QED
    BY <2>1, <2>2, <2>3 DEF Plain
<1>8. ASSUME Reap
      PROVE  registry' = registry /\ \A u \in Turn : Plain(u)
  <2>1. registry' = registry /\ turn' = turn
    BY <1>8 DEF Reap
  <2>2. \A u \in Turn : client'[u].knows = client[u].knows
    BY <1>0, <1>8 DEF Reap, Clients
  <2> QED
    BY <2>1, <2>2 DEF Plain
<1>9. ASSUME ConfigStep
      PROVE  registry' = registry /\ \A u \in Turn : Plain(u)
  <2> DEFINE b(u) == turn[u].torn \/ (turn[u].at = "default" /\ row' # row)
  <2>1. turn' = [u \in Turn |-> [turn[u] EXCEPT !.torn = b(u)]]
        /\ registry' = registry /\ client' = client
    BY <1>9 DEF ConfigStep
  <2>2. \A u \in Turn : b(u) \in BOOLEAN /\ (turn[u].torn => b(u))
    OBVIOUS
  <2> HIDE DEF b
  <2>3. \A u \in Turn : turn'[u].at = turn[u].at /\ turn'[u].served = turn[u].served
    BY <1>0, <2>1 DEF Turns
  <2>4. \A u \in Turn : turn'[u].brokered = turn[u].brokered
    BY <1>0, <2>1 DEF Turns
  <2>5. \A u \in Turn : turn'[u].torn = b(u)
    BY <1>0, <2>1 DEF Turns
  <2> QED
    BY <2>1, <2>2, <2>3, <2>4, <2>5 DEF Plain
<1> QED
  BY <1>1, <1>2, <1>3, <1>4, <1>5, <1>6, <1>7, <1>8, <1>9 DEF Next, TurnStep, Special

-----------------------------------------------------------------------------
(* Tools: what is registered under the name of a turn's tool, and serves   *)
(* it, is the entry of its persona or another tenant's namesake, and there *)
(* is something once the turn has loaded its own.                          *)
MayServe(t) == {e \in Entry : e = EntryOf(t) \/ Namesake(e, EntryOf(t))}

Bound(t) == registry[ToolOf(t)]

ToolInv ==
    \A t \in Turn :
        /\ Bound(t) \in MayServe(t) \cup {None}
        /\ turn[t].brokered \/ client[t].knows => Bound(t) # None
        /\ turn[t].served \subseteq MayServe(t)

(* Names are unique within a tenant: what another turn registers under a   *)
(* turn's name is the entry bound to both or a namesake of it.             *)
LEMMA SameNameMayServe ==
    ASSUME NEW t \in Turn, NEW u \in Turn, ToolOf(u) = ToolOf(t)
    PROVE  EntryOf(t) \in MayServe(u)
BY ExecutorAssumption, CatalogAssumption DEF MayServe, Namesake, EntryOf, ToolOf

LEMMA ToolStep ==
    ASSUME Inv, ToolInv, [Next]_vars
    PROVE  ToolInv'
<1> USE ExecutorAssumption
<1>0. turn \in [Turn -> Turns] /\ client \in [Turn -> Clients]
      /\ registry \in [Tool -> Entry \cup {None}]
      /\ \A t \in Turn : EntryOf(t) \in Entry /\ ToolOf(t) \in Tool
  BY CatalogAssumption DEF Inv, TypeOK, Tool, ToolOf, EntryOf
<1>1. ASSUME registry' = registry, \A t \in Turn : Plain(t) PROVE ToolInv'
  BY <1>1 DEF ToolInv, Bound, Plain
<1>2. ASSUME NEW t \in Turn, ReadOverride(t) \/ ReadDefault(t) PROVE ToolInv'
  <2>1. client' = client /\ registry' = registry
    BY <1>2 DEF ReadOverride, ReadDefault
  <2> DEFINE a(k) == [turn[t] EXCEPT !.at = "resolved", !.conf = k]
             b(k) == [turn[t] EXCEPT !.at = "resolved", !.torn = FALSE, !.conf = k]
             d == [turn[t] EXCEPT !.at = "default"]
  <2>a. \E k : turn' \in {[turn EXCEPT ![t] = a(k)], [turn EXCEPT ![t] = b(k)],
                          [turn EXCEPT ![t] = d]}
    <3>1. CASE ReadOverride(t)
      BY <3>1 DEF ReadOverride
    <3>2. CASE ReadDefault(t)
      BY <3>2 DEF ReadDefault
    <3> QED
      BY <1>2, <3>1, <3>2
  <2>b. \A k : /\ a(k).served = turn[t].served /\ b(k).served = turn[t].served
               /\ d.served = turn[t].served
    BY <1>0 DEF Turns
  <2>c. \A k : /\ a(k).brokered = turn[t].brokered /\ b(k).brokered = turn[t].brokered
               /\ d.brokered = turn[t].brokered
    BY <1>0 DEF Turns
  <2> HIDE DEF a, b, d
  <2>2. \A u \in Turn : turn'[u].served = turn[u].served
    BY <1>0, <2>a, <2>b
  <2>3. \A u \in Turn : turn'[u].brokered = turn[u].brokered
    BY <1>0, <2>a, <2>c
  <2> QED
    BY <2>1, <2>2, <2>3 DEF ToolInv, Bound
<1>3. ASSUME NEW t \in Turn, LoadTools(t) PROVE ToolInv'
  <2>1. client' = client
    BY <1>3 DEF LoadTools
  <2>2. PICK found \in Discovered :
          /\ turn' = [turn EXCEPT ![t] = [turn[t] EXCEPT !.at = "listen", !.brokered = found]]
          /\ registry' = IF found THEN [registry EXCEPT ![ToolOf(t)] = EntryOf(t)]
                         ELSE registry
    BY <1>0, <1>3 DEF LoadTools
  <2>3. \A u \in Turn : turn'[u].served = turn[u].served
    BY <1>0, <2>2 DEF Turns
  <2>4. /\ \A u \in Turn : u # t => turn'[u].brokered = turn[u].brokered
        /\ turn'[t].brokered = found
    BY <1>0, <2>2 DEF Turns
  <2>5. \A u \in Turn : Bound(u)' = Bound(u)
                        \/ (Bound(u)' = EntryOf(t) /\ ToolOf(u) = ToolOf(t))
    BY <1>0, <2>2 DEF Bound
  <2>6. \A u \in Turn : Bound(u)' = Bound(u) \/ Bound(u)' \in MayServe(u)
    BY <2>5, SameNameMayServe
  <2>7. found => Bound(t)' = EntryOf(t)
    BY <1>0, <2>2 DEF Bound
  <2>8. \A u \in Turn : None \notin MayServe(u)
    BY DEF MayServe
  <2> QED
    BY <1>0, <2>1, <2>3, <2>4, <2>6, <2>7, <2>8 DEF ToolInv
<1>4. ASSUME NEW c \in Turn, CallTool(c) PROVE ToolInv'
  <2>1. client' = client /\ registry' = registry
        /\ turn' = [turn EXCEPT ![c].served = @ \cup {Bound(c)}] /\ client[c].knows
    BY <1>4 DEF CallTool, Bound
  <2>2. Bound(c) \in MayServe(c)
    BY <2>1 DEF ToolInv
  <2>3. \A u \in Turn : turn'[u].served = turn[u].served
                        \/ (u = c /\ turn'[u].served = turn[u].served \cup {Bound(c)})
    BY <1>0, <2>1 DEF Turns
  <2>4. \A u \in Turn : turn'[u].brokered = turn[u].brokered
    BY <1>0, <2>1 DEF Turns
  <2> QED
    BY <2>1, <2>2, <2>3, <2>4 DEF ToolInv, Bound
<1>5. CASE UNCHANGED vars
  BY <1>5 DEF vars, execVars, ToolInv, Bound
<1> QED
  BY <1>1, <1>2, <1>3, <1>4, <1>5, PlainSteps DEF Special

-----------------------------------------------------------------------------
(* The pool.                                                               *)
LEMMA PoolInit == Init => PoolBounded
<1> SUFFICES ASSUME Init PROVE PoolBounded
  OBVIOUS
<1>1. Pooled = {}
  BY DEF Init, Pooled
<1> QED
  BY <1>1, FS_EmptySet, ExecutorAssumption DEF PoolBounded

LEMMA PoolStep ==
    ASSUME Inv, PoolBounded, [Next]_vars
    PROVE  PoolBounded'
<1>0. /\ pool \in [Conf -> [client : Turn \cup {None}, at : Nat]]
      /\ MaxPool \in Nat /\ Cardinality(Pooled) \in Nat /\ IsFiniteSet(Pooled)
      /\ Cardinality(Pooled) <= MaxPool
  BY ExecutorAssumption, PooledFinite DEF Inv, TypeOK, PoolBounded
<1>1. ASSUME NEW S, IsFiniteSet(S), Cardinality(S) <= MaxPool, Pooled' \subseteq S
      PROVE  PoolBounded'
  <2>1. Cardinality(Pooled') <= Cardinality(S) /\ IsFiniteSet(Pooled')
    BY <1>1, FS_Subset
  <2>2. Cardinality(S) \in Nat /\ Cardinality(Pooled') \in Nat
    BY <1>1, <2>1, FS_CardinalityType
  <2> QED
    BY <1>0, <1>1, <2>1, <2>2 DEF PoolBounded
<1>2. ASSUME NEW t \in Turn, Listen(t) PROVE PoolBounded'
  <2>1. CASE ~PortFree
    <3>1. Pooled' = Pooled
      BY <1>2, <2>1 DEF Listen, Pooled
    <3> QED
      BY <1>0, <1>1, <3>1
  <2>2. CASE PortFree
    <3> DEFINE conf == turn[t].conf
    <3>1. StartClient(t)
      BY <1>2, <2>2, FreePort DEF Warm, Listen
    <3>2. CASE conf \in Conf /\ Evicts
      <4>1. Oldest \in Pooled
        BY <3>2, EvictedIsPooled DEF Inv
      <4>2. pool' = [[pool EXCEPT ![Oldest] = NoEntry] EXCEPT
                       ![conf] = [client |-> t, at |-> clock + 1]]
        BY <3>1, <3>2 DEF StartClient
      <4>3. Pooled' \subseteq (Pooled \ {Oldest}) \cup {conf}
        BY <1>0, <4>2 DEF Pooled
      <4>4. /\ IsFiniteSet(Pooled \ {Oldest})
            /\ Cardinality(Pooled \ {Oldest}) = Cardinality(Pooled) - 1
        BY <1>0, <4>1, FS_RemoveElement
      <4> DEFINE S == Pooled \ {Oldest}
      <4> HIDE DEF conf, S
      <4>5. /\ IsFiniteSet(S \cup {conf})
            /\ Cardinality(S \cup {conf}) \in {Cardinality(S), Cardinality(S) + 1}
        BY <4>4, FS_AddElement DEF S
      <4>6. Cardinality(S \cup {conf}) <= MaxPool
        BY <1>0, <4>4, <4>5 DEF S
      <4> QED
        BY <1>1, <4>3, <4>5, <4>6 DEF S
    <3>3. CASE conf \in Conf /\ ~Evicts
      <4>1. pool' = [pool EXCEPT ![conf] = [client |-> t, at |-> clock + 1]]
        BY <3>1, <3>3 DEF StartClient
      <4>2. Pooled' \subseteq Pooled \cup {conf}
        BY <1>0, <4>1 DEF Pooled
      <4>3. Cardinality(Pooled) < MaxPool
        BY <1>0, <3>3 DEF Evicts
      <4> HIDE DEF conf
      <4>4. /\ IsFiniteSet(Pooled \cup {conf})
            /\ Cardinality(Pooled \cup {conf}) \in {Cardinality(Pooled), Cardinality(Pooled) + 1}
        BY <1>0, FS_AddElement
      <4>5. Cardinality(Pooled \cup {conf}) <= MaxPool
        BY <1>0, <4>3, <4>4
      <4> QED
        BY <1>1, <4>2, <4>4, <4>5
    <3>4. CASE conf \notin Conf
      <4>1. Pooled' = Pooled
        BY <3>1, <3>4 DEF StartClient, Pooled
      <4> QED
        BY <1>0, <1>1, <4>1
    <3> QED
      BY <3>2, <3>3, <3>4
  <2> QED
    BY <2>1, <2>2
<1>3. ASSUME Reap PROVE PoolBounded'
  <2>1. Pooled' \subseteq Pooled
    BY <1>3 DEF Reap, Pooled
  <2> QED
    BY <1>0, <1>1, <2>1
<1>4. ASSUME pool' = pool PROVE PoolBounded'
  BY <1>4 DEF PoolBounded, Pooled
<1>5. CASE Next
  BY <1>2, <1>3, <1>4, <1>5 DEF Next, TurnStep, ReadOverride, ReadDefault, ResolveFails, Decrypt,
     LoadTools, ClosePort, Complete, Timeout, Respond, CallTool, Exit, Reply, Chunk, ConfigStep
<1>6. CASE UNCHANGED vars
  BY <1>4, <1>6 DEF vars, execVars
<1> QED
  BY <1>5, <1>6

-----------------------------------------------------------------------------
(* An eviction or a reaping never meets a client at work.                  *)
KillsNobodyElses ==
    \A c \in Turn :
        Running(c) /\ ~client[c].dead /\ client'[c].dead
            => turn'[c].at # "agent" \/ turn'[c].timedOut \/ client'[c].stage = "exited"

LEMMA KillsStep ==
    ASSUME Inv, [Next]_vars
    PROVE  KillsNobodyElses
<1> SUFFICES ASSUME NEW c \in Turn, Live(c), client'[c].dead
             PROVE  turn'[c].at # "agent" \/ turn'[c].timedOut \/ client'[c].stage = "exited"
  BY DEF KillsNobodyElses, Live
<1>0. turn \in [Turn -> Turns] /\ client \in [Turn -> Clients]
      /\ turn[c].at = "agent" /\ client[c].asked = {c}
  BY DEF Inv, TypeOK, NoOrphans, AllFaithful, Faithful, Live
<1>1. ASSUME NEW t \in Turn, Listen(t) PROVE FALSE
  <2>1. ~PortFree
    BY FreePort
  <2> QED
    BY <1>1, <2>1 DEF Listen, Live
<1>2. ASSUME NEW t \in Turn, Timeout(t) PROVE turn'[c].timedOut
  <2>1. t = c
    BY <1>0, <1>2 DEF Timeout, Killed, Live
  <2> QED
    BY <1>0, <1>2, <2>1 DEF Timeout, Turns
<1>3. ASSUME NEW d \in Turn, Respond(d) PROVE FALSE
  <2>1. client'[c].dead = client[c].dead
    BY <1>0, <1>3 DEF Respond, Clients
  <2> QED
    BY <2>1 DEF Live
<1>4. ASSUME NEW d \in Turn, Exit(d) PROVE client'[c].stage = "exited"
  <2>1. c = d
    BY <1>0, <1>4 DEF Exit, Live
  <2> QED
    BY <1>0, <1>4, <2>1 DEF Exit, Clients
<1>5. ASSUME NEW d \in Turn, NEW t \in Turn, Reply(d, t) PROVE turn'[c].at # "agent"
  <2>1. t = d
    BY <1>5 DEF Reply, Inv, AllFaithful, Faithful
  <2>2. c = d
    BY <1>0, <1>5, <2>1 DEF Reply, AfterRunTurn, Killed, Live
  <2>3. \E at \in {"thin", "agent-answered"} : turn' = [turn EXCEPT ![t] = Leave(turn[t], at)]
    BY <1>0, <1>5 DEF Reply
  <2> QED
    BY <1>0, <2>1, <2>2, <2>3, LeaveTyped
<1>6. ASSUME Reap PROVE FALSE
  <2> DEFINE old == {k \in Pooled : client[pool[k].client].dead \/ Idle(k)}
             b(d) == client[d].dead \/ \E k \in old : pool[k].client = d
  <2>1. client' = [d \in Turn |-> [client[d] EXCEPT !.dead = b(d)]]
    BY <1>6 DEF Reap
  <2>2. \A d \in Turn : b(d) \in BOOLEAN
    OBVIOUS
  <2>3. ~b(c)
    BY <1>0 DEF Idle, Live
  <2> HIDE DEF b
  <2>4. client'[c].dead = b(c)
    BY <1>0, <2>1, <2>2, KilledTyped
  <2> QED
    BY <2>3, <2>4
<1>7. client' # client
  BY DEF Live
<1> QED
  BY <1>1, <1>2, <1>3, <1>4, <1>5, <1>6, <1>7 DEF Next, TurnStep, ReadOverride, ReadDefault,
     ResolveFails, Decrypt, LoadTools, ClosePort, Complete, CallTool, Chunk, ConfigStep, vars, execVars

-----------------------------------------------------------------------------
(* What a turn and a save have read still holds unless they were marked.   *)
ConfigInv ==
    /\ \A t \in Turn :
         turn[t].at = "default" /\ ~turn[t].torn => ~EnabledRow(PersonaOf[t])
    /\ \A w \in Saver :
         save[w].at = "update" /\ ~save[w].raced =>
             save[w].expected = AnyVersion \/ row[save[w].scope].version = save[w].expected

(* A write to scope s marks every save that has read it.                   *)
LEMMA Overtaken ==
    ASSUME NEW s, NEW f \in [Saver -> Saves], NEW w \in Saver,
           Overtake(s, f)[w].at = "update", ~Overtake(s, f)[w].raced
    PROVE  f[w].at = "update" /\ ~f[w].raced /\ f[w].scope # s
           /\ Overtake(s, f)[w].scope = f[w].scope /\ Overtake(s, f)[w].expected = f[w].expected
<1> DEFINE b == f[w].raced \/ (f[w].at \in {"update", "insert"} /\ f[w].scope = s)
           x == [f[w] EXCEPT !.raced = b]
<1>1. Overtake(s, f)[w] = x
  BY DEF Overtake
<1>2. b \in BOOLEAN /\ f[w] \in Saves
  OBVIOUS
<1> HIDE DEF b
<1>3. x.at = f[w].at /\ x.scope = f[w].scope /\ x.expected = f[w].expected
  BY <1>2 DEF Saves
<1>4. x.raced = b
  BY <1>2 DEF Saves
<1> HIDE DEF x
<1> QED
  BY <1>1, <1>3, <1>4 DEF b

LEMMA SaveStep ==
    ASSUME ConfigTypeOK, ConfigInv, ConfigNext
    PROVE  \A w \in Saver :
             save'[w].at = "update" /\ ~save'[w].raced =>
               save'[w].expected = AnyVersion \/ row'[save'[w].scope].version = save'[w].expected
<1> SUFFICES ASSUME NEW x \in Saver, save'[x].at = "update", ~save'[x].raced
             PROVE  save'[x].expected = AnyVersion
                    \/ row'[save'[x].scope].version = save'[x].expected
  OBVIOUS
<1>0. save \in [Saver -> Saves] /\ row \in [Scope -> Rows \cup {NoRow}]
      /\ \A w \in Saver : save[w].scope \in Scope
  BY DEF ConfigTypeOK, Saves
<1>n. NewSave \in Saves
  BY ConfigAssumption DEF NewSave, Saves
<1>o. \A at \in {"saved", "refused", "failed"} : Over(at) \in Saves /\ Over(at).at = at
  BY <1>n DEF Over, Saves
<1>1. ASSUME row' = row, save'[x] = save[x]
      PROVE  save'[x].expected = AnyVersion
             \/ row'[save'[x].scope].version = save'[x].expected
  BY <1>1 DEF ConfigInv
<1>2. ASSUME NEW s \in Scope, NEW f \in [Saver -> Saves], save' = Overtake(s, f),
             f[x].at = "update" => f[x] = save[x], \A r \in Scope : r # s => row'[r] = row[r]
      PROVE  save'[x].expected = AnyVersion
             \/ row'[save'[x].scope].version = save'[x].expected
  <2>1. /\ f[x] = save[x] /\ save[x].at = "update" /\ ~save[x].raced /\ save[x].scope # s
        /\ save'[x].scope = save[x].scope /\ save'[x].expected = save[x].expected
    BY <1>2, Overtaken
  <2> QED
    BY <1>0, <1>2, <2>1 DEF ConfigInv
<1>3. ASSUME NEW w \in Saver, NEW s \in Scope, NEW c \in Conf, NEW e \in BOOLEAN,
             NEW v \in (0..MaxVersion) \cup {AnyVersion}, SelectExisting(w, s, c, e, v)
      PROVE  save'[x].expected = AnyVersion
             \/ row'[save'[x].scope].version = save'[x].expected
  <2>1. CASE x # w
    BY <1>0, <1>1, <1>3, <2>1 DEF SelectExisting
  <2>2. CASE x = w
    <3>1. ~(row[s] # NoRow /\ LockRefuses(s, v))
      BY <1>0, <1>3, <1>o, <2>2 DEF SelectExisting
    <3>2. save'[x] = [at |-> IF row[s] = NoRow THEN "insert" ELSE "update",
               scope |-> s, conf |-> c, enabled |-> e, expected |-> v,
               id |-> IF row[s] = NoRow THEN 0 ELSE row[s].id,
               version |-> IF row[s] = NoRow THEN 0 ELSE row[s].version,
               raced |-> FALSE]
      BY <1>0, <1>3, <2>2, <3>1 DEF SelectExisting
    <3>3. row' = row /\ row[s] # NoRow
      BY <1>3, <3>2 DEF SelectExisting
    <3> QED
      BY <3>1, <3>2, <3>3 DEF LockRefuses
  <2> QED
    BY <2>1, <2>2
<1>4. ASSUME NEW w \in Saver, UpdateRow(w)
      PROVE  save'[x].expected = AnyVersion
             \/ row'[save'[x].scope].version = save'[x].expected
  <2> DEFINE s == save[w].scope
             f == [save EXCEPT ![w].at = "fetch"]
  <2>1. f \in [Saver -> Saves] /\ f[w].at = "fetch" /\ \A y \in Saver : y # w => f[y] = save[y]
    BY <1>0 DEF Saves
  <2>2. CASE row[s] # NoRow /\ row[s].id = save[w].id
    <3>1. save' = Overtake(s, f) /\ \A r \in Scope : r # s => row'[r] = row[r]
      BY <1>0, <1>4, <2>2 DEF UpdateRow
    <3> HIDE DEF f
    <3> QED
      BY <1>0, <1>2, <2>1, <3>1
  <2>3. CASE ~(row[s] # NoRow /\ row[s].id = save[w].id)
    <3>1. save' = f /\ row' = row
      BY <1>4, <2>3 DEF UpdateRow
    <3> HIDE DEF f
    <3> QED
      BY <1>1, <2>1, <3>1
  <2> QED
    BY <2>2, <2>3
<1>5. ASSUME NEW w \in Saver, Refetch(w)
      PROVE  save'[x].expected = AnyVersion
             \/ row'[save'[x].scope].version = save'[x].expected
  BY <1>0, <1>1, <1>5, <1>o DEF Refetch
<1>6. ASSUME NEW w \in Saver, InsertRow(w)
      PROVE  save'[x].expected = AnyVersion
             \/ row'[save'[x].scope].version = save'[x].expected
  <2> DEFINE s == save[w].scope
             f == [save EXCEPT ![w] = Over("saved")]
  <2>1. CASE row[s] = NoRow
    <3>1. f \in [Saver -> Saves] /\ f[w].at = "saved" /\ \A y \in Saver : y # w => f[y] = save[y]
      BY <1>0, <1>o
    <3>2. save' = Overtake(s, f) /\ \A r \in Scope : r # s => row'[r] = row[r]
      BY <1>0, <1>6, <2>1 DEF InsertRow
    <3> HIDE DEF f
    <3> QED
      BY <1>0, <1>2, <3>1, <3>2
  <2>2. CASE row[s] # NoRow
    BY <1>0, <1>1, <1>6, <1>o, <2>2 DEF InsertRow
  <2> QED
    BY <2>1, <2>2
<1>7. ASSUME NEW s \in Scope, DeleteRow(s)
      PROVE  save'[x].expected = AnyVersion
             \/ row'[save'[x].scope].version = save'[x].expected
  BY <1>0, <1>2, <1>7 DEF DeleteRow
<1> QED
  BY <1>3, <1>4, <1>5, <1>6, <1>7 DEF ConfigNext

LEMMA ConfigInit1 == Init => ConfigInv
  BY ConfigAssumption DEF Init, ConfigInit, ConfigInv, NewSave

LEMMA ConfigStep1 ==
    ASSUME Inv, ConfigInv, [Next]_vars
    PROVE  ConfigInv'
<1> USE ExecutorAssumption
<1>0. turn \in [Turn -> Turns] /\ ConfigTypeOK
  BY DEF Inv, TypeOK
<1>1. ASSUME row' = row, save' = save,
             \A t \in Turn : turn'[t].at = "default" /\ ~turn'[t].torn =>
                 (turn[t].at = "default" /\ ~turn[t].torn) \/ ~EnabledRow(PersonaOf[t])
      PROVE  ConfigInv'
  BY <1>1 DEF ConfigInv, EnabledRow
<1>2. CASE ConfigStep
  <2> DEFINE b(u) == turn[u].torn \/ (turn[u].at = "default" /\ row' # row)
  <2>1. turn' = [u \in Turn |-> [turn[u] EXCEPT !.torn = b(u)]] /\ ConfigNext
    BY <1>2 DEF ConfigStep
  <2>2. \A u \in Turn : b(u) \in BOOLEAN
    OBVIOUS
  <2> HIDE DEF b
  <2>3. \A u \in Turn : turn'[u].at = turn[u].at
    BY <1>0, <2>1 DEF Turns
  <2>4. \A u \in Turn : turn'[u].torn = b(u)
    BY <1>0, <2>1, <2>2 DEF Turns
  <2>5. ASSUME NEW t \in Turn, turn'[t].at = "default", ~turn'[t].torn
        PROVE  ~EnabledRow(PersonaOf[t])'
    <3>1. turn[t].at = "default" /\ ~turn[t].torn /\ row' = row
      BY <2>3, <2>4, <2>5 DEF b
    <3> QED
      BY <3>1 DEF ConfigInv, EnabledRow
  <2> QED
    BY <1>0, <2>1, <2>5, SaveStep DEF ConfigInv
<1>3. CASE Next /\ ~ConfigStep
  <2>1. row' = row /\ save' = save
    BY <1>3 DEF Next, TurnStep, ReadOverride, ReadDefault, ResolveFails, Decrypt, LoadTools,
       Listen, ClosePort, Complete, Timeout, Respond, CallTool, Exit, Reply, Chunk, Reap, configVars
  <2>2. CASE ~Special
    BY <1>1, <1>3, <2>1, <2>2, PlainSteps DEF Plain
  <2>3. ASSUME NEW t \in Turn, ReadOverride(t) PROVE ConfigInv'
    <3> DEFINE p == PersonaOf[t]
               a == [turn[t] EXCEPT !.at = "resolved", !.conf = row[p].conf]
    <3>1. turn' = [turn EXCEPT ![t] = IF EnabledRow(p) THEN a ELSE [@ EXCEPT !.at = "default"]]
      BY <2>3 DEF ReadOverride
    <3>2. a.at = "resolved"
      BY <1>0 DEF Turns
    <3> HIDE DEF a
    <3>3. \A u \in Turn : u # t => turn'[u] = turn[u]
      BY <1>0, <3>1
    <3>4. EnabledRow(p) => turn'[t].at = "resolved"
      BY <1>0, <3>1, <3>2
    <3> QED
      BY <1>1, <2>1, <3>3, <3>4
  <2>4. ASSUME NEW t \in Turn, ReadDefault(t) PROVE ConfigInv'
    <3> DEFINE d == TenantOf[PersonaOf[t]]
               a == [turn[t] EXCEPT !.at = "resolved", !.torn = FALSE,
                       !.conf = IF EnabledRow(d) THEN row[d].conf ELSE Platform]
    <3>1. turn' = [turn EXCEPT ![t] = a]
      BY <2>4 DEF ReadDefault
    <3>2. a.at = "resolved"
      BY <1>0 DEF Turns
    <3> HIDE DEF a
    <3> QED
      BY <1>0, <1>1, <2>1, <3>1, <3>2
  <2>5. ASSUME NEW t \in Turn, LoadTools(t) PROVE ConfigInv'
    <3>1. \A u \in Turn : turn'[u] = turn[u] \/ turn'[u].at = "listen"
      BY <1>0, <2>5 DEF LoadTools, Turns
    <3> QED
      BY <1>1, <2>1, <3>1
  <2>6. ASSUME NEW c \in Turn, CallTool(c) PROVE ConfigInv'
    <3> DEFINE a == [turn[c] EXCEPT !.served = @ \cup {registry[ToolOf(c)]}]
    <3>1. turn' = [turn EXCEPT ![c] = a]
      BY <2>6 DEF CallTool
    <3>2. a.at = turn[c].at
      BY <1>0 DEF Turns
    <3>3. a.torn = turn[c].torn
      BY <1>0 DEF Turns
    <3> HIDE DEF a
    <3> QED
      BY <1>0, <1>1, <2>1, <3>1, <3>2, <3>3
  <2> QED
    BY <2>2, <2>3, <2>4, <2>5, <2>6 DEF Special
<1>4. CASE UNCHANGED vars
  BY <1>4 DEF vars, configVars, execVars, ConfigInv, EnabledRow
<1> QED
  BY <1>2, <1>3, <1>4

(* The two halves of ConfigIsEffective, of one step.                       *)
TurnResolves(t) ==
    turn[t].at \in {"idle", "default"} /\ turn'[t].at = "resolved" /\ ~turn[t].torn
        => turn'[t].conf = Effective(PersonaOf[t])

SaveReplaces(w) ==
    save[w].at = "update" /\ save'[w].at = "fetch" /\ ~save[w].raced
    /\ save[w].expected # AnyVersion
        => row[save[w].scope].version = save[w].expected

LEMMA ResolvesEffective ==
    ASSUME Inv, ConfigInv, [Next]_vars, NEW t \in Turn
    PROVE  TurnResolves(t)
<1> USE ExecutorAssumption
<1>0. turn \in [Turn -> Turns]
  BY DEF Inv, TypeOK
<1> SUFFICES ASSUME turn[t].at \in {"idle", "default"}, turn'[t].at = "resolved",
                    ~turn[t].torn
             PROVE  turn'[t].conf = Effective(PersonaOf[t])
  BY DEF TurnResolves
<1> DEFINE p == PersonaOf[t]
           d == TenantOf[p]
<1>1. CASE ReadOverride(t)
  <2> DEFINE a == [turn[t] EXCEPT !.at = "resolved", !.conf = row[p].conf]
             z == [turn[t] EXCEPT !.at = "default"]
  <2>1. turn' = [turn EXCEPT ![t] = IF EnabledRow(p) THEN a ELSE z]
    BY <1>1 DEF ReadOverride
  <2>2. a.conf = row[p].conf /\ z.at = "default"
    BY <1>0 DEF Turns
  <2> HIDE DEF a, z
  <2>3. EnabledRow(p) /\ turn'[t].conf = row[p].conf
    BY <1>0, <2>1, <2>2
  <2> QED
    BY <2>3 DEF Effective, EnabledRow
<1>2. CASE ReadDefault(t)
  <2> DEFINE k == IF EnabledRow(d) THEN row[d].conf ELSE Platform
             a == [turn[t] EXCEPT !.at = "resolved", !.torn = FALSE, !.conf = k]
  <2>1. turn' = [turn EXCEPT ![t] = a] /\ turn[t].at = "default"
    BY <1>2 DEF ReadDefault
  <2>2. a.conf = k
    BY <1>0 DEF Turns
  <2> HIDE DEF a
  <2>3. turn'[t].conf = k /\ ~EnabledRow(p)
    BY <1>0, <2>1, <2>2 DEF ConfigInv
  <2> QED
    BY <2>3 DEF Effective, EnabledRow
<1>3. CASE ~ReadOverride(t) /\ ~ReadDefault(t) /\ Next /\ Special
  <2>1. PICK u \in Turn : ReadOverride(u) \/ ReadDefault(u) \/ LoadTools(u) \/ CallTool(u)
    BY <1>3 DEF Special
  <2>2. CASE ReadOverride(u) \/ ReadDefault(u)
    <3>1. u # t /\ turn'[t] = turn[t]
      BY <1>0, <1>3, <2>2 DEF ReadOverride, ReadDefault
    <3> QED
      BY <3>1
  <2>3. CASE LoadTools(u)
    BY <1>0, <2>3 DEF LoadTools, Turns
  <2>4. CASE CallTool(u)
    <3>1. turn'[t].at = turn[t].at
      BY <1>0, <2>4 DEF CallTool, Turns
    <3> QED
      BY <3>1
  <2> QED
    BY <2>1, <2>2, <2>3, <2>4
<1>4. CASE Next /\ ~Special
  BY <1>4, PlainSteps DEF Plain
<1>5. CASE UNCHANGED vars
  BY <1>5 DEF vars, execVars
<1> QED
  BY <1>1, <1>2, <1>3, <1>4, <1>5

-----------------------------------------------------------------------------
(* Every reachable state is well typed.                                    *)
THEOREM TypeCorrect == Spec => []TypeOK
<1>1. Inv => TypeOK
  BY DEF Inv
<1> QED
  BY <1>1, Invariance, PTL

(* Each turn collects its own answer, and is served by the server bound to *)
(* its persona, or by another tenant's of the same name.                   *)
THEOREM OwnWorkOnly == Spec => []OwnWork
<1>1. Init => ToolInv
  BY ExecutorAssumption, CatalogAssumption DEF Init, ToolInv, Bound, Tool, ToolOf, EntryOf
<1>2. Inv /\ ToolInv /\ [Next]_vars => ToolInv'
  BY ToolStep
<1>3. Inv /\ ToolInv => OwnWork
  BY DEF Inv, ToolInv, OwnWork, OwnTools, MayServe
<1> QED
  BY <1>1, <1>2, <1>3, Invariance, PTL DEF Spec

(* No process is left behind, and the pool keeps to its limit.             *)
THEOREM AgentsAreAccounted == Spec => []AgentsAccounted
<1>1. Inv /\ PoolBounded /\ [Next]_vars => PoolBounded'
  BY PoolStep
<1>2. Inv /\ PoolBounded => AgentsAccounted
  BY DEF Inv, AgentsAccounted
<1> QED
  BY <1>1, <1>2, PoolInit, Invariance, PTL DEF Spec

(* No eviction and no reaping ends a client at work for another's turn.    *)
THEOREM NobodyElseKills == Spec => OnlyOwnerKills
<1>1. Inv /\ [Next]_vars => [KillsNobodyElses]_vars
  BY KillsStep
<1>2. KillsNobodyElses =>
        \A c \in Turn : Running(c) /\ ~client[c].dead /\ client'[c].dead
           => turn'[c].at # "agent" \/ turn'[c].timedOut \/ client'[c].stage = "exited"
  BY DEF KillsNobodyElses
<1> QED
  BY <1>1, <1>2, Invariance, PTL DEF Spec, OnlyOwnerKills

(* A turn resolves the effective configuration unless a write fell between *)
(* its reads, and a save replaces the version it expected unless it was    *)
(* overtaken.                                                              *)
THEOREM ResolvesWhatIsEffective == Spec => ConfigIsEffective
<1>1. Inv /\ ConfigInv /\ [Next]_vars => ConfigInv'
  BY ConfigStep1
<1>2. Spec => [](Inv /\ ConfigInv)
  BY <1>1, ConfigInit1, Invariance, PTL DEF Spec
<1>3. Inv /\ ConfigInv /\ [Next]_vars =>
        (\A t \in Turn : TurnResolves(t)) /\ (\A w \in Saver : SaveReplaces(w))
  BY ResolvesEffective DEF ConfigInv, SaveReplaces
<1>4. Inv /\ ConfigInv /\ [Next]_vars =>
        [(\A t \in Turn : TurnResolves(t)) /\ (\A w \in Saver : SaveReplaces(w))]_vars
  BY <1>3
<1> QED
  BY <1>2, <1>4, PTL DEF Spec, ConfigIsEffective, TurnResolves, SaveReplaces

-----------------------------------------------------------------------------
(* The gateway.                                                            *)

Permitted(c) == tool[c] \in (Allowed \cap MayWrite) \ Confirmed

\* A call past the gates is permitted; it has no effect before its turn, and holds a
\* pending row of its own while it runs.
StageInv(c) ==
  /\ pc[c] \in Active => tool[c] \in Allowed \ Confirmed
  /\ pc[c] \in {"reserving", "running", "ran", "threw"} => IsWrite(c) /\ Permitted(c)
  /\ pc[c] \in {"reading", "noting"} => ~IsWrite(c)
  /\ pc[c] \in {"new", "called", "reserving", "running"} => c \notin ran
  /\ pc[c] \in {"running", "ran", "threw"} => c \in author /\ audit[key[c]] = "pending"
  /\ pc[c] \in {"noting", "ran"} => c \in ran

\* Authors, effects and replies against the rows.
RowInv(c) ==
  /\ c \in author => audit[key[c]] # "none"
  /\ c \in author => \A d \in author : SameKey(c, d) => c = d
  /\ c \in ran /\ IsWrite(c) => c \in author /\ Permitted(c)
  /\ pc[c] = "ok" => audit[key[c]] = "ok"
  /\ pc[c] = "failed" => audit[key[c]] = "failed"

\* A recorded success happened.
OkInv(k) == audit[k] = "ok" => \E c \in ran : key[c] = k

GatewayInv ==
  /\ GatewayTypeOK
  /\ \A c \in Calls : StageInv(c) /\ RowInv(c)
  /\ \A k \in Keys : OkInv(k)

-----------------------------------------------------------------------------

LEMMA TypeInit == GatewayInit => GatewayTypeOK
  BY GatewayAssumption DEF GatewayInit, GatewayTypeOK, Active, Replies

LEMMA TypeStep == GatewayTypeOK /\ [GatewayNext]_gatewayVars => GatewayTypeOK'
<1> SUFFICES ASSUME GatewayTypeOK, [GatewayNext]_gatewayVars PROVE GatewayTypeOK'
  OBVIOUS
<1> USE DEF GatewayTypeOK, Active, Replies, Fault, Goto, Record, Free, AuditDenied, Replay,
    IsWrite, WriteDenied, inputs
<1>1. ASSUME NEW c \in Calls, ToolsCall(c) PROVE GatewayTypeOK'
  BY <1>1 DEF ToolsCall
<1>2. ASSUME NEW c \in Calls, ExecuteTool(c) PROVE GatewayTypeOK'
  BY <1>2 DEF ExecuteTool
<1>3. ASSUME NEW c \in Calls, Read(c) PROVE GatewayTypeOK'
  BY <1>3 DEF Read
<1>4. ASSUME NEW c \in Calls, NoteRead(c) PROVE GatewayTypeOK'
  BY <1>4 DEF NoteRead
<1>5. ASSUME NEW c \in Calls, Reserve(c) PROVE GatewayTypeOK'
  BY <1>5 DEF Reserve
<1>6. ASSUME NEW c \in Calls, Run(c) PROVE GatewayTypeOK'
  BY <1>6 DEF Run
<1>7. ASSUME NEW c \in Calls, Finalize(c) PROVE GatewayTypeOK'
  BY <1>7 DEF Finalize
<1>8. CASE Crash
  BY <1>8 DEF Crash
<1>9. CASE UNCHANGED gatewayVars
  BY <1>9 DEF gatewayVars
<1> QED
  BY <1>1, <1>2, <1>3, <1>4, <1>5, <1>6, <1>7, <1>8, <1>9 DEF GatewayNext, Serve

\* Every reachable state is well typed (the TypeOK the runs check).
THEOREM GatewayTypeCorrect == GatewaySpec => []GatewayTypeOK
  BY TypeInit, TypeStep, PTL DEF GatewaySpec

-----------------------------------------------------------------------------

LEMMA InvInit == GatewayInit => GatewayInv
  BY TypeInit DEF GatewayInit, GatewayInv, StageInv, RowInv, OkInv, Active

LEMMA CallStep ==
  GatewayInv /\ [GatewayNext]_gatewayVars => \A u \in Calls : (StageInv(u) /\ RowInv(u))'
<1> SUFFICES ASSUME GatewayInv, [GatewayNext]_gatewayVars, NEW u \in Calls
             PROVE  (StageInv(u) /\ RowInv(u))'
  OBVIOUS
<1> GatewayTypeOK /\ GatewayTypeOK' /\ \A c \in Calls : StageInv(c) /\ RowInv(c)
  BY TypeStep DEF GatewayInv
<1> USE DEF GatewayTypeOK, StageInv, RowInv, SameKey, Permitted, Active, Replies,
    Fault, Goto, Record, Free, AuditDenied, Replay, IsWrite, WriteDenied, inputs
<1>1. ASSUME NEW c \in Calls, ToolsCall(c) PROVE (StageInv(u) /\ RowInv(u))'
  BY <1>1 DEF ToolsCall
<1>2. ASSUME NEW c \in Calls, ExecuteTool(c) PROVE (StageInv(u) /\ RowInv(u))'
  BY <1>2 DEF ExecuteTool
<1>3. ASSUME NEW c \in Calls, Read(c) PROVE (StageInv(u) /\ RowInv(u))'
  BY <1>3 DEF Read
<1>4. ASSUME NEW c \in Calls, NoteRead(c) PROVE (StageInv(u) /\ RowInv(u))'
  BY <1>4 DEF NoteRead
<1>5. ASSUME NEW c \in Calls, Reserve(c) PROVE (StageInv(u) /\ RowInv(u))'
  BY <1>5 DEF Reserve
<1>6. ASSUME NEW c \in Calls, Run(c) PROVE (StageInv(u) /\ RowInv(u))'
  BY <1>6 DEF Run
<1>7. ASSUME NEW c \in Calls, Finalize(c) PROVE (StageInv(u) /\ RowInv(u))'
  BY <1>7 DEF Finalize
<1>8. CASE Crash
  BY <1>8 DEF Crash
<1>9. CASE UNCHANGED gatewayVars
  BY <1>9 DEF gatewayVars
<1> QED
  BY <1>1, <1>2, <1>3, <1>4, <1>5, <1>6, <1>7, <1>8, <1>9 DEF GatewayNext, Serve

LEMMA OkStep == GatewayInv /\ [GatewayNext]_gatewayVars => \A k \in Keys : OkInv(k)'
<1> SUFFICES ASSUME GatewayInv, [GatewayNext]_gatewayVars, NEW k \in Keys PROVE OkInv(k)'
  OBVIOUS
<1> GatewayTypeOK /\ GatewayTypeOK' /\ OkInv(k) /\ \A c \in Calls : StageInv(c)
  BY TypeStep DEF GatewayInv
<1> USE DEF GatewayTypeOK, StageInv, OkInv, Active, Replies, Fault, Goto, Record, Free,
    AuditDenied, Replay, IsWrite, WriteDenied, inputs
<1>1. ASSUME NEW c \in Calls, ToolsCall(c) PROVE OkInv(k)'
  BY <1>1 DEF ToolsCall
<1>2. ASSUME NEW c \in Calls, ExecuteTool(c) PROVE OkInv(k)'
  BY <1>2 DEF ExecuteTool
<1>3. ASSUME NEW c \in Calls, Read(c) PROVE OkInv(k)'
  BY <1>3 DEF Read
<1>4. ASSUME NEW c \in Calls, NoteRead(c) PROVE OkInv(k)'
  BY <1>4 DEF NoteRead
<1>5. ASSUME NEW c \in Calls, Reserve(c) PROVE OkInv(k)'
  BY <1>5 DEF Reserve
<1>6. ASSUME NEW c \in Calls, Run(c) PROVE OkInv(k)'
  BY <1>6 DEF Run
<1>7. ASSUME NEW c \in Calls, Finalize(c) PROVE OkInv(k)'
  BY <1>7 DEF Finalize
<1>8. CASE Crash
  BY <1>8 DEF Crash
<1>9. CASE UNCHANGED gatewayVars
  BY <1>9 DEF gatewayVars
<1> QED
  BY <1>1, <1>2, <1>3, <1>4, <1>5, <1>6, <1>7, <1>8, <1>9 DEF GatewayNext, Serve

\* The invariant holds in every reachable state.
THEOREM InvCorrect == GatewaySpec => []GatewayInv
<1>1. GatewayInv /\ [GatewayNext]_gatewayVars => GatewayInv'
  BY TypeStep, CallStep, OkStep DEF GatewayInv
<1> QED
  BY InvInit, <1>1, PTL DEF GatewaySpec

\* At most one effect per key, for any number of duplicate calls and crashes.
THEOREM WritesOnce == GatewaySpec => []WriteOnce
<1>1. GatewayInv => WriteOnce
  BY DEF GatewayInv, GatewayTypeOK, RowInv, WriteOnce, SameKey
<1> QED
  BY <1>1, InvCorrect, PTL

\* No effect without a committed row of the same call, and none without permission.
THEOREM EffectsOnRecord == GatewaySpec => []EffectOnRecord
<1>1. GatewayInv => EffectOnRecord
  BY DEF GatewayInv, GatewayTypeOK, RowInv, Permitted, EffectOnRecord
<1> QED
  BY <1>1, InvCorrect, PTL

\* A reported or replayed success took effect, a replayed failure is recorded.
THEOREM RepliesAreTrue == GatewaySpec => []ReplyIsTrue
<1>1. ASSUME GatewayInv, NEW c \in Calls, pc[c] = "ok"
      PROVE  {d \in Calls : SameKey(c, d)} \cap ran # {}
  <2>1. key[c] \in Keys /\ audit[key[c]] = "ok"
    BY <1>1 DEF GatewayInv, GatewayTypeOK, RowInv
  <2>2. PICK d \in ran : key[d] = key[c]
    BY <1>1, <2>1 DEF GatewayInv, OkInv
  <2> QED
    BY <1>1, <2>2 DEF GatewayInv, GatewayTypeOK, SameKey
<1>2. GatewayInv => ReplyIsTrue
  BY <1>1 DEF GatewayInv, RowInv, ReplyIsTrue
<1> QED
  BY <1>2, InvCorrect, PTL

\* WritesAreTrue, for any calls, keys, tools, permissions and faults.
THEOREM WritesTrue == GatewaySpec => []WritesAreTrue
  BY WritesOnce, RepliesAreTrue, EffectsOnRecord, PTL DEF WritesAreTrue

-----------------------------------------------------------------------------
(* The gateway implements OnceCell.                                        *)

WriteEffects == {c \in ran : IsWrite(c)}

LEMMA CellInit == GatewayInit => Cell!CInit
  BY DEF GatewayInit, Cell!CInit

LEMMA CellStep ==
  GatewayInv /\ [GatewayNext]_gatewayVars => [Cell!CNext]_<<key, audit, WriteEffects>>
<1> SUFFICES ASSUME GatewayInv, [GatewayNext]_gatewayVars
             PROVE  Cell!CNext \/ UNCHANGED <<key, audit, WriteEffects>>
  OBVIOUS
<1> DEFINE Promise == Cell!CNext \/ UNCHANGED <<key, audit, WriteEffects>>
<1> GatewayTypeOK /\ \A c \in Calls : StageInv(c) /\ RowInv(c)
  BY DEF GatewayInv
<1> USE DEF GatewayTypeOK, StageInv, RowInv, SameKey, WriteEffects, Fault, Goto, Record, Free,
    AuditDenied, Replay, IsWrite, WriteDenied, inputs,
    Cell!CNext, Cell!Reserved, Cell!Closed, Cell!Noted, Cell!Record, Cell!Effect
<1>1. ASSUME NEW c \in Calls, ToolsCall(c) PROVE Promise
  BY <1>1 DEF ToolsCall
<1>2. ASSUME NEW c \in Calls, ExecuteTool(c) PROVE Promise
  BY <1>2 DEF ExecuteTool
<1>3. ASSUME NEW c \in Calls, Read(c) PROVE Promise
  BY <1>3 DEF Read
<1>4. ASSUME NEW c \in Calls, NoteRead(c) PROVE Promise
  BY <1>4 DEF NoteRead
<1>5. ASSUME NEW c \in Calls, Reserve(c) PROVE Promise
  BY <1>5 DEF Reserve
<1>6. ASSUME NEW c \in Calls, Run(c) PROVE Promise
  BY <1>6 DEF Run
<1>7. ASSUME NEW c \in Calls, Finalize(c) PROVE Promise
  BY <1>7 DEF Finalize
<1>8. CASE Crash
  BY <1>8 DEF Crash
<1>9. CASE UNCHANGED gatewayVars
  BY <1>9 DEF gatewayVars
<1> QED
  BY <1>1, <1>2, <1>3, <1>4, <1>5, <1>6, <1>7, <1>8, <1>9 DEF GatewayNext, Serve

\* Every behaviour of the gateway, seen through its rows and effects, is one of OnceCell.
THEOREM Implementation == GatewaySpec => ImplementsOnceCell
  BY CellInit, CellStep, InvCorrect, PTL
     DEF GatewaySpec, ImplementsOnceCell, Cell!CSpec, Cell!cellVars, WriteEffects
=============================================================================
