----------------------------- MODULE FunnelTurn -----------------------------
(***************************************************************************)
(* The funnel runtime for one conversation: FunnelRuntime.processMessage,  *)
(* the conversation_funnel_states row it walks, and the Redis lock         *)
(* lock:funnel:conv:<id> that is meant to serialize the turns.             *)
(*                                                                         *)
(* A turn takes the lock, reads the row (or creates it), decides what the  *)
(* message does from that one reading, writes the row under the version it *)
(* read, and drops the lock.  The lock holds no owner and is dropped       *)
(* without asking whose it is; the outcome of the guarded write is not     *)
(* looked at.                                                              *)
(*                                                                         *)
(* chat-service.ts builds the runtime with the repository, the scorer and  *)
(* Redis alone, so the classifier, the output guards, the retelling and    *)
(* the slot extraction are absent.  The table has no columns for           *)
(* messagesOnCurrentStage and pendingStageOffer, and the stages none for   *)
(* minMessages: what is written there is dropped, the reading is always    *)
(* that of zero messages and no offer.                                     *)
(***************************************************************************)
EXTENDS Integers, Sequences, FiniteSets

CONSTANTS Turn,             \* calls of processMessage
          Stage, First, Anytime, Confirm,
          NextOf,           \* NextOf[s]: nextStageId, or None
          Order,            \* Order[s]: the position of the stage
          Exit,             \* Exit[s]: exitStageId where the stage's (or the
                            \* funnel's) stuck action is exit_stage, else None
          Threshold,        \* stuck_threshold
          MaxDepth,         \* the code's 3
          MaxDisturbances,  \* bound: times the lock expires under a live turn
                            \* and calls of the reset route, together
          MaxCrashes,       \* bound: turns cut off by the death of a process
          None

ASSUME StageAssumption ==
    /\ First \in Stage /\ Anytime \subseteq Stage /\ Confirm \subseteq Stage
    /\ NextOf \in [Stage -> Stage \union {None}]
    /\ Exit \in [Stage -> Stage \union {None}]
    /\ Order \in [Stage -> Nat]
    /\ None \notin Stage

ASSUME BoundAssumption ==
    /\ Threshold \in Nat \ {0} /\ MaxDepth \in Nat
    /\ MaxDisturbances \in Nat /\ MaxCrashes \in Nat

Rows == [stage : Stage, stack : Seq(Stage), pending : Stage \union {None},
         stuck : 0 .. Threshold, version : Nat]

\* Of a row, what FunnelWalk tells of.
Places == [stage : Stage, stack : Seq(Stage), pending : Stage \union {None},
           stuck : 0 .. Threshold]

ASSUME NoneAssumption == None \notin Rows \union Places

ASSUME TurnAssumption == IsFiniteSet(Turn)

VARIABLES row,      \* the conversation_funnel_states row, or None
          lock,     \* TRUE while the Redis key exists
          pc,       \* where each turn is
          snap,     \* the row as each turn last read it
          claim,    \* the stage its metadata says the turn moved to, or None
          upset,    \* history: turns during which the row was reset
          stalls, resets, crashes

vars == <<row, lock, pc, snap, claim, upset, stalls, resets, crashes>>

\* The row the code writes on the first turn of a conversation.
Fresh == [stage |-> First, stack |-> <<>>, pending |-> None, stuck |-> 0,
          version |-> 0]

\* Where a turn stands inside the lock.
Reading == {"locked", "creating", "gate", "reread", "rest"}
Deciding == {"gate", "rest"}
Within == Reading \union {"leaving"}

Inside == {t \in Turn : pc[t] \in Within}

Init ==
    /\ row = None
    /\ lock = FALSE
    /\ pc = [t \in Turn |-> "idle"]
    /\ snap = [t \in Turn |-> None]
    /\ claim = [t \in Turn |-> None]
    /\ upset = {}
    /\ stalls = 0 /\ resets = 0 /\ crashes = 0

Goto(t, place) == pc' = [pc EXCEPT ![t] = place]

Kept == UNCHANGED <<upset, stalls, resets, crashes>>

-----------------------------------------------------------------------------
(* Variants that the definitions below are told apart from: SET without    *)
(* NX, a refused turn that also runs the finally block, a key without TTL, *)
(* an update by id alone, a reading not refreshed, an exit without an exit *)
(* stage.                                                                  *)

AlwaysFree == TRUE

RefuseAndDelete(t) ==
    /\ pc[t] = "idle" /\ lock
    /\ lock' = FALSE
    /\ Goto(t, "refused")
    /\ UNCHANGED <<row, snap, claim>> /\ Kept

NoTtl == FALSE /\ UNCHANGED vars

AnyVersion(t) == row # None

KeepReading(t) ==
    /\ pc[t] = "reread"
    /\ Goto(t, "rest")
    /\ UNCHANGED <<row, lock, snap, claim>> /\ Kept

StuckLeaves(t) ==
    IF snap[t].stuck + 1 >= Threshold
    THEN [snap[t] EXCEPT !.stage = Exit[snap[t].stage], !.stuck = 0]
    ELSE [snap[t] EXCEPT !.stuck = @ + 1]

-----------------------------------------------------------------------------
\* SET lock:funnel:conv:<id> locked PX 30000 NX.
LockIsFree == ~lock

Acquire(t) ==
    /\ pc[t] = "idle"
    /\ LockIsFree
    /\ lock' = TRUE
    /\ Goto(t, "locked")
    /\ UNCHANGED <<row, snap, claim>> /\ Kept

\* "Concurrent request to funnel for this conversation".
Refuse(t) ==
    /\ pc[t] = "idle"
    /\ ~LockIsFree
    /\ Goto(t, "refused")
    /\ UNCHANGED <<row, lock, snap, claim>> /\ Kept

Read(t) ==
    /\ pc[t] = "locked"
    /\ row # None
    /\ snap' = [snap EXCEPT ![t] = row]
    /\ Goto(t, "gate")
    /\ UNCHANGED <<row, lock, claim>> /\ Kept

\* No row: the active version is looked up, then the row is inserted.
ReadNothing(t) ==
    /\ pc[t] = "locked"
    /\ row = None
    /\ Goto(t, "creating")
    /\ UNCHANGED <<row, lock, snap, claim>> /\ Kept

\* The insert; a row that has appeared meanwhile is a primary key conflict,
\* which throws to the finally block.
Create(t) ==
    /\ pc[t] = "creating"
    /\ IF row = None
       THEN /\ row' = Fresh
            /\ snap' = [snap EXCEPT ![t] = Fresh]
            /\ Goto(t, "gate")
       ELSE /\ Goto(t, "leaving")
            /\ UNCHANGED <<row, snap>>
    /\ UNCHANGED <<lock, claim>> /\ Kept

-----------------------------------------------------------------------------
\* UPDATE ... SET version = version + 1 WHERE version = <the version read>.
\* The returned flag is ignored by every caller.
Fits(t) == row # None /\ row.version = snap[t].version

Update(t, next) ==
    row' = IF Fits(t) THEN [next EXCEPT !.version = row.version + 1] ELSE row

\* The write that ends a turn, and the move its metadata reports.
Settle(t, next, move) ==
    /\ Update(t, next)
    /\ claim' = [claim EXCEPT ![t] = move]
    /\ Goto(t, "leaving")
    /\ UNCHANGED <<lock, snap>> /\ Kept

\* 2.6: the user confirms the stage that is pending (first a variant that
\* forgets to clear it).
ConfirmedKeeps(t) ==
    /\ pc[t] = "gate"
    /\ snap[t].pending # None
    /\ Settle(t, [snap[t] EXCEPT !.stage = snap[t].pending, !.stuck = 0],
              snap[t].pending)

Confirmed(t) ==
    /\ pc[t] = "gate"
    /\ snap[t].pending # None
    /\ Settle(t, [snap[t] EXCEPT !.stage = snap[t].pending, !.stuck = 0,
                                 !.pending = None], snap[t].pending)

\* 2.6: any other answer clears it, and the row is read again ...
Declined(t) ==
    /\ pc[t] = "gate"
    /\ snap[t].pending # None
    /\ Update(t, [snap[t] EXCEPT !.pending = None])
    /\ Goto(t, "reread")
    /\ UNCHANGED <<lock, snap, claim>> /\ Kept

\* ... where a missing row leaves the old reading in use.
Reread(t) ==
    /\ pc[t] = "reread"
    /\ snap' = IF row # None THEN [snap EXCEPT ![t] = row] ELSE snap
    /\ Goto(t, "rest")
    /\ UNCHANGED <<row, lock, claim>> /\ Kept

\* The turn is past the confirmation gate.
Past(t) == pc[t] = "rest" \/ (pc[t] = "gate" /\ snap[t].pending = None)

\* 2.7: the message triggers an anytime stage.
MayDetour(t, a) ==
    /\ a # snap[t].stage
    /\ \A i \in DOMAIN snap[t].stack : snap[t].stack[i] # a
    /\ Len(snap[t].stack) < MaxDepth

Detour(t, a) ==
    /\ Past(t)
    /\ MayDetour(t, a)
    /\ Settle(t, [snap[t] EXCEPT !.stage = a, !.stuck = 0,
                                 !.stack = Append(@, snap[t].stage)], a)

\* 2.8: the message resolves the anytime stage the conversation is on.
Interrupting(t) == snap[t].stage \in Anytime /\ snap[t].stack # <<>>

Back(s) == [s EXCEPT !.stage = s.stack[Len(s.stack)],
                     !.stack = SubSeq(s.stack, 1, Len(s.stack) - 1)]

Return(t) ==
    /\ Past(t)
    /\ Interrupting(t)
    /\ Settle(t, Back(snap[t]), Back(snap[t]).stage)

-----------------------------------------------------------------------------
\* evaluateTransitions: the objective is resolved and the stage has a next
\* one, or the best fragment belongs to an earlier stage.  A message that
\* resolves an interrupting stage has returned before this is asked.
Advance(t) == IF Interrupting(t) THEN {} ELSE {NextOf[snap[t].stage]} \ {None}
Regress(t) == {s \in Stage : Order[s] < Order[snap[t].stage]}
Targets(t) == Advance(t) \union Regress(t)

\* 5, T025: a target that requires confirmation is only noted as pending,
\* while the metadata reports the move.
Ask(t, c) ==
    /\ Past(t)
    /\ c \in Targets(t)
    /\ Settle(t, [snap[t] EXCEPT !.pending = c], c)

\* evaluateAdvanceGuard compares what the row says of the messages met on the
\* stage, for which it has no column, with the minimum.
MinMessages == 1
StoredMessages == 0
TooFew == StoredMessages < MinMessages

\* The stuck count grows (capped at the threshold, above which it tells no
\* more); at the threshold an exit_stage action moves the conversation out.
AtLimit(t) == snap[t].stuck + 1 >= Threshold

Stuck(t) ==
    IF AtLimit(t) /\ Exit[snap[t].stage] # None
    THEN [snap[t] EXCEPT !.stage = Exit[snap[t].stage], !.stuck = 0]
    ELSE [snap[t] EXCEPT !.stuck = IF AtLimit(t) THEN Threshold ELSE @ + 1]

\* 5: the row is written with the new count and stage.
Finish(t, next) == Settle(t, next, next.stage)

\* 5: no transition.
Stay(t) == Past(t) /\ Finish(t, Stuck(t))

\* 5: a transition to a stage that needs no confirmation, if the guard lets
\* it through.
Move(t, s) ==
    /\ Past(t)
    /\ s \in Targets(t) \ Confirm
    /\ Finish(t, IF TooFew THEN Stuck(t)
                 ELSE [snap[t] EXCEPT !.stage = s, !.stuck = 0])

-----------------------------------------------------------------------------
\* The finally block: DEL of the key, whoever set it.
Release == lock' = FALSE

Leave(t) ==
    /\ pc[t] = "leaving"
    /\ Release
    /\ Goto(t, "done")
    /\ UNCHANGED <<row, snap, claim>> /\ Kept

\* A database call of the turn throws; the finally block follows.
Fail(t) ==
    /\ pc[t] \in Reading
    /\ Goto(t, "leaving")
    /\ UNCHANGED <<row, lock, snap, claim>> /\ Kept

Crash(t) ==
    /\ pc[t] \in Within
    /\ crashes < MaxCrashes
    /\ crashes' = crashes + 1
    /\ Goto(t, "crashed")
    /\ UNCHANGED <<row, lock, snap, claim, upset, stalls, resets>>

Disturbable == stalls + resets < MaxDisturbances

\* PX 30000 runs out, under a turn that has stalled or after a crash.
Expire ==
    /\ lock
    /\ IF Inside = {} THEN stalls' = stalls
                      ELSE Disturbable /\ stalls' = stalls + 1
    /\ lock' = FALSE
    /\ UNCHANGED <<row, pc, snap, claim, upset, resets, crashes>>

\* POST /v1/conversations/:id/funnel/reset deletes the row, without the lock.
Reset ==
    /\ row # None
    /\ Disturbable
    /\ resets' = resets + 1
    /\ row' = None
    /\ upset' = upset \union Inside
    /\ UNCHANGED <<lock, pc, snap, claim, stalls, crashes>>

-----------------------------------------------------------------------------
Step(t) ==
    \/ Acquire(t) \/ Refuse(t)
    \/ Read(t) \/ ReadNothing(t) \/ Create(t)
    \/ Confirmed(t) \/ Declined(t) \/ Reread(t)
    \/ \E a \in Anytime : Detour(t, a)
    \/ Return(t)
    \/ \E c \in Confirm : Ask(t, c)
    \/ \E s \in Stage : Move(t, s)
    \/ Stay(t)
    \/ Leave(t)
    \/ Fail(t)

Next == (\E t \in Turn : Step(t) \/ Crash(t)) \/ Expire \/ Reset

Spec == Init /\ [][Next]_vars

\* A turn that has started ends or fails; Redis drops the key after its TTL.
Fairness == (\A t \in Turn : WF_vars(Step(t))) /\ WF_vars(Expire)

FairSpec == Spec /\ Fairness

-----------------------------------------------------------------------------
\* Every value has its type; a stage, a return stack and a stuck count in the
\* row or in a turn's hands are ones of this funnel.
TypeOK ==
    /\ row \in Rows \union {None}
    /\ lock \in BOOLEAN
    /\ pc \in [Turn -> Within \union {"idle", "refused", "done", "crashed"}]
    /\ snap \in [Turn -> Rows \union {None}]
    /\ claim \in [Turn -> Stage \union {None}]
    /\ upset \subseteq Turn
    /\ stalls \in Nat /\ resets \in Nat /\ crashes \in Nat

\* However turns, expiries, crashes and ownerless DELs interleave, the turns
\* at work on a conversation exceed the one that may hold the lock by at most
\* the number of times the lock expired under a live turn; without such an
\* expiry processMessage never runs twice at once (spec 003, FR-027).
OverlapBounded ==
    Cardinality(Inside) <= (IF lock THEN 1 ELSE 0) + stalls

\* As long as the lock never expired under a turn, what a turn decides from is
\* the row as it stands, unless an operator has reset it meanwhile.
FreshReading ==
    \A t \in Turn :
        stalls = 0 /\ pc[t] \in Deciding /\ t \notin upset => snap[t] = row

\* Under the same condition the move a turn's metadata reports is in the row
\* (as its stage, or as the stage to be confirmed): the flag of the guarded
\* UPDATE that the code ignores is never false.
ReportIsTrue ==
    \A t \in Turn :
        (stalls = 0 /\ pc[t] = "leaving" /\ claim[t] # None /\ t \notin upset)
        => row # None /\ claim[t] \in {row.stage, row.pending}

\* What the lock is for, in one: turns that no expiry let overlap decide from the row
\* and report the row.
TurnsAreSerial == OverlapBounded /\ FreshReading /\ ReportIsTrue

\* Overlapping turns included, the row takes only the steps that turns done
\* one after the other could take.
Place == IF row = None THEN None
         ELSE [stage |-> row.stage, stack |-> row.stack,
               pending |-> row.pending, stuck |-> row.stuck]

Abstract == INSTANCE FunnelWalk WITH walk <- Place

ImplementsWalk == Abstract!Walk

\* A confirmation that was asked for is settled by the next change of the
\* row: confirmed, cleared, or reset with it; turns that do not overlap never
\* move on over it (spec 020, FR-014).
AskedIsSettled ==
    [][stalls = 0 /\ row # None /\ row.pending # None /\ row' # row
       => row' = None \/ row'.pending = None]_vars

\* The conversation does not stay locked, also when the process of the turn
\* that took the lock has died.
Unlocks == lock ~> ~lock
=============================================================================
