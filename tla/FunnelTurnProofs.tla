-------------------------- MODULE FunnelTurnProofs --------------------------
(***************************************************************************)
(* For every funnel, every set of turns and any number of stalls, resets   *)
(* and crashes: the turns at work exceed the lock by at most the number of *)
(* expiries under live turns, and while there has been none a turn decides *)
(* from the row as it stands and reports what it then wrote.               *)
(*                                                                         *)
(* An ownerless DEL makes the lock alone too weak an invariant.  What is   *)
(* kept is a count: a turn enters with the lock, gives it back (or finds   *)
(* it gone) as it leaves, and only an expiry takes the lock from under it. *)
(*                                                                         *)
(* The version of the row carries the rest.  Without overlap a turn's      *)
(* reading is the row, without resets a version is one row; so, short of   *)
(* both together, a write that fits replaces what it was decided from, and *)
(* the row is walked as FunnelWalk says.                                   *)
(***************************************************************************)
EXTENDS FunnelTurn, FiniteSetTheorems, SequenceTheorems, TLAPS

Informed == {"gate", "reread", "rest"}

\* A turn that has read holds a row and has reported nothing yet.
Held(t) == pc[t] \in Informed => snap[t] \in Rows
Silent(t) == pc[t] \in Reading \union {"idle"} => claim[t] = None

\* Undisturbed, the row a turn has read is still there.
Known(t) == stalls = 0 /\ t \notin upset /\ pc[t] \in Informed => row \in Rows

Fresh1(t) ==
    stalls = 0 /\ pc[t] \in Deciding /\ t \notin upset => snap[t] = row

Report1(t) ==
    (stalls = 0 /\ pc[t] = "leaving" /\ claim[t] # None /\ t \notin upset)
    => row # None /\ claim[t] \in {row.stage, row.pending}

TurnOK(t) == Held(t) /\ Silent(t) /\ Known(t) /\ Fresh1(t) /\ Report1(t)

TurnInv == \A t \in Turn : TurnOK(t)

IInv == TypeOK /\ OverlapBounded /\ TurnInv

\* What a turn may make of the row it has read.
Confirms(s, n) ==
    /\ s.pending # None
    /\ n = [s EXCEPT !.stage = s.pending, !.stuck = 0, !.pending = None]
Detours(s, n) ==
    \E a \in Anytime :
        /\ a # s.stage /\ Len(s.stack) < MaxDepth
        /\ \A i \in DOMAIN s.stack : s.stack[i] # a
        /\ n = [s EXCEPT !.stage = a, !.stuck = 0, !.stack = Append(s.stack, s.stage)]
Returns(s, n) == s.stage \in Anytime /\ s.stack # <<>> /\ n = Back(s)
Asks(s, n) == \E c \in Confirm : n = [s EXCEPT !.pending = c]
Leaves(s, n) ==
    /\ s.stuck + 1 >= Threshold /\ Exit[s.stage] # None
    /\ n = [s EXCEPT !.stage = Exit[s.stage], !.stuck = 0]
Sticks(s, n) ==
    /\ s.stuck + 1 < Threshold \/ Exit[s.stage] = None
    /\ n = [s EXCEPT !.stuck = IF s.stuck + 1 >= Threshold THEN Threshold ELSE s.stuck + 1]

Allowed(s, n) ==
    \/ Confirms(s, n) \/ Detours(s, n) \/ Returns(s, n) \/ Asks(s, n)
    \/ Leaves(s, n) \/ Sticks(s, n)

\* The two ways a turn ends its work on the row, Settle and Finish, as one.
Write(t, next, move) ==
    /\ pc[t] \in Deciding
    /\ next \in Rows /\ Allowed(snap[t], next)
    /\ Confirms(snap[t], next) \/ Past(t)
    /\ move \in Stage /\ move \in {next.stage, next.pending}
    /\ row' = IF row # None /\ row.version = snap[t].version
              THEN [next EXCEPT !.version = row.version + 1] ELSE row
    /\ claim' = [claim EXCEPT ![t] = move]
    /\ pc' = [pc EXCEPT ![t] = "leaving"]
    /\ UNCHANGED <<lock, snap, upset, stalls, resets, crashes>>

Writes(t) == \E next \in Rows, move \in Stage : Write(t, next, move)

-----------------------------------------------------------------------------

\* Returning leaves a stack of stages.
LEMMA BackIsRow ==
    ASSUME NEW s \in Rows, s.stack # <<>>
    PROVE  Back(s) \in Rows /\ Back(s).stage \in Stage
<1> DEFINE n == Len(s.stack)
           top == s.stack[n]
           below == SubSeq(s.stack, 1, n - 1)
<1>1. s.stack \in Seq(Stage)
  BY DEF Rows
<1>2. n \in Nat /\ n > 0 /\ \A i \in 1 .. n : s.stack[i] \in Stage
  BY <1>1
<1>3. top \in Stage
  BY <1>2
<1>4. below \in Seq(Stage)
  <2>1. n - 1 \in Int /\ \A i \in 1 .. n - 1 : s.stack[i] \in Stage
    BY <1>2
  <2> QED
    BY <2>1, SubSeqProperties
<1>5. Back(s) = [s EXCEPT !.stage = top, !.stack = below]
  BY DEF Back
<1> HIDE DEF top, below
<1> QED
  BY <1>3, <1>4, <1>5 DEF Rows

\* A step of the funnel proper is a write of a row, reporting a stage of it.
LEMMA SettleWrites ==
    ASSUME TypeOK, NEW t \in Turn, pc[t] \in Deciding, NEW next \in Rows, NEW move \in Stage,
           move \in {next.stage, next.pending}, Settle(t, next, move),
           Allowed(snap[t], next), Confirms(snap[t], next) \/ Past(t)
    PROVE  Writes(t)
<1>1. Write(t, next, move)
  BY DEF Settle, Write, Update, Fits, Goto, Kept
<1> QED
  BY <1>1 DEF Writes

LEMMA FinishWrites ==
    ASSUME TypeOK, NEW t \in Turn, pc[t] \in Deciding, NEW next \in Rows,
           next.stage \in Stage, Finish(t, next), Allowed(snap[t], next), Past(t)
    PROVE  Writes(t)
BY SettleWrites DEF Finish

LEMMA FunnelStepsWrite ==
    ASSUME TypeOK, NEW t \in Turn, Held(t),
           \/ Confirmed(t) \/ Return(t) \/ Stay(t)
           \/ \E a \in Anytime : Detour(t, a)
           \/ \E c \in Confirm : Ask(t, c)
           \/ \E s \in Stage : Move(t, s)
    PROVE  Writes(t)
<1>1. pc[t] \in Deciding /\ snap[t] \in Rows
  BY DEF Confirmed, Return, Stay, Detour, Ask, Move, Past, Deciding, Held, Informed
<1> DEFINE s == snap[t]
<1>2. s \in Rows /\ s = [stage |-> s.stage, stack |-> s.stack, pending |-> s.pending,
                         stuck |-> s.stuck, version |-> s.version]
  BY <1>1 DEF Rows
<1>3. s.stage \in Stage /\ s.stack \in Seq(Stage) /\ s.pending \in Stage \union {None}
      /\ s.stuck \in 0 .. Threshold /\ s.version \in Nat
  BY <1>2 DEF Rows
<1>r. /\ None \in Stage \union {None} /\ 0 \in 0 .. Threshold
      /\ \A c \in Stage : c \in Stage \union {None}
  BY BoundAssumption
<1> HIDE DEF s
<1>4. Stuck(t) \in Rows /\ Stuck(t).stage \in Stage /\ Allowed(s, Stuck(t))
  <2>1. CASE AtLimit(t) /\ Exit[s.stage] # None
    <3>1. Exit[s.stage] \in Stage
      BY <2>1, <1>3, StageAssumption
    <3>2. Stuck(t) = [s EXCEPT !.stage = Exit[s.stage], !.stuck = 0]
      BY <2>1 DEF Stuck, s
    <3>3. Stuck(t) = [stage |-> Exit[s.stage], stack |-> s.stack, pending |-> s.pending,
                      stuck |-> 0, version |-> s.version]
      BY <3>2, <1>2
    <3>4. Leaves(s, Stuck(t))
      BY <2>1, <3>2 DEF Leaves, AtLimit, s
    <3> QED
      BY <3>1, <3>3, <3>4, <1>3, <1>r DEF Rows, Allowed
  <2>2. CASE ~(AtLimit(t) /\ Exit[s.stage] # None)
    <3> DEFINE n == IF AtLimit(t) THEN Threshold ELSE s.stuck + 1
    <3>1. n \in 0 .. Threshold
      BY <1>3, BoundAssumption DEF AtLimit, s
    <3>2. Stuck(t) = [s EXCEPT !.stuck = n]
      BY <2>2 DEF Stuck, s
    <3>4. Sticks(s, Stuck(t))
      BY <2>2, <3>2, <1>3, BoundAssumption DEF Sticks, AtLimit, s
    <3> HIDE DEF n
    <3>3. Stuck(t) = [stage |-> s.stage, stack |-> s.stack, pending |-> s.pending,
                      stuck |-> n, version |-> s.version]
      BY <3>2, <1>2
    <3> QED
      BY <3>1, <3>3, <3>4, <1>3 DEF Rows, Allowed
  <2> QED
    BY <2>1, <2>2
<1>5. CASE Confirmed(t)
  <2> DEFINE next == [s EXCEPT !.stage = s.pending, !.stuck = 0, !.pending = None]
  <2>1. s.pending \in Stage
    BY <1>3, <1>5 DEF Confirmed, s
  <2>2. next = [stage |-> s.pending, stack |-> s.stack, pending |-> None, stuck |-> 0,
                version |-> s.version]
    <3>1. next = [s EXCEPT !.stage = s.pending, !.stuck = 0, !.pending = None]
      OBVIOUS
    <3> HIDE DEF next
    <3> QED
      BY <3>1, <1>2
  <2>3. Settle(t, next, s.pending)
    BY <1>5 DEF Confirmed, s
  <2>4. next \in Rows /\ next.stage = s.pending
    BY <2>1, <2>2, <1>3, <1>r DEF Rows
  <2>5. Confirms(s, next)
    BY <1>5 DEF Confirmed, Confirms, s
  <2> HIDE DEF next
  <2> QED
    BY <1>1, <2>1, <2>3, <2>4, <2>5, SettleWrites DEF Allowed, s
<1>6. CASE Return(t)
  <2>1. Back(s) \in Rows /\ Back(s).stage \in Stage
    BY <1>6, <1>2, BackIsRow DEF Return, Interrupting, s
  <2>2. Settle(t, Back(s), Back(s).stage)
    BY <1>6 DEF Return, s
  <2>3. Returns(s, Back(s)) /\ Past(t)
    BY <1>6 DEF Return, Returns, Interrupting, s
  <2> QED
    BY <1>1, <2>1, <2>2, <2>3, SettleWrites DEF Allowed, s
<1>7. CASE Stay(t)
  BY <1>1, <1>4, <1>7, FinishWrites DEF Stay, s
<1>8. ASSUME NEW a \in Anytime, Detour(t, a) PROVE Writes(t)
  <2> DEFINE deeper == Append(s.stack, s.stage)
             next == [s EXCEPT !.stage = a, !.stuck = 0, !.stack = deeper]
  <2>1. deeper \in Seq(Stage) /\ a \in Stage
    BY <1>3, AppendProperties, StageAssumption
  <2>2. Settle(t, next, a)
    BY <1>8 DEF Detour, s
  <2>5. Detours(s, next) /\ Past(t)
    BY <1>8 DEF Detour, Detours, MayDetour, s
  <2> HIDE DEF deeper
  <2>3. next = [stage |-> a, stack |-> deeper, pending |-> s.pending, stuck |-> 0,
                version |-> s.version]
    <3>1. next = [s EXCEPT !.stage = a, !.stuck = 0, !.stack = deeper]
      OBVIOUS
    <3> HIDE DEF next
    <3> QED
      BY <3>1, <1>2
  <2>4. next \in Rows /\ next.stage = a
    BY <2>1, <2>3, <1>3, <1>r DEF Rows
  <2> HIDE DEF next
  <2> QED
    BY <1>1, <2>1, <2>2, <2>4, <2>5, SettleWrites DEF Allowed, s
<1>9. ASSUME NEW c \in Confirm, Ask(t, c) PROVE Writes(t)
  <2> DEFINE next == [s EXCEPT !.pending = c]
  <2>1. c \in Stage
    BY StageAssumption
  <2>2. next = [stage |-> s.stage, stack |-> s.stack, pending |-> c, stuck |-> s.stuck,
                version |-> s.version]
    BY <1>2
  <2>3. Settle(t, next, c)
    BY <1>9 DEF Ask, s
  <2>4. next \in Rows /\ next.pending = c
    BY <2>1, <2>2, <1>3, <1>r DEF Rows
  <2>5. Asks(s, next) /\ Past(t)
    BY <1>9 DEF Ask, Asks, s
  <2> HIDE DEF next
  <2> QED
    BY <1>1, <2>1, <2>3, <2>4, <2>5, SettleWrites DEF Allowed, s
<1>10. ASSUME NEW g \in Stage, Move(t, g) PROVE Writes(t)
  <2>1. Finish(t, Stuck(t)) /\ Past(t)
    BY <1>10 DEF Move, TooFew, StoredMessages, MinMessages
  <2> QED
    BY <1>1, <1>4, <2>1, FinishWrites DEF s
<1> QED
  BY <1>5, <1>6, <1>7, <1>8, <1>9, <1>10

-----------------------------------------------------------------------------

\* Two turns at work are two elements of a set that has at most one.
LEMMA AtMostOne ==
    ASSUME NEW S, IsFiniteSet(S), Cardinality(S) <= 1, NEW x \in S, NEW y \in S
    PROVE  x = y
<1>1. Cardinality(S) \in Nat
  BY FS_CardinalityType
<1>2. CASE Cardinality(S) = 0
  BY <1>2, FS_EmptySet
<1>3. CASE Cardinality(S) = 1
  BY <1>3, FS_Singleton
<1> QED
  BY <1>1, <1>2, <1>3

LEMMA InsideFinite == IsFiniteSet(Inside) /\ Cardinality(Inside) \in Nat
<1>1. Inside \in SUBSET Turn
  BY DEF Inside
<1> QED
  BY <1>1, TurnAssumption, FS_Subset, FS_CardinalityType

LEMMA Alone ==
    ASSUME TypeOK, OverlapBounded, stalls = 0,
           NEW t \in Turn, NEW u \in Turn, pc[t] \in Within, pc[u] \in Within
    PROVE  t = u
<1>1. t \in Inside /\ u \in Inside
  BY DEF Inside
<1>2. Cardinality(Inside) <= 1
  BY InsideFinite DEF OverlapBounded, TypeOK
<1> QED
  BY <1>1, <1>2, InsideFinite, AtMostOne

\* A turn that enters adds one to the turns at work; one that ends takes one
\* away; a move within changes nothing.
LEMMA Entering ==
    ASSUME TypeOK, NEW t \in Turn, pc[t] = "idle", Goto(t, "locked")
    PROVE  Cardinality(Inside') = Cardinality(Inside) + 1
<1>1. Inside' = Inside \union {t} /\ t \notin Inside
  BY DEF Inside, Within, Reading, Goto, TypeOK
<1> QED
  BY <1>1, InsideFinite, FS_AddElement

LEMMA Exiting ==
    ASSUME TypeOK, NEW t \in Turn, pc[t] \in Within, NEW to \in {"done", "crashed"}, Goto(t, to)
    PROVE  Cardinality(Inside') = Cardinality(Inside) - 1
<1>1. Inside' = Inside \ {t} /\ t \in Inside
  BY DEF Inside, Within, Reading, Goto, TypeOK
<1> QED
  BY <1>1, InsideFinite, FS_RemoveElement

LEMMA Staying ==
    ASSUME TypeOK, NEW t \in Turn, NEW to,
           (pc[t] \in Within) <=> (to \in Within), Goto(t, to)
    PROVE  Inside' = Inside
  BY DEF Inside, Goto, TypeOK

-----------------------------------------------------------------------------

\* The steps of the system, with those of the funnel proper as writes.
LEMMA NextIs ==
    ASSUME TypeOK, \A t \in Turn : Held(t), Next
    PROVE  \/ \E t \in Turn : \/ Acquire(t) \/ Refuse(t) \/ Read(t) \/ ReadNothing(t)
                              \/ Create(t) \/ Writes(t) \/ Declined(t) \/ Reread(t)
                              \/ Leave(t) \/ Fail(t) \/ Crash(t)
           \/ Expire \/ Reset
<1>1. CASE Expire \/ Reset
  BY <1>1
<1>2. CASE \E t \in Turn : Step(t) \/ Crash(t)
  <2>1. PICK t \in Turn : Step(t) \/ Crash(t)
    BY <1>2
  <2>2. CASE \/ Confirmed(t) \/ Return(t) \/ Stay(t)
             \/ \E a \in Anytime : Detour(t, a)
             \/ \E c \in Confirm : Ask(t, c)
             \/ \E s \in Stage : Move(t, s)
    BY <2>2, FunnelStepsWrite
  <2> QED
    BY <2>1, <2>2 DEF Step
<1> QED
  BY <1>1, <1>2 DEF Next

\* A guarded update leaves a row where there was one.
LEMMA UpdatedRow ==
    ASSUME row \in Rows, NEW next \in Rows
    PROVE  /\ [next EXCEPT !.version = row.version + 1] \in Rows
           /\ [next EXCEPT !.version = row.version + 1].stage = next.stage
           /\ [next EXCEPT !.version = row.version + 1].pending = next.pending
  BY DEF Rows

LEMMA ClearedRow ==
    ASSUME NEW s \in Rows
    PROVE  [s EXCEPT !.pending = None] \in Rows
  BY DEF Rows

LEMMA FreshRow == Fresh \in Rows
  BY StageAssumption, BoundAssumption DEF Fresh, Rows

LEMMA TypeInit == Init => TypeOK
<1> SUFFICES ASSUME Init PROVE TypeOK
  OBVIOUS
<1>1. pc \in [Turn -> Within \union {"idle", "refused", "done", "crashed"}]
  BY DEF Init
<1>2. snap \in [Turn -> Rows \union {None}] /\ claim \in [Turn -> Stage \union {None}]
  BY DEF Init
<1> QED
  BY <1>1, <1>2 DEF Init, TypeOK

LEMMA TypeStep == TypeOK /\ (\A t \in Turn : Held(t)) /\ [Next]_vars => TypeOK'
<1> SUFFICES ASSUME TypeOK, \A t \in Turn : Held(t), [Next]_vars PROVE TypeOK'
  OBVIOUS
<1> USE DEF TypeOK, Within, Reading, Goto, Kept
<1>1. ASSUME NEW t \in Turn, Acquire(t) \/ Refuse(t) \/ Read(t) \/ ReadNothing(t) PROVE TypeOK'
  BY <1>1 DEF Acquire, Refuse, Read, ReadNothing
<1>2. ASSUME NEW t \in Turn, Create(t) PROVE TypeOK'
  BY <1>2, FreshRow DEF Create
<1>3. ASSUME NEW t \in Turn, Writes(t) PROVE TypeOK'
  <2>1. PICK next \in Rows, move \in Stage : Write(t, next, move)
    BY <1>3 DEF Writes
  <2>2. row' \in Rows \union {None}
    BY <2>1, UpdatedRow DEF Write
  <2> QED
    BY <2>1, <2>2 DEF Write
<1>4. ASSUME NEW t \in Turn, Declined(t) PROVE TypeOK'
  <2>1. snap[t] \in Rows
    BY <1>4 DEF Declined, Held, Informed
  <2>2. row' \in Rows \union {None}
    BY <1>4, <2>1, ClearedRow, UpdatedRow DEF Declined, Update, Fits
  <2>3. pc' \in [Turn -> Within \union {"idle", "refused", "done", "crashed"}]
    BY <1>4 DEF Declined
  <2> QED
    BY <1>4, <2>2, <2>3 DEF Declined
<1>5. ASSUME NEW t \in Turn, Reread(t) PROVE TypeOK'
  BY <1>5 DEF Reread
<1>9. ASSUME NEW t \in Turn, Leave(t) PROVE TypeOK'
  BY <1>9 DEF Leave, Release
<1>10. ASSUME NEW t \in Turn, Fail(t) PROVE TypeOK'
  BY <1>10 DEF Fail
<1>11. ASSUME NEW t \in Turn, Crash(t) PROVE TypeOK'
  BY <1>11 DEF Crash
<1>6. CASE Expire
  <2>1. stalls' \in Nat /\ lock' = FALSE
    BY <1>6 DEF Expire
  <2>2. UNCHANGED <<row, pc, snap, claim, upset, resets, crashes>>
    BY <1>6 DEF Expire
  <2> QED
    BY <2>1, <2>2
<1>7. CASE Reset
  BY <1>7 DEF Reset, Inside, Disturbable
<1>8. CASE UNCHANGED vars
  BY <1>8 DEF vars
<1> QED
  BY <1>1, <1>2, <1>3, <1>4, <1>5, <1>6, <1>7, <1>8, <1>9, <1>10, <1>11, NextIs

-----------------------------------------------------------------------------

LEMMA OverlapInit == Init => OverlapBounded
<1> SUFFICES ASSUME Init PROVE OverlapBounded
  OBVIOUS
<1>1. Inside = {}
  BY DEF Init, Inside, Within, Reading
<1> QED
  BY <1>1, FS_EmptySet DEF Init, OverlapBounded

\* What enters takes the lock; what leaves has it or an expiry to its account.
LEMMA OverlapStep ==
    TypeOK /\ (\A t \in Turn : Held(t)) /\ OverlapBounded /\ [Next]_vars => OverlapBounded'
<1> SUFFICES ASSUME TypeOK, \A t \in Turn : Held(t), OverlapBounded, [Next]_vars
             PROVE  OverlapBounded'
  OBVIOUS
<1>a. /\ lock \in BOOLEAN /\ stalls \in Nat /\ Cardinality(Inside) \in Nat
      /\ Cardinality(Inside) <= (IF lock THEN 1 ELSE 0) + stalls
  BY InsideFinite DEF TypeOK, OverlapBounded
<1>b. ASSUME Inside' = Inside, lock' = lock, stalls' = stalls PROVE OverlapBounded'
  BY <1>a, <1>b DEF OverlapBounded
<1>1. ASSUME NEW t \in Turn, Acquire(t) PROVE OverlapBounded'
  <2>1. Cardinality(Inside') = Cardinality(Inside) + 1 /\ ~lock /\ lock' = TRUE
        /\ stalls' = stalls
    BY <1>1, Entering DEF Acquire, LockIsFree, Kept
  <2> QED
    BY <1>a, <2>1 DEF OverlapBounded
<1>2. ASSUME NEW t \in Turn, Leave(t) PROVE OverlapBounded'
  <2>1. Cardinality(Inside') = Cardinality(Inside) - 1 /\ lock' = FALSE /\ stalls' = stalls
    BY <1>2, Exiting DEF Leave, Within, Release, Kept
  <2> QED
    BY <1>a, <2>1 DEF OverlapBounded
<1>3. ASSUME NEW t \in Turn, Crash(t) PROVE OverlapBounded'
  <2>1. Cardinality(Inside') = Cardinality(Inside) - 1 /\ lock' = lock /\ stalls' = stalls
    BY <1>3, Exiting DEF Crash
  <2> QED
    BY <1>a, <2>1 DEF OverlapBounded
<1>4. CASE Expire
  <2>1. Inside' = Inside /\ lock = TRUE /\ lock' = FALSE
    BY <1>4, <1>a DEF Expire, Inside
  <2>2. CASE Inside = {}
    <3>1. stalls' = stalls /\ Cardinality(Inside') = 0
      BY <1>4, <2>1, <2>2, FS_EmptySet DEF Expire
    <3> QED
      BY <1>a, <2>1, <3>1 DEF OverlapBounded
  <2>3. CASE Inside # {}
    <3>1. stalls' = stalls + 1
      BY <1>4, <2>3 DEF Expire
    <3> QED
      BY <1>a, <2>1, <3>1 DEF OverlapBounded
  <2> QED
    BY <2>2, <2>3
<1>5. CASE Reset
  BY <1>5, <1>b DEF Reset, Inside
<1>6. ASSUME NEW t \in Turn,
             \/ Refuse(t) \/ Read(t) \/ ReadNothing(t) \/ Create(t)
             \/ Writes(t) \/ Declined(t) \/ Reread(t) \/ Fail(t)
      PROVE  OverlapBounded'
  <2>1. lock' = lock /\ stalls' = stalls
    BY <1>6 DEF Refuse, Read, ReadNothing, Create, Writes, Write, Declined, Reread, Fail, Kept
  <2>2. \E to : ((pc[t] \in Within) <=> (to \in Within)) /\ Goto(t, to)
    <3>1. CASE Refuse(t)
      BY <3>1 DEF Refuse, Within, Reading
    <3>2. CASE Create(t)
      BY <3>2 DEF Create, Within, Reading
    <3>3. CASE Writes(t)
      <4>1. pc[t] \in Within /\ Goto(t, "leaving")
        BY <3>3 DEF Writes, Write, Within, Reading, Deciding, Goto
      <4> QED
        BY <4>1 DEF Within
    <3>4. CASE Read(t) \/ ReadNothing(t) \/ Declined(t) \/ Reread(t) \/ Fail(t)
      BY <3>4 DEF Read, ReadNothing, Declined, Reread, Fail, Within, Reading
    <3> QED
      BY <1>6, <3>1, <3>2, <3>3, <3>4
  <2>3. Inside' = Inside
    BY <2>2, Staying
  <2> QED
    BY <2>1, <2>3, <1>b
<1>7. CASE UNCHANGED vars
  BY <1>7, <1>b DEF vars, Inside
<1> QED
  BY <1>1, <1>2, <1>3, <1>4, <1>5, <1>6, <1>7, NextIs

-----------------------------------------------------------------------------

\* A step that touches neither the row nor turn u leaves what is known of u.
LEMMA Untouched ==
    ASSUME TypeOK, NEW u \in Turn, TurnOK(u), row' = row, pc'[u] = pc[u],
           snap'[u] = snap[u], claim'[u] = claim[u],
           stalls' = 0 => stalls = 0, upset \subseteq upset'
    PROVE  TurnOK(u)'
  BY DEF TurnOK, Held, Silent, Known, Fresh1, Report1

\* A turn that writes the row disturbs another only where the lock has expired.
LEMMA Elsewhere ==
    ASSUME TypeOK, OverlapBounded, NEW t \in Turn, NEW u \in Turn, u # t, TurnOK(u),
           pc[t] \in Within, pc'[u] = pc[u], snap'[u] = snap[u], claim'[u] = claim[u],
           stalls' = stalls
    PROVE  TurnOK(u)'
<1>1. stalls = 0 => pc[u] \notin Within
  BY Alone
<1> QED
  BY <1>1 DEF TurnOK, Held, Silent, Known, Fresh1, Report1, Informed, Deciding, Within, Reading

LEMMA TurnInit == Init => TurnInv
  BY DEF Init, TurnInv, TurnOK, Held, Silent, Known, Fresh1, Report1, Informed, Deciding

LEMMA TurnStep == IInv /\ [Next]_vars => TurnInv'
<1> SUFFICES ASSUME IInv, [Next]_vars, NEW u \in Turn PROVE TurnOK(u)'
  BY DEF TurnInv
<1>a. TypeOK /\ OverlapBounded /\ TurnOK(u) /\ \A t \in Turn : TurnOK(t)
  BY DEF IInv, TurnInv
<1>b. \A t \in Turn : Held(t)
  BY <1>a DEF TurnOK
<1> DEFINE Other(t) == pc'[u] = pc[u] /\ snap'[u] = snap[u] /\ claim'[u] = claim[u]
           Parts == TurnOK(u)'
<1> USE DEF Goto, Kept
<1>1. ASSUME NEW t \in Turn,
             Acquire(t) \/ Refuse(t) \/ Read(t) \/ ReadNothing(t) \/ Leave(t) \/ Fail(t)
             \/ Reread(t) \/ Crash(t)
      PROVE  TurnOK(u)'
  <2>1. row' = row /\ stalls' = stalls /\ upset' = upset /\ claim' = claim
    BY <1>1 DEF Acquire, Refuse, Read, ReadNothing, Leave, Fail, Reread, Crash
  <2>2. CASE u # t
    <3>1. Other(t)
      BY <1>1, <1>a, <2>2 DEF Acquire, Refuse, Read, ReadNothing, Leave, Fail, Reread, Crash,
         TypeOK
    <3> QED
      BY <1>a, <2>1, <3>1, Untouched
  <2>3. CASE u = t
    <3>1. CASE Acquire(t) \/ Refuse(t) \/ ReadNothing(t) \/ Leave(t) \/ Crash(t)
      <4>1. pc'[u] \in {"locked", "refused", "creating", "done", "crashed"}
            /\ (pc'[u] \in {"locked", "creating"} => pc[u] \in Reading \union {"idle"})
        BY <1>a, <2>3, <3>1 DEF Acquire, Refuse, ReadNothing, Leave, Crash, TypeOK, Reading
      <4> QED
        BY <1>a, <2>1, <4>1 DEF TurnOK, Held, Silent, Known, Fresh1, Report1, Informed,
           Deciding, Reading
    <3>2. CASE Read(t)
      <4>1. pc'[u] = "gate" /\ snap'[u] = row /\ row \in Rows /\ claim[u] = None
        BY <1>a, <2>3, <3>2 DEF Read, TypeOK, TurnOK, Silent, Reading
      <4> QED
        BY <2>1, <4>1 DEF TurnOK, Held, Silent, Known, Fresh1, Report1
    <3>3. CASE Fail(t)
      <4>1. pc'[u] = "leaving" /\ claim[u] = None
        BY <1>a, <2>3, <3>3 DEF Fail, TypeOK, TurnOK, Silent
      <4> QED
        BY <2>1, <4>1 DEF TurnOK, Held, Silent, Known, Fresh1, Report1, Informed, Deciding,
           Reading
    <3>4. CASE Reread(t)
      <4>1. pc[u] = "reread" /\ pc'[u] = "rest" /\ claim[u] = None
        BY <1>a, <2>3, <3>4 DEF Reread, TypeOK, TurnOK, Silent, Reading
      <4>2. snap'[u] = IF row # None THEN row ELSE snap[u]
        BY <1>a, <2>3, <3>4 DEF Reread, TypeOK
      <4>3. snap'[u] \in Rows
        BY <1>a, <4>1, <4>2 DEF TurnOK, Held, Informed, TypeOK
      <4>4. stalls = 0 /\ u \notin upset => row \in Rows /\ snap'[u] = row
        BY <1>a, <4>1, <4>2, NoneAssumption DEF TurnOK, Known, Informed
      <4> QED
        BY <2>1, <4>1, <4>3, <4>4 DEF TurnOK, Held, Silent, Known, Fresh1, Report1
    <3> QED
      BY <1>1, <3>1, <3>2, <3>3, <3>4
  <2> QED
    BY <2>2, <2>3
<1>2. ASSUME NEW t \in Turn, Create(t) PROVE TurnOK(u)'
  <2>1. pc[t] \in Within /\ stalls' = stalls /\ upset' = upset /\ claim' = claim
    BY <1>2 DEF Create, Within, Reading
  <2>2. CASE u # t
    BY <1>2, <1>a, <2>1, <2>2, Elsewhere DEF Create, TypeOK
  <2>3. CASE u = t
    <3>1. claim[u] = None
      BY <1>2, <1>a, <2>3 DEF Create, TurnOK, Silent, Reading
    <3>2. CASE row = None
      <4>1. pc'[u] = "gate" /\ snap'[u] = Fresh /\ row' = Fresh
        BY <1>2, <1>a, <2>3, <3>2 DEF Create, TypeOK
      <4> QED
        BY <2>1, <3>1, <4>1, FreshRow DEF TurnOK, Held, Silent, Known, Fresh1, Report1
    <3>3. CASE row # None
      <4>1. pc'[u] = "leaving"
        BY <1>2, <1>a, <2>3, <3>3 DEF Create, TypeOK
      <4> QED
        BY <2>1, <3>1, <4>1 DEF TurnOK, Held, Silent, Known, Fresh1, Report1, Informed,
           Deciding, Reading
    <3> QED
      BY <3>2, <3>3
  <2> QED
    BY <2>2, <2>3
<1>3. ASSUME NEW t \in Turn, Writes(t) PROVE TurnOK(u)'
  <2>1. PICK next \in Rows, move \in Stage : Write(t, next, move)
    BY <1>3 DEF Writes
  <2>2. pc[t] \in Within /\ stalls' = stalls /\ upset' = upset /\ snap' = snap
    BY <2>1 DEF Write, Within, Reading, Deciding
  <2>3. CASE u # t
    BY <1>a, <2>1, <2>2, <2>3, Elsewhere DEF Write, TypeOK
  <2>4. CASE u = t
    <3>1. pc'[u] = "leaving" /\ claim'[u] = move
      BY <1>a, <2>1, <2>4 DEF Write, TypeOK
    <3>2. ASSUME stalls = 0, u \notin upset
          PROVE  row' # None /\ move \in {row'.stage, row'.pending}
      <4>1. row \in Rows /\ snap[u] = row
        BY <1>a, <2>1, <2>4, <3>2 DEF Write, TurnOK, Known, Fresh1, Deciding, Informed
      <4>2. row' = [next EXCEPT !.version = row.version + 1]
        BY <2>1, <2>4, <4>1, NoneAssumption DEF Write
      <4>3. move \in {next.stage, next.pending}
        BY <2>1 DEF Write
      <4> HIDE DEF Rows
      <4> QED
        BY <4>1, <4>2, <4>3, UpdatedRow, NoneAssumption
    <3> QED
      BY <2>2, <3>1, <3>2 DEF TurnOK, Held, Silent, Known, Fresh1, Report1, Informed, Deciding,
         Reading
  <2> QED
    BY <2>3, <2>4
<1>4. ASSUME NEW t \in Turn, Declined(t) PROVE TurnOK(u)'
  <2>1. pc[t] \in Within /\ stalls' = stalls /\ upset' = upset /\ snap' = snap
        /\ claim' = claim
    BY <1>4 DEF Declined, Within, Reading
  <2>2. CASE u # t
    BY <1>4, <1>a, <2>1, <2>2, Elsewhere DEF Declined, TypeOK
  <2>3. CASE u = t
    <3>1. pc[u] = "gate" /\ pc'[u] = "reread" /\ claim[u] = None /\ snap[u] \in Rows
      BY <1>4, <1>a, <2>3 DEF Declined, TypeOK, TurnOK, Silent, Held, Informed, Reading
    <3>2. ASSUME stalls = 0, u \notin upset PROVE row' \in Rows
      <4>1. row \in Rows /\ snap[u] = row
        BY <1>a, <3>1, <3>2 DEF TurnOK, Known, Fresh1, Informed, Deciding
      <4>2. row' = [[snap[u] EXCEPT !.pending = None] EXCEPT !.version = row.version + 1]
        BY <1>4, <2>3, <4>1, NoneAssumption DEF Declined, Update, Fits
      <4> QED
        BY <3>1, <4>1, <4>2, ClearedRow, UpdatedRow
    <3> QED
      BY <2>1, <3>1, <3>2 DEF TurnOK, Held, Silent, Known, Fresh1, Report1, Deciding
  <2> QED
    BY <2>2, <2>3
<1>5. CASE Expire
  <2>1. row' = row /\ UNCHANGED <<pc, snap, claim, upset>> /\ stalls' \in {stalls, stalls + 1}
    BY <1>5 DEF Expire
  <2>2. stalls' = 0 => stalls = 0
    BY <1>a, <2>1 DEF TypeOK
  <2> QED
    BY <1>a, <2>1, <2>2, Untouched
<1>6. CASE Reset
  <2>1. pc[u] \in Within => u \in upset'
    BY <1>6 DEF Reset, Inside
  <2>2. UNCHANGED <<pc, snap, claim, stalls>>
    BY <1>6 DEF Reset
  <2> QED
    BY <1>a, <2>1, <2>2 DEF TurnOK, Held, Silent, Known, Fresh1, Report1, Informed, Deciding,
       Within, Reading
<1>7. CASE UNCHANGED vars
  BY <1>7, <1>a, Untouched DEF vars
<1> QED
  BY <1>1, <1>2, <1>3, <1>4, <1>5, <1>6, <1>7, <1>a, <1>b, NextIs

-----------------------------------------------------------------------------

LEMMA Invariance == Spec => []IInv
<1>1. Init => IInv
  BY TypeInit, OverlapInit, TurnInit DEF IInv
<1>2. IInv /\ [Next]_vars => IInv'
  BY TypeStep, OverlapStep, TurnStep DEF IInv, TurnInv, TurnOK
<1> QED
  BY <1>1, <1>2, PTL DEF Spec

\* Every variable of the funnel runtime keeps its type.
THEOREM TypeCorrect == Spec => []TypeOK
  BY Invariance, PTL DEF IInv

\* Turns of one conversation overlap by at most the number of times the lock
\* expired under a live turn: by none, if it never did (FR-027).  Until then every
\* turn decides from the row as it stands, and the move it reports is the one it wrote.
THEOREM TurnsSerialized == Spec => []TurnsAreSerial
<1>1. IInv => OverlapBounded
  BY DEF IInv
<1>2. IInv => FreshReading
  BY DEF IInv, TurnInv, TurnOK, Fresh1, FreshReading
<1>3. IInv => ReportIsTrue
  BY DEF IInv, TurnInv, TurnOK, Report1, ReportIsTrue
<1>4. IInv => TurnsAreSerial
  BY <1>1, <1>2, <1>3 DEF TurnsAreSerial
<1> QED
  BY <1>4, Invariance, PTL

-----------------------------------------------------------------------------
(* What the version of the row is worth.                                   *)

\* While no expiry lets turns overlap, a turn's reading of a row that is there is that row,
\* and no confirmation is pending once the turn is past the gate.
Solo(t) ==
    stalls = 0 /\ row # None /\ pc[t] \in Informed =>
        /\ pc[t] \in Deciding => snap[t] = row
        /\ pc[t] \in {"reread", "rest"} => row.pending = None

\* While no reset starts the versions over, a version is one row.
Behind(t) ==
    resets = 0 /\ pc[t] \in Informed =>
        /\ row \in Rows /\ snap[t].version <= row.version
        /\ snap[t].version = row.version => snap[t] = row

VersionInv == \A t \in Turn : Solo(t) /\ Behind(t)

\* A turn's update leaves the row alone or gives it the next version.
Advances ==
    \/ row' = row
    \/ row \in Rows /\ row' \in Rows /\ row'.version = row.version + 1

LEMMA UpdateAdvances ==
    ASSUME TypeOK, NEW t \in Turn, Held(t), Writes(t) \/ Declined(t)
    PROVE  Advances
<1>1. CASE Writes(t)
  <2>1. PICK next \in Rows, move \in Stage : Write(t, next, move)
    BY <1>1 DEF Writes
  <2>2. CASE row # None /\ row.version = snap[t].version
    <3>1. row \in Rows /\ row' = [next EXCEPT !.version = row.version + 1]
      BY <2>1, <2>2 DEF Write, TypeOK
    <3> QED
      BY <3>1, UpdatedRow DEF Advances, Rows
  <2> QED
    BY <2>1, <2>2 DEF Write, Advances
<1>2. CASE Declined(t)
  <2>1. snap[t] \in Rows
    BY <1>2 DEF Declined, Held, Informed
  <2>2. CASE Fits(t)
    <3> DEFINE next == [snap[t] EXCEPT !.pending = None]
    <3>1. next \in Rows
      BY <2>1, ClearedRow
    <3>2. row \in Rows /\ row' = [next EXCEPT !.version = row.version + 1]
      BY <1>2, <2>2 DEF Declined, Update, Fits, TypeOK
    <3> HIDE DEF next
    <3> QED
      BY <3>1, <3>2, UpdatedRow DEF Advances, Rows
  <2> QED
    BY <1>2, <2>2 DEF Declined, Update, Advances
<1> QED
  BY <1>1, <1>2

LEMMA VersionInit == Init => VersionInv
  BY DEF Init, VersionInv, Solo, Behind, Informed

\* A turn that writes leaves what another knows, but for its version.
LEMMA VersionElsewhere ==
    ASSUME TypeOK, OverlapBounded, NEW t \in Turn, NEW u \in Turn, u # t, Held(u), Behind(u),
           pc[t] \in Within, pc'[u] = pc[u], snap'[u] = snap[u],
           stalls' = stalls, resets' = resets, Advances
    PROVE  Solo(u)' /\ Behind(u)'
<1>1. stalls = 0 => pc[u] \notin Within
  BY Alone
<1>2. Solo(u)'
  BY <1>1 DEF Solo, Informed, Within, Reading
<1>3. Behind(u)'
  <2>1. CASE row' = row
    BY <2>1 DEF Behind
  <2>2. CASE row \in Rows /\ row' \in Rows /\ row'.version = row.version + 1
    <3>1. row.version \in Nat /\ (pc[u] \in Informed => snap[u].version \in Nat)
      BY <2>2 DEF Held, Rows
    <3> QED
      BY <2>2, <3>1 DEF Behind
  <2> QED
    BY <2>1, <2>2 DEF Advances
<1> QED
  BY <1>2, <1>3

LEMMA VersionStep == IInv /\ VersionInv /\ [Next]_vars => VersionInv'
<1> SUFFICES ASSUME IInv, VersionInv, [Next]_vars, NEW u \in Turn PROVE Solo(u)' /\ Behind(u)'
  BY DEF VersionInv
<1>a. TypeOK /\ OverlapBounded /\ Solo(u) /\ Behind(u) /\ \A t \in Turn : Held(t)
  BY DEF IInv, TurnInv, TurnOK, VersionInv
<1> USE DEF Goto, Kept
<1>b. ASSUME row' = row, pc'[u] = pc[u], snap'[u] = snap[u],
             stalls' = 0 => stalls = 0, resets' = 0 => resets = 0
      PROVE  Solo(u)' /\ Behind(u)'
  BY <1>a, <1>b DEF Solo, Behind
<1>1. ASSUME NEW t \in Turn,
             Acquire(t) \/ Refuse(t) \/ ReadNothing(t) \/ Leave(t) \/ Fail(t) \/ Crash(t)
      PROVE  Solo(u)' /\ Behind(u)'
  <2>1. row' = row /\ snap' = snap /\ stalls' = stalls /\ resets' = resets
    BY <1>1 DEF Acquire, Refuse, ReadNothing, Leave, Fail, Crash
  <2>2. pc'[u] = pc[u] \/ pc'[u] \notin Informed
    BY <1>1, <1>a DEF Acquire, Refuse, ReadNothing, Leave, Fail, Crash, TypeOK, Informed
  <2>3. CASE pc'[u] \notin Informed
    BY <2>3 DEF Solo, Behind
  <2> QED
    BY <1>b, <2>1, <2>2, <2>3
<1>2. ASSUME NEW t \in Turn, Read(t) \/ Reread(t) PROVE Solo(u)' /\ Behind(u)'
  <2>1. row' = row /\ stalls' = stalls /\ resets' = resets
    BY <1>2 DEF Read, Reread
  <2>2. CASE u # t
    BY <1>2, <1>a, <1>b, <2>1, <2>2 DEF Read, Reread, TypeOK
  <2>3. CASE u = t /\ Read(t)
    <3>1. pc'[u] = "gate" /\ snap'[u] = row /\ row \in Rows
      BY <1>a, <2>3 DEF Read, TypeOK
    <3> QED
      BY <2>1, <3>1 DEF Solo, Behind, Rows
  <2>4. CASE u = t /\ Reread(t)
    <3>1. pc[u] = "reread" /\ pc'[u] = "rest"
          /\ snap'[u] = IF row # None THEN row ELSE snap[u]
      BY <1>a, <2>4 DEF Reread, TypeOK
    <3>2. Solo(u)'
      BY <1>a, <2>1, <3>1 DEF Solo, Informed
    <3>3. Behind(u)'
      BY <1>a, <2>1, <3>1, NoneAssumption DEF Behind, Informed, Rows
    <3> QED
      BY <3>2, <3>3
  <2> QED
    BY <1>2, <2>2, <2>3, <2>4
<1>3. ASSUME NEW t \in Turn, Create(t) PROVE Solo(u)' /\ Behind(u)'
  <2>1. pc[t] \in Within /\ pc[t] \notin Informed /\ stalls' = stalls /\ resets' = resets
    BY <1>3 DEF Create, Within, Reading, Informed
  <2>2. CASE row = None
    <3>1. row' = Fresh
      BY <1>3, <2>2 DEF Create
    <3>2. CASE u = t
      <4>1. pc'[u] = "gate" /\ snap'[u] = Fresh
        BY <1>3, <1>a, <2>2, <3>2 DEF Create, TypeOK
      <4> QED
        BY <2>1, <3>1, <4>1, FreshRow DEF Solo, Behind, Rows
    <3>3. CASE u # t
      <4>1. pc'[u] = pc[u] /\ snap'[u] = snap[u]
        BY <1>3, <1>a, <3>3 DEF Create, TypeOK
      <4>2. stalls = 0 => pc[u] \notin Within
        BY <1>a, <2>1, <3>3, Alone
      <4> QED
        BY <1>a, <2>1, <2>2, <4>1, <4>2, NoneAssumption DEF Solo, Behind, Informed, Within,
           Reading
    <3> QED
      BY <3>2, <3>3
  <2>3. CASE row # None
    <3>1. row' = row /\ snap' = snap /\ (u = t => pc'[u] \notin Informed)
          /\ (u # t => pc'[u] = pc[u])
      BY <1>3, <1>a, <2>3 DEF Create, TypeOK, Informed
    <3>2. CASE u = t
      BY <3>1, <3>2 DEF Solo, Behind
    <3> QED
      BY <1>b, <2>1, <3>1, <3>2
  <2> QED
    BY <2>2, <2>3
<1>4. ASSUME NEW t \in Turn, Writes(t) PROVE Solo(u)' /\ Behind(u)'
  <2>1. PICK next \in Rows, move \in Stage : Write(t, next, move)
    BY <1>4 DEF Writes
  <2>2. Advances
    BY <1>4, <1>a, UpdateAdvances
  <2>3. pc[t] \in Within /\ UNCHANGED <<stalls, resets, snap>>
    BY <2>1 DEF Write, Within, Reading, Deciding
  <2>4. CASE u # t
    BY <1>a, <2>1, <2>2, <2>3, <2>4, VersionElsewhere DEF Write, TypeOK
  <2>5. CASE u = t
    BY <1>a, <2>1, <2>5 DEF Write, TypeOK, Solo, Behind, Informed
  <2> QED
    BY <2>4, <2>5
<1>5. ASSUME NEW t \in Turn, Declined(t) PROVE Solo(u)' /\ Behind(u)'
  <2>1. Advances
    BY <1>5, <1>a, UpdateAdvances
  <2>2. pc[t] = "gate" /\ UNCHANGED <<stalls, resets, snap>>
    BY <1>5 DEF Declined
  <2>3. CASE u # t
    BY <1>5, <1>a, <2>1, <2>2, <2>3, VersionElsewhere DEF Declined, TypeOK, Within, Reading
  <2>4. CASE u = t
    <3>1. pc'[u] = "reread" /\ snap[u] \in Rows
      BY <1>5, <1>a, <2>4 DEF Declined, TypeOK, Held, Informed
    <3>2. ASSUME stalls = 0, row' # None PROVE row'.pending = None
      <4>1. row # None
        BY <1>5, <3>2 DEF Declined, Update, Fits
      <4>2. snap[u] = row
        BY <1>a, <2>2, <2>4, <3>2, <4>1 DEF Solo, Informed, Deciding
      <4>3. row' = [[snap[u] EXCEPT !.pending = None] EXCEPT !.version = row.version + 1]
        BY <1>5, <2>4, <4>1, <4>2 DEF Declined, Update, Fits
      <4> QED
        BY <3>1, <4>3 DEF Rows
    <3>3. ASSUME resets = 0
          PROVE  row' \in Rows /\ snap[u].version < row'.version
      <4>1. row \in Rows /\ snap[u].version <= row.version
        BY <1>a, <2>2, <2>4, <3>3 DEF Behind, Informed
      <4>2. row.version \in Nat /\ snap[u].version \in Nat
        BY <3>1, <4>1 DEF Rows
      <4>3. CASE snap[u].version = row.version
        <5>1. row' = [[snap[u] EXCEPT !.pending = None] EXCEPT !.version = row.version + 1]
          BY <1>5, <2>4, <4>1, <4>3, NoneAssumption DEF Declined, Update, Fits
        <5> DEFINE r == [snap[u] EXCEPT !.pending = None]
        <5>2. r \in Rows /\ row' = [r EXCEPT !.version = row.version + 1]
          BY <3>1, <5>1, ClearedRow
        <5> HIDE DEF r
        <5>3. row' \in Rows /\ row'.version = row.version + 1
          BY <4>2, <5>2 DEF Rows
        <5> QED
          BY <4>2, <4>3, <5>3
      <4>4. CASE snap[u].version # row.version
        <5>1. row' = row
          BY <1>5, <2>4, <4>4 DEF Declined, Update, Fits
        <5> QED
          BY <4>1, <4>2, <4>4, <5>1
      <4> QED
        BY <4>3, <4>4
    <3>4. Solo(u)'
      BY <2>2, <3>1, <3>2 DEF Solo, Deciding
    <3>5. Behind(u)'
      <4>1. ASSUME resets' = 0
            PROVE  row' \in Rows /\ snap'[u].version < row'.version
        BY <2>2, <3>3, <4>1
      <4>2. row' \in Rows => row'.version \in Nat
        BY DEF Rows
      <4>3. snap'[u].version \in Nat
        BY <2>2, <3>1 DEF Rows
      <4> QED
        BY <4>1, <4>2, <4>3 DEF Behind
    <3> QED
      BY <3>4, <3>5
  <2> QED
    BY <2>3, <2>4
<1>6. CASE Expire
  <2>1. UNCHANGED <<row, pc, snap, resets>> /\ stalls' \in {stalls, stalls + 1}
    BY <1>6 DEF Expire
  <2>2. stalls' = 0 => stalls = 0
    BY <1>a, <2>1 DEF TypeOK
  <2> QED
    BY <1>b, <2>1, <2>2
<1>7. CASE Reset
  <2>1. row' = None /\ resets' # 0
    BY <1>7, <1>a DEF Reset, TypeOK
  <2> QED
    BY <2>1 DEF Solo, Behind
<1>8. CASE UNCHANGED vars
  BY <1>8, <1>b DEF vars
<1> QED
  BY <1>1, <1>2, <1>3, <1>4, <1>5, <1>6, <1>7, <1>8, <1>a, NextIs

LEMMA VersionInvariance == Spec => [](IInv /\ VersionInv)
<1>1. Init => VersionInv
  BY VersionInit
<1>2. IInv /\ VersionInv /\ [Next]_vars => VersionInv'
  BY VersionStep
<1> QED
  BY <1>1, <1>2, Invariance, PTL DEF Spec

-----------------------------------------------------------------------------
(* The funnel with indivisible turns.                                      *)

\* A write that takes effect is decided from the row it replaces.
LEMMA FitsIsRow ==
    ASSUME IInv, VersionInv, stalls = 0 \/ resets = 0,
           NEW t \in Turn, pc[t] \in Deciding, Fits(t)
    PROVE  row \in Rows /\ snap[t] = row
<1>1. row \in Rows /\ row.version = snap[t].version /\ pc[t] \in Informed
  BY DEF Fits, IInv, TypeOK, Deciding, Informed
<1>2. CASE stalls = 0
  BY <1>1, <1>2, NoneAssumption DEF VersionInv, Solo
<1>3. CASE resets = 0
  BY <1>1, <1>3 DEF VersionInv, Behind
<1> QED
  BY <1>1, <1>2, <1>3

LEMMA StepAsked ==
    ASSUME IInv, VersionInv, [Next]_vars,
           stalls = 0, row # None, row.pending # None, row' # row
    PROVE  row' = None \/ row'.pending = None
<1>a. TypeOK /\ \A t \in Turn : Held(t)
  BY DEF IInv, TurnInv, TurnOK
<1>1. ASSUME NEW t \in Turn, Writes(t) PROVE row'.pending = None
  <2>1. PICK next \in Rows, move \in Stage : Write(t, next, move)
    BY <1>1 DEF Writes
  <2>2. Fits(t) /\ pc[t] \in Deciding /\ row' = [next EXCEPT !.version = row.version + 1]
    BY <2>1 DEF Write, Fits
  <2>3. row \in Rows /\ snap[t] = row
    BY <2>2, FitsIsRow
  <2>4. ~Past(t)
    BY <2>3 DEF Past, VersionInv, Solo, Informed
  <2>5. next.pending = None
    BY <2>1, <2>3, <2>4 DEF Write, Confirms, Rows
  <2> QED
    BY <2>2, <2>3, <2>5, UpdatedRow
<1>2. ASSUME NEW t \in Turn, Declined(t) PROVE row'.pending = None
  <2>1. snap[t] \in Rows /\ row \in Rows
    BY <1>2, <1>a DEF Declined, Held, Informed, TypeOK
  <2>2. row' = [[snap[t] EXCEPT !.pending = None] EXCEPT !.version = row.version + 1]
    BY <1>2 DEF Declined, Update
  <2> QED
    BY <2>1, <2>2 DEF Rows
<1>3. CASE Reset
  BY <1>3 DEF Reset
<1>4. CASE UNCHANGED vars
  BY <1>4 DEF vars
<1> QED
  BY <1>1, <1>2, <1>3, <1>4, <1>a, NextIs DEF Acquire, Refuse, Read, ReadNothing, Create,
     Reread, Leave, Fail, Crash, Expire

At(r) == [stage |-> r.stage, stack |-> r.stack, pending |-> r.pending, stuck |-> r.stuck]

LEMMA PlaceIs ==
    /\ row \in Rows => Place = At(row)
    /\ \A r \in Rows : At(r) \in Places /\ At(r) # None
<1>1. row \in Rows => row # None
  BY NoneAssumption
<1>2. \A r \in Rows : At(r) \in Places
  BY DEF Rows, Places, At
<1> QED
  BY <1>1, <1>2, NoneAssumption DEF Place, At

\* Places by their fields, and what the steps of the walk make of them.
Spot(a, b, c, d) == [stage |-> a, stack |-> b, pending |-> c, stuck |-> d]
Confirming(p, x, y, z) == [p EXCEPT !.stage = x, !.pending = y, !.stuck = z]
Detouring(p, x, y, z) == [p EXCEPT !.stage = x, !.stuck = y, !.stack = z]
Returning(p, x, y) == [p EXCEPT !.stage = x, !.stack = y]
Leaving(p, x, y) == [p EXCEPT !.stage = x, !.stuck = y]

LEMMA SpotWith ==
    ASSUME NEW a, NEW b, NEW c, NEW d, NEW x, NEW y, NEW z
    PROVE  /\ Confirming(Spot(a, b, c, d), x, y, z) = Spot(x, b, y, z)
           /\ Detouring(Spot(a, b, c, d), x, y, z) = Spot(x, z, c, y)
<1> DEFINE p == Spot(a, b, c, d)
<1>p. p = [stage |-> a, stack |-> b, pending |-> c, stuck |-> d]
  BY DEF Spot
<1> HIDE DEF p
<1>1. Confirming(p, x, y, z) = Spot(x, b, y, z)
  <2> DEFINE e == Confirming(p, x, y, z)
  <2>1. e = [p EXCEPT !.stage = x, !.pending = y, !.stuck = z]
    BY DEF Confirming
  <2> HIDE DEF e
  <2>2. e = [stage |-> x, stack |-> b, pending |-> y, stuck |-> z]
    BY <1>p, <2>1
  <2> QED
    BY <2>2 DEF e, Spot
<1>2. Detouring(p, x, y, z) = Spot(x, z, c, y)
  <2> DEFINE e == Detouring(p, x, y, z)
  <2>1. e = [p EXCEPT !.stage = x, !.stuck = y, !.stack = z]
    BY DEF Detouring
  <2> HIDE DEF e
  <2>2. e = [stage |-> x, stack |-> z, pending |-> c, stuck |-> y]
    BY <1>p, <2>1
  <2> QED
    BY <2>2 DEF e, Spot
<1> QED
  BY <1>1, <1>2 DEF p

LEMMA SpotWithTwo ==
    ASSUME NEW a, NEW b, NEW c, NEW d, NEW x, NEW y
    PROVE  /\ Returning(Spot(a, b, c, d), x, y) = Spot(x, y, c, d)
           /\ Leaving(Spot(a, b, c, d), x, y) = Spot(x, b, c, y)
<1> DEFINE p == Spot(a, b, c, d)
<1>p. p = [stage |-> a, stack |-> b, pending |-> c, stuck |-> d]
  BY DEF Spot
<1> HIDE DEF p
<1>1. Returning(p, x, y) = Spot(x, y, c, d)
  <2> DEFINE e == Returning(p, x, y)
  <2>1. e = [p EXCEPT !.stage = x, !.stack = y]
    BY DEF Returning
  <2> HIDE DEF e
  <2>2. e = [stage |-> x, stack |-> y, pending |-> c, stuck |-> d]
    BY <1>p, <2>1
  <2> QED
    BY <2>2 DEF e, Spot
<1>2. Leaving(p, x, y) = Spot(x, b, c, y)
  <2> DEFINE e == Leaving(p, x, y)
  <2>1. e = [p EXCEPT !.stage = x, !.stuck = y]
    BY DEF Leaving
  <2> HIDE DEF e
  <2>2. e = [stage |-> x, stack |-> b, pending |-> c, stuck |-> y]
    BY <1>p, <2>1
  <2> QED
    BY <2>2 DEF e, Spot
<1> QED
  BY <1>1, <1>2 DEF p

\* What a turn may make of the row is a step of the walk.
LEMMA AllowedWalks ==
    ASSUME NEW s \in Rows, NEW n \in Rows, Allowed(s, n), Place = At(s), Place' = At(n)
    PROVE  Abstract!WNext
<1>1. PICK a \in Stage, b \in Seq(Stage), c \in Stage \union {None}, d \in 0 .. Threshold,
           v \in Nat :
        s = [stage |-> a, stack |-> b, pending |-> c, stuck |-> d, version |-> v]
  BY DEF Rows
<1>2. s.stage = a /\ s.stack = b /\ s.pending = c /\ s.stuck = d /\ Threshold \in Nat
  BY <1>1, BoundAssumption
<1>3. /\ Place # None
      /\ Place = Spot(a, b, c, d)
  BY <1>2, PlaceIs DEF At, Spot
<1>4. Place.stage = a /\ Place.stack = b /\ Place.pending = c /\ Place.stuck = d
  BY <1>3 DEF Spot
<1>5. CASE Confirms(s, n)
  <2>1. n = [stage |-> c, stack |-> b, pending |-> None, stuck |-> 0, version |-> v]
    BY <1>1, <1>2, <1>5 DEF Confirms
  <2>2. Place' = Spot(c, b, None, 0)
    BY <2>1 DEF At, Spot
  <2>3. Place' = [Place EXCEPT !.stage = c, !.pending = None, !.stuck = 0]
    <3>1. Confirming(Place, c, None, 0) = Spot(c, b, None, 0)
      BY <1>3, SpotWith
    <3> QED
      BY <2>2, <3>1 DEF Confirming
  <2> QED
    BY <1>2, <1>3, <1>4, <1>5, <2>3 DEF Confirms, Abstract!WNext, Abstract!Answer
<1>6. CASE Detours(s, n)
  <2>1. PICK g \in Anytime :
          /\ g # a /\ Len(b) < MaxDepth
          /\ \A i \in DOMAIN b : b[i] # g
          /\ n = [s EXCEPT !.stage = g, !.stuck = 0, !.stack = Append(b, a)]
    BY <1>2, <1>6 DEF Detours
  <2> DEFINE deeper == Append(b, a)
  <2>2. n = [s EXCEPT !.stage = g, !.stuck = 0, !.stack = deeper]
    BY <2>1
  <2>3. Place' = [Place EXCEPT !.stage = g, !.stuck = 0, !.stack = deeper]
    <3> HIDE DEF deeper
    <3>1. n = [stage |-> g, stack |-> deeper, pending |-> c, stuck |-> 0, version |-> v]
      BY <1>1, <2>2
    <3>2. Place' = Spot(g, deeper, c, 0)
      BY <3>1 DEF At, Spot
    <3>3. Detouring(Place, g, 0, deeper) = Spot(g, deeper, c, 0)
      BY <1>3, SpotWith
    <3> QED
      BY <3>2, <3>3 DEF Detouring
  <2>4. Abstract!Detour(g)
    BY <1>3, <1>4, <2>1, <2>3 DEF Abstract!Detour, Abstract!Under
  <2> QED
    BY <2>4 DEF Abstract!WNext
<1>7. CASE Returns(s, n)
  <2> DEFINE top == b[Len(b)]
             below == SubSeq(b, 1, Len(b) - 1)
  <2>1. n = [s EXCEPT !.stage = top, !.stack = below]
    BY <1>2, <1>7 DEF Returns, Back
  <2>2. Place' = [Place EXCEPT !.stage = top, !.stack = below]
    <3> HIDE DEF top, below
    <3>1. n = [stage |-> top, stack |-> below, pending |-> c, stuck |-> d, version |-> v]
      BY <1>1, <2>1
    <3>2. Place' = Spot(top, below, c, d)
      BY <3>1 DEF At, Spot
    <3>3. Returning(Place, top, below) = Spot(top, below, c, d)
      BY <1>3, SpotWithTwo
    <3> QED
      BY <3>2, <3>3 DEF Returning
  <2> QED
    BY <1>2, <1>3, <1>4, <1>7, <2>2 DEF Returns, Abstract!WNext, Abstract!Return, Abstract!Under
<1>8. CASE Asks(s, n)
  <2>1. PICK g \in Confirm : n = [s EXCEPT !.pending = g]
    BY <1>8 DEF Asks
  <2>2. n = [stage |-> a, stack |-> b, pending |-> g, stuck |-> d, version |-> v]
    BY <1>1, <2>1
  <2>3. Place' = [Place EXCEPT !.pending = g]
    BY <1>3, <2>2 DEF At, Spot
  <2> QED
    BY <1>3, <2>3 DEF Abstract!WNext, Abstract!Ask, Abstract!Under
<1>9. CASE Leaves(s, n)
  <2> DEFINE g == Exit[a]
  <2>1. n = [s EXCEPT !.stage = g, !.stuck = 0] /\ d + 1 >= Threshold /\ g # None
    BY <1>2, <1>9 DEF Leaves
  <2>2. Place' = [Place EXCEPT !.stage = g, !.stuck = 0]
    <3> HIDE DEF g
    <3>1. n = [stage |-> g, stack |-> b, pending |-> c, stuck |-> 0, version |-> v]
      BY <1>1, <2>1
    <3>2. Place' = Spot(g, b, c, 0)
      BY <3>1 DEF At, Spot
    <3>3. Leaving(Place, g, 0) = Spot(g, b, c, 0)
      BY <1>3, SpotWithTwo
    <3> QED
      BY <3>2, <3>3 DEF Leaving
  <2> QED
    BY <1>3, <1>4, <2>1, <2>2 DEF Abstract!WNext, Abstract!GiveUp, Abstract!Under
<1>10. CASE Sticks(s, n)
  <2> DEFINE k == IF d < Threshold THEN d + 1 ELSE d
  <2>1. (IF d + 1 >= Threshold THEN Threshold ELSE d + 1) = k
    BY <1>2
  <2>2. n = [s EXCEPT !.stuck = k] /\ (d + 1 < Threshold \/ Exit[a] = None)
    BY <1>2, <1>10, <2>1 DEF Sticks
  <2>3. Place' = [Place EXCEPT !.stuck = k]
    <3> HIDE DEF k
    <3>1. n = [stage |-> a, stack |-> b, pending |-> c, stuck |-> k, version |-> v]
      BY <1>1, <2>2
    <3> QED
      BY <1>3, <3>1 DEF At, Spot
  <2> QED
    BY <1>3, <1>4, <2>2, <2>3 DEF Abstract!WNext, Abstract!Stick, Abstract!Under
<1> QED
  BY <1>5, <1>6, <1>7, <1>8, <1>9, <1>10 DEF Allowed

LEMMA StepWalks ==
    ASSUME IInv, VersionInv, stalls = 0 \/ resets = 0, [Next]_vars
    PROVE  [Abstract!WNext]_Place
<1>a. TypeOK /\ \A t \in Turn : Held(t)
  BY DEF IInv, TurnInv, TurnOK
<1>b. row' = row => Place' = Place
  BY DEF Place
<1>c. row' \in Rows => Place' = At(row')
  BY NoneAssumption DEF Place, At
<1>1. ASSUME NEW t \in Turn, Writes(t), row' # row PROVE Abstract!WNext
  <2>1. PICK next \in Rows, move \in Stage : Write(t, next, move)
    BY <1>1 DEF Writes
  <2>2. Fits(t) /\ pc[t] \in Deciding /\ row' = [next EXCEPT !.version = row.version + 1]
    BY <1>1, <2>1 DEF Write, Fits
  <2>3. row \in Rows /\ snap[t] = row
    BY <2>2, FitsIsRow
  <2>4. row' \in Rows /\ At(row') = At(next)
    BY <2>2, <2>3, UpdatedRow DEF At, Rows
  <2>5. Place = At(row) /\ Place' = At(next) /\ Allowed(row, next)
    BY <1>c, <2>1, <2>3, <2>4, PlaceIs DEF Write
  <2> QED
    BY <2>3, <2>5, AllowedWalks
<1>2. ASSUME NEW t \in Turn, Declined(t), row' # row PROVE Abstract!WNext
  <2>1. pc[t] = "gate" /\ snap[t].pending # None /\ Fits(t)
    BY <1>2 DEF Declined, Update
  <2>2. row \in Rows /\ snap[t] = row
    BY <2>1, FitsIsRow DEF Deciding
  <2>3. row' = [[row EXCEPT !.pending = None] EXCEPT !.version = row.version + 1]
    BY <1>2, <2>1, <2>2 DEF Declined, Update
  <2> DEFINE r == [row EXCEPT !.pending = None]
  <2>a. r \in Rows
    BY <2>2, ClearedRow
  <2>b. row' = [r EXCEPT !.version = row.version + 1]
    BY <2>3
  <2>c. At(r) = [At(row) EXCEPT !.pending = None]
    BY <2>2 DEF At, Rows
  <2>4. row' \in Rows /\ At(row') = [At(row) EXCEPT !.pending = None]
    <3> HIDE DEF r
    <3>1. row.version + 1 \in Nat
      BY <2>2 DEF Rows
    <3>2. row' \in Rows
      BY <2>a, <2>b, <3>1 DEF Rows
    <3>3. At(row') = At(r)
      <4>1. /\ row'.stage = r.stage /\ row'.stack = r.stack
            /\ row'.pending = r.pending /\ row'.stuck = r.stuck
        BY <2>a, <2>b DEF Rows
      <4> QED
        BY <4>1 DEF At
    <3> QED
      BY <2>c, <3>2, <3>3
  <2>5. Place = At(row) /\ Place # None /\ Place' = [Place EXCEPT !.pending = None]
    BY <1>c, <2>2, <2>4, PlaceIs
  <2>6. Place.pending # None
    BY <2>1, <2>2, <2>5 DEF At
  <2> QED
    BY <2>5, <2>6 DEF Abstract!WNext, Abstract!Answer
<1>3. ASSUME NEW t \in Turn, Create(t), row' # row PROVE Abstract!WNext
  <2>1. row = None /\ row' = Fresh
    BY <1>3 DEF Create
  <2>2. Place = None /\ Place' = At(Fresh)
    BY <1>c, <2>1, FreshRow DEF Place
  <2> QED
    BY <2>2 DEF Abstract!WNext, Abstract!Start, At, Fresh
<1>4. CASE Reset
  <2>1. row \in Rows /\ row' = None
    BY <1>4, <1>a DEF Reset, TypeOK
  <2>2. Place # None /\ Place' = None
    BY <2>1, PlaceIs DEF Place
  <2> QED
    BY <2>2 DEF Abstract!WNext, Abstract!Reset
<1>5. CASE UNCHANGED vars
  BY <1>5, <1>b DEF vars
<1> QED
  BY <1>1, <1>2, <1>3, <1>4, <1>5, <1>a, <1>b, NextIs DEF Acquire, Refuse, Read, ReadNothing,
     Reread, Leave, Fail, Crash, Expire

\* Unless turns overlap *and* the row is reset, it is walked as if turns were indivisible: a
\* write fits the version it read, and that version is one row (update ... WHERE version).
THEOREM WalkIsImplemented == Spec /\ [](stalls = 0 \/ resets = 0) => ImplementsWalk
<1>1. Init => Abstract!WInit
  BY DEF Init, Abstract!WInit, Place
<1>2. IInv /\ VersionInv /\ (stalls = 0 \/ resets = 0) /\ [Next]_vars => [Abstract!WNext]_Place
  BY StepWalks
<1> QED
  BY <1>1, <1>2, VersionInvariance, PTL DEF Spec, ImplementsWalk, Abstract!Walk

\* A confirmation asked for is answered, cleared or reset by the very next change of the row
\* as long as turns do not overlap, whatever fails, crashes or is reset (FR-014).
THEOREM AskedSettled == Spec => AskedIsSettled
<1>1. IInv /\ VersionInv /\ [Next]_vars =>
        [stalls = 0 /\ row # None /\ row.pending # None /\ row' # row
         => row' = None \/ row'.pending = None]_vars
  BY StepAsked
<1> QED
  BY <1>1, VersionInvariance, PTL DEF Spec, AskedIsSettled
=============================================================================
