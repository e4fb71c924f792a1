------------------------- MODULE ReengagementProofs -------------------------
(***************************************************************************)
(* Proofs about Reengagement, for any number of rules, scans, workers,     *)
(* attempts, replies and crashes.                                          *)
(*                                                                         *)
(* The argument: an attempt in a batch was claimed, so no later claim can  *)
(* take it, and only a claim puts attempts into a batch; hence batches are *)
(* disjoint, and an attempt that left its batch never enters one again.    *)
(* With one rule its attempts come one by one, since an index waits for    *)
(* the count that the end of its predecessor writes (Spaced).              *)
(***************************************************************************)
EXTENDS Reengagement, TLAPS

\* What a worker holds is claimed, not expired and held by that worker alone.
Held ==
  /\ \A w \in Workers : \A a \in batch[w] : status[a] \notin {"none", "scheduled", "expired"}
  /\ \A v, w \in Workers : v # w => batch[v] \cap batch[w] = {}

\* The current attempt is one of them.
Current ==
  \A w \in Workers :
    /\ stage[w] = "idle" => cur[w] = NoAttempt
    /\ stage[w] # "idle" => cur[w] \in batch[w]

\* Of the attempts held, exactly the current one may have gone out.
Progress ==
  \A w \in Workers : \A a \in batch[w] :
    /\ cur[w] = a /\ stage[w] \in {"mark", "close"} => hooks[a] = 1
    /\ ~(cur[w] = a /\ stage[w] \in {"mark", "close"}) => hooks[a] = 0

Inv == TypeOK /\ Held /\ Current /\ Progress /\ StatusIsTrue /\ PublishedOnce

USE ReengagementAssumption

\* The key a scan builds from a count below the budget is an attempt.
LEMMA KeyIsAttempt ==
  ASSUME NEW r \in Rules, NEW n \in Nat, n < MaxAttempts[r]
  PROVE  <<r, n>> \in Attempts
<1>1. n \in 0 .. MaxAttempts[r] - 1
  OBVIOUS
<1>2. <<r, n>> \in {r} \X (0 .. MaxAttempts[r] - 1)
  BY <1>1
<1> QED
  BY <1>2 DEF Attempts

LEMMA NotAnAttempt == NoAttempt \notin Attempts
BY DEF Texts

LEMMA InitInv == Init => Inv
BY NotAnAttempt DEF Init, Inv, TypeOK, Held, Current, Progress, StatusIsTrue, PublishedOnce,
   Closed, Stages, Texts

LEMMA StepInv == Inv /\ [Next]_vars => Inv'
<1> SUFFICES ASSUME Inv, [Next]_vars PROVE Inv'
  OBVIOUS
<1> USE NotAnAttempt DEF Inv, vars, scan, work, convo, clock, outside, Closed, Stages, Texts,
        SetStatus, Goto, Finish, NewMessage, Existing, Insert, Send, Claimable, Stuck
<1>1. ASSUME NEW s \in Scanners, StartScan(s) PROVE Inv'
  BY <1>1 DEF StartScan, TypeOK, Held, Current, Progress, StatusIsTrue, PublishedOnce
<1>2. ASSUME NEW s \in Scanners, Schedule(s) PROVE Inv'
  BY <1>2, SMTT(30) DEF Schedule, TypeOK, Held, Current, Progress, StatusIsTrue, PublishedOnce
<1>3. ASSUME NEW s \in Scanners, ScanFails(s) PROVE Inv'
  BY <1>3 DEF ScanFails, TypeOK, Held, Current, Progress, StatusIsTrue, PublishedOnce
<1>4. ASSUME NEW s \in Scanners, NEW r \in Rules, ScanRule(s, r) PROVE Inv'
  <2>1. Eligible(r) => Key(r) \in Attempts
    BY KeyIsAttempt DEF Key, Eligible, TypeOK
  <2>2. TypeOK'
    BY <1>4, <2>1 DEF ScanRule, TypeOK
  <2>3. Held' /\ Current' /\ Progress'
    BY <1>4 DEF ScanRule, Held, Current, Progress
  <2> QED
    BY <1>4, <2>2, <2>3 DEF ScanRule, StatusIsTrue, PublishedOnce
<1>5. ASSUME NEW w \in Workers, Claim(w) PROVE Inv'
  <2>1. PICK B \in SUBSET Claimable \ {{}} :
          /\ batch' = [batch EXCEPT ![w] = B]
          /\ status' = [a \in Attempts |-> IF a \in B THEN "processing" ELSE status[a]]
    BY <1>5 DEF Claim
  <2>2. \A a \in B : a \in Attempts /\ status[a] = "scheduled" /\ hooks[a] = 0
    BY DEF StatusIsTrue
  <2>3. stage[w] = "idle" /\ cur[w] = NoAttempt
    BY <1>5 DEF Claim, Current, TypeOK
  <2>4. TypeOK'
    BY <1>5, <2>1, <2>2 DEF Claim, TypeOK
  <2>5. Held'
    BY <1>5, <2>1, <2>2 DEF Claim, TypeOK, Held
  <2>6. Current'
    BY <1>5, <2>1, <2>3 DEF Claim, TypeOK, Current
  <2>7. Progress'
    BY <1>5, <2>1, <2>2, <2>3 DEF Claim, TypeOK, Progress
  <2>8. StatusIsTrue' /\ PublishedOnce'
    BY <1>5, <2>1, <2>2 DEF Claim, TypeOK, StatusIsTrue, PublishedOnce
  <2> QED
    BY <2>4, <2>5, <2>6, <2>7, <2>8
<1>6. ASSUME NEW w \in Workers, Check(w) PROVE Inv'
  BY <1>6 DEF Check, TypeOK, Held, Current, Progress, StatusIsTrue, PublishedOnce
<1>7. ASSUME NEW w \in Workers, Expire(w) PROVE Inv'
  BY <1>7 DEF Expire, TypeOK, Held, Current, Progress, StatusIsTrue, PublishedOnce
<1>8. ASSUME NEW w \in Workers, Generate(w) PROVE Inv'
  BY <1>8 DEF Generate, TypeOK, Held, Current, Progress, StatusIsTrue, PublishedOnce
<1>9. ASSUME NEW w \in Workers, Load(w) PROVE Inv'
  BY <1>9 DEF Load, TypeOK, Held, Current, Progress, StatusIsTrue, PublishedOnce
<1>10. ASSUME NEW w \in Workers, Publish(w) PROVE Inv'
  <2> DEFINE c == cur[w]
  <2>1. c \in batch[w] /\ c \in Attempts /\ hooks[c] = 0 /\ stage[w] = "publish"
    BY <1>10 DEF Publish, TypeOK, Current, Progress
  <2>2. status[c] \notin {"none", "scheduled", "expired"}
    BY <2>1 DEF Held
  <2>3. \A v \in Workers : v # w => c \notin batch[v]
    BY <2>1 DEF Held
  <2>4. TypeOK'
    BY <1>10, <2>1 DEF Publish, TypeOK
  <2>5. Held' /\ Current'
    BY <1>10, <2>1 DEF Publish, TypeOK, Held, Current
  <2>6. Progress'
    BY <1>10, <2>1, <2>3 DEF Publish, TypeOK, Progress
  <2>7. StatusIsTrue' /\ PublishedOnce'
    BY <1>10, <2>1, <2>2 DEF Publish, TypeOK, StatusIsTrue, PublishedOnce
  <2> QED
    BY <2>4, <2>5, <2>6, <2>7
<1>11. ASSUME NEW w \in Workers, MarkSent(w) PROVE Inv'
  BY <1>11 DEF MarkSent, TypeOK, Held, Current, Progress, StatusIsTrue, PublishedOnce
<1>12. ASSUME NEW w \in Workers, Close(w) PROVE Inv'
  BY <1>12 DEF Close, TypeOK, Held, Current, Progress, StatusIsTrue, PublishedOnce
<1>13. ASSUME NEW w \in Workers, Fail(w) PROVE Inv'
  <2> DEFINE c == cur[w]
  <2>1. c \in batch[w] /\ c \in Attempts /\ hooks[c] \in {0, 1}
    BY <1>13 DEF Fail, TypeOK, Current, Progress
  <2>2. stage[w] = "publish" => hooks[c] = 0
    BY <2>1 DEF Progress
  <2>3. \A v \in Workers : v # w => c \notin batch[v]
    BY <2>1 DEF Held
  <2>4. TypeOK'
    BY <1>13, <2>1 DEF Fail, TypeOK
  <2>5. Held' /\ Current'
    BY <1>13, <2>1, <2>3 DEF Fail, TypeOK, Held, Current
  <2>6. Progress'
    BY <1>13, <2>1, <2>3 DEF Fail, TypeOK, Progress
  <2>7. StatusIsTrue' /\ PublishedOnce'
    BY <1>13, <2>1, <2>2 DEF Fail, TypeOK, StatusIsTrue, PublishedOnce
  <2> QED
    BY <2>4, <2>5, <2>6, <2>7
<1>14. ASSUME NEW w \in Workers, Crash(w) PROVE Inv'
  BY <1>14 DEF Crash, TypeOK, Held, Current, Progress, StatusIsTrue, PublishedOnce
<1>15. ASSUME NEW a \in Attempts, Sweep(a) PROVE Inv'
  BY <1>15 DEF Sweep, TypeOK, Held, Current, Progress, StatusIsTrue, PublishedOnce
<1>16. ASSUME NEW r \in Rules, Deactivate(r) \/ GoStale(r) \/ Cool(r) PROVE Inv'
  <2>1. TypeOK'
    BY <1>16 DEF Deactivate, GoStale, Cool, TypeOK
  <2>2. UNCHANGED <<status, batch, stage, cur, hooks>>
    BY <1>16 DEF Deactivate, GoStale, Cool
  <2> QED
    BY <2>1, <2>2 DEF Held, Current, Progress, StatusIsTrue, PublishedOnce
<1>17. ASSUME Reply \/ Leave PROVE Inv'
  <2>1. TypeOK'
    <3>1. CASE Reply
      BY <3>1 DEF Reply, TypeOK
    <3>2. CASE Leave
      BY <3>2 DEF Leave, TypeOK
    <3> QED
      BY <1>17, <3>1, <3>2
  <2>2. UNCHANGED <<status, batch, stage, cur, hooks>>
    BY <1>17 DEF Reply, Leave
  <2> QED
    BY <2>1, <2>2 DEF Held, Current, Progress, StatusIsTrue, PublishedOnce
<1>18. ASSUME UNCHANGED vars PROVE Inv'
  BY <1>18 DEF TypeOK, Held, Current, Progress, StatusIsTrue, PublishedOnce
<1> QED
  BY <1>1, <1>2, <1>3, <1>4, <1>5, <1>6, <1>7, <1>8, <1>9, <1>10, <1>11, <1>12, <1>13,
     <1>14, <1>15, <1>16, <1>17, <1>18 DEF Next

LEMMA Invariant == Spec => []Inv
BY InitInv, StepInv, PTL DEF Spec

\* Every reachable state is well typed; that the key of an attempt stays below
\* its rule's max_attempts is part of it.
THEOREM TypeCorrect == Spec => []TypeOK
<1>1. Inv => TypeOK
  BY DEF Inv
<1> QED
  BY <1>1, Invariant, PTL

\* No attempt is published twice, whatever crashes, is swept or scans at once, and
\* the table tells the truth of it: 'sent' went out, 'scheduled' and 'expired' did not.
THEOREM TableTrue == Spec => []TableIsTrue
<1>1. Inv => TableIsTrue
  BY DEF Inv, TableIsTrue
<1> QED
  BY <1>1, Invariant, PTL

-----------------------------------------------------------------------------
(* The interval of a single rule.                                          *)
(*                                                                         *)
(* A key of the next index needs a count that only the end of the attempt  *)
(* before it writes: so attempts come one after the other, and the next is *)
(* found only when the rule has cooled since.                              *)

\* The attempt is over, and no worker holds it.
Past(a) == status[a] \in Closed /\ \A w \in Workers : a \notin batch[w]

Present(a) == status[a] # "none"

\* Whatever is present, found or counted has only past attempts before it; what deliver
\* writes back is the index of its own attempt and one, at most.
OneByOne ==
  /\ \A a, b \in Attempts : Present(b) /\ a[2] < b[2] => Past(a)
  /\ \A a \in Attempts : a[2] < count => Past(a)
  /\ \A s \in Scanners : found[s] # NoAttempt =>
       \A a \in Attempts : a[2] < found[s][2] => Past(a)
  /\ \A w \in Workers : stage[w] \in {"publish", "mark", "close"} => seen[w] <= cur[w][2]
  /\ \A w \in Workers : stage[w] = "close" => status[cur[w]] \in Closed

\* Until the interval has passed nothing is under way, and no scan will add to it.
Resting ==
  \A r \in Rules : r \notin cooled =>
    /\ \A a \in Attempts : Present(a) => Past(a)
    /\ \A s \in Scanners : found[s] # NoAttempt => Present(found[s])

\* The attempt whose hook is out and not yet counted is the last one.
Uncounted(b) ==
  /\ hooks[b] = 1
  /\ count <= b[2]
  /\ \A a \in Attempts : Present(a) => a[2] <= b[2]
  /\ \A s \in Scanners : found[s] # NoAttempt => found[s][2] <= b[2]

SentLast == \A r \in recent \cap cooled : \E b \in Attempts : Uncounted(b)

Spaced == OneByOne /\ Resting /\ SentLast

OneRule == \A r, q \in Rules : r = q

\* An attempt is its index, when there is one rule.
LEMMA Indexed ==
  /\ \A a \in Attempts : a[2] \in Nat /\ RuleOf(a) \in Rules
  /\ OneRule => \A a, b \in Attempts : a[2] = b[2] => a = b
<1>1. ASSUME NEW a \in Attempts
      PROVE  \E r \in Rules, n \in Nat : a = <<r, n>>
  <2>1. PICK r \in Rules : a \in {r} \X (0 .. MaxAttempts[r] - 1)
    BY DEF Attempts
  <2>2. PICK n \in 0 .. MaxAttempts[r] - 1 : a = <<r, n>>
    BY <2>1
  <2>3. n \in Nat
    BY <2>2
  <2> QED
    BY <2>2, <2>3
<1>2. \A a \in Attempts : a[2] \in Nat /\ RuleOf(a) \in Rules
  BY <1>1 DEF RuleOf
<1>3. ASSUME OneRule, NEW a \in Attempts, NEW b \in Attempts, a[2] = b[2] PROVE a = b
  <2>1. PICK r \in Rules, n \in Nat : a = <<r, n>>
    BY <1>1
  <2>2. PICK q \in Rules, m \in Nat : b = <<q, m>>
    BY <1>1
  <2>3. r = q
    BY <1>3 DEF OneRule
  <2>4. n = m
    BY <1>3, <2>1, <2>2
  <2> QED
    BY <2>1, <2>2, <2>3, <2>4
<1> QED
  BY <1>2, <1>3

\* What a worker has in hand is not past.
LEMMA InHand ==
  ASSUME Inv, NEW w \in Workers, stage[w] # "idle"
  PROVE  /\ cur[w] \in batch[w] /\ cur[w] \in Attempts
         /\ ~Past(cur[w]) /\ Present(cur[w])
         /\ \A v \in Workers : v # w => cur[w] \notin batch[v]
BY DEF Inv, Current, Held, TypeOK, Past, Present

\* What is past stays so, and what is closed or present too.
Kept(a) ==
  /\ Past(a) => Past(a)'
  /\ Present(a) => Present(a)'
  /\ status[a] \in Closed => status'[a] \in Closed

LEMMA PastStays == ASSUME Inv, [Next]_vars, NEW a \in Attempts PROVE Kept(a)
<1> USE DEF Kept, Past, Present, Inv, vars, scan, work, convo, clock, outside, Closed,
        SetStatus, Goto, Finish, NewMessage, Existing, Insert, Send, Claimable, Stuck, TypeOK
<1>1. ASSUME NEW s \in Scanners,
             StartScan(s) \/ ScanFails(s) \/ \E r \in Rules : ScanRule(s, r)
      PROVE  Kept(a)
  BY <1>1 DEF StartScan, ScanFails, ScanRule
<1>2. ASSUME NEW s \in Scanners, Schedule(s)
      PROVE  Kept(a)
  BY <1>2 DEF Schedule
<1>3. ASSUME NEW w \in Workers, Claim(w)
      PROVE  Kept(a)
  BY <1>3 DEF Claim
<1>4. ASSUME NEW w \in Workers,
             Check(w) \/ Generate(w) \/ Load(w) \/ Publish(w) \/ Crash(w)
      PROVE  Kept(a)
  BY <1>4 DEF Check, Generate, Load, Publish, Crash
<1>5. ASSUME NEW w \in Workers, Expire(w) \/ MarkSent(w) \/ Close(w) \/ Fail(w)
      PROVE  Kept(a)
  <2>1. stage[w] # "idle"
    BY <1>5 DEF Expire, MarkSent, Close, Fail
  <2>2. cur[w] \in batch[w]
    BY <2>1 DEF Current
  <2> QED
    BY <1>5, <2>2 DEF Expire, MarkSent, Close, Fail
<1>6. ASSUME NEW b \in Attempts, Sweep(b)
      PROVE  Kept(a)
  BY <1>6 DEF Sweep
<1>7. CASE \/ \E r \in Rules : Deactivate(r) \/ GoStale(r) \/ Cool(r)
           \/ Reply \/ Leave \/ UNCHANGED vars
  BY <1>7 DEF Deactivate, GoStale, Cool, Reply, Leave
<1> QED
  BY <1>1, <1>2, <1>3, <1>4, <1>5, <1>6, <1>7 DEF Next

\* Most steps send nothing, add nothing and warm nothing up.
Sending == {"publish", "mark", "close"}
Steady ==
  /\ \A a \in Attempts : Present(a)' => Present(a)
  /\ count' \in {count, 0}
  /\ \A s \in Scanners : found'[s] \in {found[s], NoAttempt}
  /\ \A w \in Workers : stage'[w] \in Sending =>
       stage[w] = stage'[w] /\ cur'[w] = cur[w] /\ seen'[w] = seen[w]
  /\ cooled \subseteq cooled' /\ recent' \cap cooled' \subseteq recent \cap cooled
  /\ UNCHANGED hooks

LEMMA SteadyKeeps == Inv /\ Spaced /\ Steady /\ [Next]_vars => Spaced'
<1> SUFFICES ASSUME Inv, Spaced, Steady, [Next]_vars PROVE Spaced'
  OBVIOUS
<1>1. \A a \in Attempts : Kept(a) /\ a[2] \in Nat
  BY PastStays, Indexed
<1>2. TypeOK /\ TypeOK' /\ NoAttempt \notin Attempts
  BY StepInv, NotAnAttempt DEF Inv
<1>3. \A w \in Workers : stage[w] \in Sending => cur[w] \in Attempts
  BY InHand DEF Sending
<1>4. OneByOne'
  <2>1. \A a, b \in Attempts : Present(b)' /\ a[2] < b[2] => Past(a)'
    BY <1>1 DEF Spaced, OneByOne, Steady, Kept
  <2>2. \A a \in Attempts : a[2] < count' => Past(a)'
    BY <1>1 DEF Spaced, OneByOne, Steady, Kept
  <2>3. \A s \in Scanners : found'[s] # NoAttempt =>
          \A a \in Attempts : a[2] < found'[s][2] => Past(a)'
    BY <1>1 DEF Spaced, OneByOne, Steady, Kept
  <2>4. \A w \in Workers : stage'[w] \in Sending => seen'[w] <= cur'[w][2]
    BY DEF Spaced, OneByOne, Steady, Sending
  <2>5. \A w \in Workers : stage'[w] = "close" => status'[cur'[w]] \in Closed
    BY <1>1, <1>3 DEF Spaced, OneByOne, Steady, Sending, Kept
  <2> QED
    BY <2>1, <2>2, <2>3, <2>4, <2>5 DEF OneByOne, Sending
<1>5. Resting'
  BY <1>1, <1>2 DEF Spaced, Resting, Steady, Kept, TypeOK
<1>6. SentLast'
  <2>1. ASSUME NEW b \in Attempts, Uncounted(b) PROVE Uncounted(b)'
    BY <1>1, <2>1 DEF Uncounted, Steady
  <2> QED
    BY <2>1 DEF Spaced, SentLast, Steady
<1> QED
  BY <1>4, <1>5, <1>6 DEF Spaced

\* An attempt in hand is the last: nothing present, found or counted is beyond it.
LEMMA LastInHand ==
  ASSUME Inv, Spaced, NEW w \in Workers, stage[w] # "idle"
  PROVE  /\ count <= cur[w][2]
         /\ \A a \in Attempts : Present(a) => a[2] <= cur[w][2]
         /\ \A s \in Scanners : found[s] # NoAttempt => found[s][2] <= cur[w][2]
         /\ cooled = Rules
<1>1. cur[w] \in Attempts /\ ~Past(cur[w]) /\ Present(cur[w])
  BY InHand
<1>2. count \in Nat /\ \A a \in Attempts : a[2] \in Nat
  BY Indexed DEF Inv, TypeOK
<1>3. \A s \in Scanners : found[s] # NoAttempt => found[s] \in Attempts
  BY DEF Inv, TypeOK
<1>4. count <= cur[w][2]
  BY <1>1, <1>2 DEF Spaced, OneByOne
<1>5. \A a \in Attempts : Present(a) => a[2] <= cur[w][2]
  BY <1>1, <1>2 DEF Spaced, OneByOne
<1>6. \A s \in Scanners : found[s] # NoAttempt => found[s][2] <= cur[w][2]
  BY <1>1, <1>2, <1>3 DEF Spaced, OneByOne
<1>7. cooled = Rules
  BY <1>1 DEF Spaced, Resting, Inv, TypeOK
<1> QED
  BY <1>4, <1>5, <1>6, <1>7

LEMMA SteadySteps ==
  ASSUME Inv, [Next]_vars
  PROVE  \/ Steady
         \/ \E s \in Scanners : Schedule(s) \/ \E r \in Rules : ScanRule(s, r)
         \/ \E w \in Workers : \/ Load(w) \/ Publish(w) \/ MarkSent(w) \/ Close(w)
                               \/ Fail(w) /\ stage[w] = "publish" /\ Send(cur[w])
<1> USE DEF Steady, Present, Sending, Inv, TypeOK, vars, scan, work, convo, clock, outside,
        SetStatus, Goto, Finish, NewMessage, Existing, Claimable, Stuck, Closed
<1>1. ASSUME NEW s \in Scanners, StartScan(s) \/ ScanFails(s) PROVE Steady
  BY <1>1 DEF StartScan, ScanFails
<1>2. ASSUME NEW w \in Workers, Claim(w) PROVE Steady
  BY <1>2 DEF Claim
<1>3. ASSUME NEW w \in Workers, Check(w) PROVE Steady
  BY <1>3 DEF Check
<1>4. ASSUME NEW w \in Workers, Generate(w) \/ Crash(w) PROVE Steady
  BY <1>4 DEF Generate, Crash
<1>5. ASSUME NEW w \in Workers, Expire(w) \/ (Fail(w) /\ UNCHANGED <<hooks, recent>>)
      PROVE  Steady
  <2>1. cur[w] \in batch[w]
    BY <1>5 DEF Expire, Fail, Current
  <2>2. Present(cur[w])
    BY <2>1 DEF Held
  <2> QED
    BY <1>5, <2>2 DEF Expire, Fail
<1>6. ASSUME NEW a \in Attempts, Sweep(a) PROVE Steady
  BY <1>6 DEF Sweep
<1>7. CASE \/ \E r \in Rules : Deactivate(r) \/ GoStale(r) \/ Cool(r)
           \/ Reply \/ Leave \/ UNCHANGED vars
  BY <1>7 DEF Deactivate, GoStale, Cool, Reply, Leave
<1>8. ASSUME NEW w \in Workers, Fail(w)
      PROVE  UNCHANGED <<hooks, recent>> \/ (stage[w] = "publish" /\ Send(cur[w]))
  BY <1>8 DEF Fail
<1> QED
  BY <1>1, <1>2, <1>3, <1>4, <1>5, <1>6, <1>7, <1>8 DEF Next

\* A scan finds the next key only when all before it are past and the rule has cooled.
LEMMA ScanKeeps ==
  ASSUME OneRule, Inv, Spaced, [Next]_vars, NEW s \in Scanners, NEW r \in Rules, ScanRule(s, r)
  PROVE  Spaced'
<1>1. CASE UNCHANGED found
  <2>1. Steady
    BY <1>1 DEF ScanRule, Steady, Present, Inv, TypeOK, work, convo
  <2> QED
    BY <2>1, SteadyKeeps
<1>2. CASE Eligible(r) /\ found' = [found EXCEPT ![s] = Key(r)]
  <2>1. /\ UNCHANGED <<status, batch, stage, cur, seen, count, cooled, recent, hooks>>
        /\ \A a \in Attempts : (Past(a)' <=> Past(a)) /\ (Present(a)' <=> Present(a))
    BY <1>2 DEF ScanRule, work, convo, Past, Present
  <2>2. /\ Key(r)[2] = count
        /\ \A q \in Scanners : found'[q] = found[q] \/ found'[q] = Key(r)
    BY <1>2 DEF Key, Inv, TypeOK
  <2>3. cooled = Rules
    BY <1>2, ZenonT(40) DEF Eligible, OneRule, Inv, TypeOK
  <2>4. OneByOne'
    <3>1. \A q \in Scanners : found'[q] # NoAttempt =>
            \A a \in Attempts : a[2] < found'[q][2] => Past(a)'
      BY <2>1, <2>2 DEF Spaced, OneByOne
    <3> QED
      BY <2>1, <3>1 DEF Spaced, OneByOne
  <2>5. Resting'
    BY <2>1, <2>3 DEF Resting
  <2>6. SentLast'
    <3>1. ASSUME NEW b \in Attempts, Uncounted(b) PROVE Uncounted(b)'
      BY <2>1, <2>2, <3>1 DEF Uncounted
    <3> QED
      BY <2>1, <3>1 DEF Spaced, SentLast
  <2> QED
    BY <2>4, <2>5, <2>6 DEF Spaced
<1> QED
  BY <1>1, <1>2 DEF ScanRule

\* What it inserts comes after all there is, or is there already.
LEMMA ScheduleKeeps ==
  ASSUME Inv, Spaced, [Next]_vars, NEW s \in Scanners, Schedule(s)
  PROVE  Spaced'
<1> DEFINE f == found[s]
<1>1. f \in Attempts /\ NoAttempt \notin Attempts
  BY NotAnAttempt DEF Schedule, Inv, TypeOK
<1>2. /\ UNCHANGED <<batch, stage, cur, seen, count, cooled, recent, hooks>>
      /\ \A q \in Scanners : found'[q] \in {found[q], NoAttempt}
      /\ \A a \in Attempts \ {f} : status'[a] = status[a]
      /\ Present(f) => status' = status
  BY <1>1 DEF Schedule, work, convo, Inv, TypeOK, Insert, SetStatus, Present
<1>3. \A a \in Attempts : Kept(a) /\ a[2] \in Nat
  BY PastStays, Indexed
<1>4. \A a \in Attempts : a[2] < f[2] => Past(a)'
  BY <1>1, <1>3 DEF Spaced, OneByOne, Kept
<1>5. \A w \in Workers : stage[w] # "idle" => cur[w] \in Attempts
  BY InHand
<1>6. OneByOne'
  <2>1. \A a, b \in Attempts : Present(b)' /\ a[2] < b[2] => Past(a)'
    BY <1>2, <1>3, <1>4 DEF Spaced, OneByOne, Kept, Present
  <2>2. \A a \in Attempts : a[2] < count' => Past(a)'
    BY <1>2, <1>3 DEF Spaced, OneByOne, Kept
  <2>3. \A q \in Scanners : found'[q] # NoAttempt =>
          \A a \in Attempts : a[2] < found'[q][2] => Past(a)'
    BY <1>2, <1>3 DEF Spaced, OneByOne, Kept
  <2>4. \A w \in Workers : stage'[w] = "close" => status'[cur'[w]] \in Closed
    BY <1>2, <1>3, <1>5 DEF Spaced, OneByOne, Kept
  <2> QED
    BY <1>2, <2>1, <2>2, <2>3, <2>4 DEF Spaced, OneByOne
<1>7. Resting'
  <2>1. ASSUME NEW r \in Rules, r \notin cooled PROVE status' = status
    BY <1>2, <2>1 DEF Spaced, Resting, Schedule
  <2> QED
    BY <1>2, <1>3, <2>1 DEF Spaced, Resting, Kept, Present
<1>8. SentLast'
  <2>1. ASSUME NEW b \in Attempts, Uncounted(b) PROVE Uncounted(b)'
    <3>1. f[2] <= b[2]
      BY <2>1 DEF Uncounted, Schedule
    <3>2. \A a \in Attempts : Present(a)' => a[2] <= b[2]
      BY <1>2, <2>1, <3>1 DEF Uncounted, Present
    <3> QED
      BY <1>2, <2>1, <3>2 DEF Uncounted
  <2> QED
    BY <1>2, <2>1 DEF Spaced, SentLast
<1> QED
  BY <1>6, <1>7, <1>8 DEF Spaced

\* deliver reads a count that is not beyond its own attempt.
LEMMA LoadKeeps ==
  ASSUME Inv, Spaced, [Next]_vars, NEW w \in Workers, Load(w) \/ MarkSent(w)
  PROVE  Spaced'
<1>1. stage[w] # "idle" /\ cur[w] \in Attempts
  BY InHand DEF Load, MarkSent
<1>2. /\ UNCHANGED <<batch, cur, count, found, cooled, recent, hooks>>
      /\ \A v \in Workers \ {w} : stage'[v] = stage[v] /\ seen'[v] = seen[v]
      /\ \/ stage'[w] = "publish" /\ seen'[w] = count
         \/ /\ stage'[w] = "close" /\ seen'[w] = seen[w] /\ stage[w] = "mark"
            /\ status'[cur[w]] \in Closed
  <2>1. CASE Load(w)
    BY <2>1 DEF Load, scan, convo, Goto, Inv, TypeOK
  <2>2. CASE MarkSent(w)
    BY <1>1, <2>2 DEF MarkSent, scan, convo, Goto, SetStatus, Inv, TypeOK, Closed
  <2> QED
    BY <2>1, <2>2
<1>3. \A a \in Attempts : Kept(a) /\ (Present(a)' => Present(a))
  <2>1. Present(cur[w])
    BY <1>1, InHand
  <2> QED
    BY <2>1, PastStays DEF Load, MarkSent, SetStatus, Present, Inv, TypeOK
<1>4. count <= cur[w][2]
  BY <1>1, LastInHand
<1>5. \A v \in Workers : stage[v] # "idle" => cur[v] \in Attempts
  BY InHand
<1>6. OneByOne'
  <2>1. \A a, b \in Attempts : Present(b)' /\ a[2] < b[2] => Past(a)'
    BY <1>3 DEF Spaced, OneByOne, Kept
  <2>2. \A a \in Attempts : a[2] < count' => Past(a)'
    BY <1>2, <1>3 DEF Spaced, OneByOne, Kept
  <2>3. \A q \in Scanners : found'[q] # NoAttempt =>
          \A a \in Attempts : a[2] < found'[q][2] => Past(a)'
    BY <1>2, <1>3 DEF Spaced, OneByOne, Kept
  <2>4. \A v \in Workers : stage'[v] \in {"publish", "mark", "close"} => seen'[v] <= cur'[v][2]
    BY <1>2, <1>4 DEF Spaced, OneByOne
  <2>5. \A v \in Workers : stage'[v] = "close" => status'[cur'[v]] \in Closed
    BY <1>2, <1>3, <1>5 DEF Spaced, OneByOne, Kept
  <2> QED
    BY <2>1, <2>2, <2>3, <2>4, <2>5 DEF OneByOne
<1>7. Resting'
  BY <1>2, <1>3 DEF Spaced, Resting, Kept, Inv, TypeOK
<1>8. SentLast'
  <2>1. ASSUME NEW b \in Attempts, Uncounted(b) PROVE Uncounted(b)'
    BY <1>2, <1>3, <2>1 DEF Uncounted
  <2> QED
    BY <1>2, <2>1 DEF Spaced, SentLast
<1> QED
  BY <1>6, <1>7, <1>8 DEF Spaced

\* The attempt whose hook goes out is the last, and the rule has cooled until it counts.
LEMMA SendKeeps ==
  ASSUME Inv, Spaced, [Next]_vars, NEW w \in Workers,
         Publish(w) \/ (Fail(w) /\ stage[w] = "publish" /\ Send(cur[w]))
  PROVE  Spaced'
<1> PICK c \in Attempts : c = cur[w]
  BY InHand DEF Publish
<1>1. stage[w] = "publish" /\ c \in batch[w] /\ Present(c)
  BY InHand DEF Publish
<1>2. hooks[c] = 0
  BY <1>1 DEF Inv, Progress
<1>3. /\ count <= c[2]
      /\ \A a \in Attempts : Present(a) => a[2] <= c[2]
      /\ \A s \in Scanners : found[s] # NoAttempt => found[s][2] <= c[2]
      /\ cooled = Rules
  BY <1>1, LastInHand
<1>4. /\ UNCHANGED <<count, found, cooled>>
      /\ hooks' = [hooks EXCEPT ![c] = 1]
      /\ \A v \in Workers : stage'[v] \in Sending =>
           stage[v] \in Sending /\ cur'[v] = cur[v] /\ seen'[v] = seen[v]
      /\ \A v \in Workers : stage'[v] = "close" => stage[v] = "close"
  <2>1. CASE Publish(w)
    BY <1>1, <1>2, <2>1 DEF Publish, Send, Goto, scan, convo, Inv, TypeOK, Sending
  <2>2. CASE Fail(w) /\ Send(c)
    BY <1>1, <1>2, <2>2 DEF Fail, Finish, Send, Goto, scan, convo, Inv, TypeOK, Sending
  <2> QED
    BY <2>1, <2>2
<1>5. \A a \in Attempts : Kept(a) /\ (Present(a)' => Present(a))
  BY <1>1, PastStays DEF Publish, Fail, SetStatus, Present, Inv, TypeOK
<1>6. \A v \in Workers : stage[v] \in Sending => cur[v] \in Attempts
  BY InHand DEF Sending
<1>7. OneByOne'
  <2>1. \A a, b \in Attempts : Present(b)' /\ a[2] < b[2] => Past(a)'
    BY <1>5 DEF Spaced, OneByOne, Kept
  <2>2. \A a \in Attempts : a[2] < count' => Past(a)'
    BY <1>4, <1>5 DEF Spaced, OneByOne, Kept
  <2>3. \A q \in Scanners : found'[q] # NoAttempt =>
          \A a \in Attempts : a[2] < found'[q][2] => Past(a)'
    BY <1>4, <1>5 DEF Spaced, OneByOne, Kept
  <2>4. \A v \in Workers : stage'[v] \in Sending => seen'[v] <= cur'[v][2]
    BY <1>4 DEF Spaced, OneByOne, Sending
  <2>5. \A v \in Workers : stage'[v] = "close" => status'[cur'[v]] \in Closed
    BY <1>4, <1>5, <1>6 DEF Spaced, OneByOne, Kept, Sending
  <2> QED
    BY <2>1, <2>2, <2>3, <2>4, <2>5 DEF OneByOne, Sending
<1>8. Resting'
  BY <1>3, <1>4 DEF Resting
<1>9. SentLast'
  <2>1. Uncounted(c)'
    BY <1>1, <1>3, <1>4, <1>5 DEF Uncounted, Inv, TypeOK
  <2> QED
    BY <1>1, <2>1 DEF SentLast
<1> QED
  BY <1>7, <1>8, <1>9 DEF Spaced

\* The count that is written back leaves every attempt there is in the past.
LEMMA CloseKeeps ==
  ASSUME OneRule, Inv, Spaced, [Next]_vars, NEW w \in Workers, Close(w)
  PROVE  Spaced'
<1> PICK c \in Attempts : c = cur[w]
  BY InHand DEF Close
<1>1. stage[w] = "close" /\ c \in batch[w] /\ Present(c)
  BY InHand DEF Close
<1>2. /\ \A a \in Attempts : Present(a) => a[2] <= c[2]
      /\ \A s \in Scanners : found[s] # NoAttempt => found[s][2] <= c[2]
  BY <1>1, LastInHand
<1>3. /\ UNCHANGED <<status, found, hooks>> /\ cooled' = {}
      /\ count' = seen[w] + 1 /\ batch' = [batch EXCEPT ![w] = @ \ {c}]
      /\ \A v \in Workers : stage'[v] \in Sending =>
           stage[v] = stage'[v] /\ cur'[v] = cur[v] /\ seen'[v] = seen[v]
  BY DEF Close, Finish, Goto, scan, Inv, TypeOK, Sending
<1>4. \A a \in Attempts : Kept(a) /\ a[2] \in Nat
  BY PastStays, Indexed
<1>5. count' <= c[2] + 1 /\ count' \in Nat /\ c[2] \in Nat
  BY <1>1, <1>3, <1>4 DEF Spaced, OneByOne, Inv, TypeOK
<1>6. Past(c)'
  <2>1. status'[c] \in Closed
    BY <1>1, <1>3 DEF Spaced, OneByOne
  <2>2. \A v \in Workers : c \notin batch'[v]
    BY <1>1, <1>3, InHand DEF Inv, TypeOK
  <2> QED
    BY <2>1, <2>2 DEF Past
<1>7. ASSUME NEW a \in Attempts, a[2] <= c[2] PROVE Past(a)'
  <2>1. CASE a[2] < c[2]
    BY <1>1, <1>4, <2>1 DEF Spaced, OneByOne, Kept
  <2>2. CASE a[2] = c[2]
    BY <1>1, <1>6, <2>2, Indexed
  <2> QED
    BY <1>4, <1>7, <2>1, <2>2
<1>8. \A s \in Scanners : found[s] # NoAttempt => found[s] \in Attempts
  BY DEF Inv, TypeOK
<1>9. OneByOne'
  <2>1. \A a, b \in Attempts : Present(b)' /\ a[2] < b[2] => Past(a)'
    BY <1>2, <1>3, <1>4, <1>7 DEF Present
  <2>2. \A a \in Attempts : a[2] < count' => Past(a)'
    BY <1>4, <1>5, <1>7
  <2>3. \A q \in Scanners : found'[q] # NoAttempt =>
          \A a \in Attempts : a[2] < found'[q][2] => Past(a)'
    BY <1>2, <1>3, <1>4, <1>7, <1>8
  <2>4. \A v \in Workers : stage'[v] \in Sending => seen'[v] <= cur'[v][2]
    BY <1>3 DEF Spaced, OneByOne, Sending
  <2>5. \A v \in Workers : stage'[v] = "close" => status'[cur'[v]] \in Closed
    BY <1>3 DEF Spaced, OneByOne, Sending
  <2> QED
    BY <2>1, <2>2, <2>3, <2>4, <2>5 DEF OneByOne, Sending
<1>10. Resting'
  <2>1. \A a \in Attempts : Present(a)' => Past(a)'
    BY <1>2, <1>3, <1>7 DEF Present
  <2>2. \A s \in Scanners : found'[s] # NoAttempt => Present(found[s])'
    BY <1>2, <1>3, <1>7, <1>8 DEF Past, Present, Closed
  <2> QED
    BY <1>3, <2>1, <2>2 DEF Resting, Present
<1>11. SentLast'
  BY <1>3 DEF SentLast
<1> QED
  BY <1>9, <1>10, <1>11 DEF Spaced

LEMMA InitSpaced == Init => Spaced
BY Indexed, NotAnAttempt DEF Init, Spaced, OneByOne, Resting, SentLast, Present

LEMMA StepSpaced == OneRule /\ Inv /\ Spaced /\ [Next]_vars => Spaced'
BY SteadySteps, SteadyKeeps, ScanKeeps, ScheduleKeeps, LoadKeeps, SendKeeps, CloseKeeps

\* Were the interval not over, the hook that opened it would be of a later attempt.
LEMMA HookKeepsInterval ==
  ASSUME OneRule, Inv, Spaced, NEW w \in Workers, stage[w] = "publish"
  PROVE  RuleOf(cur[w]) \notin recent
<1> DEFINE c == cur[w]
<1>1. c \in Attempts /\ ~Past(c) /\ Present(c) /\ hooks[c] = 0
  BY InHand DEF Inv, Progress
<1>2. cooled = Rules
  BY LastInHand
<1>3. ASSUME NEW b \in Attempts, Uncounted(b) PROVE FALSE
  <2>1. b # c /\ c[2] <= b[2] /\ Present(b)
    BY <1>1, <1>3 DEF Uncounted, Present, Inv, StatusIsTrue
  <2>2. ~(c[2] < b[2])
    BY <1>1, <2>1 DEF Spaced, OneByOne
  <2> QED
    BY <1>1, <2>1, <2>2, Indexed
<1> QED
  BY <1>1, <1>2, <1>3, Indexed DEF Spaced, SentLast

LEMMA StepInterval ==
  ASSUME OneRule, Inv, Spaced, [Next]_vars, NEW a \in Attempts, hooks'[a] # hooks[a]
  PROVE  RuleOf(a) \notin recent
<1>1. PICK w \in Workers : Publish(w) \/ (Fail(w) /\ stage[w] = "publish" /\ Send(cur[w]))
  BY SteadySteps DEF Steady, ScanRule, Schedule, Load, MarkSent, Close
<1>2. a = cur[w] /\ stage[w] = "publish"
  BY <1>1 DEF Publish, Send, Inv, TypeOK
<1> QED
  BY <1>2, HookKeepsInterval

\* With one rule, no hook goes out within the interval of the one before, whoever scans,
\* crashes, is swept or answers: the next index needs the count its predecessor's end writes.
THEOREM IntervalIsKept == ASSUME OneRule PROVE Spec => IntervalKept
<1>1. Init => Inv /\ Spaced
  BY InitInv, InitSpaced
<1>2. Inv /\ Spaced /\ [Next]_vars => (Inv /\ Spaced)'
  BY StepInv, StepSpaced
<1>3. Inv /\ Spaced /\ [Next]_vars =>
        [\A a \in Attempts : hooks'[a] # hooks[a] => RuleOf(a) \notin recent]_vars
  BY StepInterval
<1> QED
  BY <1>1, <1>2, <1>3, PTL DEF Spec, IntervalKept
=============================================================================
