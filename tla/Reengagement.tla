---------------------------- MODULE Reengagement ----------------------------
(***************************************************************************)
(* Re-engagement of one dormant conversation: the periodic scan schedules  *)
(* attempts, worker processes claim and deliver them, the sweep fails      *)
(* those that take too long, and the user may answer at any time.          *)
(*                                                                         *)
(* An attempt is a pair <<rule, count>>: exactly the idempotency key       *)
(* conversation:rule:reengagementCount, which is unique in the table.      *)
(* Clocks are abstracted to the comparisons the code makes with them: a    *)
(* rule's stale threshold has passed or not, its interval and backoff have *)
(* passed or not, a message is newer than an attempt's scheduled_at or not.*)
(***************************************************************************)
EXTENDS Naturals

CONSTANTS
  Rules,
  Scanners,     \* processes that run the reengagement-scan job
  Workers,      \* processes that run the attempt loop
  MaxAttempts,  \* followup_rules.max_attempts
  NoAttempt, UserTurn, ChatAnswer,
  MaxReplies,   \* bound on the user's messages
  MaxFaults     \* bound on crashes

Attempts == UNION {{r} \X (0 .. MaxAttempts[r] - 1) : r \in Rules}
RuleOf(a) == a[1]

\* What the newest message of the conversation may be.
Texts == Attempts \cup {UserTurn, ChatAnswer}

ASSUME ReengagementAssumption ==
  /\ MaxAttempts \in [Rules -> Nat \ {0}]
  /\ NoAttempt \notin Texts
  /\ MaxReplies \in Nat /\ MaxFaults \in Nat

VARIABLES
  status,  \* of the attempts' rows, "none" without one
  late,    \* attempts scheduled before the newest message
  count,   \* conversations.reengagement_count
  needs,   \* conversations.needs_reengagement
  stale,   \* rules whose stale threshold the newest message has passed
  cooled,  \* rules whose interval has passed since last_reengagement_at
  recent,  \* rules whose interval has not passed since the newest hook went out
  open,    \* neither opted out, closed nor assigned to an operator
  active,  \* rules with is_active
  last,    \* the newest message
  todo,    \* of a scan: the rules to come ...
  found,   \* ... the candidate it is about to insert ...
  did,     \* ... and whether it has scheduled this conversation
  batch,   \* of a worker: the attempts it claimed and has not finished ...
  stage,   \* ... where it is with the current one ...
  cur,     \* ... which is that ...
  seen,    \* ... the count deliver read ...
  text,    \* ... and the message deliver read
  hooks,   \* how often an attempt was published
  replies, faults

scan    == <<todo, found, did>>
work    == <<batch, stage, cur, seen, text>>
convo   == <<count, needs, cooled>>
clock   == <<stale, late, last>>
outside == <<open, active, replies, faults>>
vars == <<status, convo, clock, recent, scan, work, hooks, outside>>

Closed == {"sent", "failed", "expired"}
Stages == {"idle", "expire", "generate", "load", "publish", "mark", "close"}

TypeOK ==
  /\ status \in [Attempts -> {"none", "scheduled", "processing"} \cup Closed]
  /\ late \subseteq Attempts
  /\ count \in Nat /\ needs \in BOOLEAN
  /\ stale \subseteq Rules /\ cooled \subseteq Rules /\ recent \subseteq Rules
  /\ open \in BOOLEAN /\ active \subseteq Rules
  /\ last \in Texts
  /\ todo \in [Scanners -> SUBSET Rules]
  /\ found \in [Scanners -> Attempts \cup {NoAttempt}]
  /\ did \in [Scanners -> BOOLEAN]
  /\ batch \in [Workers -> SUBSET Attempts]
  /\ stage \in [Workers -> Stages]
  /\ cur \in [Workers -> Attempts \cup {NoAttempt}]
  /\ seen \in [Workers -> Nat]
  /\ text \in [Workers -> Texts]
  /\ hooks \in [Attempts -> Nat]
  /\ replies \in Nat /\ faults \in Nat

Init ==
  /\ status = [a \in Attempts |-> "none"]
  /\ late = {}
  /\ count = 0 /\ needs = TRUE
  /\ stale = {} /\ cooled = Rules /\ recent = {}
  /\ open = TRUE /\ active = Rules
  /\ last = ChatAnswer
  /\ todo = [s \in Scanners |-> {}]
  /\ found = [s \in Scanners |-> NoAttempt]
  /\ did = [s \in Scanners |-> FALSE]
  /\ batch = [w \in Workers |-> {}]
  /\ stage = [w \in Workers |-> "idle"]
  /\ cur = [w \in Workers |-> NoAttempt]
  /\ seen = [w \in Workers |-> 0]
  /\ text = [w \in Workers |-> ChatAnswer]
  /\ hooks = [a \in Attempts |-> 0]
  /\ replies = 0 /\ faults = 0

-----------------------------------------------------------------------------

Existing == {a \in Attempts : status[a] # "none"}
Open(r) == \E a \in Attempts : RuleOf(a) = r /\ status[a] \in {"scheduled", "processing"}
SetStatus(a, s) == status' = [status EXCEPT ![a] = s]
Goto(w, l) == stage' = [stage EXCEPT ![w] = l]

\* A message is added: nothing is stale any more, every attempt is late.
NewMessage(m) ==
  /\ last' = m
  /\ stale' = {}
  /\ late' = Existing

\* The worker is through with its current attempt.
Finish(w) ==
  /\ Goto(w, "idle")
  /\ batch' = [batch EXCEPT ![w] = @ \ {cur[w]}]
  /\ cur' = [cur EXCEPT ![w] = NoAttempt]
  /\ seen' = [seen EXCEPT ![w] = 0]
  /\ text' = [text EXCEPT ![w] = ChatAnswer]

-----------------------------------------------------------------------------
(* Mistakes the properties are there to catch; nothing below uses them.    *)

NoInterval(r) ==
  needs /\ open /\ r \in stale /\ ~Open(r) /\ count < MaxAttempts[r]
KeyOfNext(r)      == <<r, count + 1>>
AnyUnsent         == {a \in Attempts : status[a] \in {"scheduled", "processing"}}
UpsertRow(a)      == SetStatus(a, "scheduled")
SweepScheduled(a) == status[a] = "scheduled"

-----------------------------------------------------------------------------
(* The scan.                                                               *)

\* The candidate query and the two checks on the candidate.
Eligible(r) ==
  /\ needs /\ open
  /\ r \in stale \cap cooled
  /\ ~Open(r)
  /\ count < MaxAttempts[r]

\* conversation:rule:cycleIndex, the index being the count.
Key(r) == <<r, count>>

StartScan(s) ==
  /\ todo[s] = {} /\ found[s] = NoAttempt
  /\ active # {}
  /\ todo' = [todo EXCEPT ![s] = active]
  /\ did' = [did EXCEPT ![s] = FALSE]
  /\ UNCHANGED <<found, status, convo, clock, recent, work, hooks, outside>>

\* scanForRule up to the insert, which uses what was read here.
ScanRule(s, r) ==
  /\ r \in todo[s] /\ found[s] = NoAttempt
  /\ todo' = [todo EXCEPT ![s] = @ \ {r}]
  /\ \/ /\ Eligible(r) /\ ~did[s]
        /\ found' = [found EXCEPT ![s] = Key(r)]
     \/ /\ ~Eligible(r) \/ did[s]
        /\ UNCHANGED found
  /\ UNCHANGED <<did, status, convo, clock, recent, work, hooks, outside>>

\* INSERT ... ON CONFLICT DO NOTHING: a row that is there stays as it is.
Insert(a) ==
  \/ status[a] = "none" /\ SetStatus(a, "scheduled")
  \/ status[a] # "none" /\ UNCHANGED status

Schedule(s) ==
  /\ found[s] # NoAttempt
  /\ Insert(found[s])
  /\ did' = [did EXCEPT ![s] = TRUE]
  /\ found' = [found EXCEPT ![s] = NoAttempt]
  /\ UNCHANGED <<todo, convo, clock, recent, work, hooks, outside>>

\* A query throws or the process dies: the rest of the scan is lost.
ScanFails(s) ==
  /\ todo[s] # {} \/ found[s] # NoAttempt
  /\ todo' = [todo EXCEPT ![s] = {}]
  /\ found' = [found EXCEPT ![s] = NoAttempt]
  /\ UNCHANGED <<did, status, convo, clock, recent, work, hooks, outside>>

-----------------------------------------------------------------------------
(* The workers.                                                            *)

Claimable == {a \in Attempts : status[a] = "scheduled"}

\* One UPDATE ... RETURNING; rows of other conversations may fill the batch.
Claim(w) ==
  /\ batch[w] = {}
  /\ \E B \in SUBSET Claimable \ {{}} :
       /\ batch' = [batch EXCEPT ![w] = B]
       /\ status' = [a \in Attempts |-> IF a \in B THEN "processing" ELSE status[a]]
  /\ UNCHANGED <<stage, cur, seen, text, convo, clock, recent, scan, hooks, outside>>

\* processAttempt reads the conversation and the rule.
Check(w) ==
  /\ stage[w] = "idle"
  /\ \E a \in batch[w] :
       /\ cur' = [cur EXCEPT ![w] = a]
       /\ \/ open /\ RuleOf(a) \in active /\ a \notin late /\ Goto(w, "generate")
          \/ ~open /\ Goto(w, "expire")
          \/ RuleOf(a) \notin active /\ Goto(w, "expire")
          \/ a \in late /\ Goto(w, "expire")
  /\ UNCHANGED <<status, batch, seen, text, convo, clock, recent, scan, hooks, outside>>

\* The updates of the attempt name its id, not its status.
Expire(w) ==
  /\ stage[w] = "expire"
  /\ SetStatus(cur[w], "expired")
  /\ Finish(w)
  /\ UNCHANGED <<convo, clock, recent, scan, hooks, outside>>

\* generateHook: the model answers and the hook becomes the newest message.
Generate(w) ==
  /\ stage[w] = "generate"
  /\ NewMessage(cur[w])
  /\ Goto(w, "load")
  /\ UNCHANGED <<status, batch, cur, seen, text, convo, recent, scan, hooks, outside>>

\* deliver reads the conversation and its newest message, of whoever's making.
Load(w) ==
  /\ stage[w] = "load"
  /\ last # UserTurn
  /\ seen' = [seen EXCEPT ![w] = count]
  /\ text' = [text EXCEPT ![w] = last]
  /\ Goto(w, "publish")
  /\ UNCHANGED <<status, batch, cur, convo, clock, recent, scan, hooks, outside>>

Send(a) ==
  /\ hooks' = [hooks EXCEPT ![a] = @ + 1]
  /\ recent' = Rules

Publish(w) ==
  /\ stage[w] = "publish"
  /\ Send(cur[w])
  /\ Goto(w, "mark")
  /\ UNCHANGED <<status, batch, cur, seen, text, convo, clock, scan, outside>>

MarkSent(w) ==
  /\ stage[w] = "mark"
  /\ SetStatus(cur[w], "sent")
  /\ Goto(w, "close")
  /\ UNCHANGED <<batch, cur, seen, text, convo, clock, recent, scan, hooks, outside>>

\* The count that was read before the validators ran is written back.
Close(w) ==
  /\ stage[w] = "close"
  /\ count' = seen[w] + 1
  /\ needs' = (count' < MaxAttempts[RuleOf(cur[w])])
  /\ cooled' = {}
  /\ Finish(w)
  /\ UNCHANGED <<status, clock, recent, scan, hooks, outside>>

\* Any call throws; a failed publish may have gone through.
Fail(w) ==
  /\ stage[w] # "idle"
  /\ SetStatus(cur[w], "failed")
  /\ Finish(w)
  /\ \/ UNCHANGED <<hooks, recent>>
     \/ stage[w] = "publish" /\ Send(cur[w])
  /\ UNCHANGED <<convo, clock, scan, outside>>

\* The process dies, or the update in the catch clause fails: the batch is lost.
Crash(w) ==
  /\ batch[w] # {} /\ faults < MaxFaults
  /\ faults' = faults + 1
  /\ Goto(w, "idle")
  /\ batch' = [batch EXCEPT ![w] = {}]
  /\ cur' = [cur EXCEPT ![w] = NoAttempt]
  /\ seen' = [seen EXCEPT ![w] = 0]
  /\ text' = [text EXCEPT ![w] = ChatAnswer]
  /\ UNCHANGED <<status, convo, clock, recent, scan, hooks, open, active, replies>>

Stuck(a) == status[a] = "processing"

\* The worker of a stuck attempt need not be dead: nothing bounds its calls.
Sweep(a) ==
  /\ Stuck(a)
  /\ SetStatus(a, "failed")
  /\ UNCHANGED <<convo, clock, recent, scan, work, hooks, outside>>

-----------------------------------------------------------------------------
(* The user, the operator and time.                                        *)

\* persistMessages of a turn writes the message and its answer in one
\* transaction: they have the same created_at, and either may sort first.
Reply ==
  /\ replies < MaxReplies
  /\ replies' = replies + 1
  /\ \E m \in {UserTurn, ChatAnswer} : NewMessage(m)
  /\ count' = 0 /\ needs' = TRUE
  /\ UNCHANGED <<status, cooled, recent, scan, work, hooks, open, active, faults>>

Leave ==
  /\ open /\ open' = FALSE
  /\ UNCHANGED <<status, convo, clock, recent, scan, work, hooks, active, replies, faults>>

Deactivate(r) ==
  /\ r \in active /\ active' = active \ {r}
  /\ UNCHANGED <<status, convo, clock, recent, scan, work, hooks, open, replies, faults>>

GoStale(r) ==
  /\ r \notin stale /\ stale' = stale \cup {r}
  /\ UNCHANGED <<late, last, status, convo, recent, scan, work, hooks, outside>>

Cool(r) ==
  /\ r \notin cooled \/ r \in recent
  /\ cooled' = cooled \cup {r}
  /\ recent' = recent \ {r}
  /\ UNCHANGED <<count, needs, status, clock, scan, work, hooks, outside>>

Next ==
  \/ \E s \in Scanners : \/ StartScan(s) \/ Schedule(s) \/ ScanFails(s)
                         \/ \E r \in Rules : ScanRule(s, r)
  \/ \E w \in Workers : \/ Claim(w) \/ Check(w) \/ Expire(w) \/ Generate(w) \/ Load(w)
                        \/ Publish(w) \/ MarkSent(w) \/ Close(w) \/ Fail(w) \/ Crash(w)
  \/ \E a \in Attempts : Sweep(a)
  \/ \E r \in Rules : Deactivate(r) \/ GoStale(r) \/ Cool(r)
  \/ Reply \/ Leave

Spec == Init /\ [][Next]_vars

\* The loops run on timers and a call that never answers is ended by the sweep
\* of its row, not of its worker: an attempt loop is only fair as a whole.
Steps(w) ==
  \/ Claim(w) \/ Check(w) \/ Expire(w) \/ Generate(w) \/ Load(w)
  \/ Publish(w) \/ MarkSent(w) \/ Close(w) \/ Fail(w)
FairSpec ==
  /\ Spec
  /\ \A w \in Workers : WF_vars(Steps(w))
  /\ \A a \in Attempts : WF_vars(Sweep(a))

-----------------------------------------------------------------------------

\* An attempt is published at most once (hook-delivery contract): the unique
\* key lets one row in and the claim gives it to one worker.
PublishedOnce == \A a \in Attempts : hooks[a] <= 1

\* The table tells the truth: what is 'sent' went out, what was never claimed
\* or is 'expired' did not.  ('failed' promises nothing.)
StatusIsTrue ==
  \A a \in Attempts :
    /\ status[a] = "sent" => hooks[a] = 1
    /\ status[a] \in {"none", "scheduled", "expired"} => hooks[a] = 0

TableIsTrue == StatusIsTrue /\ PublishedOnce

\* With one rule, a hook never goes out within the interval of the one before
\* (FR-006): a second rule's attempt may already be on its way.
IntervalKept ==
  [][\A a \in Attempts : hooks'[a] # hooks[a] => RuleOf(a) \notin recent]_vars

\* No attempt stays scheduled or claimed for ever (FR-011), whoever crashes.
AttemptsEnd ==
  \A a \in Attempts :
    status[a] \in {"scheduled", "processing"} ~> status[a] \in Closed

=============================================================================
