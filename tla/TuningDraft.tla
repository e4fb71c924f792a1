---------------------------- MODULE TuningDraft ----------------------------
(***************************************************************************)
(* The life of the tuning drafts of one persona: generate, poll, activate  *)
(* and roll back (routes/tuning/index.ts, tuning-draft-repository.ts,      *)
(* activate-pipeline.ts, doc-extraction-pipeline.ts and the two other      *)
(* producers of drafts, interview-state-machine.ts and                     *)
(* conversation-analyzer.ts).                                              *)
(*                                                                         *)
(* What an activation changes is the persona's live configuration: its     *)
(* prompt, its active funnel version and the switches of its validators,   *)
(* whose rows are taken as one.  A value of a part is the draft it came    *)
(* from.  A draft may fill in nothing: an accepted proposal is ready as it *)
(* was inserted.                                                           *)
(*                                                                         *)
(* PostgreSQL runs the transactions at READ COMMITTED: a statement sees    *)
(* what was committed when it began, a row that a transaction has written  *)
(* is locked until it ends, and a deadlock is broken by aborting one of    *)
(* its members.  Writes become visible together, at Commit.                *)
(***************************************************************************)
EXTENDS Integers, Sequences, FiniteSets

CONSTANTS Drafts,       \* identities the INSERTs hand out
          Requests,     \* HTTP requests in flight
          Bodies,       \* what a generation may fill in: sets of parts
          Nobody,       \* the holder of a free row
          Initially,    \* the configuration before any draft
          NoFunnel,     \* no active funnel version
          FirstFunnels, \* the active funnel version before any draft
          MaxStalls,    \* bound: drafts that get older than ninety seconds
          MaxOpened,    \* bound: requests that get past their first look
          MaxCrashes    \* bound: crashes of the process

Parts == {"prompt", "validators", "funnel"}

ASSUME TuningAssumption ==
  /\ Bodies \subseteq SUBSET Parts
  /\ IsFiniteSet(Drafts)
  /\ Nobody \notin Requests
  /\ Initially \notin Drafts /\ NoFunnel \notin Drafts /\ NoFunnel # Initially
  /\ Drafts \cap Parts = {} /\ "number" \notin Drafts
  /\ FirstFunnels \subseteq {Initially, NoFunnel}
  /\ MaxStalls \in Nat /\ MaxOpened \in Nat /\ MaxCrashes \in Nat

VARIABLES
  draft,     \* the rows of tuning_drafts
  job,       \* how far the producer of a draft has come
  polls,     \* polls that have read a stalled row and not yet written it
  req,       \* activate and rollback requests
  holder,    \* row locks
  live,      \* the persona's configuration
  made,      \* number of the last funnel version, 0 without a definition
  before,    \* history: the configuration an activation replaced, while ~overlap
  overlap,   \* history: two requests about the persona were open at once
  crossed,   \* history: an activation looked for its predecessor while
             \* another was between that look and its commit
  opened,
  crashes

vars == <<draft, job, polls, req, holder, live, made, before, overlap, crossed, opened, crashes>>

Statuses == {"none", "generating", "ready", "failed", "activated", "superseded", "rolled-back"}
Values == Drafts \cup {Initially, NoFunnel}
Rows == Parts \cup Drafts
Config == [Parts -> Values]

NoConfig == [p \in Parts |-> NoFunnel]
BlankDraft == [status |-> "none", body |-> {}, snap |-> NoConfig, old |-> FALSE]

\* A request for d: the parts it has saved or will restore, the parts it has
\* yet to read, the predecessors it found, the rows it has yet to lock and
\* the last version number it knows.
Fresh(op, d, snap, reads, todo) ==
  [op |-> op, d |-> d, snap |-> snap, reads |-> reads, doomed |-> {}, todo |-> todo, num |-> 0]
Idle == Fresh("idle", Nobody, NoConfig, <<>>, <<>>)

TypeOK ==
  /\ draft \in [Drafts -> [status: Statuses, body: SUBSET Parts, snap: Config, old: BOOLEAN]]
  /\ job \in [Drafts -> [pc: {"none", "asked", "running", "over"}, swept: SUBSET Drafts]]
  /\ polls \subseteq Drafts
  /\ req \in [Requests -> [op: {"idle", "activate", "scanned", "rollback"},
                           d: Drafts \cup {Nobody}, snap: Config, reads: Seq(Parts),
                           doomed: SUBSET Drafts, todo: Seq(Rows \cup {"number"}),
                           num: Nat]]
  /\ holder \in [Rows -> Requests \cup {Nobody}]
  /\ live \in Config
  /\ made \in Nat
  /\ before \in [Drafts -> Config]
  /\ overlap \in BOOLEAN
  /\ crossed \in BOOLEAN
  /\ opened \in 0 .. MaxOpened
  /\ crashes \in 0 .. MaxCrashes

Init ==
  /\ draft = [d \in Drafts |-> BlankDraft]
  /\ job = [d \in Drafts |-> [pc |-> "none", swept |-> {}]]
  /\ polls = {}
  /\ req = [r \in Requests |-> Idle]
  /\ holder = [row \in Rows |-> Nobody]
  /\ \E f \in FirstFunnels :
       live = [p \in Parts |-> IF p = "funnel" THEN f ELSE Initially]
  /\ made = IF live["funnel"] = NoFunnel THEN 0 ELSE 1
  /\ before = [d \in Drafts |-> NoConfig]
  /\ overlap = FALSE
  /\ crossed = FALSE
  /\ opened = 0
  /\ crashes = 0

-----------------------------------------------------------------------------
(* Producing a draft.                                                      *)

With(s) == {d \in Drafts : draft[d].status = s}
Stalled == {d \in With("generating") : draft[d].old}

tables == <<live, made, before>>
requests == <<req, holder, overlap, crossed, opened>>

(* Variant that Sweep is told apart from: the route inserts first and leaves
   the stalled drafts to the polls. *)
SweepNothing(d) ==
  /\ job[d].pc = "none"
  /\ job' = [job EXCEPT ![d] = [pc |-> "asked", swept |-> Stalled]]
  /\ UNCHANGED <<draft, polls, requests, tables, crashes>>

\* The generate route first fails the persona's stalled drafts.
Sweep(d) ==
  /\ job[d].pc = "none"
  /\ job' = [job EXCEPT ![d] = [pc |-> "asked", swept |-> Stalled]]
  /\ draft' = [e \in Drafts |->
                 IF e \in Stalled THEN [draft[e] EXCEPT !.status = "failed"] ELSE draft[e]]
  /\ UNCHANGED <<polls, requests, tables, crashes>>

\* INSERT of a 'generating' row.  The partial unique index lets through one
\* per persona; the second INSERT fails.  The interview and the proposals
\* insert without having swept.
Create(d) ==
  /\ job[d].pc \in {"none", "asked"}
  /\ IF With("generating") = {}
     THEN /\ draft' = [draft EXCEPT ![d].status = "generating"]
          /\ job' = [job EXCEPT ![d] = [pc |-> "running", swept |-> {}]]
     ELSE /\ job' = [job EXCEPT ![d] = [pc |-> "over", swept |-> {}]]
          /\ UNCHANGED draft
  /\ UNCHANGED <<polls, requests, tables, crashes>>

\* The producer's last statement writes its result by id, whatever the row
\* has become meanwhile.  When the write fails, so may the attempts to record
\* the failure, and the row stays as it is.
Finish(d) ==
  /\ job[d].pc = "running"
  /\ holder[d] = Nobody
  /\ job' = [job EXCEPT ![d].pc = "over"]
  /\ \/ UNCHANGED draft
     \/ draft' = [draft EXCEPT ![d].status = "failed"]
     \/ \E b \in Bodies : draft' = [draft EXCEPT ![d].status = "ready", ![d].body = b]
  /\ UNCHANGED <<polls, requests, tables, crashes>>

\* Ninety seconds since the INSERT.
Age(d) ==
  /\ draft[d].status = "generating"
  /\ ~draft[d].old
  /\ Cardinality({e \in Drafts : draft[e].old}) < MaxStalls
  /\ draft' = [draft EXCEPT ![d].old = TRUE]
  /\ UNCHANGED <<job, polls, requests, tables, crashes>>

\* getById, the reaper: it reads a stalled row, then fails it by id.
PollRead(d) ==
  /\ d \in Stalled
  /\ d \notin polls
  /\ polls' = polls \cup {d}
  /\ UNCHANGED <<draft, job, requests, tables, crashes>>

PollWrite(d) ==
  /\ d \in polls
  /\ holder[d] = Nobody
  /\ polls' = polls \ {d}
  /\ draft' = [draft EXCEPT ![d].status = "failed"]
  /\ overlap' = (overlap \/ draft[d].status # "generating")
  /\ UNCHANGED <<job, req, holder, crossed, tables, opened, crashes>>

-----------------------------------------------------------------------------
(* Activating and rolling back.                                            *)

Open(r) == req[r].op # "idle"
Begin(r, q) ==
  /\ ~Open(r)
  /\ opened < MaxOpened
  /\ opened' = opened + 1
  /\ req' = [req EXCEPT ![r] = q]
  /\ overlap' = (overlap \/ \E o \in Requests : Open(o))

\* The status is looked at before the transaction and not again in it.
Check(r, d) ==
  /\ draft[d].status = "ready"
  /\ Begin(r, Fresh("activate", d, NoConfig, <<"prompt", "validators", "funnel">>, <<>>))
  /\ UNCHANGED <<draft, job, polls, holder, crossed, tables, crashes>>

\* The snapshot is read by one statement a part.
ReadPart(r) ==
  /\ req[r].op = "activate"
  /\ req[r].reads # <<>>
  /\ LET p == Head(req[r].reads)
     IN  req' = [req EXCEPT ![r].snap[p] = live[p], ![r].reads = Tail(@),
                            ![r].num = IF p = "funnel" THEN made ELSE @]
  /\ UNCHANGED <<draft, job, polls, holder, overlap, crossed, tables, opened, crashes>>

\* The rows the writes of an activation lock, in the order of its statements.
WriteRows(b) ==
  (IF "prompt" \in b THEN <<"prompt">> ELSE <<>>)
    \o (IF "funnel" \in b THEN <<"number", "funnel">> ELSE <<>>)
    \o (IF "validators" \in b THEN <<"validators">> ELSE <<>>)

Orders(S) == {s \in [1 .. Cardinality(S) -> S] : {s[i] : i \in DOMAIN s} = S}

(* Variant: the predecessor is not superseded. *)
NoPredecessors == {}

\* The activated drafts that this activation will supersede.
Predecessors == With("activated")
Scanned == {r \in Requests : req[r].op = "scanned"}

\* UPDATE ... SET status = 'superseded' WHERE status = 'activated': the rows
\* are found now and locked one after another.
Scan(r) ==
  /\ req[r].op = "activate"
  /\ req[r].reads = <<>>
  /\ \E order \in Orders(Predecessors) :
       req' = [req EXCEPT ![r].op = "scanned", ![r].doomed = Predecessors,
                          ![r].todo = order \o WriteRows(draft[req[r].d].body) \o <<req[r].d>>]
  /\ crossed' = (crossed \/ Scanned # {})
  /\ UNCHANGED <<draft, job, polls, holder, overlap, tables, opened, crashes>>

\* A version that was not there at the activation is not put back.
UndoRows(snap) ==
  <<"prompt">> \o (IF snap["funnel"] # NoFunnel THEN <<"number", "funnel">> ELSE <<>>)
               \o <<"validators">>

(* Variant: only drafts that were never activated are refused. *)
UndoAny(r, d) ==
  /\ draft[d].status \in {"activated", "superseded"}
  /\ Begin(r, Fresh("rollback", d, draft[d].snap, <<>>, UndoRows(draft[d].snap) \o <<d>>))
  /\ UNCHANGED <<draft, job, polls, holder, crossed, tables, crashes>>

Undo(r, d) ==
  /\ draft[d].status = "activated"
  /\ Begin(r, Fresh("rollback", d, draft[d].snap, <<>>, UndoRows(draft[d].snap) \o <<d>>))
  /\ UNCHANGED <<draft, job, polls, holder, crossed, tables, crashes>>

\* SELECT max(version_number): an activation that saw no definition inserts
\* one, with version 1.
Number(r) ==
  /\ req[r].todo # <<>>
  /\ Head(req[r].todo) = "number"
  /\ req' = [req EXCEPT ![r].todo = Tail(@),
                        ![r].num = IF req[r].op = "scanned" /\ @ = 0 THEN 0 ELSE made]
  /\ UNCHANGED <<draft, job, polls, holder, overlap, crossed, tables, opened, crashes>>

(* Variant: a transaction is left open when its request is over. *)
ReleaseNothing(r) == holder

Release(r) == [row \in Rows |-> IF holder[row] = r THEN Nobody ELSE holder[row]]

\* The transaction is rolled back and the request answered with an error.
Abort(r) ==
  /\ req' = [req EXCEPT ![r] = Idle]
  /\ holder' = Release(r)
  /\ UNCHANGED <<draft, job, polls, overlap, crossed, tables, opened, crashes>>

AtRow(r) == Open(r) /\ req[r].reads = <<>> /\ req[r].todo # <<>> /\ Head(req[r].todo) # "number"
Row(r) == Head(req[r].todo)

\* A new version appeared since the statement looked: its unique indexes
\* refuse a second one of the same number, and a second active one.
Outnumbered(r) == Row(r) = "funnel" /\ req[r].num # made

Lock(r) ==
  /\ AtRow(r)
  /\ holder[Row(r)] \in {Nobody, r}
  /\ IF Outnumbered(r)
     THEN Abort(r)
     ELSE /\ holder' = [holder EXCEPT ![Row(r)] = r]
          /\ req' = [req EXCEPT ![r].todo = Tail(@)]
          /\ UNCHANGED <<draft, job, polls, overlap, crossed, tables, opened, crashes>>

\* PostgreSQL's deadlock detector.
Deadlocked(r) ==
  \E S \in SUBSET Requests :
    /\ r \in S
    /\ \A q \in S : AtRow(q) /\ holder[Row(q)] \in S \ {q}

Victim(r) == Deadlocked(r) /\ Abort(r)

Merge(base, over, ps) == [p \in Parts |-> IF p \in ps THEN over[p] ELSE base[p]]

(* Variant: the draft's columns are written as they were inserted. *)
OwnUnset(d) == [p \in Parts |-> Nobody]

Own(d) == [p \in Parts |-> d]

CommitActivate(r) ==
  /\ req[r].op = "scanned"
  /\ req[r].todo = <<>>
  /\ LET d == req[r].d
         b == draft[d].body
     IN  /\ draft' = [e \in Drafts |->
              IF e = d THEN [draft[e] EXCEPT !.status = "activated", !.snap = req[r].snap]
              ELSE IF e \in req[r].doomed /\ draft[e].status = "activated"
              THEN [draft[e] EXCEPT !.status = "superseded"]
              ELSE draft[e]]
         /\ live' = Merge(live, Own(d), b)
         /\ made' = IF "funnel" \in b THEN made + 1 ELSE made
         /\ before' = IF overlap THEN before ELSE [before EXCEPT ![d] = live]
  /\ req' = [req EXCEPT ![r] = Idle]
  /\ holder' = Release(r)
  /\ UNCHANGED <<job, polls, overlap, crossed, opened, crashes>>

(* Variant: the funnel version is not put back. *)
RestoredWithoutFunnel(snap) == Parts \ {"funnel"}

\* The parts a rollback to this snapshot writes.
Restored(snap) == IF snap["funnel"] = NoFunnel THEN Parts \ {"funnel"} ELSE Parts

CommitUndo(r) ==
  /\ req[r].op = "rollback"
  /\ req[r].todo = <<>>
  /\ draft' = [draft EXCEPT ![req[r].d].status = "rolled-back"]
  /\ live' = Merge(live, req[r].snap, Restored(req[r].snap))
  /\ req' = [req EXCEPT ![r] = Idle]
  /\ holder' = Release(r)
  /\ UNCHANGED <<job, polls, made, before, overlap, crossed, opened, crashes>>

\* The process dies: producers and polls with it, open transactions are
\* rolled back by the database.  (With nothing running it loses nothing.)
Crash ==
  /\ polls # {} \/ (\E r \in Requests : Open(r)) \/ \E d \in Drafts : job[d].pc = "running"
  /\ crashes < MaxCrashes
  /\ crashes' = crashes + 1
  /\ job' = [d \in Drafts |->
               IF job[d].pc = "none" THEN job[d] ELSE [job[d] EXCEPT !.pc = "over"]]
  /\ polls' = {}
  /\ req' = [r \in Requests |-> Idle]
  /\ holder' = [row \in Rows |-> Nobody]
  /\ UNCHANGED <<draft, overlap, crossed, opened, tables>>

-----------------------------------------------------------------------------
Step(r) ==
  \/ ReadPart(r)
  \/ Scan(r)
  \/ Number(r)
  \/ Lock(r)
  \/ Victim(r)
  \/ CommitActivate(r)
  \/ CommitUndo(r)

Produce(d) == Sweep(d) \/ Create(d) \/ Finish(d) \/ Age(d) \/ PollRead(d) \/ PollWrite(d)

Next ==
  \/ \E d \in Drafts : Produce(d)
  \/ \E r \in Requests, d \in Drafts : Check(r, d) \/ Undo(r, d)
  \/ \E r \in Requests : Step(r)
  \/ Crash

Spec == Init /\ [][Next]_vars

\* The statements of an open request are sent one after the other, and the
\* database answers each, if only with a deadlock error.  Strong fairness,
\* because a lock that is released goes to the transaction that waits for it.
FairSpec == Spec /\ \A r \in Requests : SF_vars(Step(r))

-----------------------------------------------------------------------------
(* Properties.                                                             *)

\* A persona has one activated draft (getActiveDraft and the rollback rule
\* take it for granted), unless one activation looked for its predecessor
\* while another was between that look and its commit.
OneActivated == crossed \/ \A d, e \in With("activated") : d = e

\* What an activated draft fills in is what the persona runs with: no chain
\* of activations, rollbacks, late producers, reapers and crashes parts the
\* two, as long as requests about the persona do not overlap.
ActivatedIsLive ==
  overlap \/ \A d \in With("activated") : \A p \in draft[d].body : live[p] = d

\* The rollback of a draft puts back every part of the configuration that
\* was live when the draft was activated, however long ago that was, except
\* for a funnel version where there was none: rollback then leaves the draft's.
Undone(d) == draft[d].status = "activated" /\ draft'[d].status = "rolled-back"
RollbackRestores ==
  [][\A d \in Drafts : Undone(d) /\ ~overlap =>
       \A p \in Parts : live'[p] = before[d][p] \/ (p = "funnel" /\ before[d][p] = NoFunnel)]_vars

\* spec.md:136, the escape hatch: a generate request is turned away only by
\* a draft that had not stalled when the request came in.
NeverBricked ==
  [][\A d \in Drafts : job[d].pc = "asked" /\ job'[d].pc = "over" /\ crashes' = crashes =>
       With("generating") \ job[d].swept # {}]_vars

\* Every activate or rollback request ends, though the two kinds lock the
\* persona and the drafts in opposite orders.
RequestsEnd == \A r \in Requests : Open(r) ~> ~Open(r)

(* What a document says and the code does not do. *)

\* specs/026-tuning/spec.md:131: an activation supersedes whatever draft is
\* activated, so that there is never more than one.
SingleActive == \A d, e \in With("activated") : d = e

\* specs/026-tuning/spec.md:128: the poll fails a draft that is generating.
ReapsGenerating ==
  [][\A d \in Drafts : draft[d].status # "failed" /\ draft'[d].status = "failed" =>
       draft[d].status = "generating"]_vars
=============================================================================
