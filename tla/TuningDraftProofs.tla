------------------------- MODULE TuningDraftProofs -------------------------
(***************************************************************************)
(* Theorems about TuningDraft, for any number of drafts and requests: its  *)
(* state is well typed; activations that do not cross leave at most one    *)
(* draft activated; a generate request is turned away only by a draft that *)
(* had not stalled; and while the requests do not overlap, the persona     *)
(* runs with its activated draft, and a rollback puts back what that draft *)
(* replaced.                                                               *)
(***************************************************************************)
EXTENDS TuningDraft, TLAPS, FiniteSetTheorems, SequenceTheorems

DraftRow == [status: Statuses, body: SUBSET Parts, snap: Config, old: BOOLEAN]
JobRow == [pc: {"none", "asked", "running", "over"}, swept: SUBSET Drafts]
Request == [op: {"idle", "activate", "scanned", "rollback"}, d: Drafts \cup {Nobody},
            snap: Config, reads: Seq(Parts), doomed: SUBSET Drafts,
            todo: Seq(Rows \cup {"number"}), num: Nat]

DraftOK == draft \in [Drafts -> DraftRow]
JobOK == job \in [Drafts -> JobRow] /\ polls \subseteq Drafts
Aimed == \A r \in Requests : Open(r) => req[r].d \in Drafts
ReqOK == req \in [Requests -> Request] /\ Aimed
LockOK == holder \in [Rows -> Requests \cup {Nobody}]
LiveOK == live \in Config /\ made \in Nat /\ before \in [Drafts -> Config]
FlagsOK ==
  /\ overlap \in BOOLEAN
  /\ crossed \in BOOLEAN
  /\ opened \in 0 .. MaxOpened
  /\ crashes \in 0 .. MaxCrashes

\* Types alone do not carry over a step: a commit needs its draft to be one.
TypeInv == DraftOK /\ JobOK /\ ReqOK /\ LockOK /\ LiveOK /\ FlagsOK

USE TuningAssumption DEF tables, requests

LEMMA TypeInvImplies == TypeInv => TypeOK
BY DEF TypeInv, TypeOK, DraftOK, JobOK, ReqOK, LockOK, LiveOK, FlagsOK, DraftRow, JobRow, Request

LEMMA NoConfigOK == NoConfig \in Config
BY DEF NoConfig, Config, Values

LEMMA IdleOK == Idle \in Request /\ Idle.op = "idle"
<1>1. <<>> \in Seq(Parts) /\ <<>> \in Seq(Rows \cup {"number"})
  OBVIOUS
<1> QED
  BY <1>1, NoConfigOK DEF Idle, Fresh, Request

LEMMA UndoRowsOK ==
  ASSUME NEW snap, NEW d \in Drafts
  PROVE  UndoRows(snap) \o <<d>> \in Seq(Rows \cup {"number"})
<1> DEFINE S == Rows \cup {"number"}
<1>1. <<"prompt">> \in Seq(S) /\ <<"number", "funnel">> \in Seq(S) /\ <<>> \in Seq(S)
      /\ <<"validators">> \in Seq(S) /\ <<d>> \in Seq(S)
  BY DEF Rows, Parts
<1> HIDE DEF S
<1>2. UndoRows(snap) \in Seq(S)
  BY <1>1 DEF UndoRows
<1>3. UndoRows(snap) \o <<d>> \in Seq(S)
  BY <1>1, <1>2
<1> QED
  BY <1>3 DEF S

\* What an activation will lock is a sequence of rows.
LEMMA ScanRowsOK ==
  ASSUME NEW P \in SUBSET Drafts, NEW order \in Orders(P), NEW b, NEW d \in Drafts
  PROVE  order \o WriteRows(b) \o <<d>> \in Seq(Rows \cup {"number"})
<1> DEFINE S == Rows \cup {"number"}
<1>1. Cardinality(P) \in Nat
  BY FS_Subset, FS_CardinalityType
<1>2. order \in Seq(P)
  BY <1>1 DEF Orders
<1>3. order \in Seq(S)
  BY <1>2 DEF Rows
<1>4. <<"prompt">> \in Seq(S) /\ <<"number", "funnel">> \in Seq(S) /\ <<>> \in Seq(S)
      /\ <<"validators">> \in Seq(S) /\ <<d>> \in Seq(S)
  BY DEF Rows, Parts
<1> HIDE DEF S
<1>5. WriteRows(b) \in Seq(S)
  BY <1>4 DEF WriteRows
<1>6. order \o WriteRows(b) \o <<d>> \in Seq(S)
  BY <1>3, <1>4, <1>5
<1> QED
  BY <1>6 DEF S

LEMMA ReleaseOK == ASSUME LockOK, NEW r \in Requests
                   PROVE  Release(r) \in [Rows -> Requests \cup {Nobody}]
BY DEF LockOK, Release

LEMMA MergeOK ==
  ASSUME NEW x \in Config, NEW y \in Config, NEW ps
  PROVE  Merge(x, y, ps) \in Config
BY DEF Merge, Config

LEMMA OwnOK == ASSUME NEW d \in Drafts PROVE Own(d) \in Config
BY DEF Own, Config, Values

\* What the actions do to a row of tuning_drafts.
LEMMA RowEdits ==
  ASSUME NEW row \in DraftRow, NEW s \in Statuses, NEW snap \in Config
  PROVE  /\ [row EXCEPT !.old = TRUE] \in DraftRow
         /\ [row EXCEPT !.status = s] \in DraftRow
         /\ [row EXCEPT !.status = s, !.snap = snap] \in DraftRow
<1> DEFINE x == [row EXCEPT !.old = TRUE]
           y == [row EXCEPT !.status = s]
           z == [row EXCEPT !.status = s, !.snap = snap]
<1>0. row = [status |-> row.status, body |-> row.body, snap |-> row.snap, old |-> row.old]
  BY DEF DraftRow
<1>a. x = [row EXCEPT !.old = TRUE] /\ z = [row EXCEPT !.status = s, !.snap = snap]
  OBVIOUS
<1>2. y = [status |-> s, body |-> row.body, snap |-> row.snap, old |-> row.old]
  BY DEF DraftRow
<1> HIDE DEF x, z
<1>1. x = [status |-> row.status, body |-> row.body, snap |-> row.snap, old |-> TRUE]
  BY <1>0, <1>a
<1>3. z = [status |-> s, body |-> row.body, snap |-> snap, old |-> row.old]
  BY <1>0, <1>a
<1>4. row.status \in Statuses /\ row.body \in SUBSET Parts /\ row.snap \in Config
      /\ row.old \in BOOLEAN
  BY DEF DraftRow
<1> HIDE DEF y
<1>5. x \in DraftRow /\ y \in DraftRow /\ z \in DraftRow
  BY <1>1, <1>2, <1>3, <1>4 DEF DraftRow
<1> QED
  BY <1>5 DEF x, y, z

\* What the reads and the locks of a request do to it.
LEMMA RequestEdits ==
  ASSUME NEW q \in Request, NEW snap \in Config, NEW reads \in Seq(Parts), NEW num \in Nat,
         NEW todo \in Seq(Rows \cup {"number"})
  PROVE  /\ [q EXCEPT !.snap = snap, !.reads = reads, !.num = num] \in Request
         /\ [q EXCEPT !.todo = todo] \in Request
<1> DEFINE x == [q EXCEPT !.snap = snap, !.reads = reads, !.num = num]
           y == [q EXCEPT !.todo = todo]
<1>1. q = [op |-> q.op, d |-> q.d, snap |-> q.snap, reads |-> q.reads,
           doomed |-> q.doomed, todo |-> q.todo, num |-> q.num]
  BY DEF Request
<1>2. x = [q EXCEPT !.snap = snap, !.reads = reads, !.num = num] /\ y = [q EXCEPT !.todo = todo]
  OBVIOUS
<1> HIDE DEF x, y
<1>3. x = [op |-> q.op, d |-> q.d, snap |-> snap, reads |-> reads,
           doomed |-> q.doomed, todo |-> q.todo, num |-> num]
  BY <1>1, <1>2
<1>4. y = [op |-> q.op, d |-> q.d, snap |-> q.snap, reads |-> q.reads,
           doomed |-> q.doomed, todo |-> todo, num |-> q.num]
  BY <1>1, <1>2
<1>5. x \in Request /\ y \in Request
  BY <1>3, <1>4 DEF Request
<1> QED
  BY <1>5 DEF x, y

\* An open request that proceeds is still about its draft.
LEMMA Proceeds ==
  ASSUME ReqOK, NEW r \in Requests, Open(r), NEW e \in Request, e.d = req[r].d,
         req' = [req EXCEPT ![r] = e]
  PROVE  ReqOK'
BY DEF ReqOK, Aimed, Open

\* What an activation's commit does to the rows.
LEMMA CommittedRows ==
  ASSUME DraftOK, ReqOK, NEW r \in Requests, CommitActivate(r)
  PROVE  \A e \in Drafts :
           /\ draft'[e].body = draft[e].body
           /\ \/ draft'[e] = draft[e] /\ e # req[r].d
              \/ draft'[e].status = "superseded" /\ e # req[r].d
              \/ draft'[e].status = "activated" /\ draft'[e].snap = req[r].snap /\ e = req[r].d
<1> SUFFICES ASSUME NEW e \in Drafts
             PROVE  /\ draft'[e].body = draft[e].body
                    /\ \/ draft'[e] = draft[e] /\ e # req[r].d
                       \/ draft'[e].status = "superseded" /\ e # req[r].d
                       \/ /\ draft'[e].status = "activated"
                          /\ draft'[e].snap = req[r].snap
                          /\ e = req[r].d
  OBVIOUS
<1> DEFINE row == draft[e]
           snap == req[r].snap
           z == [row EXCEPT !.status = "activated", !.snap = snap]
<1>1. row = [status |-> row.status, body |-> row.body, snap |-> row.snap, old |-> row.old]
  BY DEF DraftOK, DraftRow
<1>2. z = [row EXCEPT !.status = "activated", !.snap = snap]
  OBVIOUS
<1>3. CASE e = req[r].d
  <2>1. draft'[e] = z
    BY <1>3 DEF CommitActivate
  <2> HIDE DEF z, snap, row
  <2>2. z = [status |-> "activated", body |-> row.body, snap |-> snap, old |-> row.old]
    BY <1>1, <1>2
  <2>3. z.status = "activated" /\ z.body = row.body /\ z.snap = snap
    BY <2>2
  <2> QED
    BY <1>3, <2>1, <2>3 DEF snap, row
<1>4. CASE e # req[r].d /\ e \in req[r].doomed /\ draft[e].status = "activated"
  <2>1. draft'[e] = [draft[e] EXCEPT !.status = "superseded"]
    BY <1>4 DEF CommitActivate
  <2> QED
    BY <1>4, <2>1 DEF DraftOK, DraftRow
<1>5. CASE e # req[r].d /\ ~(e \in req[r].doomed /\ draft[e].status = "activated")
  <2>1. draft'[e] = draft[e]
    BY <1>5 DEF CommitActivate
  <2> QED
    BY <1>5, <2>1
<1> QED
  BY <1>3, <1>4, <1>5

-----------------------------------------------------------------------------
(* Type correctness.                                                       *)

LEMMA InitType == Init => TypeInv
<1> SUFFICES ASSUME Init PROVE DraftOK /\ JobOK /\ ReqOK /\ LockOK /\ LiveOK /\ FlagsOK
  BY DEF TypeInv
<1>1. DraftOK
  BY NoConfigOK DEF Init, DraftOK, BlankDraft, DraftRow, Statuses
<1>2. ReqOK
  BY IdleOK DEF Init, ReqOK, Aimed, Open, Idle
<1>3. LiveOK
  <2>1. PICK f \in FirstFunnels :
          live = [p \in Parts |-> IF p = "funnel" THEN f ELSE Initially]
    BY DEF Init
  <2>2. live \in Config
    BY <2>1 DEF Config, Values
  <2> QED
    BY <2>2, NoConfigOK DEF Init, LiveOK
<1>4. JobOK /\ LockOK
  BY DEF Init, JobOK, JobRow, LockOK
<1>5. FlagsOK
  <2>1. opened = 0 /\ crashes = 0
    BY DEF Init
  <2>2. opened \in 0 .. MaxOpened /\ crashes \in 0 .. MaxCrashes
    BY <2>1
  <2>3. overlap \in BOOLEAN /\ crossed \in BOOLEAN
    BY Zenon DEF Init
  <2> QED
    BY <2>2, <2>3 DEF FlagsOK
<1> QED
  BY <1>1, <1>2, <1>3, <1>4, <1>5

\* Requests that begin, proceed or are abandoned stay well typed.
LEMMA BeginType ==
  ASSUME TypeInv, NEW r \in Requests, NEW q \in Request, q.d \in Drafts, Begin(r, q)
  PROVE  ReqOK' /\ overlap' \in BOOLEAN /\ opened' \in 0 .. MaxOpened
<1>1. ReqOK'
  BY DEF TypeInv, Begin, ReqOK, Aimed, Open
<1>2. overlap' \in BOOLEAN
  BY DEF Begin
<1>3. opened' \in 0 .. MaxOpened
  BY DEF TypeInv, FlagsOK, Begin
<1> QED
  BY <1>1, <1>2, <1>3

LEMMA AbortType ==
  ASSUME TypeInv, NEW r \in Requests, Abort(r)
  PROVE  TypeInv'
<1>1. ReqOK'
  BY IdleOK DEF TypeInv, Abort, ReqOK, Aimed, Open
<1>2. LockOK'
  BY ReleaseOK DEF TypeInv, Abort, LockOK
<1>3. DraftOK' /\ JobOK' /\ LiveOK' /\ FlagsOK'
  BY DEF TypeInv, Abort, DraftOK, JobOK, LiveOK, FlagsOK
<1> QED
  BY <1>1, <1>2, <1>3 DEF TypeInv

LEMMA NextType == TypeInv /\ [Next]_vars => TypeInv'
<1> SUFFICES ASSUME TypeInv, [Next]_vars PROVE TypeInv'
  OBVIOUS
<1>0. DraftOK /\ JobOK /\ ReqOK /\ LockOK /\ LiveOK /\ FlagsOK
  BY DEF TypeInv
<1>1. ASSUME NEW d \in Drafts, Sweep(d) PROVE TypeInv'
  <2>1. DraftOK'
    BY <1>0, <1>1 DEF Sweep, DraftOK, DraftRow, Statuses
  <2>2. JobOK'
    BY <1>0, <1>1 DEF Sweep, JobOK, JobRow, Stalled, With
  <2>3. ReqOK' /\ LockOK' /\ LiveOK' /\ FlagsOK'
    BY <1>0, <1>1 DEF Sweep, ReqOK, Aimed, Open, LockOK, LiveOK, FlagsOK
  <2> QED
    BY <2>1, <2>2, <2>3 DEF TypeInv
<1>2. ASSUME NEW d \in Drafts, Create(d) PROVE TypeInv'
  <2>1. DraftOK'
    BY <1>0, <1>2 DEF Create, DraftOK, DraftRow, Statuses
  <2>2. JobOK'
    BY <1>0, <1>2 DEF Create, JobOK, JobRow
  <2>3. ReqOK' /\ LockOK' /\ LiveOK' /\ FlagsOK'
    BY <1>0, <1>2 DEF Create, ReqOK, Aimed, Open, LockOK, LiveOK, FlagsOK
  <2> QED
    BY <2>1, <2>2, <2>3 DEF TypeInv
<1>3. ASSUME NEW d \in Drafts, Finish(d) PROVE TypeInv'
  <2>1. DraftOK'
    BY <1>0, <1>3 DEF Finish, DraftOK, DraftRow, Statuses
  <2>2. JobOK'
    BY <1>0, <1>3 DEF Finish, JobOK, JobRow
  <2>3. ReqOK' /\ LockOK' /\ LiveOK' /\ FlagsOK'
    BY <1>0, <1>3 DEF Finish, ReqOK, Aimed, Open, LockOK, LiveOK, FlagsOK
  <2> QED
    BY <2>1, <2>2, <2>3 DEF TypeInv
<1>4. ASSUME NEW d \in Drafts, Age(d) PROVE TypeInv'
  <2>1. DraftOK'
    <3>1. [draft[d] EXCEPT !.old = TRUE] \in DraftRow
      BY <1>0, RowEdits, NoConfigOK DEF DraftOK, Statuses
    <3> QED
      BY <1>0, <1>4, <3>1 DEF Age, DraftOK
  <2>2. JobOK' /\ ReqOK' /\ LockOK' /\ LiveOK' /\ FlagsOK'
    BY <1>0, <1>4 DEF Age, JobOK, ReqOK, Aimed, Open, LockOK, LiveOK, FlagsOK
  <2> QED
    BY <2>1, <2>2 DEF TypeInv
<1>5. ASSUME NEW d \in Drafts, PollRead(d) PROVE TypeInv'
  <2>1. JobOK'
    BY <1>0, <1>5 DEF PollRead, JobOK
  <2>2. DraftOK' /\ ReqOK' /\ LockOK' /\ LiveOK' /\ FlagsOK'
    BY <1>0, <1>5 DEF PollRead, DraftOK, ReqOK, Aimed, Open, LockOK, LiveOK, FlagsOK
  <2> QED
    BY <2>1, <2>2 DEF TypeInv
<1>6. ASSUME NEW d \in Drafts, PollWrite(d) PROVE TypeInv'
  <2>1. DraftOK'
    BY <1>0, <1>6 DEF PollWrite, DraftOK, DraftRow, Statuses
  <2>2. JobOK' /\ ReqOK' /\ LockOK' /\ LiveOK' /\ FlagsOK'
    BY <1>0, <1>6 DEF PollWrite, JobOK, ReqOK, Aimed, Open, LockOK, LiveOK, FlagsOK
  <2> QED
    BY <2>1, <2>2 DEF TypeInv
<1>7. ASSUME NEW r \in Requests, NEW d \in Drafts, Check(r, d) PROVE TypeInv'
  <2>1. ReqOK' /\ overlap' \in BOOLEAN /\ opened' \in 0 .. MaxOpened
    <3> DEFINE q == Fresh("activate", d, NoConfig, <<"prompt", "validators", "funnel">>, <<>>)
    <3>1. <<"prompt", "validators", "funnel">> \in Seq(Parts) /\ <<>> \in Seq(Rows \cup {"number"})
      BY DEF Parts
    <3>2. q \in Request /\ q.d = d
      BY <3>1, NoConfigOK DEF Fresh, Request
    <3>3. Begin(r, q)
      BY <1>7 DEF Check
    <3> QED
      BY <3>2, <3>3, BeginType
  <2>2. DraftOK' /\ JobOK' /\ LockOK' /\ LiveOK' /\ FlagsOK'
    BY <1>0, <1>7, <2>1 DEF Check, DraftOK, JobOK, LockOK, LiveOK, FlagsOK
  <2> QED
    BY <2>1, <2>2 DEF TypeInv
<1>8. ASSUME NEW r \in Requests, NEW d \in Drafts, Undo(r, d) PROVE TypeInv'
  <2>1. draft[d].snap \in Config
    BY <1>0 DEF DraftOK, DraftRow
  <2>2. ReqOK' /\ overlap' \in BOOLEAN /\ opened' \in 0 .. MaxOpened
    <3> DEFINE q == Fresh("rollback", d, draft[d].snap, <<>>, UndoRows(draft[d].snap) \o <<d>>)
    <3>1. <<>> \in Seq(Parts) /\ UndoRows(draft[d].snap) \o <<d>> \in Seq(Rows \cup {"number"})
      BY UndoRowsOK
    <3>2. q \in Request /\ q.d = d
      BY <2>1, <3>1 DEF Fresh, Request
    <3>3. Begin(r, q)
      BY <1>8 DEF Undo
    <3> QED
      BY <3>2, <3>3, BeginType
  <2>3. DraftOK' /\ JobOK' /\ LockOK' /\ LiveOK' /\ FlagsOK'
    BY <1>0, <1>8, <2>2 DEF Undo, DraftOK, JobOK, LockOK, LiveOK, FlagsOK
  <2> QED
    BY <2>2, <2>3 DEF TypeInv
<1>9. ASSUME NEW r \in Requests, ReadPart(r) PROVE TypeInv'
  <2> DEFINE p == Head(req[r].reads)
  <2>1. req[r] \in Request /\ p \in Parts /\ Tail(req[r].reads) \in Seq(Parts)
    BY <1>0, <1>9 DEF ReadPart, ReqOK, Aimed, Open, Request
  <2>2. [req[r].snap EXCEPT ![p] = live[p]] \in Config
    BY <1>0, <2>1 DEF LiveOK, Config, Request
  <2>3. ReqOK'
    <3> DEFINE snap == [req[r].snap EXCEPT ![p] = live[p]]
               num == IF p = "funnel" THEN made ELSE req[r].num
               e == [req[r] EXCEPT !.snap = snap, !.reads = Tail(req[r].reads), !.num = num]
    <3>1. num \in Nat
      BY <1>0, <2>1 DEF LiveOK, Request
    <3>2. e \in Request
      BY <2>1, <2>2, <3>1, RequestEdits DEF Request
    <3>3. req' = [req EXCEPT ![r] = e]
      BY <1>0, <1>9 DEF ReadPart, ReqOK, Request
    <3>4. e.d = req[r].d /\ Open(r)
      BY <1>9, <2>1 DEF Request, ReadPart, Open
    <3> HIDE DEF e
    <3> QED
      BY <1>0, <3>2, <3>3, <3>4, Proceeds
  <2>4. DraftOK' /\ JobOK' /\ LockOK' /\ LiveOK' /\ FlagsOK'
    BY <1>0, <1>9 DEF ReadPart, DraftOK, JobOK, LockOK, LiveOK, FlagsOK
  <2> QED
    BY <2>3, <2>4 DEF TypeInv
<1>10. ASSUME NEW r \in Requests, Scan(r) PROVE TypeInv'
  <2>1. Predecessors \in SUBSET Drafts
    BY DEF Predecessors, With
  <2>2. req[r] \in Request /\ req[r].d \in Drafts
    BY <1>0, <1>10 DEF ReqOK, Aimed, Open, Scan
  <2>3. PICK order \in Orders(Predecessors) :
          req' = [req EXCEPT ![r].op = "scanned", ![r].doomed = Predecessors,
                      ![r].todo = order \o WriteRows(draft[req[r].d].body) \o <<req[r].d>>]
    BY <1>10 DEF Scan
  <2> DEFINE rows == order \o WriteRows(draft[req[r].d].body) \o <<req[r].d>>
  <2>4. rows \in Seq(Rows \cup {"number"})
    BY <2>1, <2>2, ScanRowsOK
  <2>5. req' = [req EXCEPT ![r].op = "scanned", ![r].doomed = Predecessors, ![r].todo = rows]
    BY <2>3
  <2> HIDE DEF rows
  <2>6. ReqOK'
    BY <1>0, <2>1, <2>2, <2>4, <2>5, ZenonT(40) DEF ReqOK, Aimed, Open, Request
  <2>7. DraftOK' /\ JobOK' /\ LockOK' /\ LiveOK' /\ FlagsOK'
    BY <1>0, <1>10 DEF Scan, DraftOK, JobOK, LockOK, LiveOK, FlagsOK
  <2> QED
    BY <2>6, <2>7 DEF TypeInv
<1>11. ASSUME NEW r \in Requests, Number(r) PROVE TypeInv'
  <2>1. req[r] \in Request /\ Tail(req[r].todo) \in Seq(Rows \cup {"number"})
    BY <1>0, <1>11 DEF ReqOK, Request, Number
  <2>2. ReqOK'
    BY <1>0, <1>11, <2>1, ZenonT(40) DEF Number, ReqOK, Aimed, Open, Request, LiveOK
  <2>3. DraftOK' /\ JobOK' /\ LockOK' /\ LiveOK' /\ FlagsOK'
    BY <1>0, <1>11 DEF Number, DraftOK, JobOK, LockOK, LiveOK, FlagsOK
  <2> QED
    BY <2>2, <2>3 DEF TypeInv
<1>12. ASSUME NEW r \in Requests, Lock(r) PROVE TypeInv'
  <2>1. CASE Abort(r)
    BY <2>1, AbortType
  <2>2. CASE ~Abort(r)
    <3>1. /\ holder' = [holder EXCEPT ![Row(r)] = r]
          /\ req' = [req EXCEPT ![r].todo = Tail(@)]
          /\ UNCHANGED <<draft, job, polls, overlap, crossed, tables, opened, crashes>>
      BY <1>12, <2>2 DEF Lock
    <3>2. req[r] \in Request /\ Tail(req[r].todo) \in Seq(Rows \cup {"number"})
      BY <1>0, <1>12 DEF ReqOK, Request, Lock, AtRow
    <3>3. ReqOK'
      <4> DEFINE e == [req[r] EXCEPT !.todo = Tail(req[r].todo)]
      <4>1. e \in Request
        BY <3>2, RequestEdits DEF Request
      <4>2. req' = [req EXCEPT ![r] = e]
        BY <3>1
      <4>3. e.d = req[r].d /\ Open(r)
        BY <1>12, <3>2 DEF Request, Lock, AtRow
      <4> HIDE DEF e
      <4> QED
        BY <1>0, <4>1, <4>2, <4>3, Proceeds
    <3>4. LockOK'
      BY <1>0, <3>1 DEF LockOK
    <3>5. DraftOK' /\ JobOK' /\ LiveOK' /\ FlagsOK'
      BY <1>0, <3>1 DEF DraftOK, JobOK, LiveOK, FlagsOK
    <3> QED
      BY <3>3, <3>4, <3>5 DEF TypeInv
  <2> QED
    BY <2>1, <2>2
<1>13. ASSUME NEW r \in Requests, Victim(r) PROVE TypeInv'
  BY <1>13, AbortType DEF Victim
<1>14. ASSUME NEW r \in Requests, CommitActivate(r) PROVE TypeInv'
  <2>1. req[r].d \in Drafts /\ req[r].snap \in Config
    BY <1>0, <1>14 DEF ReqOK, Aimed, Open, Request, CommitActivate
  <2>2. DraftOK'
    <3>1. \A e \in Drafts : [draft[e] EXCEPT !.status = "superseded"] \in DraftRow
      BY <1>0 DEF DraftOK, DraftRow, Statuses
    <3>2. \A e \in Drafts :
            [draft[e] EXCEPT !.status = "activated", !.snap = req[r].snap] \in DraftRow
      BY <1>0, <2>1, RowEdits DEF DraftOK, Statuses
    <3> QED
      BY <1>0, <1>14, <3>1, <3>2 DEF CommitActivate, DraftOK
  <2>3. ReqOK'
    BY <1>0, <1>14, IdleOK DEF CommitActivate, ReqOK, Aimed, Open, Idle
  <2>4. LockOK'
    BY <1>0, <1>14, ReleaseOK DEF CommitActivate, LockOK
  <2>5. LiveOK'
    <3>1. live' \in Config
      <4>1. live' = Merge(live, Own(req[r].d), draft[req[r].d].body)
        BY <1>14 DEF CommitActivate
      <4>2. Own(req[r].d) \in Config /\ live \in Config
        BY <1>0, <2>1, OwnOK DEF LiveOK
      <4>3. Merge(live, Own(req[r].d), draft[req[r].d].body) \in Config
        BY <4>2, MergeOK
      <4> QED
        BY <4>1, <4>3
    <3>2. made' \in Nat
      <4>1. made' \in {made, made + 1}
        BY <1>14 DEF CommitActivate
      <4> QED
        BY <1>0, <4>1 DEF LiveOK
    <3>3. before' \in [Drafts -> Config]
      BY <1>0, <1>14, <2>1 DEF CommitActivate, LiveOK
    <3> QED
      BY <3>1, <3>2, <3>3 DEF LiveOK
  <2>6. JobOK' /\ FlagsOK'
    BY <1>0, <1>14 DEF CommitActivate, JobOK, FlagsOK
  <2> QED
    BY <2>2, <2>3, <2>4, <2>5, <2>6 DEF TypeInv
<1>15. ASSUME NEW r \in Requests, CommitUndo(r) PROVE TypeInv'
  <2>1. req[r].d \in Drafts /\ req[r].snap \in Config
    BY <1>0, <1>15 DEF ReqOK, Aimed, Open, Request, CommitUndo
  <2>2. DraftOK'
    BY <1>0, <1>15, <2>1 DEF CommitUndo, DraftOK, DraftRow, Statuses
  <2>3. ReqOK'
    BY <1>0, <1>15, IdleOK DEF CommitUndo, ReqOK, Aimed, Open, Idle
  <2>4. LockOK'
    BY <1>0, <1>15, ReleaseOK DEF CommitUndo, LockOK
  <2>5. LiveOK'
    BY <1>0, <1>15, <2>1, MergeOK DEF CommitUndo, LiveOK
  <2>6. JobOK' /\ FlagsOK'
    BY <1>0, <1>15 DEF CommitUndo, JobOK, FlagsOK
  <2> QED
    BY <2>2, <2>3, <2>4, <2>5, <2>6 DEF TypeInv
<1>16. ASSUME Crash PROVE TypeInv'
  <2>1. JobOK'
    BY <1>0, <1>16 DEF Crash, JobOK, JobRow
  <2>2. ReqOK' /\ LockOK'
    BY <1>0, <1>16, IdleOK DEF Crash, ReqOK, Aimed, Open, Idle, LockOK
  <2>3. DraftOK' /\ LiveOK' /\ FlagsOK'
    BY <1>0, <1>16 DEF Crash, DraftOK, LiveOK, FlagsOK
  <2> QED
    BY <2>1, <2>2, <2>3 DEF TypeInv
<1>17. ASSUME UNCHANGED vars PROVE TypeInv'
  BY <1>0, <1>17 DEF vars, TypeInv, DraftOK, JobOK, ReqOK, Aimed, Open, LockOK, LiveOK, FlagsOK
<1> QED
  BY <1>1, <1>2, <1>3, <1>4, <1>5, <1>6, <1>7, <1>8, <1>9, <1>10, <1>11, <1>12, <1>13, <1>14,
     <1>15, <1>16, <1>17 DEF Next, Produce, Step

\* Every reachable state is well typed: the rows, the requests and the locks
\* of the generate, poll, activate and rollback routes.
THEOREM TypeCorrect == Spec => []TypeOK
<1>1. Spec => []TypeInv
  BY InitType, NextType, PTL DEF Spec
<1> QED
  BY <1>1, TypeInvImplies, PTL

-----------------------------------------------------------------------------
(* One activated draft.                                                    *)
(*                                                                         *)
(* While no two activations have crossed, at most one is between its look  *)
(* for a predecessor and its commit, and whatever is activated meanwhile   *)
(* it has seen: nobody else can activate.  So its commit leaves itself.    *)

OneScanned == \A r, q \in Scanned : r = q
Covered == \A r \in Scanned : With("activated") \subseteq req[r].doomed
AtMostOne == \A d, e \in With("activated") : d = e
ActiveInv == TypeInv /\ (crossed \/ (OneScanned /\ Covered /\ AtMostOne))

\* A step keeps the invariant that adds no activated draft and no activation
\* past its look.
LEMMA Quiet ==
  ASSUME ActiveInv, TypeInv', crossed' = crossed,
         With("activated")' \subseteq With("activated"),
         \A r \in Scanned' : r \in Scanned /\ req'[r].doomed = req[r].doomed
  PROVE  ActiveInv'
<1> SUFFICES ASSUME ~crossed PROVE (OneScanned /\ Covered /\ AtMostOne)'
  BY DEF ActiveInv
<1>1. OneScanned /\ Covered /\ AtMostOne
  BY DEF ActiveInv
<1>2. OneScanned'
  BY <1>1 DEF OneScanned
<1>3. Covered'
  BY <1>1 DEF Covered
<1>4. AtMostOne'
  BY <1>1 DEF AtMostOne
<1> QED
  BY <1>2, <1>3, <1>4

LEMMA InitActive == Init => ActiveInv
BY InitType DEF Init, ActiveInv, OneScanned, Covered, AtMostOne, Scanned, With, Idle, Fresh,
   BlankDraft

\* Requests that are abandoned, and rows that fail, are ready or undone.
LEMMA AbortActive ==
  ASSUME ActiveInv, TypeInv', NEW r \in Requests, Abort(r)
  PROVE  ActiveInv'
<1>1. \A q \in Scanned' : q \in Scanned /\ req'[q].doomed = req[q].doomed
  BY IdleOK DEF Abort, Scanned, ActiveInv, TypeInv, ReqOK
<1> QED
  BY <1>1, Quiet DEF Abort, With

LEMMA NextActive == ActiveInv /\ [Next]_vars => ActiveInv'
<1> SUFFICES ASSUME ActiveInv, [Next]_vars PROVE ActiveInv'
  OBVIOUS
<1>0. TypeInv /\ TypeInv' /\ DraftOK /\ ReqOK
  BY NextType DEF ActiveInv, TypeInv
<1>1. ASSUME NEW d \in Drafts, Produce(d) PROVE ActiveInv'
  <2>1. With("activated")' \subseteq With("activated")
    BY <1>0, <1>1 DEF Produce, Sweep, Create, Finish, Age, PollRead, PollWrite, With, DraftOK,
       DraftRow
  <2>2. UNCHANGED <<req, crossed>>
    BY <1>1 DEF Produce, Sweep, Create, Finish, Age, PollRead, PollWrite
  <2> QED
    BY <1>0, <2>1, <2>2, Quiet DEF Scanned
<1>3. ASSUME NEW r \in Requests, NEW d \in Drafts, Check(r, d) \/ Undo(r, d) PROVE ActiveInv'
  <2>1. UNCHANGED <<draft, crossed>>
    BY <1>3 DEF Check, Undo
  <2>2. \A o \in Scanned' : o \in Scanned /\ req'[o].doomed = req[o].doomed
    BY <1>0, <1>3 DEF Check, Undo, Begin, Fresh, Scanned, ReqOK
  <2> QED
    BY <1>0, <2>1, <2>2, Quiet DEF With
<1>4. ASSUME NEW r \in Requests, ReadPart(r) \/ Number(r) PROVE ActiveInv'
  <2>1. UNCHANGED <<draft, crossed>>
    BY <1>4 DEF ReadPart, Number
  <2>2. req'[r].op = req[r].op /\ req'[r].doomed = req[r].doomed
    <3>1. req[r] \in Request
      BY <1>0 DEF ReqOK
    <3>2. CASE Number(r)
      BY <1>0, <3>1, <3>2 DEF Number, ReqOK, Request
    <3>3. CASE ReadPart(r)
      <4> DEFINE p == Head(req[r].reads)
                 snap == [req[r].snap EXCEPT ![p] = live[p]]
                 num == IF p = "funnel" THEN made ELSE req[r].num
      <4>1. req' = [req EXCEPT ![r] = [req[r] EXCEPT !.snap = snap, !.reads = Tail(@),
                                                     !.num = num]]
        BY <1>0, <3>1, <3>3 DEF ReadPart, ReqOK, Request
      <4>2. req'[r] = [req[r] EXCEPT !.snap = snap, !.reads = Tail(@), !.num = num]
        BY <1>0, <4>1 DEF ReqOK
      <4> HIDE DEF snap, num
      <4> QED
        BY <3>1, <4>2 DEF Request
    <3> QED
      BY <1>4, <3>2, <3>3
  <2>3. \A o \in Requests \ {r} : req'[o] = req[o]
    BY <1>0, <1>4 DEF ReadPart, Number, ReqOK
  <2>4. \A o \in Scanned' : o \in Scanned /\ req'[o].doomed = req[o].doomed
    BY <2>2, <2>3 DEF Scanned
  <2> QED
    BY <1>0, <2>1, <2>4, Quiet DEF With
<1>5. ASSUME NEW r \in Requests, Scan(r) PROVE ActiveInv'
  <2> SUFFICES ASSUME ~crossed' PROVE (OneScanned /\ Covered /\ AtMostOne)'
    BY <1>0 DEF ActiveInv
  <2>1. Scanned = {} /\ AtMostOne
    BY <1>5 DEF Scan, ActiveInv
  <2>2. Scanned' \subseteq {r} /\ req'[r].doomed = With("activated")
    <3>1. req[r] \in Request
      BY <1>0 DEF ReqOK
    <3>2. PICK todo : req' = [req EXCEPT ![r].op = "scanned", ![r].doomed = Predecessors,
                                       ![r].todo = todo]
      BY <1>5 DEF Scan
    <3>3. req'[r].doomed = Predecessors
      BY <1>0, <3>1, <3>2 DEF ReqOK, Request
    <3>4. \A o \in Requests \ {r} : req'[o] = req[o]
      BY <1>0, <3>2 DEF ReqOK
    <3> QED
      BY <2>1, <3>3, <3>4 DEF Scanned, Predecessors
  <2>3. With("activated")' = With("activated")
    BY <1>5 DEF Scan, With
  <2> QED
    BY <2>1, <2>2, <2>3 DEF OneScanned, Covered, AtMostOne
<1>6. ASSUME NEW r \in Requests, Lock(r) PROVE ActiveInv'
  <2>1. CASE Abort(r)
    BY <1>0, <2>1, AbortActive
  <2>2. CASE ~Abort(r)
    <3>1. /\ req' = [req EXCEPT ![r].todo = Tail(@)]
          /\ UNCHANGED <<draft, crossed>>
      BY <1>6, <2>2 DEF Lock
    <3>2. \A o \in Scanned' : o \in Scanned /\ req'[o].doomed = req[o].doomed
      BY <1>0, <3>1 DEF Scanned, ReqOK, Request
    <3> QED
      BY <1>0, <3>1, <3>2, Quiet DEF With
  <2> QED
    BY <2>1, <2>2
<1>7. ASSUME NEW r \in Requests, Victim(r) PROVE ActiveInv'
  BY <1>0, <1>7, AbortActive DEF Victim
<1>8. ASSUME NEW r \in Requests, CommitActivate(r) PROVE ActiveInv'
  <2> SUFFICES ASSUME ~crossed' PROVE (OneScanned /\ Covered /\ AtMostOne)'
    BY <1>0 DEF ActiveInv
  <2>1. OneScanned /\ Covered /\ r \in Scanned
    BY <1>8 DEF CommitActivate, ActiveInv, Scanned
  <2>2. Scanned' = {}
    BY <1>0, <1>8, <2>1, IdleOK DEF CommitActivate, Scanned, OneScanned, ReqOK
  <2>3. With("activated")' \subseteq {req[r].d}
    <3>1. ASSUME NEW e \in Drafts, e # req[r].d PROVE draft'[e].status # "activated"
      <4>1. CASE draft[e].status = "activated"
        <5>1. e \in req[r].doomed
          BY <2>1, <4>1 DEF Covered, With
        <5>2. draft'[e] = [draft[e] EXCEPT !.status = "superseded"]
          BY <1>8, <3>1, <4>1, <5>1 DEF CommitActivate
        <5> QED
          BY <1>0, <5>2 DEF DraftOK, DraftRow
      <4>2. CASE draft[e].status # "activated"
        <5>1. draft'[e] = draft[e]
          BY <1>8, <3>1, <4>2 DEF CommitActivate
        <5> QED
          BY <4>2, <5>1
      <4> QED
        BY <4>1, <4>2
    <3> QED
      BY <3>1 DEF With
  <2> QED
    BY <2>2, <2>3 DEF OneScanned, Covered, AtMostOne
<1>9. ASSUME NEW r \in Requests, CommitUndo(r) PROVE ActiveInv'
  <2>1. With("activated")' \subseteq With("activated")
    BY <1>0, <1>9 DEF CommitUndo, With, DraftOK, DraftRow
  <2>2. \A o \in Scanned' : o \in Scanned /\ req'[o].doomed = req[o].doomed
    BY <1>0, <1>9, IdleOK DEF CommitUndo, Scanned, ReqOK
  <2> QED
    BY <1>0, <1>9, <2>1, <2>2, Quiet DEF CommitUndo
<1>10. ASSUME Crash PROVE ActiveInv'
  <2>1. \A o \in Scanned' : o \in Scanned /\ req'[o].doomed = req[o].doomed
    BY <1>10, IdleOK DEF Crash, Scanned
  <2> QED
    BY <1>0, <1>10, <2>1, Quiet DEF Crash, With
<1>11. ASSUME UNCHANGED vars PROVE ActiveInv'
  BY <1>0, <1>11, Quiet DEF vars, With, Scanned
<1> QED
  BY <1>1, <1>3, <1>4, <1>5, <1>6, <1>7, <1>8, <1>9, <1>10, <1>11 DEF Next, Step

\* Activations that do not cross leave one activated draft a persona, which
\* is what getActiveDraft and the rollback rule rely on.
THEOREM OneActivatedDraft == Spec => []OneActivated
<1>1. Spec => []ActiveInv
  BY InitActive, NextActive, PTL DEF Spec
<1>2. ActiveInv => OneActivated
  BY DEF ActiveInv, AtMostOne, OneActivated
<1> QED
  BY <1>1, <1>2, PTL

-----------------------------------------------------------------------------
(* The escape hatch.                                                       *)
(*                                                                         *)
(* A swept draft has failed, and only an INSERT makes a draft generating:  *)
(* what turns a generate request away cannot be among those it swept.      *)

Ran == {"running", "over"}
Inserted == \A d \in Drafts : draft[d].status = "generating" => job[d].pc \in Ran
SweptFail ==
  \A d \in Drafts : job[d].pc = "asked" =>
    \A e \in job[d].swept : draft[e].status # "generating" /\ job[e].pc \in Ran
SweptInv == TypeInv /\ Inserted /\ SweptFail

\* Steps that insert nothing and sweep nothing.
LEMMA SweptQuiet ==
  ASSUME SweptInv, TypeInv',
         \A e \in Drafts : draft'[e].status = "generating" => draft[e].status = "generating",
         \A e \in Drafts : job[e].pc \in Ran => job'[e].pc \in Ran,
         \A e \in Drafts : job'[e].pc = "asked" =>
                             job[e].pc = "asked" /\ job'[e].swept = job[e].swept
  PROVE  SweptInv'
<1>1. \A e \in Drafts : job[e].swept \subseteq Drafts
  BY DEF SweptInv, TypeInv, JobOK, JobRow
<1>2. Inserted'
  BY DEF SweptInv, Inserted
<1>3. SweptFail'
  BY <1>1 DEF SweptInv, SweptFail
<1> QED
  BY <1>2, <1>3 DEF SweptInv

LEMMA InitSwept == Init => SweptInv
BY InitType DEF Init, SweptInv, Inserted, SweptFail, BlankDraft

LEMMA NextSwept == SweptInv /\ [Next]_vars => SweptInv'
<1> SUFFICES ASSUME SweptInv, [Next]_vars PROVE SweptInv'
  OBVIOUS
<1>0. TypeInv /\ TypeInv' /\ DraftOK /\ JobOK /\ ReqOK
  BY NextType DEF SweptInv, TypeInv
<1>1. ASSUME NEW d \in Drafts, Sweep(d) PROVE SweptInv'
  <2>1. /\ job[d].pc = "none" /\ job'[d].pc = "asked" /\ job'[d].swept = Stalled
        /\ \A e \in Drafts \ {d} : job'[e] = job[e]
    BY <1>0, <1>1 DEF Sweep, JobOK
  <2>2. \A e \in Drafts : draft'[e].status =
                            IF e \in Stalled THEN "failed" ELSE draft[e].status
    BY <1>0, <1>1 DEF Sweep, DraftOK, DraftRow
  <2>3. \A e \in Stalled : e \in Drafts /\ draft[e].status = "generating"
    BY DEF Stalled, With
  <2>4. \A e \in Drafts : job[e].swept \subseteq Drafts
    BY <1>0 DEF JobOK, JobRow
  <2>5. Inserted'
    BY <2>1, <2>2 DEF SweptInv, Inserted, Ran
  <2>6. SweptFail'
    <3>1. ASSUME NEW e \in Stalled PROVE draft'[e].status # "generating" /\ job'[e].pc \in Ran
      BY <2>1, <2>2, <2>3, <3>1 DEF SweptInv, Inserted, Ran
    <3>2. ASSUME NEW c \in Drafts \ {d}, job[c].pc = "asked", NEW e \in job[c].swept
          PROVE  draft'[e].status # "generating" /\ job'[e].pc \in Ran
      BY <2>1, <2>2, <2>4, <3>2 DEF SweptInv, SweptFail, Ran
    <3> QED
      BY <2>1, <3>1, <3>2 DEF SweptFail
  <2> QED
    BY <1>0, <2>5, <2>6 DEF SweptInv
<1>2. ASSUME NEW d \in Drafts, Create(d) PROVE SweptInv'
  <2>1. /\ job[d].pc \in {"none", "asked"} /\ job'[d].pc \in Ran
        /\ draft'[d].status = "generating" => job'[d].pc \in Ran
        /\ \A e \in Drafts \ {d} : job'[e] = job[e] /\ draft'[e] = draft[e]
    BY <1>0, <1>2 DEF Create, JobOK, DraftOK, Ran
  <2>2. \A e \in Drafts : job[e].swept \subseteq Drafts
    BY <1>0 DEF JobOK, JobRow
  <2>3. Inserted'
    BY <2>1 DEF SweptInv, Inserted
  <2>4. SweptFail'
    BY <2>1, <2>2 DEF SweptInv, SweptFail, Ran
  <2> QED
    BY <1>0, <2>3, <2>4 DEF SweptInv
<1>3. ASSUME NEW d \in Drafts, Finish(d) \/ Age(d) \/ PollRead(d) \/ PollWrite(d) PROVE SweptInv'
  <2>1. \A e \in Drafts : draft'[e].status = "generating" => draft[e].status = "generating"
    <3>1. CASE Age(d)
      BY <1>0, <3>1 DEF Age, DraftOK, DraftRow
    <3>2. CASE Finish(d) \/ PollRead(d) \/ PollWrite(d)
      BY <1>0, <3>2 DEF Finish, PollRead, PollWrite, DraftOK, DraftRow
    <3> QED
      BY <1>3, <3>1, <3>2
  <2>2. \A e \in Drafts : /\ job'[e].pc \in {job[e].pc, "over"}
                          /\ job'[e].swept = job[e].swept
    BY <1>0, <1>3 DEF Finish, Age, PollRead, PollWrite, JobOK, JobRow
  <2> QED
    BY <1>0, <2>1, <2>2, SweptQuiet DEF Ran
<1>4. CASE Crash
  <2>1. draft' = draft
    BY <1>4 DEF Crash
  <2>2. \A e \in Drafts : job'[e] = IF job[e].pc = "none" THEN job[e]
                                    ELSE [job[e] EXCEPT !.pc = "over"]
    BY <1>4 DEF Crash
  <2>3. ASSUME NEW e \in Drafts
        PROVE  job'[e].pc = IF job[e].pc = "none" THEN "none" ELSE "over"
    <3>1. job[e] \in JobRow
      BY <1>0 DEF JobOK
    <3>2. CASE job[e].pc = "none"
      BY <2>2, <3>2
    <3>3. CASE job[e].pc # "none"
      <4>1. job'[e] = [job[e] EXCEPT !.pc = "over"]
        BY <2>2, <3>3
      <4> QED
        BY <3>1, <3>3, <4>1 DEF JobRow
    <3> QED
      BY <3>2, <3>3
  <2>4. \A e \in Drafts : job[e].pc \in Ran => job'[e].pc \in Ran
    BY <2>3 DEF Ran
  <2>5. \A e \in Drafts : job'[e].pc # "asked"
    BY <2>3
  <2> QED
    BY <1>0, <2>1, <2>4, <2>5, SweptQuiet
<1>5. ASSUME NEW r \in Requests, Step(r) \/ \E d \in Drafts : Check(r, d) \/ Undo(r, d)
      PROVE  SweptInv'
  <2>1. job' = job
    BY <1>5 DEF Step, ReadPart, Scan, Number, Lock, Abort, Victim, CommitActivate, CommitUndo,
       Check, Undo
  <2>2. \A e \in Drafts : draft'[e].status = "generating" => draft[e].status = "generating"
    <3>1. CASE CommitActivate(r)
      <4>1. \A e \in Drafts :
              draft'[e] = draft[e] \/ draft'[e].status \in {"activated", "superseded"}
        BY <1>0, <3>1, CommittedRows
      <4> QED
        BY <4>1
    <3>2. CASE CommitUndo(r)
      BY <1>0, <3>2 DEF CommitUndo, DraftOK, DraftRow
    <3>3. CASE \/ ReadPart(r) \/ Scan(r) \/ Number(r) \/ Lock(r) \/ Victim(r)
               \/ \E d \in Drafts : Check(r, d) \/ Undo(r, d)
      BY <3>3 DEF ReadPart, Scan, Number, Lock, Abort, Victim, Check, Undo
    <3> QED
      BY <1>5, <3>1, <3>2, <3>3 DEF Step
  <2> QED
    BY <1>0, <2>1, <2>2, SweptQuiet
<1>6. CASE UNCHANGED vars
  BY <1>0, <1>6, SweptQuiet DEF vars
<1> QED
  BY <1>1, <1>2, <1>3, <1>4, <1>5, <1>6 DEF Next, Produce

LEMMA StepTurnedAway ==
  ASSUME SweptInv, [Next]_vars, NEW d \in Drafts,
         job[d].pc = "asked", job'[d].pc = "over", crashes' = crashes
  PROVE  With("generating") \ job[d].swept # {}
<1>0. JobOK /\ FlagsOK
  BY DEF SweptInv, TypeInv
<1>1. CASE Create(d)
  <2>1. With("generating") # {}
    BY <1>0, <1>1 DEF Create, JobOK
  <2>2. \A e \in job[d].swept : e \notin With("generating")
    BY DEF SweptInv, SweptFail, With
  <2> QED
    BY <2>1, <2>2
<1>2. ~Crash
  BY <1>0 DEF Crash, FlagsOK
<1>3. ASSUME NEW e \in Drafts, Produce(e), ~(e = d /\ Create(e)) PROVE FALSE
  <2>1. CASE Sweep(e) \/ Create(e)
    BY <1>0, <1>3, <2>1 DEF Sweep, Create, JobOK
  <2>2. CASE Finish(e) \/ Age(e) \/ PollRead(e) \/ PollWrite(e)
    BY <1>0, <2>2 DEF Finish, Age, PollRead, PollWrite, JobOK, JobRow
  <2> QED
    BY <1>3, <2>1, <2>2 DEF Produce
<1>4. ~UNCHANGED vars
  BY DEF vars
<1>5. ASSUME NEW r \in Requests, Step(r) \/ \E e \in Drafts : Check(r, e) \/ Undo(r, e)
      PROVE  FALSE
  BY <1>5 DEF Step, ReadPart, Scan, Number, Lock, Abort, Victim, CommitActivate, CommitUndo,
     Check, Undo
<1> QED
  BY <1>1, <1>2, <1>3, <1>4, <1>5 DEF Next

\* A generate request is turned away only by a draft that had not stalled when it came
\* in (spec.md:136), whatever producers, polls, activations and crashes do meanwhile.
THEOREM EscapeHatch == Spec => NeverBricked
<1>1. SweptInv /\ [Next]_vars =>
        [\A d \in Drafts : job[d].pc = "asked" /\ job'[d].pc = "over" /\ crashes' = crashes =>
           With("generating") \ job[d].swept # {}]_vars
  BY StepTurnedAway
<1>2. Init => SweptInv
  BY InitSwept
<1>3. SweptInv /\ [Next]_vars => SweptInv'
  BY NextSwept
<1> QED
  BY <1>1, <1>2, <1>3, PTL DEF Spec, NeverBricked

-----------------------------------------------------------------------------
(* One request at a time.                                                  *)
(*                                                                         *)
(* While requests about the persona do not overlap, the open one is about  *)
(* a draft nobody else writes: what it has saved is what is live, and what *)
(* it will put back is what was live before the draft that it undoes.      *)

Settled == {"ready", "activated"}

\* The producer of a draft that can be activated or undone has written its
\* last; it holds whether requests overlap or not.
JobsOver ==
  /\ \A d \in Drafts : draft[d].status \in Settled => job[d].pc = "over"
  /\ \A r \in Requests : Open(r) => job[req[r].d].pc = "over"

Single == \A r, q \in Requests : Open(r) /\ Open(q) => r = q
Saved(r) ==
  /\ req[r].reads \in {<<"prompt", "validators", "funnel">>, <<"validators", "funnel">>,
                       <<"funnel">>, <<>>}
  /\ req[r].reads # <<"prompt", "validators", "funnel">> => req[r].snap["prompt"] = live["prompt"]
  /\ req[r].reads \in {<<"funnel">>, <<>>} => req[r].snap["validators"] = live["validators"]
  /\ req[r].reads = <<>> => req[r].snap["funnel"] = live["funnel"]
Awaited(r) ==
  /\ req[r].op \in {"activate", "scanned"} => draft[req[r].d].status = "ready" /\ Saved(r)
  /\ req[r].op = "scanned" => req[r].reads = <<>>
  /\ req[r].op = "rollback" => /\ draft[req[r].d].status = "activated"
                               /\ req[r].snap = draft[req[r].d].snap
Runs(d) ==
  draft[d].status = "activated" => /\ draft[d].snap = before[d]
                                   /\ \A p \in draft[d].body : live[p] = d
Lone ==
  /\ ~crossed
  /\ Single
  /\ \A r \in Requests : Awaited(r)
  /\ \A d \in Drafts : Runs(d)

SerialInv == ActiveInv /\ JobsOver /\ (overlap \/ Lone)

LEMMA InitSerial == Init => SerialInv
<1> SUFFICES ASSUME Init PROVE SerialInv
  OBVIOUS
<1>1. \A d \in Drafts : draft[d].status = "none"
  BY DEF Init, BlankDraft
<1>2. \A r \in Requests : req[r].op = "idle"
  BY IdleOK DEF Init
<1>3. JobsOver
  BY <1>1, <1>2 DEF JobsOver, Settled, Open
<1>4. Lone
  BY <1>1, <1>2 DEF Init, Lone, Single, Open, Awaited, Runs
<1> QED
  BY <1>3, <1>4, InitActive DEF SerialInv

\* No step but a commit settles a draft whose producer is not over.
LEMMA JobsQuiet ==
  ASSUME JobsOver,
         \A e \in Drafts : job[e].pc = "over" => job'[e].pc = "over",
         \A e \in Drafts : draft'[e].status \in Settled =>
                             draft[e].status \in Settled \/ job'[e].pc = "over",
         \A q \in Requests : Open(q)' => /\ req'[q].d \in Drafts
                                         /\ \/ Open(q) /\ req'[q].d = req[q].d
                                            \/ job'[req'[q].d].pc = "over"
  PROVE  JobsOver'
<1>1. \A d \in Drafts : draft'[d].status \in Settled => job'[d].pc = "over"
  BY DEF JobsOver
<1>2. \A q \in Requests : Open(q)' => job'[req'[q].d].pc = "over"
  BY DEF JobsOver
<1> QED
  BY <1>1, <1>2 DEF JobsOver

\* Requests that end and drafts that were not settled do not disturb a lone request.
LEMMA LoneQuiet ==
  ASSUME Lone, ReqOK, UNCHANGED <<live, before, crossed>>,
         \A q \in Requests : req'[q] = req[q] \/ req'[q].op = "idle",
         \A e \in Drafts : draft[e].status \in Settled =>
                             /\ draft'[e].status = draft[e].status
                             /\ draft'[e].body = draft[e].body
                             /\ draft'[e].snap = draft[e].snap,
         \A e \in Drafts : draft'[e].status = "activated" => draft[e].status = "activated"
  PROVE  Lone'
<1>1. Single'
  BY DEF Lone, Single, Open
<1>2. ASSUME NEW q \in Requests PROVE Awaited(q)'
  <2>1. CASE req'[q].op = "idle"
    BY <2>1 DEF Awaited
  <2>2. CASE req'[q] = req[q] /\ req[q].op # "idle"
    <3>1. req[q].d \in Drafts
      BY <2>2 DEF ReqOK, Aimed, Open
    <3>2. Awaited(q)
      BY DEF Lone
    <3> QED
      BY <2>2, <3>1, <3>2 DEF Awaited, Saved, Settled
  <2> QED
    BY <2>1, <2>2
<1>3. ASSUME NEW e \in Drafts PROVE Runs(e)'
  BY DEF Lone, Runs, Settled
<1> QED
  BY <1>1, <1>2, <1>3 DEF Lone

\* The step of the one open request.
LEMMA ByOne ==
  ASSUME Lone, NEW r \in Requests, Open(r), ~crossed',
         \A o \in Requests \ {r} : req'[o] = req[o],
         Awaited(r)', \A d \in Drafts : Runs(d)'
  PROVE  Lone'
<1>1. \A o \in Requests \ {r} : req'[o].op = "idle"
  BY DEF Lone, Single, Open
<1>2. Single'
  BY <1>1 DEF Single, Open
<1>3. \A o \in Requests : Awaited(o)'
  BY <1>1 DEF Awaited
<1> QED
  BY <1>2, <1>3 DEF Lone

\* What the steps of a request before its commit leave of it.
LEMMA ReadFields ==
  ASSUME ReqOK, NEW r \in Requests, ReadPart(r)
  PROVE  /\ req'[r].op = "activate" /\ req'[r].d = req[r].d
         /\ req'[r].reads = Tail(req[r].reads)
         /\ req'[r].snap = [req[r].snap EXCEPT ![Head(req[r].reads)] = live[Head(req[r].reads)]]
         /\ \A o \in Requests \ {r} : req'[o] = req[o]
<1> DEFINE q == req[r]
           p == Head(req[r].reads)
           snap == [req[r].snap EXCEPT ![p] = live[p]]
           reads == Tail(req[r].reads)
           num == IF p = "funnel" THEN made ELSE req[r].num
           e == [q EXCEPT !.snap = snap, !.reads = reads, !.num = num]
<1>1. req' = [req EXCEPT ![r] = e]
  BY DEF ReadPart, ReqOK, Request
<1>2. req'[r] = e /\ \A o \in Requests \ {r} : req'[o] = req[o]
  BY <1>1 DEF ReqOK
<1>3. q = [op |-> q.op, d |-> q.d, snap |-> q.snap, reads |-> q.reads,
           doomed |-> q.doomed, todo |-> q.todo, num |-> q.num]
  BY DEF ReqOK, Request
<1>4. e = [q EXCEPT !.snap = snap, !.reads = reads, !.num = num]
  OBVIOUS
<1>5. q.op = "activate"
  BY DEF ReadPart
<1> HIDE DEF q, snap, reads, num, e
<1>6. e = [op |-> q.op, d |-> q.d, snap |-> snap, reads |-> reads,
           doomed |-> q.doomed, todo |-> q.todo, num |-> num]
  BY <1>3, <1>4
<1>7. e.op = q.op /\ e.d = q.d /\ e.snap = snap /\ e.reads = reads
  BY <1>6
<1> QED
  BY <1>2, <1>5, <1>7 DEF q, snap, reads

LEMMA ScanFields ==
  ASSUME ReqOK, NEW r \in Requests, Scan(r)
  PROVE  /\ req'[r].op = "scanned" /\ req'[r].d = req[r].d
         /\ req'[r].reads = req[r].reads /\ req'[r].snap = req[r].snap
         /\ \A o \in Requests \ {r} : req'[o] = req[o]
<1> DEFINE q == req[r]
           doomed == Predecessors
<1>1. PICK todo : req' = [req EXCEPT ![r].op = "scanned", ![r].doomed = Predecessors,
                                     ![r].todo = todo]
  BY DEF Scan
<1> DEFINE e == [q EXCEPT !.op = "scanned", !.doomed = doomed, !.todo = todo]
<1>2. req' = [req EXCEPT ![r] = e]
  BY <1>1 DEF ReqOK, Request
<1>3. req'[r] = e /\ \A o \in Requests \ {r} : req'[o] = req[o]
  BY <1>2 DEF ReqOK
<1>4. q = [op |-> q.op, d |-> q.d, snap |-> q.snap, reads |-> q.reads,
           doomed |-> q.doomed, todo |-> q.todo, num |-> q.num]
  BY DEF ReqOK, Request
<1>5. e = [q EXCEPT !.op = "scanned", !.doomed = doomed, !.todo = todo]
  OBVIOUS
<1> HIDE DEF q, doomed, e
<1>6. e = [op |-> "scanned", d |-> q.d, snap |-> q.snap, reads |-> q.reads,
           doomed |-> doomed, todo |-> todo, num |-> q.num]
  BY <1>4, <1>5
<1>7. e.op = "scanned" /\ e.d = q.d /\ e.snap = q.snap /\ e.reads = q.reads
  BY <1>6
<1> QED
  BY <1>3, <1>7 DEF q

LEMMA StepFields ==
  ASSUME ReqOK, NEW r \in Requests, Number(r) \/ Lock(r)
  PROVE  \/ Abort(r)
         \/ /\ req'[r].op = req[r].op /\ req'[r].d = req[r].d
            /\ req'[r].reads = req[r].reads /\ req'[r].snap = req[r].snap
            /\ \A o \in Requests \ {r} : req'[o] = req[o]
            /\ UNCHANGED <<draft, job, polls, overlap, crossed, live, made, before>>
<1>1. req[r] \in Request
  BY DEF ReqOK
<1>2. CASE Number(r)
  <2> DEFINE q == req[r]
             todo == Tail(q.todo)
             num == IF q.op = "scanned" /\ q.num = 0 THEN 0 ELSE made
             e == [q EXCEPT !.todo = todo, !.num = num]
  <2>1. req' = [req EXCEPT ![r] = e]
    BY <1>2 DEF Number, ReqOK, Request
  <2>2. req'[r] = e /\ \A o \in Requests \ {r} : req'[o] = req[o]
    BY <2>1 DEF ReqOK
  <2>3. q = [op |-> q.op, d |-> q.d, snap |-> q.snap, reads |-> q.reads,
             doomed |-> q.doomed, todo |-> q.todo, num |-> q.num]
    BY DEF ReqOK, Request
  <2>4. e = [q EXCEPT !.todo = todo, !.num = num]
    OBVIOUS
  <2> HIDE DEF q, todo, num, e
  <2>5. e = [op |-> q.op, d |-> q.d, snap |-> q.snap, reads |-> q.reads,
             doomed |-> q.doomed, todo |-> todo, num |-> num]
    BY <2>3, <2>4
  <2>6. e.op = q.op /\ e.d = q.d /\ e.snap = q.snap /\ e.reads = q.reads
    BY <2>5
  <2> QED
    BY <1>2, <2>2, <2>6 DEF q, Number
<1>3. CASE Lock(r)
  BY <1>1, <1>3 DEF Lock, ReqOK, Request, AtRow, Open
<1> QED
  BY <1>2, <1>3

LEMMA ReleasedFields ==
  ASSUME ReqOK, NEW r \in Requests, Abort(r) \/ CommitActivate(r) \/ CommitUndo(r)
  PROVE  req'[r].op = "idle" /\ \A o \in Requests \ {r} : req'[o] = req[o]
BY IdleOK DEF ReqOK, Abort, CommitActivate, CommitUndo

\* What the producers and the polls leave alone.
LEMMA ProduceFields ==
  ASSUME DraftOK, JobOK, NEW d \in Drafts, Produce(d)
  PROVE  /\ UNCHANGED <<req, live, before, crossed>>
         /\ overlap => overlap'
         /\ \A e \in Drafts \ {d} : job'[e] = job[e]
         /\ job[d].pc = "over" => job'[d].pc = "over"
         /\ \A e \in Drafts :
              \/ draft[e].status = "generating"
              \/ draft'[e] = draft[e]
              \/ e = d /\ job[d].pc # "over"
              \/ e = d /\ overlap'
         /\ \A e \in Drafts : draft'[e].status = "activated" => draft[e].status = "activated"
         /\ \A e \in Drafts : draft'[e].status \in Settled =>
                                draft[e].status \in Settled \/ job'[e].pc = "over"
<1>1. CASE Sweep(d)
  <2>1. \A e \in Drafts : e \notin Stalled => draft'[e] = draft[e]
    BY <1>1 DEF Sweep
  <2>2. \A e \in Stalled : draft[e].status = "generating"
    BY DEF Stalled, With
  <2>4. ASSUME NEW e \in Stalled PROVE draft'[e].status = "failed"
    <3>1. e \in Drafts /\ draft[e] \in DraftRow
      BY DEF DraftOK, Stalled, With
    <3>2. draft'[e] = [draft[e] EXCEPT !.status = "failed"]
      BY <1>1, <3>1 DEF Sweep
    <3> QED
      BY <3>1, <3>2 DEF DraftRow
  <2>5. job[d].pc = "none" /\ \A e \in Drafts \ {d} : job'[e] = job[e]
    BY <1>1 DEF Sweep, JobOK
  <2> QED
    BY <1>1, <2>1, <2>2, <2>4, <2>5 DEF Sweep, Settled
<1>2. CASE Create(d)
  <2>1. job[d].pc # "over" /\ \A e \in Drafts \ {d} : job'[e] = job[e] /\ draft'[e] = draft[e]
    BY <1>2 DEF Create, JobOK, DraftOK
  <2>2. draft'[d] = draft[d] \/ draft'[d].status = "generating"
    BY <1>2 DEF Create, DraftOK, DraftRow
  <2> QED
    BY <1>2, <2>1, <2>2 DEF Create, Settled
<1>3. CASE Finish(d)
  <2>1. job[d].pc # "over" /\ job'[d].pc = "over"
    BY <1>3 DEF Finish, JobOK, JobRow
  <2>2. \A e \in Drafts \ {d} : job'[e] = job[e] /\ draft'[e] = draft[e]
    BY <1>3 DEF Finish, JobOK, DraftOK
  <2>3. draft'[d] = draft[d] \/ draft'[d].status \in {"failed", "ready"}
    BY <1>3 DEF Finish, DraftOK, DraftRow
  <2> QED
    BY <1>3, <2>1, <2>2, <2>3 DEF Finish
<1>4. CASE Age(d)
  <2>1. draft[d].status = "generating" /\ draft'[d].status = "generating"
    BY <1>4 DEF Age, DraftOK, DraftRow
  <2>2. \A e \in Drafts \ {d} : draft'[e] = draft[e]
    BY <1>4 DEF Age, DraftOK
  <2> QED
    BY <1>4, <2>1, <2>2 DEF Age, Settled
<1>5. CASE PollRead(d)
  BY <1>5 DEF PollRead
<1>6. CASE PollWrite(d)
  <2>1. draft'[d].status = "failed" /\ \A e \in Drafts \ {d} : draft'[e] = draft[e]
    BY <1>6 DEF PollWrite, DraftOK, DraftRow
  <2> QED
    BY <1>6, <2>1 DEF PollWrite, Settled
<1> QED
  BY <1>1, <1>2, <1>3, <1>4, <1>5, <1>6 DEF Produce

\* A request that begins while none is open is the one open request.
LEMMA BeginFields ==
  ASSUME ReqOK, NEW r \in Requests, NEW q, Begin(r, q)
  PROVE  /\ ~Open(r) /\ req'[r] = q /\ \A o \in Requests \ {r} : req'[o] = req[o]
         /\ overlap => overlap'
         /\ ~overlap' => \A o \in Requests : ~Open(o)
BY DEF ReqOK, Begin

LEMMA NextJobs ==
  ASSUME TypeInv, TypeInv', JobsOver, [Next]_vars PROVE JobsOver'
<1>0. DraftOK /\ JobOK /\ ReqOK /\ ReqOK'
  BY DEF TypeInv
<1>a. \A q \in Requests : Open(q)' => req'[q].d \in Drafts
  BY <1>0 DEF ReqOK, Aimed
<1>1. ASSUME NEW d \in Drafts, Produce(d) PROVE JobsOver'
  <2>1. req' = req
    BY <1>0, <1>1, ProduceFields
  <2>2. \A e \in Drafts : job[e].pc = "over" => job'[e].pc = "over"
    BY <1>0, <1>1, ProduceFields
  <2>3. \A e \in Drafts : draft'[e].status \in Settled =>
                            draft[e].status \in Settled \/ job'[e].pc = "over"
    BY <1>0, <1>1, ProduceFields
  <2> QED
    BY <1>a, <2>1, <2>2, <2>3, JobsQuiet DEF Open
<1>2. ASSUME NEW r \in Requests, NEW d \in Drafts, Check(r, d) \/ Undo(r, d) PROVE JobsOver'
  <2>1. UNCHANGED <<draft, job>> /\ draft[d].status \in Settled
    BY <1>2 DEF Check, Undo, Settled
  <2>2. PICK q : Begin(r, q) /\ q.d = d
    BY <1>2 DEF Check, Undo, Fresh
  <2>3. req'[r].d = d /\ \A o \in Requests \ {r} : req'[o] = req[o]
    BY <1>0, <2>2, BeginFields
  <2>4. job'[d].pc = "over"
    BY <2>1 DEF JobsOver
  <2>5. \A o \in Requests : Open(o)' => \/ Open(o) /\ req'[o].d = req[o].d
                                        \/ job'[req'[o].d].pc = "over"
    BY <2>3, <2>4 DEF Open
  <2> QED
    BY <1>a, <2>1, <2>5, JobsQuiet
<1>3. ASSUME NEW r \in Requests, Step(r) PROVE JobsOver'
  <2>1. job' = job
    BY <1>3 DEF Step, ReadPart, Scan, Number, Lock, Abort, Victim, CommitActivate, CommitUndo
  <2>2. \A o \in Requests : Open(o)' => Open(o) /\ req'[o].d = req[o].d
    BY <1>0, <1>3, ReadFields, ScanFields, StepFields, ReleasedFields DEF Step, Victim, Open,
       ReadPart, Scan
  <2>3. \A e \in Drafts : draft'[e].status \in Settled =>
                            draft[e].status \in Settled \/ job'[e].pc = "over"
    <3>1. CASE CommitActivate(r)
      <4>1. job'[req[r].d].pc = "over"
        BY <2>1, <3>1 DEF JobsOver, Open, CommitActivate
      <4> QED
        BY <1>0, <3>1, <4>1, CommittedRows DEF Settled
    <3>2. CASE CommitUndo(r)
      BY <1>0, <3>2 DEF CommitUndo, DraftOK, DraftRow, Settled
    <3>3. CASE ReadPart(r) \/ Scan(r) \/ Number(r) \/ Lock(r) \/ Victim(r)
      BY <3>3 DEF ReadPart, Scan, Number, Lock, Abort, Victim
    <3> QED
      BY <1>3, <3>1, <3>2, <3>3 DEF Step
  <2> QED
    BY <1>a, <2>1, <2>2, <2>3, JobsQuiet
<1>4. CASE Crash
  <2>1. draft' = draft /\ \A o \in Requests : ~Open(o)'
    BY <1>4, IdleOK DEF Crash, Open
  <2>2. ASSUME NEW e \in Drafts, job[e].pc = "over" PROVE job'[e].pc = "over"
    BY <1>0, <1>4, <2>2 DEF Crash, JobOK, JobRow
  <2> QED
    BY <2>1, <2>2, JobsQuiet
<1>5. CASE UNCHANGED vars
  BY <1>a, <1>5, JobsQuiet DEF vars, Open
<1> QED
  BY <1>1, <1>2, <1>3, <1>4, <1>5 DEF Next

\* One step of SerialInv that leaves no overlap, by the kind of step.
LEMMA StartLone ==
  ASSUME Lone, ReqOK, NEW r \in Requests, NEW d \in Drafts, Check(r, d) \/ Undo(r, d), ~overlap'
  PROVE  Lone'
<1>1. UNCHANGED <<draft, live, before, crossed>>
  BY DEF Check, Undo
<1>2. PICK q : Begin(r, q)
  BY DEF Check, Undo
<1>3. \A o \in Requests \ {r} : req'[o].op = "idle"
  BY <1>2, BeginFields DEF Open
<1>4. Single'
  BY <1>3 DEF Single, Open
<1>5. ASSUME NEW e \in Drafts PROVE Runs(e)'
  BY <1>1 DEF Lone, Runs
<1>6. Awaited(r)'
  <2>1. CASE Check(r, d)
    <3> DEFINE n == Fresh("activate", d, NoConfig, <<"prompt", "validators", "funnel">>, <<>>)
    <3>1. req'[r] = n /\ draft[d].status = "ready"
      BY <2>1, BeginFields DEF Check
    <3>2. n.op = "activate" /\ n.d = d /\ n.reads = <<"prompt", "validators", "funnel">>
      BY DEF Fresh
    <3>3. n.reads # <<>>
      BY <3>2
    <3> QED
      BY <1>1, <3>1, <3>2, <3>3 DEF Awaited, Saved
  <2>2. CASE Undo(r, d)
    <3> DEFINE n == Fresh("rollback", d, draft[d].snap, <<>>, UndoRows(draft[d].snap) \o <<d>>)
    <3>1. req'[r] = n /\ draft[d].status = "activated"
      BY <2>2, BeginFields DEF Undo
    <3>2. n.op = "rollback" /\ n.d = d /\ n.snap = draft[d].snap
      BY DEF Fresh
    <3> QED
      BY <1>1, <3>1, <3>2 DEF Awaited
  <2> QED
    BY <2>1, <2>2
<1>7. \A o \in Requests : Awaited(o)'
  BY <1>3, <1>6 DEF Awaited
<1> QED
  BY <1>1, <1>4, <1>5, <1>7 DEF Lone

LEMMA ProduceLone ==
  ASSUME Lone, JobsOver, DraftOK, JobOK, ReqOK, NEW d \in Drafts, Produce(d), ~overlap'
  PROVE  Lone'
<1>1. \A e \in Drafts : draft[e].status \in Settled => draft'[e] = draft[e]
  BY ProduceFields DEF JobsOver, Settled
<1>2. \A e \in Drafts : draft'[e].status = "activated" => draft[e].status = "activated"
  BY ProduceFields
<1>3. UNCHANGED <<req, live, before, crossed>>
  BY ProduceFields
<1> QED
  BY <1>1, <1>2, <1>3, LoneQuiet

LEMMA ReadLone ==
  ASSUME Lone, ReqOK, LiveOK, NEW r \in Requests, ReadPart(r)
  PROVE  Lone'
<1>1. UNCHANGED <<draft, live, before, crossed>> /\ req[r].op = "activate" /\ req[r].reads # <<>>
  BY DEF ReadPart
<1> DEFINE reads == req[r].reads
           snap == req[r].snap
<1>2. draft[req[r].d].status = "ready" /\ Saved(r)
  BY <1>1 DEF Lone, Awaited
<1>3. /\ req'[r].op = "activate" /\ req'[r].d = req[r].d
      /\ req'[r].reads = Tail(reads)
      /\ req'[r].snap = [snap EXCEPT ![Head(reads)] = live[Head(reads)]]
      /\ \A o \in Requests \ {r} : req'[o] = req[o]
  BY ReadFields
<1>4. snap \in Config
  BY DEF ReqOK, Request
<1>5. Saved(r)'
  <2>1. CASE reads = <<"prompt", "validators", "funnel">>
    <3>1. Head(reads) = "prompt" /\ Tail(reads) = <<"validators", "funnel">>
          /\ Tail(reads) \notin {<<"funnel">>, <<>>}
      BY <2>1
    <3>2. req'[r].snap["prompt"] = live["prompt"]
      BY <1>3, <1>4, <3>1 DEF Config, Parts
    <3> QED
      BY <1>1, <1>3, <3>1, <3>2 DEF Saved
  <2>2. CASE reads = <<"validators", "funnel">>
    <3>1. Head(reads) = "validators" /\ Tail(reads) = <<"funnel">> /\ Tail(reads) # <<>>
          /\ reads # <<"prompt", "validators", "funnel">>
      BY <2>2
    <3>2. /\ req'[r].snap["validators"] = live["validators"]
          /\ req'[r].snap["prompt"] = snap["prompt"]
      BY <1>3, <1>4, <3>1 DEF Config, Parts
    <3> QED
      BY <1>1, <1>2, <1>3, <3>1, <3>2 DEF Saved
  <2>3. CASE reads = <<"funnel">>
    <3>1. Head(reads) = "funnel" /\ Tail(reads) = <<>>
          /\ reads # <<"prompt", "validators", "funnel">>
      BY <2>3
    <3>2. req'[r].snap["funnel"] = live["funnel"] /\ req'[r].snap["prompt"] = snap["prompt"]
          /\ req'[r].snap["validators"] = snap["validators"]
      BY <1>3, <1>4, <3>1 DEF Config, Parts
    <3> QED
      BY <1>1, <1>2, <1>3, <2>3, <3>1, <3>2 DEF Saved
  <2> QED
    BY <1>1, <1>2, <2>1, <2>2, <2>3 DEF Saved
<1>6. Awaited(r)'
  BY <1>1, <1>2, <1>3, <1>5 DEF Awaited
<1>7. \A e \in Drafts : Runs(e)'
  BY <1>1 DEF Lone, Runs
<1>8. Open(r) /\ ~crossed'
  BY <1>1 DEF Open, Lone
<1> QED
  BY <1>3, <1>6, <1>7, <1>8, ByOne

LEMMA ScanLone ==
  ASSUME Lone, ReqOK, NEW r \in Requests, Scan(r)
  PROVE  Lone'
<1>1. UNCHANGED <<draft, live, before>> /\ req[r].op = "activate" /\ req[r].reads = <<>>
  BY DEF Scan
<1>2. Scanned = {}
  BY <1>1 DEF Lone, Single, Open, Scanned
<1>3. ~crossed'
  BY <1>2 DEF Scan, Lone
<1>4. /\ req'[r].op = "scanned" /\ req'[r].d = req[r].d
      /\ req'[r].reads = req[r].reads /\ req'[r].snap = req[r].snap
      /\ \A o \in Requests \ {r} : req'[o] = req[o]
  BY ScanFields
<1>5. draft[req[r].d].status = "ready" /\ Saved(r)
  BY <1>1 DEF Lone, Awaited
<1>6. Awaited(r)'
  BY <1>1, <1>4, <1>5 DEF Awaited, Saved
<1>7. \A e \in Drafts : Runs(e)'
  BY <1>1 DEF Lone, Runs
<1> QED
  BY <1>1, <1>3, <1>4, <1>6, <1>7, ByOne DEF Open

\* A request that is abandoned, or finds nothing open.
LEMMA EndLone ==
  ASSUME Lone, ReqOK, NEW r \in Requests, req'[r].op = "idle",
         \A o \in Requests \ {r} : req'[o] = req[o],
         UNCHANGED <<draft, live, before, crossed>>
  PROVE  Lone'
BY LoneQuiet

LEMMA LockLone ==
  ASSUME Lone, ReqOK, NEW r \in Requests, Number(r) \/ Lock(r)
  PROVE  Lone'
<1>1. CASE Abort(r)
  BY <1>1, ReleasedFields, EndLone DEF Abort
<1>2. CASE ~Abort(r)
  <2>1. /\ req'[r].op = req[r].op /\ req'[r].d = req[r].d
        /\ req'[r].reads = req[r].reads /\ req'[r].snap = req[r].snap
        /\ \A o \in Requests \ {r} : req'[o] = req[o]
        /\ UNCHANGED <<draft, job, polls, overlap, crossed, live, made, before>>
    BY <1>2, StepFields
  <2>2. CASE ~Open(r)
    BY <2>1, <2>2, EndLone DEF Open
  <2>3. CASE Open(r)
    <3>1. Awaited(r)'
      BY <2>1 DEF Lone, Awaited, Saved
    <3>2. \A e \in Drafts : Runs(e)'
      BY <2>1 DEF Lone, Runs
    <3>3. ~crossed'
      BY <2>1 DEF Lone
    <3> QED
      BY <2>1, <2>3, <3>1, <3>2, <3>3, ByOne
  <2> QED
    BY <2>2, <2>3
<1> QED
  BY <1>1, <1>2

\* An activation ends with what it saved, which is what was live, as its snapshot.
LEMMA ActivateLone ==
  ASSUME Lone, TypeInv, ~overlap, AtMostOne', NEW r \in Requests, CommitActivate(r)
  PROVE  Lone'
<1>0. DraftOK /\ ReqOK /\ LiveOK
  BY DEF TypeInv
<1> DEFINE d == req[r].d
<1>1. d \in Drafts /\ req[r].snap \in Config /\ req[r].op = "scanned"
  BY <1>0 DEF CommitActivate, ReqOK, Aimed, Open, Request
<1>2. req[r].snap = live
  <2>1. /\ req[r].snap["prompt"] = live["prompt"] /\ req[r].snap["funnel"] = live["funnel"]
        /\ req[r].snap["validators"] = live["validators"]
    <3>1. Saved(r) /\ req[r].reads = <<>>
      BY <1>1 DEF Lone, Awaited
    <3> QED
      BY <3>1 DEF Saved
  <2> QED
    BY <1>0, <1>1, <2>1 DEF LiveOK, Config, Parts
<1>3. draft'[d].status = "activated" /\ draft'[d].snap = live /\ draft'[d].body = draft[d].body
  BY <1>0, <1>1, <1>2, CommittedRows
<1>4. before'[d] = live
  BY <1>0, <1>1 DEF CommitActivate, LiveOK
<1>5. \A p \in draft[d].body : live'[p] = d
  BY <1>0, <1>1 DEF CommitActivate, Merge, Own, DraftOK, DraftRow
<1>6. ASSUME NEW e \in Drafts PROVE Runs(e)'
  <2>1. CASE e = d
    BY <1>3, <1>4, <1>5, <2>1 DEF Runs
  <2>2. CASE e # d
    BY <1>1, <1>3, <2>2 DEF AtMostOne, With, Runs
  <2> QED
    BY <2>1, <2>2
<1>7. Awaited(r)' /\ ~crossed'
  BY <1>0, ReleasedFields DEF Awaited, CommitActivate, Lone
<1>8. \A o \in Requests \ {r} : req'[o] = req[o]
  BY <1>0, ReleasedFields
<1> QED
  BY <1>1, <1>6, <1>7, <1>8, ByOne DEF Open

LEMMA UndoLone ==
  ASSUME Lone, TypeInv, AtMostOne, NEW r \in Requests, CommitUndo(r)
  PROVE  Lone'
<1>0. DraftOK /\ ReqOK
  BY DEF TypeInv
<1>1. req[r].d \in Drafts /\ req[r].op = "rollback" /\ draft[req[r].d].status = "activated"
  BY <1>0 DEF CommitUndo, ReqOK, Aimed, Open, Lone, Awaited
<1>2. \A e \in Drafts : draft'[e].status # "activated"
  <2>1. draft'[req[r].d].status = "rolled-back"
    BY <1>0, <1>1 DEF CommitUndo, DraftOK, DraftRow
  <2>2. \A e \in Drafts \ {req[r].d} : draft'[e] = draft[e] /\ draft[e].status # "activated"
    BY <1>0, <1>1 DEF CommitUndo, DraftOK, AtMostOne, With
  <2> QED
    BY <2>1, <2>2
<1>3. \A e \in Drafts : Runs(e)'
  BY <1>2 DEF Runs
<1>4. Awaited(r)' /\ ~crossed'
  BY <1>0, ReleasedFields DEF Awaited, CommitUndo, Lone
<1>5. \A o \in Requests \ {r} : req'[o] = req[o]
  BY <1>0, ReleasedFields
<1> QED
  BY <1>1, <1>3, <1>4, <1>5, ByOne DEF Open

LEMMA NextSerial == SerialInv /\ [Next]_vars => SerialInv'
<1> SUFFICES ASSUME SerialInv, [Next]_vars PROVE SerialInv'
  OBVIOUS
<1>0. TypeInv /\ TypeInv' /\ DraftOK /\ JobOK /\ ReqOK /\ LiveOK /\ JobsOver
  BY NextType DEF SerialInv, ActiveInv, TypeInv
<1>1. ActiveInv' /\ JobsOver'
  BY <1>0, NextActive, NextJobs DEF SerialInv
<1> SUFFICES ASSUME ~overlap' PROVE Lone'
  BY <1>1 DEF SerialInv
<1>2. ASSUME overlap PROVE overlap'
  <2>1. ASSUME NEW r \in Requests, Step(r) PROVE FALSE
    BY <1>2, <2>1 DEF Step, ReadPart, Scan, Number, Lock, Abort, Victim, CommitActivate,
       CommitUndo
  <2>2. ASSUME NEW r \in Requests, NEW d \in Drafts, Check(r, d) \/ Undo(r, d) PROVE FALSE
    BY <1>2, <2>2 DEF Check, Undo, Begin
  <2>3. ASSUME NEW d \in Drafts, Produce(d) PROVE FALSE
    BY <1>0, <1>2, <2>3, ProduceFields
  <2> QED
    BY <1>2, <2>1, <2>2, <2>3 DEF Next, Crash, vars
<1>3. ~overlap /\ Lone
  BY <1>2 DEF SerialInv
<1>4. AtMostOne
  BY <1>3 DEF SerialInv, ActiveInv, Lone
<1>5. ASSUME NEW r \in Requests, Step(r) PROVE Lone'
  <2>1. CASE CommitActivate(r)
    <3>1. ~crossed'
      BY <1>3, <2>1 DEF CommitActivate, Lone
    <3>2. AtMostOne'
      BY <1>1, <3>1 DEF ActiveInv
    <3> QED
      BY <1>0, <1>3, <2>1, <3>2, ActivateLone
  <2>2. CASE CommitUndo(r)
    BY <1>0, <1>3, <1>4, <2>2, UndoLone
  <2>3. CASE Victim(r)
    BY <1>0, <1>3, <2>3, ReleasedFields, EndLone DEF Victim, Abort
  <2>4. CASE ReadPart(r) \/ Scan(r) \/ Number(r) \/ Lock(r)
    BY <1>0, <1>3, <2>4, ReadLone, ScanLone, LockLone
  <2> QED
    BY <1>5, <2>1, <2>2, <2>3, <2>4 DEF Step
<1>6. CASE Crash
  <2>1. UNCHANGED <<draft, live, before, crossed>> /\ \A o \in Requests : req'[o].op = "idle"
    BY <1>6, IdleOK DEF Crash
  <2> QED
    BY <1>0, <1>3, <2>1, LoneQuiet
<1>7. CASE UNCHANGED vars
  BY <1>0, <1>3, <1>7, LoneQuiet DEF vars
<1>8. ASSUME NEW d \in Drafts, Produce(d) PROVE Lone'
  BY <1>0, <1>3, <1>8, ProduceLone
<1>9. ASSUME NEW r \in Requests, NEW d \in Drafts, Check(r, d) \/ Undo(r, d) PROVE Lone'
  BY <1>0, <1>3, <1>9, StartLone
<1> QED
  BY <1>5, <1>6, <1>7, <1>8, <1>9 DEF Next

LEMMA AlwaysSerial == Spec => []SerialInv
BY InitSerial, NextSerial, PTL DEF Spec

\* What an activated draft fills in is what the persona runs with, for any number of
\* drafts and requests, as long as the requests do not overlap.
THEOREM ActivatedRuns == Spec => []ActivatedIsLive
<1>1. SerialInv => ActivatedIsLive
  BY DEF SerialInv, Lone, Runs, ActivatedIsLive, With
<1> QED
  BY <1>1, AlwaysSerial, PTL

LEMMA StepRestores ==
  ASSUME SerialInv, [Next]_vars, NEW d \in Drafts, Undone(d), ~overlap,
         NEW p \in Parts
  PROVE  live'[p] = before[d][p] \/ (p = "funnel" /\ before[d][p] = NoFunnel)
<1>0. DraftOK /\ JobOK /\ ReqOK /\ Lone
  BY DEF SerialInv, ActiveInv, TypeInv
<1>1. ASSUME NEW r \in Requests, CommitUndo(r)
      PROVE  live'[p] = before[d][p] \/ (p = "funnel" /\ before[d][p] = NoFunnel)
  <2>1. req[r].d = d
    BY <1>0, <1>1 DEF CommitUndo, DraftOK, Undone
  <2>2. req[r].snap = before[d]
    BY <1>0, <1>1, <2>1 DEF CommitUndo, Lone, Awaited, Runs, Undone
  <2> QED
    BY <1>1, <2>2 DEF CommitUndo, Merge, Restored
<1>2. ~\E e \in Drafts : Produce(e)
  <2>1. ASSUME NEW e \in Drafts, Produce(e) PROVE FALSE
    <3>1. CASE e = d \/ draft'[d] # draft[d]
      BY <1>0, <2>1, <3>1 DEF Produce, Sweep, Create, Finish, Age, PollRead, PollWrite, Stalled,
         With, DraftOK, DraftRow, Undone
    <3> QED
      BY <3>1 DEF Undone
  <2> QED
    BY <2>1
<1>3. ASSUME NEW r \in Requests, CommitActivate(r) PROVE FALSE
  BY <1>0, <1>3, CommittedRows DEF Undone
<1>4. ASSUME draft' = draft PROVE FALSE
  BY <1>4 DEF Undone
<1>5. ASSUME NEW r \in Requests, Step(r), ~CommitUndo(r), ~CommitActivate(r) PROVE FALSE
  BY <1>4, <1>5 DEF Step, ReadPart, Scan, Number, Lock, Abort, Victim
<1>6. ~(\E r \in Requests, e \in Drafts : Check(r, e) \/ Undo(r, e)) /\ ~Crash
      /\ ~UNCHANGED vars
  BY <1>4 DEF Check, Undo, Crash, vars
<1> QED
  BY <1>1, <1>2, <1>3, <1>5, <1>6 DEF Next

\* A rollback puts back every part of the configuration that was live when its draft was
\* activated, except a funnel version where there was none.
THEOREM RollbackPutsBack == Spec => RollbackRestores
<1>1. SerialInv /\ [Next]_vars =>
        [\A d \in Drafts : Undone(d) /\ ~overlap =>
           \A p \in Parts : live'[p] = before[d][p]
                              \/ (p = "funnel" /\ before[d][p] = NoFunnel)]_vars
  BY StepRestores
<1> QED
  BY <1>1, AlwaysSerial, PTL DEF Spec, RollbackRestores
=============================================================================
