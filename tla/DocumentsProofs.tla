-------------------------- MODULE DocumentsProofs --------------------------
(***************************************************************************)
(* Theorems about Documents and the adapter it runs over, for any number   *)
(* of documents, chunks, lazy jobs, retries and deaths: the state is well  *)
(* typed and the limiter loses no place; "completed" and "ready" say the   *)
(* truth about the index.                                                  *)
(*                                                                         *)
(* The invariant, DocumentsInv, adds to IndexIsTrue what it rests on.  For *)
(* each document (DocInv): until a lazy job has swept its chunks, they are *)
(* those its ingest job has put in so far, one of each in its first run    *)
(* and at least one afterwards.  For a lazy job nobody disturbs (Alone):   *)
(* no other runs, the status is still the one it set, and each stored text *)
(* is either on its list or already exact (Progress).                      *)
(***************************************************************************)
EXTENDS Documents, FiniteSetTheorems, TLAPS

JobRecord == [at : JobAt, next : Chunk, vector : BOOLEAN, runs : 1..MaxRuns, early : BOOLEAN]
LazyRecord == [at : LazyAt, todo : SUBSET Doc, doc : Doc, next : Chunk, runs : 1..MaxRuns,
               tries : 1..MaxTries]

\* What TypeOK says of one kind of job.
JobsOK == job \in [Doc -> JobRecord]
LaziesOK == lazy \in [Lazy -> LazyRecord]

-----------------------------------------------------------------------------
(* What a step makes of its job.                                           *)

LEMMA Numbers ==
  /\ 1 \in Chunk /\ Chunk \subseteq Nat
  /\ 1 \in 1 .. MaxRuns /\ 1 \in 1 .. MaxTries
  /\ \A i \in Chunk : i < Chunks => i + 1 \in Chunk
  /\ \A i \in 1 .. MaxRuns : i < MaxRuns => i + 1 \in 1 .. MaxRuns
  /\ \A i \in 1 .. MaxTries : i < MaxTries => i + 1 \in 1 .. MaxTries
BY DocumentsAssumption DEF Chunk

LEMMA NewLazyType == NewLazy \in LazyRecord
<1>1. (CHOOSE d \in Doc : TRUE) \in Doc
  BY DocumentsAssumption
<1> QED
  BY <1>1, Numbers DEF NewLazy, LazyRecord, LazyAt

LEMMA TakeJob ==
  ASSUME JobsOK, NEW d \in Doc, Take(d)
  PROVE  /\ JobsOK' /\ \A e \in Doc \ {d} : job'[e] = job[e]
         /\ job[d].at = "queued" /\ job'[d].at = "extract"
         /\ job'[d].runs = job[d].runs /\ job'[d].vector = job[d].vector
         /\ job'[d].early <=> job[d].early \/ doc[d] = "new"
BY ZenonT(40) DEF JobsOK, JobRecord, Take, JobAt

LEMMA FailsJob ==
  ASSUME JobsOK, NEW d \in Doc, NEW a \in {"failed", "unreported"},
         job' = [job EXCEPT ![d] = Ended(d, a)]
  PROVE  /\ JobsOK' /\ \A e \in Doc \ {d} : job'[e] = job[e]
         /\ job'[d].at = a
<1>1. job[d] \in JobRecord
  BY DEF JobsOK
<1> DEFINE early == job[d].early \/ doc[d] = "new"
<1>2. Ended(d, a) = [job[d] EXCEPT !.at = a, !.next = 1, !.early = early]
  BY <1>1 DEF Ended, JobRecord
<1>3. early \in BOOLEAN
  OBVIOUS
<1> HIDE DEF early
<1>4. Ended(d, a) \in JobRecord /\ Ended(d, a).at = a
  BY <1>1, <1>2, <1>3, Numbers DEF JobRecord, JobAt
<1> QED
  BY <1>4 DEF JobsOK

LEMMA StoreTextJob ==
  ASSUME JobsOK, NEW d \in Doc, StoreText(d)
  PROVE  /\ JobsOK' /\ \A e \in Doc \ {d} : job'[e] = job[e]
         /\ job[d].at = "extract"
         /\ job'[d].runs = job[d].runs /\ job'[d].early = job[d].early
         /\ job'[d].next = 1
         /\ \/ job'[d].vector /\ job'[d].at = "chunk"
            \/ ~job'[d].vector /\ job'[d].at = "finish"
BY Numbers DEF JobsOK, JobRecord, JobAt, StoreText

LEMMA MoveJob ==
  ASSUME JobsOK, NEW d \in Doc, NEW a \in JobAt, job' = [job EXCEPT ![d].at = a]
  PROVE  /\ JobsOK' /\ \A e \in Doc \ {d} : job'[e] = job[e]
         /\ job'[d].at = a
         /\ job'[d].next = job[d].next /\ job'[d].vector = job[d].vector
         /\ job'[d].runs = job[d].runs /\ job'[d].early = job[d].early
BY DEF JobsOK, JobRecord, JobAt

LEMMA InsertJob ==
  ASSUME JobsOK, NEW d \in Doc,
         job' = [job EXCEPT ![d] =
                   IF @.next < Chunks THEN NextChunk(@) ELSE Over(@, "finish")]
  PROVE  /\ JobsOK' /\ \A e \in Doc \ {d} : job'[e] = job[e]
         /\ job'[d].vector = job[d].vector
         /\ job'[d].runs = job[d].runs /\ job'[d].early = job[d].early
         /\ \/ /\ job[d].next < Chunks
               /\ job'[d].at = "chunk" /\ job'[d].next = job[d].next + 1
            \/ job[d].next = Chunks /\ job'[d].at = "finish"
<1>1. job[d] \in JobRecord /\ job[d].next \in Chunk
  BY DEF JobsOK, JobRecord
<1> DEFINE j == NextChunk(job[d])
           o == Over(job[d], "finish")
<1>2. job' = [job EXCEPT ![d] = IF job[d].next < Chunks THEN j ELSE o]
  OBVIOUS
<1>3. job[d].next < Chunks =>
        /\ j \in JobRecord /\ j.at = "chunk" /\ j.next = job[d].next + 1
        /\ j.vector = job[d].vector /\ j.runs = job[d].runs /\ j.early = job[d].early
  <2> SUFFICES ASSUME job[d].next < Chunks
               PROVE  /\ j \in JobRecord /\ j.at = "chunk" /\ j.next = job[d].next + 1
                      /\ j.vector = job[d].vector /\ j.runs = job[d].runs
                      /\ j.early = job[d].early
    OBVIOUS
  <2>1. job[d].next + 1 \in Chunk
    BY <1>1, Numbers
  <2> QED
    BY <1>1, <2>1 DEF JobRecord, JobAt, NextChunk
<1>4. /\ o \in JobRecord /\ o.at = "finish"
      /\ o.vector = job[d].vector /\ o.runs = job[d].runs /\ o.early = job[d].early
  BY <1>1, Numbers DEF JobRecord, JobAt, Over
<1>5. job[d].next < Chunks \/ job[d].next = Chunks
  BY <1>1, DocumentsAssumption DEF Chunk
<1> HIDE DEF j, o
<1> QED
  BY <1>2, <1>3, <1>4, <1>5 DEF JobsOK

LEMMA CrashJob ==
  ASSUME JobsOK, NEW d \in Doc, Crash(d)
  PROVE  /\ JobsOK' /\ \A e \in Doc \ {d} : job'[e] = job[e]
         /\ job[d].at \notin Idle
         /\ \/ job'[d].at = "queued" /\ job'[d].runs # 1
            \/ job'[d].at = "dead"
<1>1. job[d] \in JobRecord /\ job[d].runs \in 1 .. MaxRuns
  BY DEF JobsOK, JobRecord
<1>2. /\ \/ job' = [job EXCEPT ![d] = Rerun(Over(job[d], job[d].at))]
         \/ job' = [job EXCEPT ![d] = Over(job[d], "dead")]
      /\ job[d].at \notin Idle
  BY DEF Crash, Dies
<1>5. Over(job[d], "dead") \in JobRecord /\ Over(job[d], "dead").at = "dead"
  BY <1>1, Numbers DEF Over, JobRecord, JobAt
<1> DEFINE o == Over(job[d], job[d].at)
<1>3. o \in JobRecord /\ o.runs = job[d].runs
  BY <1>1, Numbers DEF Over, JobRecord
<1> HIDE DEF o
<1>4. /\ Rerun(o) \in JobRecord
      /\ \/ Rerun(o).at = "queued" /\ Rerun(o).runs # 1
         \/ Rerun(o).at = "dead"
  <2>1. CASE o.runs < MaxRuns
    <3>1. o.runs + 1 \in 1 .. MaxRuns /\ o.runs + 1 # 1
      BY <1>1, <1>3, <2>1, Numbers
    <3> QED
      BY <1>3, <2>1, <3>1 DEF Rerun, JobRecord, JobAt
  <2>2. CASE ~(o.runs < MaxRuns)
    BY <1>3, <2>2 DEF Rerun, JobRecord, JobAt
  <2> QED
    BY <2>1, <2>2
<1> QED
  BY <1>2, <1>4, <1>5 DEF JobsOK, o

LEMMA TakeLazy ==
  ASSUME LaziesOK, NEW l \in Lazy, NEW a \in LazyAt, lazy' = [lazy EXCEPT ![l].at = a]
  PROVE  /\ LaziesOK' /\ \A k \in Lazy \ {l} : lazy'[k] = lazy[k]
         /\ lazy'[l].at = a
         /\ lazy'[l].todo = lazy[l].todo /\ lazy'[l].doc = lazy[l].doc
BY DEF LaziesOK, LazyRecord, LazyAt

LEMMA ListLazy ==
  ASSUME LaziesOK, NEW l \in Lazy, LazyList(l)
  PROVE  /\ LaziesOK' /\ \A k \in Lazy \ {l} : lazy'[k] = lazy[k]
         /\ lazy[l].at = "list" /\ lazy'[l].todo = {d \in Doc : text[d]}
         /\ lazy'[l].at = AfterDoc(lazy'[l].todo)
BY ZenonT(40) DEF LaziesOK, LazyRecord, LazyAt, LazyList, AfterDoc

LEMMA SweepLazy ==
  ASSUME LaziesOK, NEW l \in Lazy, NEW d \in Doc,
         lazy' = [lazy EXCEPT ![l].at = "chunk", ![l].doc = d, ![l].next = 1]
  PROVE  /\ LaziesOK' /\ \A k \in Lazy \ {l} : lazy'[k] = lazy[k]
         /\ lazy'[l].at = "chunk" /\ lazy'[l].doc = d /\ lazy'[l].todo = lazy[l].todo
BY Numbers, ZenonT(40) DEF LaziesOK, LazyRecord, LazyAt

\* A lazy job that is over: it does not wait for the adapter, nor run.
LEMMA OverLazy ==
  ASSUME NEW j \in LazyRecord, NEW a \in LazyAt
  PROVE  /\ LazyOver(j, a) \in LazyRecord
         /\ LazyOver(j, a).at = a
         /\ LazyOver(j, a).runs = j.runs /\ LazyOver(j, a).tries = j.tries
BY NewLazyType DEF LazyOver, LazyRecord

LEMMA RetriedLazy ==
  ASSUME NEW j \in LazyRecord
  PROVE  Retried(j) \in LazyRecord /\ Retried(j).at \in {"queued", "failed"}
<1>1. CASE j.tries < MaxTries
  <2> DEFINE o == LazyOver(j, "queued")
  <2>1. o \in LazyRecord /\ o.at = "queued"
    BY OverLazy DEF LazyAt
  <2>2. j.tries + 1 \in 1 .. MaxTries
    BY <1>1, Numbers DEF LazyRecord
  <2>3. Retried(j) = [o EXCEPT !.tries = j.tries + 1]
    BY <1>1 DEF Retried
  <2> HIDE DEF o
  <2> QED
    BY <2>1, <2>2, <2>3 DEF LazyRecord
<1>2. CASE ~(j.tries < MaxTries)
  BY <1>2, OverLazy DEF LazyAt, Retried
<1> QED
  BY <1>1, <1>2

LEMMA FailsLazy ==
  ASSUME LaziesOK, NEW l \in Lazy, LazyFails(l)
  PROVE  /\ LaziesOK' /\ \A k \in Lazy \ {l} : lazy'[k] = lazy[k]
         /\ lazy'[l].at \in {"queued", "failed"} /\ status' \in {"idle", status}
<1>1. lazy[l] \in LazyRecord
  BY DEF LaziesOK
<1> QED
  BY <1>1, RetriedLazy DEF LaziesOK, LazyFails

\* The vector came: the next chunk, or all of the document's are there.
LEMMA VectorLazy ==
  ASSUME LaziesOK, NEW l \in Lazy,
         lazy' = [lazy EXCEPT ![l] = IF @.next < Chunks THEN NextChunk(@)
                                     ELSE [@ EXCEPT !.at = "insert", !.next = 1]]
  PROVE  /\ LaziesOK' /\ \A k \in Lazy \ {l} : lazy'[k] = lazy[k]
         /\ lazy'[l].at \in {"chunk", "insert"}
         /\ lazy'[l].todo = lazy[l].todo /\ lazy'[l].doc = lazy[l].doc
<1>1. lazy[l] \in LazyRecord /\ lazy[l].next \in Chunk
  BY DEF LaziesOK, LazyRecord
<1> DEFINE j == NextChunk(lazy[l])
           o == [lazy[l] EXCEPT !.at = "insert", !.next = 1]
<1>2. lazy' = [lazy EXCEPT ![l] = IF lazy[l].next < Chunks THEN j ELSE o]
  OBVIOUS
<1>3. ASSUME lazy[l].next < Chunks
      PROVE  /\ j \in LazyRecord /\ j.at = "chunk"
             /\ j.todo = lazy[l].todo /\ j.doc = lazy[l].doc
  <2>1. lazy[l].next + 1 \in Chunk
    BY <1>1, <1>3, Numbers
  <2> QED
    BY <1>1, <2>1 DEF LazyRecord, LazyAt, NextChunk
<1>4. /\ o \in LazyRecord /\ o.at = "insert"
      /\ o.todo = lazy[l].todo /\ o.doc = lazy[l].doc
  BY <1>1, Numbers DEF LazyRecord, LazyAt
<1> HIDE DEF j, o
<1> QED
  BY <1>2, <1>3, <1>4 DEF LaziesOK

\* The rows are in: the document leaves the list.
LEMMA InsertLazy ==
  ASSUME LaziesOK, NEW l \in Lazy, NEW d \in Doc,
         lazy' = [lazy EXCEPT ![l].todo = @ \ {d}, ![l].doc = NewLazy.doc,
                              ![l].at = AfterDoc(lazy[l].todo \ {d})]
  PROVE  /\ LaziesOK' /\ \A k \in Lazy \ {l} : lazy'[k] = lazy[k]
         /\ lazy'[l].todo = lazy[l].todo \ {d}
         /\ lazy'[l].at = AfterDoc(lazy'[l].todo)
<1>1. NewLazy.doc \in Doc
  BY NewLazyType DEF LazyRecord
<1> DEFINE first == NewLazy.doc
           left == lazy[l].todo \ {d}
           a == AfterDoc(left)
<1>2. /\ a \in LazyAt /\ first \in Doc
      /\ lazy[l] \in LazyRecord /\ left \in SUBSET Doc
  BY <1>1 DEF LaziesOK, LazyRecord, LazyAt, AfterDoc
<1> DEFINE r == [lazy[l] EXCEPT !.todo = left, !.doc = first, !.at = a]
<1>3. lazy' = [lazy EXCEPT ![l] = r]
  BY DEF LaziesOK
<1> HIDE DEF first, left, a
<1>4. r \in LazyRecord /\ r.todo = left /\ r.at = a
  BY <1>2 DEF LazyRecord
<1> HIDE DEF r
<1>5. /\ LaziesOK' /\ \A k \in Lazy \ {l} : lazy'[k] = lazy[k]
      /\ lazy'[l].todo = left /\ lazy'[l].at = a
  BY <1>3, <1>4 DEF LaziesOK
<1> QED
  BY <1>5 DEF left, a

LEMMA CompleteLazy ==
  ASSUME LaziesOK, NEW l \in Lazy, LazyComplete(l)
  PROVE  /\ LaziesOK' /\ \A k \in Lazy \ {l} : lazy'[k] = lazy[k]
         /\ lazy[l].at = "complete" /\ lazy'[l].at = "done"
<1>1. lazy[l] \in LazyRecord /\ lazy' = [lazy EXCEPT ![l] = LazyOver(lazy[l], "done")]
  BY DEF LaziesOK, LazyComplete
<1>2. LazyOver(lazy[l], "done") \in LazyRecord /\ LazyOver(lazy[l], "done").at = "done"
  BY <1>1, OverLazy DEF LazyAt
<1> QED
  BY <1>1, <1>2 DEF LaziesOK, LazyComplete

LEMMA CrashLazy ==
  ASSUME LaziesOK, NEW l \in Lazy, LazyCrash(l)
  PROVE  /\ LaziesOK' /\ \A k \in Lazy \ {l} : lazy'[k] = lazy[k]
         /\ lazy[l].at \notin Idle /\ lazy'[l].at \in {"queued", "failed", "dead"}
<1>1. lazy[l] \in LazyRecord /\ lazy[l].at \in LazyAt
  BY DEF LaziesOK, LazyRecord
<1>2. /\ \/ lazy' = [lazy EXCEPT ![l] = Rerun(LazyOver(lazy[l], lazy[l].at))]
         \/ lazy' = [lazy EXCEPT ![l] = Retried(lazy[l])]
      /\ lazy[l].at \notin Idle
  BY DEF LazyCrash, Dies
<1> DEFINE o == LazyOver(lazy[l], lazy[l].at)
<1>3. o \in LazyRecord /\ o.runs \in 1 .. MaxRuns
  BY <1>1, OverLazy DEF LazyRecord
<1> HIDE DEF o
<1>4. Rerun(o) \in LazyRecord /\ Rerun(o).at \in {"queued", "dead"}
  <2>1. CASE o.runs < MaxRuns
    <3>1. o.runs + 1 \in 1 .. MaxRuns
      BY <1>3, <2>1, Numbers
    <3> QED
      BY <1>3, <2>1, <3>1 DEF Rerun, LazyRecord, LazyAt
  <2>2. CASE ~(o.runs < MaxRuns)
    BY <1>3, <2>2 DEF Rerun, LazyRecord, LazyAt
  <2> QED
    BY <2>1, <2>2
<1>5. Retried(lazy[l]) \in LazyRecord /\ Retried(lazy[l]).at \in {"queued", "failed"}
  BY <1>1, RetriedLazy
<1> QED
  BY <1>2, <1>4, <1>5 DEF LaziesOK, o

-----------------------------------------------------------------------------
(* Requests in flight.                                                     *)

InFlight == Cardinality(Waiting) + Cardinality(LazyWaiting)

LEMMA FlightIsFinite ==
  /\ IsFiniteSet(Waiting) /\ Cardinality(Waiting) \in Nat
  /\ IsFiniteSet(LazyWaiting) /\ Cardinality(LazyWaiting) \in Nat
  /\ InFlight \in Nat
<1>1. Waiting \subseteq Doc /\ LazyWaiting \subseteq Lazy
  BY DEF Waiting, LazyWaiting
<1>2. IsFiniteSet(Waiting) /\ IsFiniteSet(LazyWaiting)
  BY <1>1, DocumentsAssumption, FS_Subset
<1> QED
  BY <1>2, FS_CardinalityType DEF InFlight

LEMMA FlightNextFinite == IsFiniteSet(Waiting') /\ IsFiniteSet(LazyWaiting')
<1>1. Waiting' \subseteq Doc /\ LazyWaiting' \subseteq Lazy
  BY DEF Waiting, LazyWaiting
<1> QED
  BY <1>1, DocumentsAssumption, FS_Subset

\* A step of one ingest job.
LEMMA JobFlight ==
  ASSUME NEW d \in Doc, \A e \in Doc \ {d} : job'[e] = job[e], lazy' = lazy
  PROVE  /\ (d \in Waiting <=> job[d].at = "embedding")
         /\ (job[d].at = "embedding" <=> job'[d].at = "embedding") => InFlight' = InFlight
         /\ job[d].at # "embedding" /\ job'[d].at = "embedding" => InFlight' = InFlight + 1
         /\ job[d].at = "embedding" /\ job'[d].at # "embedding" =>
              InFlight' = InFlight - 1 /\ InFlight > 0
<1>1. LazyWaiting' = LazyWaiting /\ (d \in Waiting <=> job[d].at = "embedding")
  BY DEF LazyWaiting, Waiting
<1>2. ASSUME job[d].at = "embedding" <=> job'[d].at = "embedding"
      PROVE  InFlight' = InFlight
  BY <1>1, <1>2 DEF InFlight, Waiting
<1>3. ASSUME job[d].at # "embedding", job'[d].at = "embedding"
      PROVE  InFlight' = InFlight + 1
  <2>1. Waiting' = Waiting \cup {d} /\ d \notin Waiting
    BY <1>3 DEF Waiting
  <2>2. Cardinality(Waiting') = Cardinality(Waiting) + 1
    BY <2>1, FlightIsFinite, FS_AddElement
  <2> QED
    BY <1>1, <2>2, FlightIsFinite DEF InFlight
<1>4. ASSUME job[d].at = "embedding", job'[d].at # "embedding"
      PROVE  InFlight' = InFlight - 1 /\ InFlight > 0
  <2>1. Waiting = Waiting' \cup {d} /\ d \notin Waiting'
    BY <1>4 DEF Waiting
  <2>2. Cardinality(Waiting) = Cardinality(Waiting') + 1 /\ Cardinality(Waiting') \in Nat
    BY <2>1, FlightNextFinite, FS_AddElement, FS_CardinalityType
  <2> QED
    BY <1>1, <2>2, FlightIsFinite DEF InFlight
<1> QED
  BY <1>1, <1>2, <1>3, <1>4

\* A step of one lazy job.
LEMMA LazyFlight ==
  ASSUME NEW l \in Lazy, \A k \in Lazy \ {l} : lazy'[k] = lazy[k], job' = job
  PROVE  /\ (lazy[l].at = "embedding" <=> lazy'[l].at = "embedding") => InFlight' = InFlight
         /\ lazy[l].at # "embedding" /\ lazy'[l].at = "embedding" => InFlight' = InFlight + 1
         /\ lazy[l].at = "embedding" /\ lazy'[l].at # "embedding" =>
              InFlight' = InFlight - 1 /\ InFlight > 0
<1>1. Waiting' = Waiting
  BY DEF Waiting
<1>2. ASSUME lazy[l].at = "embedding" <=> lazy'[l].at = "embedding"
      PROVE  InFlight' = InFlight
  BY <1>1, <1>2 DEF InFlight, LazyWaiting
<1>3. ASSUME lazy[l].at # "embedding", lazy'[l].at = "embedding"
      PROVE  InFlight' = InFlight + 1
  <2>1. LazyWaiting' = LazyWaiting \cup {l} /\ l \notin LazyWaiting
    BY <1>3 DEF LazyWaiting
  <2>2. Cardinality(LazyWaiting') = Cardinality(LazyWaiting) + 1
    BY <2>1, FlightIsFinite, FS_AddElement
  <2> QED
    BY <1>1, <2>2, FlightIsFinite DEF InFlight
<1>4. ASSUME lazy[l].at = "embedding", lazy'[l].at # "embedding"
      PROVE  InFlight' = InFlight - 1 /\ InFlight > 0
  <2>1. LazyWaiting = LazyWaiting' \cup {l} /\ l \notin LazyWaiting'
    BY <1>4 DEF LazyWaiting
  <2>2. /\ Cardinality(LazyWaiting) = Cardinality(LazyWaiting') + 1
        /\ Cardinality(LazyWaiting') \in Nat
    BY <2>1, FlightNextFinite, FS_AddElement, FS_CardinalityType
  <2> QED
    BY <1>1, <2>2, FlightIsFinite DEF InFlight
<1> QED
  BY <1>2, <1>3, <1>4

LEMMA RefuseOK ==
  ASSUME AdapterOK, Refuse, UNCHANGED orphans
  PROVE  AdapterOK' /\ active' = active
BY AdapterAssumption DEF AdapterOK, Refuse, Checked, Full

LEMMA AdmitOK ==
  ASSUME AdapterOK, Admit, UNCHANGED orphans
  PROVE  AdapterOK' /\ active' = active + 1
BY AdapterAssumption DEF AdapterOK, Admit, Checked, Full

LEMMA SettleOK ==
  ASSUME AdapterOK, active > 0, NEW outcome \in Outcome, Settle(outcome),
         orphans' \in 0 .. MaxActive
  PROVE  AdapterOK' /\ active' = active - 1
<1>1. active' = active - 1 /\ active' \in 0 .. MaxActive
  BY AdapterAssumption DEF AdapterOK, Settle, Release
<1>2. /\ circuit' \in {"CLOSED", "OPEN", "HALF_OPEN"} /\ failures' \in 0 .. Threshold
      /\ circuit' = "CLOSED" => failures' < Threshold
  <2>1. CASE RecordSuccess
    BY <2>1, AdapterAssumption DEF AdapterOK, RecordSuccess
  <2>2. CASE RecordFailure
    BY <2>2, AdapterAssumption DEF AdapterOK, RecordFailure, Tripped
  <2>3. CASE UNCHANGED <<circuit, failures>>
    BY <2>3 DEF AdapterOK
  <2> QED
    BY <2>1, <2>2, <2>3 DEF Settle, Record
<1> QED
  BY <1>1, <1>2 DEF AdapterOK

-----------------------------------------------------------------------------
(* The invariant.                                                          *)

Statuses == {"none", "new", "pending", "parsing", "ready", "failed", "gone"}

DataOK ==
  /\ status \in {"idle", "processing", "completed"}
  /\ doc \in [Doc -> Statuses]
  /\ text \in [Doc -> BOOLEAN]
  /\ chunks \in [Doc -> [Chunk -> Nat]]
  /\ disturbed \in BOOLEAN
  /\ deaths \in 0 .. MaxDeaths
  /\ swept \subseteq Doc

\* What is not there has no text and no chunks.
Absent(d) == ~Exists(d) => ~text[d] /\ chunks[d] = NoChunks

\* A document and its job.
InStep(d) ==
  /\ doc[d] = "none" => job[d].at = "none"
  /\ doc[d] = "new" => job[d].at \in {"queued", "extract", "failed", "unreported", "dead"}
  /\ doc[d] = "ready" => job[d].at = "done"
  /\ job[d].at \in {"chunk", "embedding", "insert"} => job[d].vector

\* Past its storing, a job that did not overtake its upload has stored the text.
HasText(d) ==
  (Exists(d) /\ job[d].at \in {"chunk", "embedding", "insert", "finish", "done"}) =>
    text[d] \/ job[d].early

\* Until a lazy job comes by, the chunks are those the ingest job has put in: at least one
\* of each so far, and no other in its first run.
Counted(d) ==
  (Exists(d) /\ d \notin swept) =>
    /\ job[d].at \in {"queued", "extract"} /\ job[d].runs = 1 => chunks[d] = NoChunks
    /\ job[d].at \in {"chunk", "embedding", "insert"} =>
         \A c \in Chunk :
           /\ c < job[d].next => chunks[d][c] >= 1
           /\ job[d].runs = 1 => chunks[d][c] = IF c < job[d].next THEN 1 ELSE 0
    /\ job[d].at \in {"finish", "done"} /\ job[d].vector =>
         \A c \in Chunk : chunks[d][c] >= 1 /\ (job[d].runs = 1 => chunks[d][c] = 1)

DocInv(d) == Absent(d) /\ InStep(d) /\ HasText(d) /\ Counted(d)

Exact(d) == \A c \in Chunk : chunks[d][c] = 1
AtDoc == {"chunk", "embedding", "insert"}

LazyInv(l) == lazy[l].at \in AtDoc => lazy[l].doc \in swept

\* A lazy job that nobody disturbs has made exact what it is through with.
Progress(l) ==
  /\ lazy[l].at \in AtDoc \cup {"sweep", "complete"} =>
       \A d \in Doc : text[d] => d \in lazy[l].todo \/ Exact(d)
  /\ lazy[l].at = "complete" => lazy[l].todo = {}
  /\ lazy[l].at \in AtDoc => lazy[l].doc \in lazy[l].todo /\ chunks[lazy[l].doc] = NoChunks

\* Undisturbed, one lazy job runs, and the status is the one it set.
Alone ==
  ~disturbed =>
    \A l \in LazyRunning : LazyRunning = {l} /\ status = "processing" /\ Progress(l)

Accounts == AdapterOK /\ active = InFlight + orphans

DocumentsInv ==
  /\ Accounts /\ DataOK /\ JobsOK /\ LaziesOK
  /\ \A d \in Doc : DocInv(d)
  /\ \A l \in Lazy : LazyInv(l)
  /\ Alone /\ CompletedIsExact

LEMMA InvIsTyped == DocumentsInv => TypeOK
BY DEF DocumentsInv, Accounts, DataOK, JobsOK, LaziesOK, JobRecord, LazyRecord, Statuses, TypeOK,
   InFlight

LEMMA InvIsTrue == DocumentsInv => IndexIsTrue
<1> SUFFICES ASSUME DocumentsInv, NEW d \in Doc, doc[d] = "ready"
             PROVE  /\ text[d] \/ job[d].early
                    /\ job[d].vector /\ d \notin swept =>
                         \A c \in Chunk :
                           chunks[d][c] >= 1 /\ (job[d].runs = 1 => chunks[d][c] = 1)
  BY DEF DocumentsInv, IndexIsTrue, ReadyIsIndexed
<1>1. Exists(d) /\ job[d].at = "done" /\ HasText(d) /\ Counted(d)
  BY DEF DocumentsInv, DocInv, InStep, Exists
<1> QED
  BY <1>1 DEF HasText, Counted

LEMMA InitInv == Init => DocumentsInv
<1> SUFFICES ASSUME Init PROVE DocumentsInv
  OBVIOUS
<1>1. NewJob \in JobRecord /\ [NewJob EXCEPT !.at = "done"] \in JobRecord
  BY Numbers DEF NewJob, JobRecord, JobAt
<1>2. JobsOK /\ LaziesOK
  BY <1>1, NewLazyType DEF Init, JobsOK, LaziesOK
<1>3. NoChunks \in [Chunk -> Nat]
  BY DEF NoChunks
<1>4. DataOK
  <2>1. text \in [Doc -> BOOLEAN]
    <3>1. \A d \in Doc : (d \in Stored) \in BOOLEAN
      OBVIOUS
    <3> QED
      BY <3>1, Zenon DEF Init
  <2>2. chunks \in [Doc -> [Chunk -> Nat]]
    BY <1>3 DEF Init
  <2>3. doc \in [Doc -> Statuses]
    BY DEF Init, Statuses
  <2>4. status = "idle" /\ deaths \in 0 .. MaxDeaths /\ swept = {}
    BY DocumentsAssumption DEF Init
  <2>5. disturbed \in BOOLEAN
    BY Zenon DEF Init
  <2> QED
    BY <2>1, <2>2, <2>3, <2>4, <2>5 DEF DataOK
<1>5. ASSUME NEW d \in Doc
      PROVE  /\ ~job[d].vector /\ chunks[d] = NoChunks
             /\ \/ doc[d] = "ready" /\ job[d].at = "done" /\ text[d]
                \/ doc[d] = "none" /\ job[d].at = "none" /\ ~text[d]
  <2>1. CASE d \in Stored
    BY <2>1 DEF Init, NewJob
  <2>2. CASE d \notin Stored
    BY <2>2 DEF Init, NewJob
  <2> QED
    BY <2>1, <2>2
<1>6. \A d \in Doc : DocInv(d)
  BY <1>5 DEF DocInv, Absent, InStep, HasText, Counted, Exists
<1>7. \A l \in Lazy : lazy[l].at = "queued"
  BY DEF Init, NewLazy
<1>8. /\ \A l \in Lazy : LazyInv(l)
      /\ Alone /\ CompletedIsExact
  BY <1>7 DEF LazyInv, AtDoc, Alone, LazyRunning, Idle, CompletedIsExact, Init
<1>9. Waiting = {} /\ LazyWaiting = {}
  BY <1>5, <1>7 DEF Waiting, LazyWaiting
<1>10. Accounts
  BY <1>9, FS_EmptySet, AdapterAssumption
     DEF Accounts, AdapterOK, InFlight, Init, AdapterInit
<1> QED
  BY <1>2, <1>4, <1>6, <1>8, <1>10 DEF DocumentsInv

-----------------------------------------------------------------------------
(* What a step leaves alone.                                               *)

\* A document nothing happens to, and a job nobody touches.
LEMMA DocFrame ==
  ASSUME NEW d \in Doc, DocInv(d), swept \subseteq swept',
         doc'[d] = doc[d], text'[d] = text[d], chunks'[d] = chunks[d], job'[d] = job[d]
  PROVE  DocInv(d)'
BY DEF DocInv, Absent, Exists, InStep, HasText, Counted

LEMMA DocsFrame ==
  ASSUME \A d \in Doc : DocInv(d), UNCHANGED <<doc, text, chunks, job, swept>>
  PROVE  \A d \in Doc : DocInv(d)'
BY DocFrame

LEMMA LazyFrame ==
  ASSUME \A l \in Lazy : LazyInv(l), swept \subseteq swept', lazy' = lazy
  PROVE  \A l \in Lazy : LazyInv(l)'
BY DEF LazyInv

\* What an undisturbed index rests on.
Index == <<status, text, chunks, lazy, disturbed>>

LEMMA IndexFrame ==
  ASSUME Alone, CompletedIsExact, UNCHANGED Index
  PROVE  Alone' /\ CompletedIsExact'
BY DEF Alone, CompletedIsExact, Index, LazyRunning, Progress, Exact

LEMMA Invalidated ==
  ASSUME Invalidate, lazy' = lazy
  PROVE  Alone' /\ CompletedIsExact'
BY DEF Invalidate, Alone, CompletedIsExact, LazyRunning

LEMMA SetStatusIs ==
  ASSUME DataOK, NEW d \in Doc, NEW s \in Statuses, doc' = SetStatus(d, s)
  PROVE  /\ doc' \in [Doc -> Statuses] /\ \A e \in Doc \ {d} : doc'[e] = doc[e]
         /\ Exists(d) => doc'[d] = s
         /\ ~Exists(d) => doc'[d] = doc[d]
BY DEF DataOK, SetStatus

\* A step that no request to the adapter begins or ends with.
LEMMA AccountsFrame ==
  ASSUME Accounts, UNCHANGED adapterVars, InFlight' = InFlight
  PROVE  Accounts'
BY DEF Accounts, adapterVars, AdapterOK

-----------------------------------------------------------------------------
(* Users.                                                                  *)

LEMMA UserInv ==
  ASSUME DocumentsInv, NEW d \in Doc, UserStep(d)
  PROVE  DocumentsInv'
<1>1. /\ UNCHANGED <<adapterVars, lazy, deaths, swept>>
      /\ \A e \in Doc \ {d} : /\ doc'[e] = doc[e] /\ text'[e] = text[e]
                             /\ chunks'[e] = chunks[e] /\ job'[e] = job[e]
  BY DEF DocumentsInv, DataOK, JobsOK, UserStep, Ingest, Commit, Rollback, Delete
<1>2. /\ DocInv(d) /\ doc[d] \in Statuses /\ doc' \in [Doc -> Statuses]
      /\ text' \in [Doc -> BOOLEAN] /\ chunks' \in [Doc -> [Chunk -> Nat]]
  <2>1. NoChunks \in [Chunk -> Nat]
    BY DEF NoChunks
  <2> QED
    BY <2>1 DEF DocumentsInv, DataOK, Statuses, UserStep, Ingest, Commit, Rollback, Delete
<1>3. /\ \A e \in Doc \ {d} : DocInv(e)'
      /\ \A l \in Lazy : LazyInv(l)'
  BY <1>1, DocFrame, LazyFrame DEF DocumentsInv
<1>4. CASE Ingest(d)
  <2>1. /\ doc[d] = "none" /\ doc'[d] = "new" /\ job[d].at = "none"
        /\ UNCHANGED <<text, chunks>> /\ job' = [job EXCEPT ![d].at = "queued"]
    BY <1>2, <1>4 DEF Ingest, DocumentsInv, DataOK, DocInv, InStep
  <2>2. JobsOK' /\ job'[d].at = "queued" /\ InFlight' = InFlight
    BY <1>1, <2>1, MoveJob, JobFlight DEF DocumentsInv, JobAt
  <2>3. DocInv(d)'
    BY <1>2, <2>1, <2>2 DEF DocInv, Absent, InStep, HasText, Counted, Exists
  <2>4. Alone' /\ CompletedIsExact'
    BY <1>4, IndexFrame DEF DocumentsInv, Ingest, Index
  <2>5. Accounts' /\ DataOK' /\ LaziesOK'
    BY <1>1, <1>2, <1>4, <2>2, AccountsFrame DEF DocumentsInv, DataOK, LaziesOK, Ingest
  <2> QED
    BY <1>3, <2>2, <2>3, <2>4, <2>5 DEF DocumentsInv
<1>5. CASE Commit(d) \/ Delete(d)
  <2>1. /\ UNCHANGED job /\ Invalidate
        /\ \/ doc[d] = "new" /\ doc'[d] = "pending" /\ UNCHANGED <<text, chunks>>
           \/ Exists(d) /\ doc'[d] = "gone" /\ ~text'[d] /\ chunks'[d] = NoChunks
    BY <1>5 DEF Commit, Delete, DocumentsInv, DataOK
  <2>2. InFlight' = InFlight
    BY <1>1, <2>1 DEF InFlight, Waiting, LazyWaiting
  <2>3. DocInv(d)'
    BY <1>1, <1>2, <2>1 DEF DocInv, Absent, InStep, HasText, Counted, Exists
  <2>4. Alone' /\ CompletedIsExact'
    BY <1>1, <2>1, Invalidated
  <2>5. Accounts' /\ DataOK' /\ LaziesOK' /\ JobsOK'
    BY <1>1, <1>2, <2>1, <2>2, AccountsFrame
       DEF DocumentsInv, DataOK, LaziesOK, JobsOK, Invalidate
  <2> QED
    BY <1>3, <2>3, <2>4, <2>5 DEF DocumentsInv
<1>6. CASE Rollback(d)
  <2>1. /\ UNCHANGED job /\ doc[d] = "new" /\ doc'[d] = "gone"
        /\ UNCHANGED <<text, chunks, status, disturbed>>
    BY <1>6 DEF Rollback, DocumentsInv, DataOK
  <2>2. InFlight' = InFlight
    BY <1>1, <2>1 DEF InFlight, Waiting, LazyWaiting
  <2>3. DocInv(d)'
    BY <1>1, <1>2, <2>1 DEF DocInv, Absent, InStep, HasText, Counted, Exists
  <2>4. Alone' /\ CompletedIsExact'
    BY <1>1, <2>1, IndexFrame DEF DocumentsInv, Index
  <2>5. Accounts' /\ DataOK' /\ LaziesOK' /\ JobsOK'
    BY <1>1, <1>2, <2>1, <2>2, AccountsFrame DEF DocumentsInv, DataOK, LaziesOK, JobsOK
  <2> QED
    BY <1>3, <2>3, <2>4, <2>5 DEF DocumentsInv
<1> QED
  BY <1>4, <1>5, <1>6 DEF UserStep

-----------------------------------------------------------------------------
(* Ingest jobs.                                                            *)

\* A step of the job of d that touches neither the index nor the adapter's accounts.
LEMMA JobFrame ==
  ASSUME DocumentsInv, NEW d \in Doc,
         \A e \in Doc \ {d} : job'[e] = job[e] /\ doc'[e] = doc[e],
         UNCHANGED <<Index, swept>>,
         JobsOK', doc' \in [Doc -> Statuses], deaths' \in 0 .. MaxDeaths,
         Accounts', DocInv(d)'
  PROVE  DocumentsInv'
<1>1. DataOK' /\ LaziesOK'
  BY DEF DocumentsInv, DataOK, LaziesOK, Index
<1>2. \A e \in Doc : DocInv(e)'
  BY DocFrame DEF DocumentsInv, Index
<1>3. \A l \in Lazy : LazyInv(l)'
  BY LazyFrame DEF DocumentsInv, Index
<1>4. Alone' /\ CompletedIsExact'
  BY IndexFrame DEF DocumentsInv
<1> QED
  BY <1>1, <1>2, <1>3, <1>4 DEF DocumentsInv

\* The catch block, wherever the job is.
LEMMA FailsDoc ==
  ASSUME DocumentsInv, NEW d \in Doc, Fails(d), job[d].at \notin {"none", "done"},
         UNCHANGED <<text, chunks, swept>>
  PROVE  /\ JobsOK' /\ job'[d].at \in {"failed", "unreported"} /\ doc' \in [Doc -> Statuses]
         /\ \A e \in Doc \ {d} : job'[e] = job[e] /\ doc'[e] = doc[e]
         /\ DocInv(d)'
<1>1. /\ doc' \in [Doc -> Statuses] /\ \A e \in Doc \ {d} : doc'[e] = doc[e]
      /\ (doc'[d] = "failed" /\ Exists(d)) \/ doc'[d] = doc[d]
  BY SetStatusIs DEF Fails, DocumentsInv, DataOK, Statuses
<1>2. /\ JobsOK' /\ job'[d].at \in {"failed", "unreported"}
      /\ \A e \in Doc \ {d} : job'[e] = job[e]
  BY FailsJob DEF Fails, DocumentsInv
<1>3. DocInv(d) /\ doc[d] \in Statuses
  BY DEF DocumentsInv, DataOK
<1> QED
  BY <1>1, <1>2, <1>3 DEF DocInv, Absent, InStep, HasText, Counted, Exists, Statuses

LEMMA TakeInv ==
  ASSUME DocumentsInv, NEW d \in Doc, Take(d)
  PROVE  DocumentsInv'
<1>1. /\ JobsOK' /\ \A e \in Doc \ {d} : job'[e] = job[e]
      /\ job[d].at = "queued" /\ job'[d].at = "extract"
      /\ job'[d].runs = job[d].runs /\ job'[d].vector = job[d].vector
  BY TakeJob DEF DocumentsInv
<1>2. /\ doc' \in [Doc -> Statuses] /\ \A e \in Doc \ {d} : doc'[e] = doc[e]
      /\ Exists(d) => doc'[d] = "parsing"
      /\ ~Exists(d) => doc'[d] = doc[d]
  BY SetStatusIs DEF Take, DocumentsInv, Statuses
<1>3. UNCHANGED <<adapterVars, status, text, chunks, lazy, disturbed, deaths, swept>>
  BY DEF Take
<1>4. DocInv(d)'
  BY <1>1, <1>2, <1>3 DEF DocumentsInv, DocInv, Absent, InStep, HasText, Counted, Exists
<1>5. Accounts'
  BY <1>1, <1>3, JobFlight, AccountsFrame DEF DocumentsInv
<1> QED
  BY <1>1, <1>2, <1>3, <1>4, <1>5, JobFrame DEF Index, DocumentsInv, DataOK

LEMMA StepFailsInv ==
  ASSUME DocumentsInv, NEW d \in Doc, StepFails(d)
  PROVE  DocumentsInv'
<1>1. /\ job[d].at \in {"queued", "extract", "insert", "finish"} /\ Fails(d)
      /\ UNCHANGED <<adapterVars, status, text, chunks, lazy, disturbed, deaths, swept>>
  BY DEF StepFails
<1>2. /\ JobsOK' /\ job'[d].at \in {"failed", "unreported"} /\ doc' \in [Doc -> Statuses]
      /\ \A e \in Doc \ {d} : job'[e] = job[e] /\ doc'[e] = doc[e]
      /\ DocInv(d)'
  BY <1>1, FailsDoc DEF Idle
<1>3. Accounts'
  BY <1>1, <1>2, JobFlight, AccountsFrame DEF DocumentsInv
<1> QED
  BY <1>1, <1>2, <1>3, JobFrame DEF Index, DocumentsInv, DataOK

LEMMA StoreTextInv ==
  ASSUME DocumentsInv, NEW d \in Doc, StoreText(d)
  PROVE  DocumentsInv'
<1>1. /\ JobsOK' /\ \A e \in Doc \ {d} : job'[e] = job[e]
      /\ job[d].at = "extract"
      /\ job'[d].runs = job[d].runs /\ job'[d].early = job[d].early
      /\ job'[d].next = 1
      /\ \/ job'[d].vector /\ job'[d].at = "chunk"
         \/ ~job'[d].vector /\ job'[d].at = "finish"
  BY StoreTextJob DEF DocumentsInv
<1>2. /\ doc[d] # "new" /\ Invalidate
      /\ UNCHANGED <<adapterVars, doc, chunks, lazy, deaths, swept>>
  BY DEF StoreText
<1>3. /\ text' \in [Doc -> BOOLEAN] /\ \A e \in Doc \ {d} : text'[e] = text[e]
      /\ ~Exists(d) => text'[d] = text[d]
      /\ Exists(d) => text'[d] \/ job[d].early
  <2>1. PICK found \in IF job[d].early THEN BOOLEAN ELSE {TRUE} :
          text' = [text EXCEPT ![d] = text[d] \/ (found /\ Exists(d))]
    BY DEF StoreText
  <2>2. text \in [Doc -> BOOLEAN]
    BY DEF DocumentsInv, DataOK
  <2>3. job[d].early \/ found = TRUE
    BY <2>1
  <2>4. text'[d] = (text[d] \/ (found /\ Exists(d)))
    BY <2>1, <2>2
  <2>5. (text[d] \/ (found /\ Exists(d))) \in BOOLEAN
    OBVIOUS
  <2>6. text' \in [Doc -> BOOLEAN] /\ \A e \in Doc \ {d} : text'[e] = text[e]
    BY <2>1, <2>2, <2>5
  <2> QED
    BY <2>2, <2>3, <2>4, <2>6
<1>4. \A i \in Chunk : ~(i < 1)
  BY DEF Chunk
<1>5. DocInv(d)'
  <2>1. DocInv(d)
    BY DEF DocumentsInv
  <2>2. Absent(d)' /\ InStep(d)' /\ HasText(d)'
    BY <1>1, <1>2, <1>3, <2>1 DEF DocInv, Absent, InStep, HasText, Exists
  <2>3. Counted(d)'
    BY <1>1, <1>2, <1>4, <2>1 DEF DocInv, Counted, Exists, NoChunks
  <2> QED
    BY <2>2, <2>3 DEF DocInv
<1>6. \A e \in Doc : DocInv(e)'
  BY <1>1, <1>2, <1>3, <1>5, DocFrame DEF DocumentsInv
<1>7. Accounts'
  BY <1>1, <1>2, JobFlight, AccountsFrame DEF DocumentsInv
<1>8. /\ \A l \in Lazy : LazyInv(l)'
      /\ Alone' /\ CompletedIsExact'
  BY <1>2, LazyFrame, Invalidated DEF DocumentsInv
<1>9. DataOK' /\ LaziesOK'
  BY <1>2, <1>3 DEF DocumentsInv, DataOK, LaziesOK, Invalidate
<1> QED
  BY <1>1, <1>6, <1>7, <1>8, <1>9 DEF DocumentsInv

LEMMA RequestVectorInv ==
  ASSUME DocumentsInv, NEW d \in Doc, RequestVector(d)
  PROVE  DocumentsInv'
<1>1. /\ job[d].at = "chunk"
      /\ UNCHANGED <<orphans, status, text, chunks, lazy, disturbed, deaths, swept>>
  BY DEF RequestVector
<1>2. AdapterOK /\ active = InFlight + orphans /\ DocInv(d) /\ deaths \in 0 .. MaxDeaths
  BY DEF DocumentsInv, Accounts, DataOK
<1>3. CASE Refuse /\ Fails(d)
  <2>1. /\ JobsOK' /\ job'[d].at \in {"failed", "unreported"} /\ doc' \in [Doc -> Statuses]
        /\ \A e \in Doc \ {d} : job'[e] = job[e] /\ doc'[e] = doc[e]
        /\ DocInv(d)'
    BY <1>1, <1>3, FailsDoc DEF Idle
  <2>2. InFlight' = InFlight
    BY <1>1, <2>1, JobFlight
  <2>3. Accounts'
    BY <1>1, <1>2, <1>3, <2>2, RefuseOK DEF Accounts
  <2> QED
    BY <1>1, <1>2, <2>1, <2>3, JobFrame DEF Index
<1>4. CASE Admit /\ job' = [job EXCEPT ![d].at = "embedding"] /\ UNCHANGED doc
  <2>1. /\ JobsOK' /\ \A e \in Doc \ {d} : job'[e] = job[e]
        /\ job'[d].at = "embedding"
        /\ job'[d].next = job[d].next /\ job'[d].vector = job[d].vector
        /\ job'[d].runs = job[d].runs /\ job'[d].early = job[d].early
    BY <1>4, MoveJob DEF DocumentsInv, JobAt
  <2>2. DocInv(d)'
    BY <1>1, <1>2, <1>4, <2>1 DEF DocInv, Absent, InStep, HasText, Counted, Exists
  <2>3. InFlight' = InFlight + 1
    BY <1>1, <2>1, JobFlight
  <2>4. Accounts'
    BY <1>1, <1>2, <1>4, <2>3, AdmitOK, FlightIsFinite DEF Accounts, AdapterOK
  <2>5. doc' \in [Doc -> Statuses] /\ \A e \in Doc \ {d} : doc'[e] = doc[e]
    BY <1>4 DEF DocumentsInv, DataOK
  <2> QED
    BY <1>1, <1>2, <2>1, <2>2, <2>4, <2>5, JobFrame DEF Index
<1> QED
  BY <1>3, <1>4 DEF RequestVector

LEMMA GetVectorInv ==
  ASSUME DocumentsInv, NEW d \in Doc, GetVector(d)
  PROVE  DocumentsInv'
<1>1. /\ job[d].at = "embedding"
      /\ UNCHANGED <<orphans, status, text, chunks, lazy, disturbed, deaths, swept>>
  BY DEF GetVector
<1>2. AdapterOK /\ active = InFlight + orphans /\ DocInv(d) /\ deaths \in 0 .. MaxDeaths
  BY DEF DocumentsInv, Accounts, DataOK
<1>3. PICK outcome \in Outcome :
        /\ Settle(outcome)
        /\ \/ job' = [job EXCEPT ![d].at = "insert"] /\ UNCHANGED doc
           \/ Fails(d)
  BY DEF GetVector
<1>4. ASSUME InFlight' = InFlight - 1, InFlight > 0 PROVE Accounts'
  <2>1. active > 0 /\ orphans' \in 0 .. MaxActive
    BY <1>1, <1>2, <1>4, FlightIsFinite DEF AdapterOK
  <2>2. AdapterOK' /\ active' = active - 1
    BY <1>2, <1>3, <2>1, SettleOK
  <2> QED
    BY <1>1, <1>2, <1>4, <2>2, FlightIsFinite DEF Accounts, AdapterOK
<1>5. CASE job' = [job EXCEPT ![d].at = "insert"] /\ UNCHANGED doc
  <2>1. /\ JobsOK' /\ \A e \in Doc \ {d} : job'[e] = job[e]
        /\ job'[d].at = "insert"
        /\ job'[d].next = job[d].next /\ job'[d].vector = job[d].vector
        /\ job'[d].runs = job[d].runs /\ job'[d].early = job[d].early
    BY <1>5, MoveJob DEF DocumentsInv, JobAt
  <2>2. DocInv(d)'
    BY <1>1, <1>2, <1>5, <2>1 DEF DocInv, Absent, InStep, HasText, Counted, Exists
  <2>3. Accounts'
    BY <1>1, <1>4, <2>1, JobFlight
  <2>4. doc' \in [Doc -> Statuses] /\ \A e \in Doc \ {d} : doc'[e] = doc[e]
    BY <1>5 DEF DocumentsInv, DataOK
  <2> QED
    BY <1>1, <1>2, <2>1, <2>2, <2>3, <2>4, JobFrame DEF Index
<1>6. CASE Fails(d)
  <2>1. /\ JobsOK' /\ job'[d].at \in {"failed", "unreported"} /\ doc' \in [Doc -> Statuses]
        /\ \A e \in Doc \ {d} : job'[e] = job[e] /\ doc'[e] = doc[e]
        /\ DocInv(d)'
    BY <1>1, <1>6, FailsDoc DEF Idle
  <2>2. Accounts'
    BY <1>1, <1>4, <2>1, JobFlight
  <2> QED
    BY <1>1, <1>2, <2>1, <2>2, JobFrame DEF Index
<1> QED
  BY <1>3, <1>5, <1>6

LEMMA InsertChunkInv ==
  ASSUME DocumentsInv, NEW d \in Doc, InsertChunk(d)
  PROVE  DocumentsInv'
<1>1. /\ job[d].at = "insert"
      /\ UNCHANGED <<adapterVars, status, text, lazy, deaths, swept>>
  BY DEF InsertChunk
<1>2. /\ Accounts /\ DocInv(d) /\ deaths \in 0 .. MaxDeaths /\ job[d].next \in Chunk
      /\ chunks \in [Doc -> [Chunk -> Nat]]
  BY DEF DocumentsInv, DataOK, JobsOK, JobRecord
<1>3. CASE Exists(d)
  <2>1. /\ job' = [job EXCEPT ![d] =
                     IF @.next < Chunks THEN NextChunk(@) ELSE Over(@, "finish")]
        /\ chunks' = [chunks EXCEPT ![d][job[d].next] = @ + 1]
        /\ disturbed' = TRUE /\ doc' = doc
    BY <1>3 DEF InsertChunk
  <2>2. /\ JobsOK' /\ \A e \in Doc \ {d} : job'[e] = job[e]
        /\ job'[d].vector = job[d].vector
        /\ job'[d].runs = job[d].runs /\ job'[d].early = job[d].early
        /\ \/ /\ job[d].next < Chunks
              /\ job'[d].at = "chunk" /\ job'[d].next = job[d].next + 1
           \/ job[d].next = Chunks /\ job'[d].at = "finish"
    BY <2>1, InsertJob DEF DocumentsInv
  <2>3. /\ chunks' \in [Doc -> [Chunk -> Nat]] /\ \A e \in Doc \ {d} : chunks'[e] = chunks[e]
        /\ \A i \in Chunk : chunks'[d][i] =
             IF i = job[d].next THEN chunks[d][i] + 1 ELSE chunks[d][i]
    <3>1. chunks[d] \in [Chunk -> Nat]
      BY <1>2
    <3> DEFINE row == [chunks[d] EXCEPT ![job[d].next] = chunks[d][job[d].next] + 1]
    <3>2. /\ row \in [Chunk -> Nat]
          /\ \A i \in Chunk : row[i] = IF i = job[d].next THEN chunks[d][i] + 1 ELSE chunks[d][i]
      BY <1>2, <3>1
    <3>3. chunks' = [chunks EXCEPT ![d] = row]
      BY <2>1
    <3> HIDE DEF row
    <3>4. chunks' \in [Doc -> [Chunk -> Nat]] /\ \A e \in Doc \ {d} : chunks'[e] = chunks[e]
      BY <1>2, <3>2, <3>3
    <3>5. chunks'[d] = row
      BY <1>2, <3>3
    <3>6. \A i \in Chunk : chunks'[d][i] =
             IF i = job[d].next THEN chunks[d][i] + 1 ELSE chunks[d][i]
      BY ONLY <3>2, <3>5
    <3> QED
      BY <3>4, <3>6
  <2>4. DocInv(d)'
    <3>1. \A i \in Chunk : i \in 1 .. Chunks /\ i \in Nat /\ chunks[d][i] \in Nat
      BY <1>2, Numbers DEF Chunk
    <3>2. Absent(d)' /\ InStep(d)' /\ HasText(d)'
      BY <1>1, <1>2, <1>3, <2>1, <2>2 DEF DocInv, Absent, InStep, HasText, Exists
    <3>3. Counted(d)'
      <4> SUFFICES ASSUME d \notin swept, NEW i \in Chunk
                   PROVE  /\ job'[d].at = "chunk" =>
                             /\ i < job'[d].next => chunks'[d][i] >= 1
                             /\ job'[d].runs = 1 =>
                                  chunks'[d][i] = IF i < job'[d].next THEN 1 ELSE 0
                          /\ job'[d].at = "finish" =>
                             chunks'[d][i] >= 1 /\ (job'[d].runs = 1 => chunks'[d][i] = 1)
        BY <1>1, <2>2 DEF Counted
      <4>1. /\ i < job[d].next => chunks[d][i] >= 1
            /\ job[d].runs = 1 => chunks[d][i] = IF i < job[d].next THEN 1 ELSE 0
        BY <1>1, <1>2, <1>3 DEF DocInv, Counted
      <4>2. chunks'[d][i] = IF i = job[d].next THEN chunks[d][i] + 1 ELSE chunks[d][i]
        BY <2>3
      <4>3. i \in Nat /\ i <= Chunks /\ job[d].next \in Nat /\ chunks[d][i] \in Nat
        BY <1>2, <3>1 DEF Chunk
      <4>4. CASE job'[d].at = "chunk" /\ job'[d].next = job[d].next + 1
        BY <2>2, <4>1, <4>2, <4>3, <4>4
      <4>5. CASE job[d].next = Chunks /\ job'[d].at = "finish"
        BY <2>2, <4>1, <4>2, <4>3, <4>5
      <4> QED
        BY <2>2, <4>4, <4>5
    <3> QED
      BY <3>2, <3>3 DEF DocInv
  <2>5. \A e \in Doc : DocInv(e)'
    BY <1>1, <2>1, <2>2, <2>3, <2>4, DocFrame DEF DocumentsInv
  <2>6. Accounts'
    BY <1>1, <1>2, <2>2, JobFlight, AccountsFrame
  <2>7. /\ \A l \in Lazy : LazyInv(l)'
        /\ Alone' /\ CompletedIsExact'
    BY <1>1, <2>1, LazyFrame DEF DocumentsInv, Alone, CompletedIsExact
  <2>8. DataOK' /\ LaziesOK'
    BY <1>1, <2>1, <2>3 DEF DocumentsInv, DataOK, LaziesOK
  <2> QED
    BY <2>2, <2>5, <2>6, <2>7, <2>8 DEF DocumentsInv
<1>4. CASE ~Exists(d)
  <2>1. Fails(d) /\ UNCHANGED <<chunks, disturbed>>
    BY <1>4 DEF InsertChunk
  <2>2. /\ JobsOK' /\ job'[d].at \in {"failed", "unreported"} /\ doc' \in [Doc -> Statuses]
        /\ \A e \in Doc \ {d} : job'[e] = job[e] /\ doc'[e] = doc[e]
        /\ DocInv(d)'
    BY <1>1, <2>1, FailsDoc DEF Idle
  <2>3. Accounts'
    BY <1>1, <1>2, <2>2, JobFlight, AccountsFrame
  <2> QED
    BY <1>1, <1>2, <2>1, <2>2, <2>3, JobFrame DEF Index
<1> QED
  BY <1>3, <1>4

LEMMA FinishInv ==
  ASSUME DocumentsInv, NEW d \in Doc, Finish(d)
  PROVE  DocumentsInv'
<1>1. /\ job[d].at = "finish" /\ job' = [job EXCEPT ![d].at = "done"]
      /\ doc' = SetStatus(d, "ready")
      /\ UNCHANGED <<adapterVars, status, text, chunks, lazy, disturbed, deaths, swept>>
  BY DEF Finish
<1>2. /\ JobsOK' /\ \A e \in Doc \ {d} : job'[e] = job[e]
      /\ job'[d].at = "done"
      /\ job'[d].next = job[d].next /\ job'[d].vector = job[d].vector
      /\ job'[d].runs = job[d].runs /\ job'[d].early = job[d].early
  BY <1>1, MoveJob DEF DocumentsInv, JobAt
<1>3. /\ doc' \in [Doc -> Statuses] /\ \A e \in Doc \ {d} : doc'[e] = doc[e]
      /\ Exists(d) => doc'[d] = "ready"
      /\ ~Exists(d) => doc'[d] = doc[d]
  BY <1>1, SetStatusIs DEF DocumentsInv, Statuses
<1>4. DocInv(d)'
  BY <1>1, <1>2, <1>3 DEF DocumentsInv, DocInv, Absent, InStep, HasText, Counted, Exists
<1>5. Accounts'
  BY <1>1, <1>2, JobFlight, AccountsFrame DEF DocumentsInv
<1> QED
  BY <1>1, <1>2, <1>3, <1>4, <1>5, JobFrame DEF Index, DocumentsInv, DataOK

\* The process of a job has died, and with it the job's place among those that wait; a
\* request it had in flight is an orphan.
LEMMA DiesAccounts ==
  ASSUME Accounts, NEW j, Dies(j), deaths \in 0 .. MaxDeaths,
         UNCHANGED <<circuit, failures, active>>,
         j.at = "embedding" => InFlight' = InFlight - 1 /\ InFlight > 0,
         j.at # "embedding" => InFlight' = InFlight
  PROVE  Accounts' /\ deaths' \in 0 .. MaxDeaths
<1>1. deaths' \in 0 .. MaxDeaths
  BY DocumentsAssumption DEF Dies
<1>2. /\ j.at = "embedding" => orphans' = orphans + 1
      /\ j.at # "embedding" => orphans' = orphans
  BY DEF Dies, Accounts, AdapterOK
<1> QED
  BY <1>1, <1>2, FlightIsFinite, AdapterAssumption DEF Accounts, AdapterOK

LEMMA CrashInv ==
  ASSUME DocumentsInv, NEW d \in Doc, Crash(d)
  PROVE  DocumentsInv'
<1>1. /\ JobsOK' /\ \A e \in Doc \ {d} : job'[e] = job[e]
      /\ job[d].at \notin Idle
      /\ \/ job'[d].at = "queued" /\ job'[d].runs # 1
         \/ job'[d].at = "dead"
  BY CrashJob DEF DocumentsInv
<1>2. /\ Dies(job[d])
      /\ UNCHANGED <<circuit, failures, active, status, doc, text, chunks, lazy, disturbed,
                     swept>>
  BY DEF Crash
<1>3. DocInv(d)'
  BY <1>1, <1>2 DEF DocumentsInv, DocInv, Absent, InStep, HasText, Counted, Exists, Idle
<1>4. Accounts' /\ deaths' \in 0 .. MaxDeaths
  BY <1>1, <1>2, JobFlight, DiesAccounts DEF DocumentsInv, DataOK
<1>5. doc' \in [Doc -> Statuses] /\ \A e \in Doc \ {d} : doc'[e] = doc[e]
  BY <1>2 DEF DocumentsInv, DataOK
<1> QED
  BY <1>1, <1>2, <1>3, <1>4, <1>5, JobFrame DEF Index

LEMMA JobInv ==
  ASSUME DocumentsInv, NEW d \in Doc, JobStep(d)
  PROVE  DocumentsInv'
BY TakeInv, StepFailsInv, StoreTextInv, RequestVectorInv, GetVectorInv, InsertChunkInv,
   FinishInv DEF JobStep

-----------------------------------------------------------------------------
(* Lazy jobs.                                                              *)

\* A step of lazy job l that leaves the texts and their chunks alone, after which l is
\* where it need not have done anything more than before.
LEMMA LazyQuiet ==
  ASSUME DocumentsInv, NEW l \in Lazy,
         \A k \in Lazy \ {l} : lazy'[k] = lazy[k],
         UNCHANGED <<doc, text, chunks, job, disturbed, swept>>,
         LaziesOK', Accounts', deaths' \in 0 .. MaxDeaths,
         lazy[l].at \notin Idle,
         \/ /\ lazy'[l].at \in Idle
            /\ status' \in {"idle", status}
         \/ /\ lazy[l].at \in AtDoc /\ lazy'[l].at \in AtDoc /\ status' = status
            /\ lazy'[l].todo = lazy[l].todo /\ lazy'[l].doc = lazy[l].doc
  PROVE  DocumentsInv'
<1>1. DataOK' /\ JobsOK' /\ \A d \in Doc : DocInv(d)'
  BY DocsFrame DEF DocumentsInv, DataOK, JobsOK
<1>2. \A k \in Lazy : LazyInv(k)'
  BY DEF DocumentsInv, LazyInv, AtDoc, Idle
<1>3. Alone' /\ CompletedIsExact'
  <2> SUFFICES ASSUME ~disturbed PROVE Alone' /\ CompletedIsExact'
    BY DEF Alone, CompletedIsExact
  <2>1. LazyRunning = {l} /\ status = "processing" /\ Progress(l)
    BY DEF DocumentsInv, Alone, LazyRunning
  <2>2. CompletedIsExact'
    BY <2>1 DEF CompletedIsExact
  <2>3. \A k \in Lazy \ {l} : k \notin LazyRunning'
    BY <2>1 DEF LazyRunning
  <2>4. CASE lazy'[l].at \in Idle
    BY <2>2, <2>3, <2>4 DEF Alone, LazyRunning
  <2>5. CASE lazy'[l].at \notin Idle
    <3>1. /\ lazy[l].at \in AtDoc /\ lazy'[l].at \in AtDoc /\ status' = status
          /\ lazy'[l].todo = lazy[l].todo /\ lazy'[l].doc = lazy[l].doc
      BY <2>5
    <3>2. LazyRunning' = {l}
      BY <2>3, <2>5 DEF LazyRunning
    <3>3. Progress(l)'
      BY <2>1, <3>1 DEF Progress, Exact, AtDoc
    <3> QED
      BY <2>1, <2>2, <3>1, <3>2, <3>3 DEF Alone
  <2> QED
    BY <2>4, <2>5
<1> QED
  BY <1>1, <1>2, <1>3 DEF DocumentsInv

LEMMA LazyTakeInv ==
  ASSUME DocumentsInv, NEW l \in Lazy, LazyTake(l)
  PROVE  DocumentsInv'
<1>1. /\ lazy[l].at = "queued" /\ status' = "processing"
      /\ disturbed' = (LazyRunning # {}) /\ lazy' = [lazy EXCEPT ![l].at = "list"]
      /\ UNCHANGED <<adapterVars, doc, text, chunks, job, deaths, swept>>
  BY DEF LazyTake
<1>2. /\ LaziesOK' /\ \A k \in Lazy \ {l} : lazy'[k] = lazy[k]
      /\ lazy'[l].at = "list"
  BY <1>1, TakeLazy DEF DocumentsInv, LazyAt
<1>3. Accounts'
  BY <1>1, <1>2, LazyFlight, AccountsFrame DEF DocumentsInv
<1>4. /\ JobsOK' /\ \A d \in Doc : DocInv(d)'
      /\ \A k \in Lazy : LazyInv(k)'
  BY <1>1, <1>2, DocsFrame DEF DocumentsInv, JobsOK, LazyInv, AtDoc
<1>5. DataOK'
  <2>1. disturbed' \in BOOLEAN
    BY <1>1, Zenon
  <2> QED
    BY <1>1, <2>1 DEF DocumentsInv, DataOK
<1>6. Alone' /\ CompletedIsExact'
  <2>1. CompletedIsExact'
    BY <1>1 DEF CompletedIsExact
  <2>2. ASSUME ~disturbed' PROVE LazyRunning' = {l}
    BY <1>1, <1>2, <2>2 DEF LazyRunning, Idle
  <2>3. Progress(l)'
    BY <1>2 DEF Progress, AtDoc
  <2> QED
    BY <1>1, <2>1, <2>2, <2>3 DEF Alone
<1> QED
  BY <1>2, <1>3, <1>4, <1>5, <1>6 DEF DocumentsInv

LEMMA LazyListInv ==
  ASSUME DocumentsInv, NEW l \in Lazy, LazyList(l)
  PROVE  DocumentsInv'
<1>1. /\ LaziesOK' /\ \A k \in Lazy \ {l} : lazy'[k] = lazy[k]
      /\ lazy[l].at = "list" /\ lazy'[l].todo = {d \in Doc : text[d]}
      /\ lazy'[l].at = AfterDoc(lazy'[l].todo)
  BY ListLazy DEF DocumentsInv
<1>2. /\ lazy'[l].at \in {"sweep", "complete"}
      /\ lazy'[l].at = "complete" => lazy'[l].todo = {}
  BY <1>1 DEF AfterDoc
<1>3. UNCHANGED <<adapterVars, status, doc, text, chunks, job, disturbed, deaths, swept>>
  BY DEF LazyList
<1>4. Accounts'
  BY <1>1, <1>2, <1>3, LazyFlight, AccountsFrame DEF DocumentsInv
<1>5. /\ JobsOK' /\ DataOK' /\ \A d \in Doc : DocInv(d)'
      /\ \A k \in Lazy : LazyInv(k)'
  BY <1>1, <1>2, <1>3, DocsFrame DEF DocumentsInv, JobsOK, DataOK, LazyInv, AtDoc
<1>6. CompletedIsExact'
  BY <1>3 DEF DocumentsInv, CompletedIsExact
<1>7. Alone'
  <2> SUFFICES ASSUME ~disturbed
               PROVE  LazyRunning' = {l} /\ status' = "processing" /\ Progress(l)'
    BY <1>3 DEF Alone
  <2>1. LazyRunning = {l} /\ status = "processing"
    BY <1>1 DEF DocumentsInv, Alone, LazyRunning, Idle
  <2>2. LazyRunning' = {l}
    BY <1>1, <1>2, <2>1 DEF LazyRunning, Idle
  <2>3. Progress(l)'
    BY <1>1, <1>2, <1>3 DEF Progress, AtDoc
  <2> QED
    BY <1>3, <2>1, <2>2, <2>3
<1> QED
  BY <1>1, <1>4, <1>5, <1>6, <1>7 DEF DocumentsInv

LEMMA LazySweepInv ==
  ASSUME DocumentsInv, NEW l \in Lazy, LazySweep(l)
  PROVE  DocumentsInv'
<1>1. /\ lazy[l].at = "sweep" /\ lazy[l].todo \subseteq Doc
      /\ UNCHANGED <<adapterVars, status, doc, text, job, disturbed, deaths>>
  BY DEF LazySweep, DocumentsInv, LaziesOK, LazyRecord
<1>2. PICK d \in lazy[l].todo :
        /\ chunks' = [chunks EXCEPT ![d] = NoChunks]
        /\ swept' = swept \cup {d}
        /\ lazy' = [lazy EXCEPT ![l].at = "chunk", ![l].doc = d, ![l].next = 1]
  BY DEF LazySweep, Sweep
<1>3. d \in Doc
  BY <1>1, <1>2
<1>4. /\ LaziesOK' /\ \A k \in Lazy \ {l} : lazy'[k] = lazy[k]
      /\ lazy'[l].at = "chunk" /\ lazy'[l].doc = d /\ lazy'[l].todo = lazy[l].todo
  BY <1>2, <1>3, SweepLazy DEF DocumentsInv
<1>5. /\ chunks'[d] = NoChunks /\ \A e \in Doc \ {d} : chunks'[e] = chunks[e]
      /\ chunks' \in [Doc -> [Chunk -> Nat]]
  <2>1. NoChunks \in [Chunk -> Nat] /\ chunks \in [Doc -> [Chunk -> Nat]]
    BY DEF NoChunks, DocumentsInv, DataOK
  <2> QED
    BY <1>2, <1>3, <2>1
<1>6. DataOK' /\ JobsOK'
  BY <1>1, <1>2, <1>3, <1>5 DEF DocumentsInv, DataOK, JobsOK
<1>7. \A e \in Doc : DocInv(e)'
  <2>1. DocInv(d)'
    BY <1>1, <1>2, <1>3, <1>5
       DEF DocumentsInv, DocInv, Absent, InStep, HasText, Counted, Exists
  <2>2. ASSUME NEW e \in Doc, e # d PROVE DocInv(e)'
    BY <1>1, <1>2, <1>5, <2>2, DocFrame DEF DocumentsInv
  <2>3. ASSUME NEW e \in Doc, e = d PROVE DocInv(e)'
    BY ONLY <2>1, <2>3
  <2> QED
    BY <2>2, <2>3
<1>8. \A k \in Lazy : LazyInv(k)'
  <2>1. swept \subseteq swept' /\ d \in swept'
    BY <1>2
  <2>2. \A k \in Lazy : lazy[k].at \in AtDoc => lazy[k].doc \in swept
    BY DEF DocumentsInv, LazyInv
  <2>3. ASSUME NEW k \in Lazy, lazy'[k].at \in AtDoc PROVE lazy'[k].doc \in swept'
    BY ONLY <1>4, <2>1, <2>2, <2>3
  <2> QED
    BY <2>3 DEF LazyInv
<1>9. Accounts'
  BY <1>1, <1>4, LazyFlight, AccountsFrame DEF DocumentsInv
<1>10. Alone' /\ CompletedIsExact'
  <2> SUFFICES ASSUME ~disturbed PROVE Alone' /\ CompletedIsExact'
    BY <1>1 DEF Alone, CompletedIsExact
  <2>1. LazyRunning = {l} /\ status = "processing" /\ Progress(l)
    BY <1>1 DEF DocumentsInv, Alone, LazyRunning, Idle
  <2>2. LazyRunning' = {l}
    BY <1>4, <2>1 DEF LazyRunning, Idle
  <2>3. ASSUME NEW e \in Doc, text'[e] PROVE e \in lazy'[l].todo \/ Exact(e)'
    <3>1. e \in lazy[l].todo \/ Exact(e)
      BY <1>1, <2>1, <2>3 DEF Progress
    <3>2. CASE e = d
      BY <1>2, <1>4, <3>2
    <3>3. CASE e # d
      BY <1>4, <1>5, <3>1, <3>3 DEF Exact
    <3> QED
      BY <3>2, <3>3
  <2>4. Progress(l)'
    BY <1>2, <1>4, <1>5, <2>3 DEF Progress, AtDoc
  <2> QED
    BY <1>1, <2>1, <2>2, <2>4 DEF Alone, CompletedIsExact
<1> QED
  BY <1>4, <1>6, <1>7, <1>8, <1>9, <1>10 DEF DocumentsInv

LEMMA LazyStepFailsInv ==
  ASSUME DocumentsInv, NEW l \in Lazy, LazyStepFails(l)
  PROVE  DocumentsInv'
<1>1. /\ UNCHANGED <<adapterVars, doc, text, chunks, job, disturbed, deaths, swept>>
      /\ LaziesOK
  BY DEF LazyStepFails, DocumentsInv
<1>2. CASE LazyFails(l) /\ lazy[l].at \in {"list", "sweep", "insert", "complete"}
  <2>1. /\ LaziesOK' /\ \A k \in Lazy \ {l} : lazy'[k] = lazy[k]
        /\ lazy'[l].at \in {"queued", "failed"} /\ status' \in {"idle", status}
    BY <1>1, <1>2, FailsLazy
  <2>2. Accounts'
    BY <1>1, <1>2, <2>1, LazyFlight, AccountsFrame DEF DocumentsInv
  <2>3. deaths' \in 0 .. MaxDeaths
    BY <1>1 DEF DocumentsInv, DataOK
  <2> QED
    BY <1>1, <1>2, <2>1, <2>2, <2>3, LazyQuiet DEF Idle
<1>3. CASE lazy[l].at = "queued" /\ lazy' = [lazy EXCEPT ![l] = Retried(@)] /\ UNCHANGED status
  <2>1. /\ LaziesOK' /\ \A k \in Lazy \ {l} : lazy'[k] = lazy[k]
        /\ lazy'[l].at \in {"queued", "failed"}
    BY <1>1, <1>3, RetriedLazy DEF LaziesOK
  <2>2. Accounts'
    BY <1>1, <1>3, <2>1, LazyFlight, AccountsFrame DEF DocumentsInv
  <2>3. DataOK' /\ JobsOK' /\ \A d \in Doc : DocInv(d)'
    BY <1>1, <1>3, DocsFrame DEF DocumentsInv, DataOK, JobsOK
  <2>4. \A k \in Lazy : LazyInv(k)'
    BY <1>1, <2>1 DEF DocumentsInv, LazyInv, AtDoc
  <2>5. LazyRunning' = LazyRunning /\ l \notin LazyRunning
    BY <1>3, <2>1 DEF LazyRunning, Idle
  <2>6. ASSUME ~disturbed, NEW k \in LazyRunning
        PROVE  LazyRunning = {k} /\ status = "processing" /\ Progress(k)'
    <3>1. LazyRunning = {k} /\ status = "processing" /\ Progress(k)
      BY <2>6 DEF DocumentsInv, Alone
    <3>2. lazy'[k] = lazy[k]
      BY <2>1, <2>5 DEF LazyRunning
    <3> QED
      BY <1>1, <3>1, <3>2 DEF Progress, Exact
  <2>7. Alone' /\ CompletedIsExact'
    BY <1>1, <1>3, <2>5, <2>6 DEF DocumentsInv, Alone, CompletedIsExact
  <2> QED
    BY <2>1, <2>2, <2>3, <2>4, <2>7 DEF DocumentsInv
<1> QED
  BY <1>2, <1>3 DEF LazyStepFails

LEMMA LazyRequestVectorInv ==
  ASSUME DocumentsInv, NEW l \in Lazy, LazyRequestVector(l)
  PROVE  DocumentsInv'
<1>1. /\ lazy[l].at = "chunk"
      /\ UNCHANGED <<orphans, doc, text, chunks, job, disturbed, deaths, swept>>
  BY DEF LazyRequestVector
<1>2. AdapterOK /\ active = InFlight + orphans /\ deaths \in 0 .. MaxDeaths /\ LaziesOK
  BY DEF DocumentsInv, Accounts, DataOK
<1>3. CASE Refuse /\ LazyFails(l)
  <2>1. /\ LaziesOK' /\ \A k \in Lazy \ {l} : lazy'[k] = lazy[k]
        /\ lazy'[l].at \in {"queued", "failed"} /\ status' \in {"idle", status}
    BY <1>2, <1>3, FailsLazy
  <2>2. InFlight' = InFlight
    BY <1>1, <2>1, LazyFlight
  <2>3. Accounts'
    BY <1>1, <1>2, <1>3, <2>2, RefuseOK DEF Accounts
  <2> QED
    BY <1>1, <1>2, <2>1, <2>3, LazyQuiet DEF Idle
<1>4. CASE Admit /\ lazy' = [lazy EXCEPT ![l].at = "embedding"] /\ UNCHANGED status
  <2>1. /\ LaziesOK' /\ \A k \in Lazy \ {l} : lazy'[k] = lazy[k]
        /\ lazy'[l].at = "embedding"
        /\ lazy'[l].todo = lazy[l].todo /\ lazy'[l].doc = lazy[l].doc
    BY <1>2, <1>4, TakeLazy DEF LazyAt
  <2>2. InFlight' = InFlight + 1
    BY <1>1, <2>1, LazyFlight
  <2>3. Accounts'
    BY <1>1, <1>2, <1>4, <2>2, AdmitOK, FlightIsFinite DEF Accounts, AdapterOK
  <2> QED
    BY <1>1, <1>2, <1>4, <2>1, <2>3, LazyQuiet DEF Idle, AtDoc
<1> QED
  BY <1>3, <1>4 DEF LazyRequestVector

LEMMA LazyGetVectorInv ==
  ASSUME DocumentsInv, NEW l \in Lazy, LazyGetVector(l)
  PROVE  DocumentsInv'
<1>1. /\ lazy[l].at = "embedding"
      /\ UNCHANGED <<orphans, doc, text, chunks, job, disturbed, deaths, swept>>
  BY DEF LazyGetVector
<1>2. AdapterOK /\ active = InFlight + orphans /\ deaths \in 0 .. MaxDeaths /\ LaziesOK
  BY DEF DocumentsInv, Accounts, DataOK
<1>3. PICK outcome \in Outcome :
        /\ Settle(outcome)
        /\ \/ /\ lazy' = [lazy EXCEPT ![l] =
                   IF @.next < Chunks THEN NextChunk(@)
                   ELSE [@ EXCEPT !.at = "insert", !.next = 1]]
              /\ UNCHANGED status
           \/ LazyFails(l)
  BY DEF LazyGetVector
<1>4. ASSUME InFlight' = InFlight - 1, InFlight > 0 PROVE Accounts'
  <2>1. active > 0 /\ orphans' \in 0 .. MaxActive
    BY <1>1, <1>2, <1>4, FlightIsFinite DEF AdapterOK
  <2>2. AdapterOK' /\ active' = active - 1
    BY <1>2, <1>3, <2>1, SettleOK
  <2> QED
    BY <1>1, <1>2, <1>4, <2>2, FlightIsFinite DEF Accounts, AdapterOK
<1>5. CASE /\ lazy' = [lazy EXCEPT ![l] = IF @.next < Chunks THEN NextChunk(@)
                         ELSE [@ EXCEPT !.at = "insert", !.next = 1]]
           /\ UNCHANGED status
  <2>1. /\ LaziesOK' /\ \A k \in Lazy \ {l} : lazy'[k] = lazy[k]
        /\ lazy'[l].at \in {"chunk", "insert"}
        /\ lazy'[l].todo = lazy[l].todo /\ lazy'[l].doc = lazy[l].doc
    BY <1>2, <1>5, VectorLazy
  <2>2. Accounts'
    BY <1>1, <1>4, <2>1, LazyFlight
  <2> QED
    BY <1>1, <1>2, <1>5, <2>1, <2>2, LazyQuiet DEF Idle, AtDoc
<1>6. CASE LazyFails(l)
  <2>1. /\ LaziesOK' /\ \A k \in Lazy \ {l} : lazy'[k] = lazy[k]
        /\ lazy'[l].at \in {"queued", "failed"} /\ status' \in {"idle", status}
    BY <1>2, <1>6, FailsLazy
  <2>2. Accounts'
    BY <1>1, <1>4, <2>1, LazyFlight
  <2> QED
    BY <1>1, <1>2, <2>1, <2>2, LazyQuiet DEF Idle
<1> QED
  BY <1>3, <1>5, <1>6

LEMMA LazyInsertInv ==
  ASSUME DocumentsInv, NEW l \in Lazy, LazyInsert(l)
  PROVE  DocumentsInv'
<1>0. PICK d \in Doc : d = lazy[l].doc
  BY DEF DocumentsInv, LaziesOK, LazyRecord
<1>1. /\ lazy[l].at = "insert" /\ d \in swept /\ lazy[l].todo \subseteq Doc
      /\ UNCHANGED <<adapterVars, doc, text, job, disturbed, deaths, swept>>
  BY <1>0 DEF LazyInsert, DocumentsInv, LaziesOK, LazyRecord, LazyInv, AtDoc
<1>2. Accounts /\ deaths \in 0 .. MaxDeaths /\ LaziesOK
  BY DEF DocumentsInv, DataOK
<1>3. CASE ~Exists(d)
  <2>1. LazyFails(l) /\ UNCHANGED chunks
    BY <1>0, <1>3 DEF LazyInsert
  <2>2. /\ LaziesOK' /\ \A k \in Lazy \ {l} : lazy'[k] = lazy[k]
        /\ lazy'[l].at \in {"queued", "failed"} /\ status' \in {"idle", status}
    BY <1>2, <2>1, FailsLazy
  <2>3. Accounts'
    BY <1>1, <1>2, <2>2, LazyFlight, AccountsFrame
  <2> QED
    BY <1>1, <1>2, <2>1, <2>2, <2>3, LazyQuiet DEF Idle
<1>4. CASE Exists(d)
  <2>1. /\ chunks' = [chunks EXCEPT ![d] = [c \in Chunk |-> @[c] + 1]]
        /\ lazy' = [lazy EXCEPT ![l].todo = @ \ {d}, ![l].doc = NewLazy.doc,
                                ![l].at = AfterDoc(lazy[l].todo \ {d})]
        /\ status' = status
    BY <1>0, <1>4 DEF LazyInsert
  <2>2. /\ LaziesOK' /\ \A k \in Lazy \ {l} : lazy'[k] = lazy[k]
        /\ lazy'[l].todo = lazy[l].todo \ {d}
        /\ lazy'[l].at = AfterDoc(lazy'[l].todo)
    BY <1>0, <1>1, <1>2, <2>1, InsertLazy
  <2>3. /\ lazy'[l].at \in {"sweep", "complete"}
        /\ lazy'[l].at = "complete" => lazy'[l].todo = {}
    BY <2>2 DEF AfterDoc
  <2>4. /\ chunks' \in [Doc -> [Chunk -> Nat]] /\ \A e \in Doc \ {d} : chunks'[e] = chunks[e]
        /\ \A c \in Chunk : chunks'[d][c] = chunks[d][c] + 1
    <3>1. chunks \in [Doc -> [Chunk -> Nat]]
      BY DEF DocumentsInv, DataOK
    <3> DEFINE row == [c \in Chunk |-> chunks[d][c] + 1]
    <3>2. row \in [Chunk -> Nat] /\ \A c \in Chunk : row[c] = chunks[d][c] + 1
      BY <1>1, <3>1
    <3>3. chunks' = [chunks EXCEPT ![d] = row]
      BY <2>1
    <3> HIDE DEF row
    <3>4. chunks' \in [Doc -> [Chunk -> Nat]] /\ \A e \in Doc \ {d} : chunks'[e] = chunks[e]
      BY <1>1, <3>1, <3>2, <3>3
    <3>5. chunks'[d] = row
      BY <1>1, <3>1, <3>3
    <3> QED
      BY <3>2, <3>4, <3>5
  <2>5. DataOK' /\ JobsOK'
    BY <1>1, <2>1, <2>4 DEF DocumentsInv, DataOK, JobsOK
  <2>6. \A e \in Doc : DocInv(e)'
    <3>1. DocInv(d)'
      BY <1>1, <1>4 DEF DocumentsInv, DocInv, Absent, InStep, HasText, Counted, Exists
    <3>2. ASSUME NEW e \in Doc, e # d PROVE DocInv(e)'
      BY <1>1, <2>4, <3>2, DocFrame DEF DocumentsInv
    <3> QED
      BY <3>1, <3>2
  <2>7. \A k \in Lazy : LazyInv(k)'
    BY <1>1, <2>2, <2>3 DEF DocumentsInv, LazyInv, AtDoc
  <2>8. Accounts'
    BY <1>1, <1>2, <2>2, <2>3, LazyFlight, AccountsFrame
  <2>9. Alone' /\ CompletedIsExact'
    <3> SUFFICES ASSUME ~disturbed PROVE Alone' /\ CompletedIsExact'
      BY <1>1 DEF Alone, CompletedIsExact
    <3>1. LazyRunning = {l} /\ status = "processing" /\ Progress(l)
      BY <1>1 DEF DocumentsInv, Alone, LazyRunning, Idle
    <3>2. LazyRunning' = {l}
      BY <2>2, <2>3, <3>1 DEF LazyRunning, Idle
    <3>3. Exact(d)'
      <4>1. chunks[d] = NoChunks
        BY <1>0, <1>1, <3>1 DEF Progress, AtDoc
      <4>2. \A c \in Chunk : chunks[d][c] = 0
        BY <4>1 DEF NoChunks
      <4> QED
        BY <2>4, <4>2 DEF Exact
    <3>4. ASSUME NEW e \in Doc, text'[e] PROVE e \in lazy'[l].todo \/ Exact(e)'
      <4>1. e \in lazy[l].todo \/ Exact(e)
        BY <1>1, <3>1, <3>4 DEF Progress, AtDoc
      <4>2. CASE e = d
        BY <3>3, <4>2
      <4>3. CASE e # d
        BY <2>2, <2>4, <4>1, <4>3 DEF Exact
      <4> QED
        BY <4>2, <4>3
    <3>5. Progress(l)'
      BY <2>2, <2>3, <3>4 DEF Progress, AtDoc
    <3> QED
      BY <2>1, <3>1, <3>2, <3>5 DEF Alone, CompletedIsExact
  <2> QED
    BY <2>2, <2>5, <2>6, <2>7, <2>8, <2>9 DEF DocumentsInv
<1> QED
  BY <1>3, <1>4

LEMMA LazyCompleteInv ==
  ASSUME DocumentsInv, NEW l \in Lazy, LazyComplete(l)
  PROVE  DocumentsInv'
<1>1. /\ LaziesOK' /\ \A k \in Lazy \ {l} : lazy'[k] = lazy[k]
      /\ lazy[l].at = "complete" /\ lazy'[l].at = "done"
  BY CompleteLazy DEF DocumentsInv
<1>2. /\ status' = "completed"
      /\ UNCHANGED <<adapterVars, doc, text, chunks, job, disturbed, deaths, swept>>
  BY DEF LazyComplete
<1>3. /\ DataOK' /\ JobsOK' /\ \A d \in Doc : DocInv(d)'
      /\ \A k \in Lazy : LazyInv(k)'
  BY <1>1, <1>2, DocsFrame DEF DocumentsInv, DataOK, JobsOK, LazyInv, AtDoc
<1>4. Accounts'
  BY <1>1, <1>2, LazyFlight, AccountsFrame DEF DocumentsInv
<1>5. Alone' /\ CompletedIsExact'
  <2> SUFFICES ASSUME ~disturbed PROVE Alone' /\ CompletedIsExact'
    BY <1>2 DEF Alone, CompletedIsExact
  <2>1. LazyRunning = {l} /\ Progress(l)
    BY <1>1 DEF DocumentsInv, Alone, LazyRunning, Idle
  <2>2. LazyRunning' = {}
    BY <1>1, <2>1 DEF LazyRunning, Idle
  <2>3. \A d \in Doc : text[d] => Exact(d)
    BY <1>1, <2>1 DEF Progress
  <2> QED
    BY <1>2, <2>2, <2>3 DEF Alone, CompletedIsExact, Exact
<1> QED
  BY <1>1, <1>3, <1>4, <1>5 DEF DocumentsInv

LEMMA LazyCrashInv ==
  ASSUME DocumentsInv, NEW l \in Lazy, LazyCrash(l)
  PROVE  DocumentsInv'
<1>1. /\ LaziesOK' /\ \A k \in Lazy \ {l} : lazy'[k] = lazy[k]
      /\ lazy[l].at \notin Idle /\ lazy'[l].at \in {"queued", "failed", "dead"}
  BY CrashLazy DEF DocumentsInv
<1>2. /\ Dies(lazy[l])
      /\ UNCHANGED <<circuit, failures, active, status, doc, text, chunks, job, disturbed,
                     swept>>
  BY DEF LazyCrash
<1>3. Accounts' /\ deaths' \in 0 .. MaxDeaths
  BY <1>1, <1>2, LazyFlight, DiesAccounts DEF DocumentsInv, DataOK
<1> QED
  BY <1>1, <1>2, <1>3, LazyQuiet DEF Idle

-----------------------------------------------------------------------------

LEMMA NextInv == DocumentsInv /\ [Next]_vars => DocumentsInv'
<1> SUFFICES ASSUME DocumentsInv, [Next]_vars PROVE DocumentsInv'
  OBVIOUS
<1>1. ASSUME NEW d \in Doc, UserStep(d) \/ JobStep(d) \/ Crash(d) PROVE DocumentsInv'
  BY <1>1, UserInv, JobInv, CrashInv
<1>2. ASSUME NEW l \in Lazy, LazyStep(l) \/ LazyCrash(l) PROVE DocumentsInv'
  BY <1>2, LazyTakeInv, LazyListInv, LazySweepInv, LazyStepFailsInv, LazyRequestVectorInv,
     LazyGetVectorInv, LazyInsertInv, LazyCompleteInv, LazyCrashInv DEF LazyStep
<1>3. ASSUME UNCHANGED docVars PROVE DataOK' /\ JobsOK' /\ LaziesOK' /\ InFlight' = InFlight
                                     /\ (\A d \in Doc : DocInv(d)') /\ Alone'
                                     /\ CompletedIsExact' /\ \A l \in Lazy : LazyInv(l)'
  <2>1. UNCHANGED <<status, doc, text, chunks, job, lazy, disturbed, deaths, swept>>
    BY <1>3 DEF docVars
  <2>2. DataOK' /\ JobsOK' /\ LaziesOK' /\ InFlight' = InFlight
    BY <2>1 DEF DocumentsInv, DataOK, JobsOK, LaziesOK, InFlight, Waiting, LazyWaiting
  <2> QED
    BY <2>1, <2>2, DocsFrame, LazyFrame, IndexFrame DEF DocumentsInv, Index
<1>4. CASE OrphanSettles /\ UNCHANGED docVars
  <2>1. AdapterOK /\ active = InFlight + orphans /\ orphans > 0 /\ orphans' = orphans - 1
    BY <1>4 DEF OrphanSettles, DocumentsInv, Accounts
  <2>2. active > 0 /\ orphans' \in 0 .. MaxActive
    BY <2>1, FlightIsFinite, AdapterAssumption DEF AdapterOK
  <2>3. PICK outcome \in Outcome : Settle(outcome)
    BY <1>4 DEF OrphanSettles
  <2>4. AdapterOK' /\ active' = active - 1
    BY <2>1, <2>2, <2>3, SettleOK
  <2>5. Accounts'
    BY <1>3, <1>4, <2>1, <2>4, FlightIsFinite DEF Accounts, AdapterOK
  <2> QED
    BY <1>3, <1>4, <2>5 DEF DocumentsInv
<1>5. CASE UNCHANGED vars
  <2>1. UNCHANGED adapterVars /\ UNCHANGED docVars
    BY <1>5 DEF vars
  <2>2. Accounts'
    BY <1>3, <2>1, AccountsFrame DEF DocumentsInv
  <2> QED
    BY <1>3, <2>1, <2>2 DEF DocumentsInv
<1> QED
  BY <1>1, <1>2, <1>4, <1>5 DEF Next

\* Every reachable state is well typed, and what the limiter counts is the requests in
\* flight: a place it gave comes back through errors, time limits and callers that died.
THEOREM TypeCorrect == Spec => []TypeOK
  BY InitInv, NextInv, InvIsTyped, PTL DEF Spec

\* "completed" over an index nobody disturbed since the job began is exact, and a document
\* reported ready in vector mode has its chunks, through retries, deaths and deletions.
THEOREM IndexIsAlwaysTrue == Spec => []IndexIsTrue
  BY InitInv, NextInv, InvIsTrue, PTL DEF Spec
=============================================================================
