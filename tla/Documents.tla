----------------------------- MODULE Documents -----------------------------
(***************************************************************************)
(* The documents of one persona and the vectors made of them.              *)
(*                                                                         *)
(* DocumentService inserts a document and queues its job inside one        *)
(* transaction, and deletes documents.  The worker processes of            *)
(* packages/training run the ingest jobs, which store a document's text    *)
(* and, if the persona is in vector mode, its chunks one by one, and lazy  *)
(* jobs, which make the chunks of all stored texts anew.  Between two      *)
(* transactions or requests anything else may happen, every statement may  *)
(* fail, and processes die.  A job runs in a child of the worker process:  *)
(* when only the child dies the job has failed, as if it had thrown; when  *)
(* the worker dies the queue runs the job again once (BullMQ's             *)
(* maxStalledCount).                                                       *)
(*                                                                         *)
(* status is personas.embeddingsStatus: retrieval in big-context mode      *)
(* falls back to the vectors only while it is "completed".  Texts are      *)
(* reduced to being there; a text always splits into the chunks Chunk.     *)
(*                                                                         *)
(* Nothing in the repository calls enqueueLazyEmbedJob; its callers are    *)
(* taken to be operators, at any time: the lazy jobs are in the queue when *)
(* the model starts, and a worker takes one when it pleases.               *)
(***************************************************************************)
EXTENDS EmbeddingAdapter

CONSTANTS
    Doc,        \* uploads; each is ingested once
    Stored,     \* those ingested in big-context mode before the model starts
    Chunks,     \* how many chunks a text has
    Lazy,       \* lazy jobs
    MaxRuns,    \* runs of a job whose worker process dies
    MaxTries,   \* attempts of a lazy job that fails
    MaxDeaths   \* bound: processes that die

ASSUME DocumentsAssumption ==
    /\ Chunks \in Nat \ {0}
    /\ MaxRuns \in Nat \ {0} /\ MaxTries \in Nat \ {0} /\ MaxDeaths \in Nat
    /\ IsFiniteSet(Doc) /\ IsFiniteSet(Lazy) /\ Stored \subseteq Doc /\ Doc # {}

VARIABLES
    status,     \* personas.embeddingsStatus
    doc,        \* documents.status; "new" while its insert is not committed
    text,       \* documents.full_text is not null
    chunks,     \* rows of document_chunks: document -> chunk index -> how many
    job,        \* the ingest jobs, one per document
    lazy,       \* the lazy jobs
    disturbed,  \* history: someone else wrote the status or the chunks since
                \* the last lazy job set the status to "processing"
    deaths,     \* processes that died
    swept       \* history: documents whose chunks a lazy job has deleted

docVars == <<status, doc, text, chunks, job, lazy, disturbed, deaths, swept>>
vars == <<adapterVars, docVars>>

-----------------------------------------------------------------------------
Chunk == 1..Chunks
NoChunks == [c \in Chunk |-> 0]
NewJob == [at |-> "none", next |-> 1, vector |-> FALSE, runs |-> 1, early |-> FALSE]
NewLazy == [at |-> "queued", todo |-> {}, doc |-> CHOOSE d \in Doc : TRUE, next |-> 1,
            runs |-> 1, tries |-> 1]

Exists(d) == doc[d] \in {"pending", "parsing", "ready", "failed"}

Idle == {"none", "queued", "done", "failed", "unreported", "dead"}
LazyRunning == {l \in Lazy : lazy[l].at \notin Idle}

(* A run of a job is over, and what it knew goes with it.                  *)
Over(j, at) == [j EXCEPT !.at = at, !.next = 1]
LazyOver(j, at) == [NewLazy EXCEPT !.at = at, !.runs = j.runs, !.tries = j.tries]

(* On to the next chunk of the document.                                   *)
NextChunk(j) == [j EXCEPT !.at = "chunk", !.next = j.next + 1]

(* UPDATE documents SET status: no row, no effect.                         *)
SetStatus(d, s) == IF Exists(d) THEN [doc EXCEPT ![d] = s] ELSE doc

-----------------------------------------------------------------------------
(* Mistakes the properties are there to catch; nothing below uses them.    *)
SweptNothing(d) == chunks[d]
NothingInvalidated ==
    /\ status' = status
    /\ disturbed' = (disturbed \/ LazyRunning # {})
FailsUnreported(d) == job' = [job EXCEPT ![d].at = "failed"] /\ UNCHANGED doc
-----------------------------------------------------------------------------
(* The status goes to idle with every change of the document set.          *)
Invalidate ==
    /\ status' = "idle"
    /\ disturbed' = (disturbed \/ LazyRunning # {})

(* ingest(): the job is in the queue before the row is committed.          *)
Ingest(d) ==
    /\ doc[d] = "none"
    /\ doc' = [doc EXCEPT ![d] = "new"]
    /\ job' = [job EXCEPT ![d].at = "queued"]
    /\ UNCHANGED <<adapterVars, status, text, chunks, lazy, disturbed, deaths, swept>>

Commit(d) ==
    /\ doc[d] = "new"
    /\ doc' = [doc EXCEPT ![d] = "pending"]
    /\ Invalidate
    /\ UNCHANGED <<adapterVars, text, chunks, job, lazy, deaths, swept>>

(* The commit fails; the job stays.                                        *)
Rollback(d) ==
    /\ doc[d] = "new"
    /\ doc' = [doc EXCEPT ![d] = "gone"]
    /\ UNCHANGED <<adapterVars, status, text, chunks, job, lazy, disturbed, deaths, swept>>

(* delete(): the chunks go with the row.                                   *)
Delete(d) ==
    /\ Exists(d)
    /\ doc' = [doc EXCEPT ![d] = "gone"]
    /\ text' = [text EXCEPT ![d] = FALSE]
    /\ chunks' = [chunks EXCEPT ![d] = NoChunks]
    /\ Invalidate
    /\ UNCHANGED <<adapterVars, job, lazy, deaths, swept>>

-----------------------------------------------------------------------------
(* processDocumentIngest.                                                  *)
Take(d) ==
    /\ job[d].at = "queued"
    /\ doc' = SetStatus(d, "parsing")
    /\ job' = [job EXCEPT ![d].at = "extract", ![d].early = @ \/ doc[d] = "new"]
    /\ UNCHANGED <<adapterVars, status, text, chunks, lazy, disturbed, deaths, swept>>

(* The catch block, whose own write may fail.  The queue does not try an   *)
(* ingest job again.                                                       *)
Ended(d, at) == [job[d] EXCEPT !.at = at, !.next = 1, !.early = @ \/ doc[d] = "new"]
Fails(d) ==
    \/ /\ doc' = SetStatus(d, "failed")
       /\ job' = [job EXCEPT ![d] = Ended(d, "failed")]
    \/ /\ doc' = doc
       /\ job' = [job EXCEPT ![d] = Ended(d, "unreported")]

(* The next statement fails, or the text cannot be extracted.  (That the   *)
(* mode of the persona cannot be read is a failure at "finish".)           *)
StepFails(d) ==
    /\ job[d].at \in {"queued", "extract", "insert", "finish"}
    /\ Fails(d)
    /\ UNCHANGED <<adapterVars, status, text, chunks, lazy, disturbed, deaths, swept>>

(* The text and the persona's status in one transaction.  The persona's    *)
(* row is locked while an upload is not committed, so the second statement *)
(* waits for it; the first may by then have found no document.  Then the   *)
(* mode of the persona, or of the tenant, whatever it is at the moment.    *)
StoreText(d) ==
    /\ job[d].at = "extract" /\ doc[d] # "new"
    /\ \E found \in IF job[d].early THEN BOOLEAN ELSE {TRUE} :
         text' = [text EXCEPT ![d] = @ \/ (found /\ Exists(d))]
    /\ Invalidate
    /\ \E vector \in BOOLEAN :
         job' = [job EXCEPT ![d].vector = vector, ![d].next = 1,
                            ![d].at = IF vector THEN "chunk" ELSE "finish"]
    /\ UNCHANGED <<adapterVars, doc, chunks, lazy, deaths, swept>>

RequestVector(d) ==
    /\ job[d].at = "chunk"
    /\ \/ Refuse /\ Fails(d)
       \/ Admit /\ job' = [job EXCEPT ![d].at = "embedding"] /\ UNCHANGED doc
    /\ UNCHANGED <<orphans, status, text, chunks, lazy, disturbed, deaths, swept>>

GetVector(d) ==
    /\ job[d].at = "embedding"
    /\ \E outcome \in Outcome :
         /\ Settle(outcome)
         /\ IF outcome = "answer"
            THEN job' = [job EXCEPT ![d].at = "insert"] /\ UNCHANGED doc
            ELSE Fails(d)
    /\ UNCHANGED <<orphans, status, text, chunks, lazy, disturbed, deaths, swept>>

(* One row.  Without its document it violates the foreign key: the job     *)
(* catches that, but the driver rejects a transaction one of whose         *)
(* statements failed.                                                      *)
InsertChunk(d) ==
    /\ job[d].at = "insert"
    /\ IF Exists(d)
       THEN /\ chunks' = [chunks EXCEPT ![d][job[d].next] = @ + 1]
            /\ job' = [job EXCEPT ![d] =
                 IF @.next < Chunks THEN NextChunk(@) ELSE Over(@, "finish")]
            /\ disturbed' = TRUE
            /\ UNCHANGED doc
       ELSE Fails(d) /\ UNCHANGED <<chunks, disturbed>>
    /\ UNCHANGED <<adapterVars, status, text, lazy, deaths, swept>>

Finish(d) ==
    /\ job[d].at = "finish"
    /\ doc' = SetStatus(d, "ready")
    /\ job' = [job EXCEPT ![d].at = "done"]
    /\ UNCHANGED <<adapterVars, status, text, chunks, lazy, disturbed, deaths, swept>>

-----------------------------------------------------------------------------
(* The worker process of a job dies: the queue runs it from its start, or  *)
(* gives it up.  No catch block tells the document or the persona, here as *)
(* when only the child dies, and a request it had at the adapter goes on   *)
(* without it.                                                             *)
Rerun(j) ==
    IF j.runs < MaxRuns THEN [j EXCEPT !.at = "queued", !.runs = @ + 1]
    ELSE [j EXCEPT !.at = "dead"]

Dies(j) ==
    /\ j.at \notin Idle /\ deaths < MaxDeaths
    /\ deaths' = deaths + 1
    /\ orphans' = orphans + (IF j.at = "embedding" THEN 1 ELSE 0)

Crash(d) ==
    /\ Dies(job[d])
    /\ \/ job' = [job EXCEPT ![d] = Rerun(Over(@, @.at))]
       \/ job' = [job EXCEPT ![d] = Over(@, "dead")]
    /\ UNCHANGED <<circuit, failures, active, status, doc, text, chunks, lazy,
                   disturbed, swept>>

(* The queue tries a lazy job again, with what it knew forgotten.          *)
Retried(j) ==
    IF j.tries < MaxTries THEN [LazyOver(j, "queued") EXCEPT !.tries = j.tries + 1]
    ELSE LazyOver(j, "failed")

LazyCrash(l) ==
    /\ Dies(lazy[l])
    /\ \/ lazy' = [lazy EXCEPT ![l] = Rerun(LazyOver(@, @.at))]
       \/ lazy' = [lazy EXCEPT ![l] = Retried(@)]
    /\ UNCHANGED <<circuit, failures, active, status, doc, text, chunks, job,
                   disturbed, swept>>

-----------------------------------------------------------------------------
(* processLazyEmbed.                                                       *)
LazyTake(l) ==
    /\ lazy[l].at = "queued"
    /\ status' = "processing"
    /\ disturbed' = (LazyRunning # {})
    /\ lazy' = [lazy EXCEPT ![l].at = "list"]
    /\ UNCHANGED <<adapterVars, doc, text, chunks, job, deaths, swept>>

AfterDoc(todo) == IF todo = {} THEN "complete" ELSE "sweep"

(* The documents whose text is stored, with their texts.                   *)
LazyList(l) ==
    LET list == {d \in Doc : text[d]} IN
    /\ lazy[l].at = "list"
    /\ lazy' = [lazy EXCEPT ![l].todo = list, ![l].at = AfterDoc(list)]
    /\ UNCHANGED <<adapterVars, status, doc, text, chunks, job, disturbed, deaths, swept>>

Sweep(d) == NoChunks

(* The next document of the list: its chunks are deleted, in a transaction *)
(* of its own.                                                             *)
LazySweep(l) ==
    /\ lazy[l].at = "sweep"
    /\ \E d \in lazy[l].todo :
         /\ chunks' = [chunks EXCEPT ![d] = Sweep(d)]
         /\ swept' = swept \cup {d}
         /\ lazy' = [lazy EXCEPT ![l].at = "chunk", ![l].doc = d, ![l].next = 1]
    /\ UNCHANGED <<adapterVars, status, doc, text, job, disturbed, deaths>>

(* The catch block, which may fail itself; then the queue tries again.     *)
LazyFails(l) ==
    /\ status' \in {"idle", status}
    /\ lazy' = [lazy EXCEPT ![l] = Retried(@)]

LazyStepFails(l) ==
    /\ \/ lazy[l].at = "queued" /\ lazy' = [lazy EXCEPT ![l] = Retried(@)] /\ UNCHANGED status
       \/ lazy[l].at \in {"list", "sweep", "insert", "complete"} /\ LazyFails(l)
    /\ UNCHANGED <<adapterVars, doc, text, chunks, job, disturbed, deaths, swept>>

LazyRequestVector(l) ==
    /\ lazy[l].at = "chunk"
    /\ \/ Refuse /\ LazyFails(l)
       \/ Admit /\ lazy' = [lazy EXCEPT ![l].at = "embedding"] /\ UNCHANGED status
    /\ UNCHANGED <<orphans, doc, text, chunks, job, disturbed, deaths, swept>>

LazyGetVector(l) ==
    /\ lazy[l].at = "embedding"
    /\ \E outcome \in Outcome :
         /\ Settle(outcome)
         /\ IF outcome = "answer"
            THEN /\ lazy' = [lazy EXCEPT ![l] =
                      IF @.next < Chunks THEN NextChunk(@)
                      ELSE [@ EXCEPT !.at = "insert", !.next = 1]]
                 /\ UNCHANGED status
            ELSE LazyFails(l)
    /\ UNCHANGED <<orphans, doc, text, chunks, job, disturbed, deaths, swept>>

(* All rows of the document at once, or a violated foreign key.            *)
LazyInsert(l) ==
    LET d == lazy[l].doc IN
    /\ lazy[l].at = "insert"
    /\ IF Exists(d)
       THEN /\ chunks' = [chunks EXCEPT ![d] = [c \in Chunk |-> @[c] + 1]]
            /\ lazy' = [lazy EXCEPT ![l].todo = @ \ {d}, ![l].doc = NewLazy.doc,
                                    ![l].at = AfterDoc(lazy[l].todo \ {d})]
            /\ UNCHANGED status
       ELSE LazyFails(l) /\ UNCHANGED chunks
    /\ UNCHANGED <<adapterVars, doc, text, job, disturbed, deaths, swept>>

(* Whatever the status is by now.                                          *)
LazyComplete(l) ==
    /\ lazy[l].at = "complete"
    /\ status' = "completed"
    /\ lazy' = [lazy EXCEPT ![l] = LazyOver(@, "done")]
    /\ UNCHANGED <<adapterVars, doc, text, chunks, job, disturbed, deaths, swept>>

-----------------------------------------------------------------------------
Init ==
    /\ AdapterInit
    /\ status = "idle"
    /\ doc = [d \in Doc |-> IF d \in Stored THEN "ready" ELSE "none"]
    /\ text = [d \in Doc |-> d \in Stored]
    /\ chunks = [d \in Doc |-> NoChunks]
    /\ job = [d \in Doc |-> IF d \in Stored THEN [NewJob EXCEPT !.at = "done"] ELSE NewJob]
    /\ lazy = [l \in Lazy |-> NewLazy]
    /\ disturbed = FALSE
    /\ deaths = 0
    /\ swept = {}

(* What a worker does for a job; it does not stop between two steps.       *)
JobStep(d) ==
    \/ Take(d) \/ StepFails(d) \/ StoreText(d) \/ RequestVector(d)
    \/ GetVector(d) \/ InsertChunk(d) \/ Finish(d)

LazyStep(l) ==
    \/ LazyTake(l) \/ LazyList(l) \/ LazySweep(l) \/ LazyStepFails(l)
    \/ LazyRequestVector(l) \/ LazyGetVector(l) \/ LazyInsert(l) \/ LazyComplete(l)

UserStep(d) == Ingest(d) \/ Commit(d) \/ Rollback(d) \/ Delete(d)

Next ==
    \/ \E d \in Doc : UserStep(d) \/ JobStep(d) \/ Crash(d)
    \/ \E l \in Lazy : LazyStep(l) \/ LazyCrash(l)
    \/ OrphanSettles /\ UNCHANGED docVars

(* A database commits or rolls back, workers work on.  Nothing makes       *)
(* anyone upload, delete or die.                                    *)
Fairness ==
    \A d \in Doc : WF_vars(JobStep(d)) /\ WF_vars(Commit(d) \/ Rollback(d))

Spec == Init /\ [][Next]_vars /\ Fairness

-----------------------------------------------------------------------------
JobAt == {"none", "queued", "extract", "chunk", "embedding", "insert", "finish",
          "done", "failed", "unreported", "dead"}
LazyAt == {"queued", "list", "sweep", "chunk", "embedding", "insert", "complete",
           "done", "failed", "dead"}

(* The jobs that wait for the adapter.                                     *)
Waiting == {d \in Doc : job[d].at = "embedding"}
LazyWaiting == {l \in Lazy : lazy[l].at = "embedding"}

(* Types; and every place the limiter counts is a request in flight: none  *)
(* is lost by an error, a timeout or a caller that died (embed.ts 82-117). *)
TypeOK ==
    /\ AdapterOK
    /\ active = Cardinality(Waiting) + Cardinality(LazyWaiting) + orphans
    /\ status \in {"idle", "processing", "completed"}
    /\ doc \in [Doc -> {"none", "new", "pending", "parsing", "ready", "failed", "gone"}]
    /\ text \in [Doc -> BOOLEAN]
    /\ chunks \in [Doc -> [Chunk -> Nat]]
    /\ job \in [Doc -> [at : JobAt, next : Chunk, vector : BOOLEAN,
                        runs : 1..MaxRuns, early : BOOLEAN]]
    /\ lazy \in [Lazy -> [at : LazyAt, todo : SUBSET Doc, doc : Doc, next : Chunk,
                          runs : 1..MaxRuns, tries : 1..MaxTries]]
    /\ disturbed \in BOOLEAN
    /\ deaths \in 0..MaxDeaths
    /\ swept \subseteq Doc

(* "completed" over an index that nobody touched since the job began: each *)
(* stored text has each of its chunks exactly once, whatever attempts,     *)
(* deaths and ingest jobs came before.                                     *)
CompletedIsExact ==
    status = "completed" /\ ~disturbed =>
        \A d \in Doc : text[d] => \A c \in Chunk : chunks[d][c] = 1

(* A document reported ready in vector mode has all its chunks, once each  *)
(* if its job ran once, until a lazy job deletes them; and its text is     *)
(* stored unless its job overtook its upload.                              *)
ReadyIsIndexed ==
    \A d \in Doc : doc[d] = "ready" =>
        /\ text[d] \/ job[d].early
        /\ job[d].vector /\ d \notin swept =>
              \A c \in Chunk : chunks[d][c] >= 1 /\ (job[d].runs = 1 => chunks[d][c] = 1)

IndexIsTrue == CompletedIsExact /\ ReadyIsIndexed

(* Every uploaded document is reported ready or failed, or is deleted; but *)
(* not when a failure of its job could not be written down, its processes  *)
(* died, or its job overtook its upload: it then stays as it is for ever.  *)
IngestEnds ==
    \A d \in Doc : doc[d] = "pending" ~>
        \/ doc[d] \in {"ready", "failed", "gone"}
        \/ job[d].at \in {"unreported", "dead"} \/ job[d].early

(* What a document says and the code does not do: the status goes to idle  *)
(* in the transaction of every change of the document set, so that         *)
(* "completed" never stands over a text without its chunks                 *)
(* (specs/028-big-context-window-llm-as-rag/spec.md:117).                  *)
CompletedIsNoLie ==
    status = "completed" => \A d \in Doc : text[d] => \A c \in Chunk : chunks[d][c] >= 1
=============================================================================
