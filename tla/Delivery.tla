------------------------------ MODULE Delivery ------------------------------
(***************************************************************************)
(* One inbound channel message on its way to an answer: the orchestrator,  *)
(* ChatService.complete, the delivery ledger, the soft-fallback job, the   *)
(* llm-retry worker and the provider-retry worker, all writing to the      *)
(* OUTBOUND stream.                                                        *)
(*                                                                         *)
(* A turn is one entry of the INBOUND stream.  complete() opens a new      *)
(* conversation for every turn, so the ledger row and the retry row, keyed *)
(* by (tenant, conversation, message), are one per turn; the dedup key is  *)
(* one per channel message, and two turns may carry the same message (the  *)
(* channel sent it twice).                                                 *)
(*                                                                         *)
(* A "fault" is a failed Redis or Postgres call or a crash.  LLM errors    *)
(* are not faults: they may happen at every call.                          *)
(***************************************************************************)
EXTENDS Naturals

CONSTANTS
  Turns,               \* entries of the INBOUND stream
  Msgs,                \* channel message identities (channel_id, message_id)
  MsgOf,               \* the message an entry carries
  MaxLlmAttempts,      \* MAX_ATTEMPTS of llm-retry (5 in the code)
  MaxProviderAttempts, \* DEFAULT_MAX_ATTEMPTS of provider-retry (8)
  FallbackConfigured,  \* does the persona have fallback messages?
  MaxFaults,           \* bound on faults
  MaxExpiries          \* bound on dedup keys that reach their TTL

ASSUME DeliveryAssumption ==
  /\ MsgOf \in [Turns -> Msgs]
  /\ MaxLlmAttempts \in Nat \ {0}
  /\ MaxProviderAttempts \in Nat \ {0}
  /\ FallbackConfigured \in BOOLEAN
  /\ MaxFaults \in Nat
  /\ MaxExpiries \in Nat

VARIABLES
  pc,        \* where the orchestrator's handler is with a turn
  cause,     \* the error complete() is handling
  dedup,     \* the messages whose dedup:<channel>:<message> key is set in Redis
  expiries,  \* dedup keys that have expired, per message
  ledger,    \* delivery_records.state, "none" before the row exists
  fallback,  \* the soft-fallback job, or its in-process timer
  row,       \* llm_retry_jobs.status
  llm,       \* the BullMQ job of llm-retry
  llmTries,  \* its attemptsMade
  prov,      \* the BullMQ job of llm-provider-retry
  provTries, \* its attemptsMade
  finals,    \* answers on OUTBOUND that the ledger governs
  retries,   \* answers on OUTBOUND from provider-retry
  texts,     \* fallback texts on OUTBOUND
  notices,   \* error notices on OUTBOUND
  saved,     \* the turns whose answer is in the conversation
  faults     \* faults so far

mainVars == <<pc, cause, dedup, expiries>>
llmVars  == <<row, llm, llmTries>>
provVars == <<prov, provTries>>
outVars  == <<finals, retries, texts, notices>>
vars == <<pc, cause, dedup, expiries, ledger, fallback, row, llm, llmTries, prov, provTries,
          finals, retries, texts, notices, saved, faults>>

InFlight == {"accepted", "opened", "generating", "answered", "saved", "deciding",
             "pacing", "caught", "rethrown"}
Acked    == {"dropped", "returned", "parked", "noticed"}
PCs      == {"inbound", "unacked"} \cup InFlight \cup Acked

\* What complete() can throw: the 60 s race lost (a plain Error), a retryable AppError, a
\* retryable error that is no AppError (ECONNRESET, TimeoutError), or anything else.
Causes    == {"hard_timeout", "retryable", "raw", "fatal"}
LlmCauses == Causes \ {"fatal"}

LedgerStates   == {"none", "pending", "fallback_sent", "final_delivered"}
FallbackStates == {"none", "queued", "timer", "job_sending", "timer_sending", "job_sent",
                   "sent", "skipped", "removed", "failed", "lost"}
RowStates      == {"none", "pending", "completed", "dlq"}
LlmActive      == {"running", "answered", "won", "saved", "closing", "closed"}
LlmStates      == {"none", "waiting", "exhausted", "done", "failed"} \cup LlmActive
ProvStates     == {"none", "waiting", "completed", "done", "dead", "lost"}

TypeOK ==
  /\ pc \in [Turns -> PCs]
  /\ cause \in [Turns -> Causes \cup {"none"}]
  /\ dedup \subseteq Msgs
  /\ expiries \in [Msgs -> Nat]
  /\ ledger \in [Turns -> LedgerStates]
  /\ fallback \in [Turns -> FallbackStates]
  /\ row \in [Turns -> RowStates]
  /\ llm \in [Turns -> LlmStates]
  /\ llmTries \in [Turns -> Nat]
  /\ prov \in [Turns -> ProvStates]
  /\ provTries \in [Turns -> Nat]
  /\ finals \in [Turns -> Nat]
  /\ retries \in [Turns -> Nat]
  /\ texts \in [Turns -> Nat]
  /\ notices \in [Turns -> Nat]
  /\ saved \subseteq Turns
  /\ faults \in Nat

Init ==
  /\ pc = [t \in Turns |-> "inbound"]
  /\ cause = [t \in Turns |-> "none"]
  /\ dedup = {}
  /\ expiries = [m \in Msgs |-> 0]
  /\ ledger = [t \in Turns |-> "none"]
  /\ fallback = [t \in Turns |-> "none"]
  /\ row = [t \in Turns |-> "none"]
  /\ llm = [t \in Turns |-> "none"]
  /\ llmTries = [t \in Turns |-> 0]
  /\ prov = [t \in Turns |-> "none"]
  /\ provTries = [t \in Turns |-> 0]
  /\ finals = [t \in Turns |-> 0]
  /\ retries = [t \in Turns |-> 0]
  /\ texts = [t \in Turns |-> 0]
  /\ notices = [t \in Turns |-> 0]
  /\ saved = {}
  /\ faults = 0

-----------------------------------------------------------------------------
(* Mistakes the properties are there to catch; nothing below uses them.    *)

CasAnyRow(t)       == ledger[t] # "none"
CasOnlyPending(t)  == ledger[t] = "pending"
CasUndecided(t)    == ledger[t] \in {"pending", "fallback_sent"}
CasWrongState(t)   == ledger[t] = "fallback_sent"
SaveNothing(t)     == saved' = saved
SaveByMessage(t)   == saved' = saved \cup {MsgOf[t]}
SkipRow(t)         == row' = row
ResumeTurn(t)      == pc' = [pc EXCEPT ![t] = "generating"] /\ UNCHANGED <<cause, dedup, expiries>>
NeverHeld(m)       == FALSE
ProvForgets(last)  == IF last THEN "lost" ELSE "waiting"

-----------------------------------------------------------------------------
(* Steps shared by the actions.                                            *)

Fault == faults < MaxFaults /\ faults' = faults + 1

Goto(t, l) == pc' = [pc EXCEPT ![t] = l]

Throw(t, c, l) == cause' = [cause EXCEPT ![t] = c] /\ Goto(t, l)

\* One more entry on OUTBOUND.
Publish(out, t) == out' = [out EXCEPT ![t] = @ + 1]

\* Persisting the answer is certain, or depends on the path complete() took.
Save(t) == saved' = saved \cup {t}
MaySave(t) == saved' \in {saved, saved \cup {t}}

\* A turn's handler ends by an XACK, or leaves the entry in the group's pending list.
Finish(t, l) == Goto(t, l) /\ UNCHANGED <<cause, dedup, expiries>>

\* UPDATE ... SET final_delivered WHERE state <> 'final_delivered'
CasFinalWins(t) == ledger[t] \in {"pending", "fallback_sent"}

\* UPDATE ... SET fallback_sent WHERE state = 'pending'
CasFallbackWins(t) == ledger[t] = "pending"

-----------------------------------------------------------------------------
(* The orchestrator's handler up to the call of complete().                *)

DedupHeld(m) == m \in dedup

Receive(t) ==
  /\ pc[t] = "inbound"
  /\ \/ /\ DedupHeld(MsgOf[t])
        /\ Goto(t, "dropped")
        /\ UNCHANGED <<dedup, faults>>
     \/ /\ ~DedupHeld(MsgOf[t])
        /\ dedup' = dedup \cup {MsgOf[t]}
        /\ Goto(t, "accepted")
        /\ UNCHANGED faults
     \/ \* the SET fails: the handler throws before it has done anything
        /\ Fault
        /\ Goto(t, "unacked")
        /\ UNCHANGED dedup
  /\ UNCHANGED <<cause, expiries, ledger, fallback, llmVars, provVars, outVars, saved>>

\* EX DEDUP_TTL_SECONDS.
DedupExpires(m) ==
  /\ m \in dedup
  /\ expiries[m] < MaxExpiries
  /\ dedup' = dedup \ {m}
  /\ expiries' = [expiries EXCEPT ![m] = @ + 1]
  /\ UNCHANGED <<pc, cause, ledger, fallback, llmVars, provVars, outVars, saved, faults>>

-----------------------------------------------------------------------------
(* ChatService.complete for a channel turn.                                *)

\* Persona lookup, input guard, new conversation, ledger row.  An error here has no
\* conversation in its context; an input the guard empties returns before the ledger.
OpenTurn(t) ==
  /\ pc[t] = "accepted"
  /\ \/ /\ ledger' = [ledger EXCEPT ![t] = "pending"]
        /\ Goto(t, "opened") /\ UNCHANGED cause
     \/ Goto(t, "returned") /\ UNCHANGED <<cause, ledger>>
     \/ \E c \in Causes \ {"hard_timeout"} : Throw(t, c, "rethrown") /\ UNCHANGED ledger
  /\ UNCHANGED <<dedup, expiries, fallback, llmVars, provVars, outVars, saved, faults>>

\* fallbackQueue.add, or setTimeout when the queue refuses.
ScheduleFallback(t) ==
  /\ pc[t] = "opened"
  /\ \/ fallback' = [fallback EXCEPT ![t] = "queued"] /\ UNCHANGED faults
     \/ fallback' = [fallback EXCEPT ![t] = "timer"] /\ Fault
  /\ Finish(t, "generating")
  /\ UNCHANGED <<ledger, llmVars, provVars, outVars, saved>>

\* A scripted reply and an agentic answer are persisted and returned, a strict-RAG
\* refusal is returned: none of the three reaches the CAS or OUTBOUND.
ReplyWithoutLlm(t) ==
  /\ pc[t] = "generating"
  /\ MaySave(t)
  /\ Finish(t, "returned")
  /\ UNCHANGED <<ledger, fallback, llmVars, provVars, outVars, faults>>

Generate(t) ==
  /\ pc[t] = "generating"
  /\ Finish(t, "answered")
  /\ UNCHANGED <<ledger, fallback, llmVars, provVars, outVars, saved, faults>>

GenerateFails(t) ==
  /\ pc[t] = "generating"
  /\ \E c \in Causes : Throw(t, c, "caught")
  /\ UNCHANGED <<dedup, expiries, ledger, fallback, llmVars, provVars, outVars, saved, faults>>

\* persistMessages, then emitUsageEvent; either may fail, the second after the first
\* has committed.
SaveAnswer(t) ==
  /\ pc[t] = "answered"
  /\ \/ /\ Save(t)
        /\ Goto(t, "saved") /\ UNCHANGED <<cause, faults>>
     \/ /\ Fault
        /\ MaySave(t)
        /\ \E c \in {"raw", "fatal"} : Throw(t, c, "caught")
  /\ UNCHANGED <<dedup, expiries, ledger, fallback, llmVars, provVars, outVars>>

\* fallbackQueue.remove: a job a worker holds stays, an in-process timer has no id and
\* stays, a failing call is swallowed.
CancelFallback(t) ==
  /\ pc[t] = "saved"
  /\ \/ /\ fallback' = [fallback EXCEPT ![t] = IF @ = "queued" THEN "removed" ELSE @]
        /\ UNCHANGED faults
     \/ Fault /\ UNCHANGED fallback
  /\ Finish(t, "deciding")
  /\ UNCHANGED <<ledger, llmVars, provVars, outVars, saved>>

\* tryCasFinalDelivery.  The winner holds the answer back for the persona's pacing.
Decide(t) ==
  /\ pc[t] = "deciding"
  /\ \/ /\ CasFinalWins(t)
        /\ ledger' = [ledger EXCEPT ![t] = "final_delivered"]
        /\ Goto(t, "pacing") /\ UNCHANGED <<cause, faults>>
     \/ /\ ~CasFinalWins(t)
        /\ Goto(t, "returned") /\ UNCHANGED <<cause, ledger, faults>>
     \/ /\ Fault
        /\ \E c \in {"raw", "fatal"} : Throw(t, c, "caught")
        /\ UNCHANGED ledger
  /\ UNCHANGED <<dedup, expiries, fallback, llmVars, provVars, outVars, saved>>

\* A failing XADD is logged and forgotten; the ledger keeps final_delivered.
PublishFinal(t) ==
  /\ pc[t] = "pacing"
  /\ \/ Publish(finals, t) /\ UNCHANGED faults
     \/ Fault /\ UNCHANGED finals
  /\ Finish(t, "returned")
  /\ UNCHANGED <<ledger, fallback, llmVars, provVars, retries, texts, notices, saved>>

InsertRow(t) == row' = [row EXCEPT ![t] = "pending"]

Rethrow(t) == Finish(t, "rethrown")

\* The catch block: INSERT llm_retry_jobs, then enqueueLLMRetry; an error of either is
\* only logged.  Then the error, with the conversation in its context, is rethrown.
EnqueueLlmRetry(t) ==
  /\ pc[t] = "caught"
  /\ \/ /\ cause[t] \in LlmCauses
        /\ \/ /\ InsertRow(t)
              /\ llm' = [llm EXCEPT ![t] = "waiting"]
              /\ UNCHANGED faults
           \/ Fault /\ InsertRow(t) /\ UNCHANGED llm
           \/ Fault /\ UNCHANGED <<row, llm>>
     \/ cause[t] \notin LlmCauses /\ UNCHANGED <<row, llm, faults>>
  /\ Rethrow(t)
  /\ UNCHANGED <<ledger, fallback, llmTries, provVars, outVars, saved>>

\* The orchestrator's catch block.  Only an AppError that carries a conversation is
\* handed to provider-retry, everything else becomes an error notice.
HandleError(t) ==
  /\ pc[t] = "rethrown"
  /\ LET handOver == cause[t] = "retryable" /\ ledger[t] # "none" IN
     \/ /\ handOver
        /\ prov' = [prov EXCEPT ![t] = "waiting"]
        /\ Goto(t, "parked") /\ UNCHANGED <<notices, faults>>
     \/ /\ ~handOver
        /\ Publish(notices, t)
        /\ Goto(t, "noticed") /\ UNCHANGED <<prov, faults>>
     \/ /\ Fault
        /\ Goto(t, "unacked") /\ UNCHANGED <<prov, notices>>
  /\ UNCHANGED <<cause, dedup, expiries, ledger, fallback, llmVars, provTries, finals,
                 retries, texts, saved>>

\* The process dies: its handlers' entries stay unacked, its timers are gone.
CrashOrchestrator ==
  /\ \E t \in Turns : pc[t] \in InFlight \/ fallback[t] \in {"timer", "timer_sending"}
  /\ Fault
  /\ pc' = [t \in Turns |-> IF pc[t] \in InFlight THEN "unacked" ELSE pc[t]]
  /\ fallback' = [t \in Turns |-> IF fallback[t] \in {"timer", "timer_sending"}
                                  THEN "lost" ELSE fallback[t]]
  /\ UNCHANGED <<cause, dedup, expiries, ledger, llmVars, provVars, outVars, saved>>

-----------------------------------------------------------------------------
(* The soft fallback: worker of llm-fallback, or the in-process timer.     *)

FallbackFires(t) ==
  /\ fallback[t] \in {"queued", "timer"}
  /\ \/ /\ FallbackConfigured
        /\ CasFallbackWins(t)
        /\ ledger' = [ledger EXCEPT ![t] = "fallback_sent"]
        /\ fallback' = [fallback EXCEPT
             ![t] = IF @ = "queued" THEN "job_sending" ELSE "timer_sending"]
        /\ UNCHANGED faults
     \/ /\ ~(FallbackConfigured /\ CasFallbackWins(t))
        /\ fallback' = [fallback EXCEPT ![t] = "skipped"]
        /\ UNCHANGED <<ledger, faults>>
     \/ \* a query fails: the job has one attempt, the timer swallows the error
        /\ Fault
        /\ fallback' = [fallback EXCEPT ![t] = "failed"]
        /\ UNCHANGED ledger
  /\ UNCHANGED <<mainVars, llmVars, provVars, outVars, saved>>

PublishFallback(t) ==
  /\ fallback[t] \in {"job_sending", "timer_sending"}
  /\ \/ /\ Publish(texts, t)
        /\ fallback' = [fallback EXCEPT
             ![t] = IF @ = "job_sending" THEN "job_sent" ELSE "sent"]
        /\ UNCHANGED faults
     \/ /\ Fault
        /\ fallback' = [fallback EXCEPT ![t] = "failed"] /\ UNCHANGED texts
  /\ UNCHANGED <<mainVars, ledger, llmVars, provVars, finals, retries, notices, saved>>

CloseFallback(t) ==
  /\ fallback[t] = "job_sent"
  /\ fallback' = [fallback EXCEPT ![t] = "sent"]
  /\ UNCHANGED <<mainVars, ledger, llmVars, provVars, outVars, saved, faults>>

\* The fallback worker dies after the CAS and before the job is completed: BullMQ finds
\* the job stalled and runs it again.
CrashFallbackWorker(t) ==
  /\ fallback[t] \in {"job_sending", "job_sent"}
  /\ Fault
  /\ fallback' = [fallback EXCEPT ![t] = "queued"]
  /\ UNCHANGED <<mainVars, ledger, llmVars, provVars, outVars, saved>>

-----------------------------------------------------------------------------
(* The llm-retry worker: one job per turn, MaxLlmAttempts attempts.        *)

LlmGoto(t, s) == llm' = [llm EXCEPT ![t] = s]

LlmLastTry(t) == llmTries[t] + 1 >= MaxLlmAttempts

LlmStart(t) ==
  /\ llm[t] = "waiting"
  /\ LlmGoto(t, "running")
  /\ UNCHANGED <<mainVars, ledger, fallback, row, llmTries, provVars, outVars, saved, faults>>

\* complete() with persist: false and no channel context; the scripted and agentic
\* paths persist whatever persist says.
LlmAnswer(t) ==
  /\ llm[t] = "running"
  /\ LlmGoto(t, "answered")
  /\ MaySave(t)
  /\ UNCHANGED <<mainVars, ledger, fallback, row, llmTries, provVars, outVars, faults>>

LlmDecide(t) ==
  /\ llm[t] = "answered"
  /\ \/ /\ CasFinalWins(t)
        /\ ledger' = [ledger EXCEPT ![t] = "final_delivered"]
        /\ LlmGoto(t, "won")
     \/ /\ ~CasFinalWins(t)
        /\ LlmGoto(t, "closing") /\ UNCHANGED ledger
  /\ UNCHANGED <<mainVars, fallback, row, llmTries, provVars, outVars, saved, faults>>

LlmSave(t) ==
  /\ llm[t] = "won"
  /\ Save(t)
  /\ LlmGoto(t, "saved")
  /\ UNCHANGED <<mainVars, ledger, fallback, row, llmTries, provVars, outVars, faults>>

LlmPublish(t) ==
  /\ llm[t] = "saved"
  /\ Publish(finals, t)
  /\ LlmGoto(t, "closing")
  /\ UNCHANGED <<retries, texts, notices>>
  /\ UNCHANGED <<mainVars, ledger, fallback, row, llmTries, provVars, saved, faults>>

LlmClose(t) ==
  /\ llm[t] = "closing"
  /\ row' = [row EXCEPT ![t] = "completed"]
  /\ LlmGoto(t, "closed")
  /\ UNCHANGED <<mainVars, ledger, fallback, llmTries, provVars, outVars, saved, faults>>

\* The processor returns, BullMQ completes the job.
LlmReturn(t) ==
  /\ llm[t] = "closed"
  /\ LlmGoto(t, "done")
  /\ UNCHANGED <<mainVars, ledger, fallback, row, llmTries, provVars, outVars, saved, faults>>

\* The processor throws: the LLM again, or a fault at any later call.  Nothing it did
\* to the ledger is undone.
LlmFails(t) ==
  /\ \/ llm[t] = "running" /\ UNCHANGED faults
     \/ llm[t] \in LlmActive \ {"running", "closed"} /\ Fault
  /\ llmTries' = [llmTries EXCEPT ![t] = @ + 1]
  /\ LlmGoto(t, IF LlmLastTry(t) THEN "exhausted" ELSE "waiting")
  /\ UNCHANGED <<mainVars, ledger, fallback, row, provVars, outVars, saved>>

\* The 'failed' handler of the last attempt.
LlmDeadLetter(t) ==
  /\ llm[t] = "exhausted"
  /\ LlmGoto(t, "failed")
  /\ \/ row' = [row EXCEPT ![t] = "dlq"] /\ UNCHANGED faults
     \/ Fault /\ UNCHANGED row
  /\ UNCHANGED <<mainVars, ledger, fallback, llmTries, provVars, outVars, saved>>

\* The worker dies in an attempt: the stalled job is run again, the attempt not counted.
CrashLlmWorker(t) ==
  /\ llm[t] \in LlmActive
  /\ Fault
  /\ LlmGoto(t, "waiting")
  /\ IF llm[t] = "running" THEN MaySave(t) ELSE UNCHANGED saved
  /\ UNCHANGED <<mainVars, ledger, fallback, row, llmTries, provVars, outVars>>

-----------------------------------------------------------------------------
(* The provider-retry worker.                                              *)

\* complete() with the conversation and no channel context: it persists, and asks no CAS.
ProvAnswer(t) ==
  /\ prov[t] = "waiting"
  /\ prov' = [prov EXCEPT ![t] = "completed"]
  /\ MaySave(t)
  /\ UNCHANGED <<mainVars, ledger, fallback, llmVars, provTries, outVars, faults>>

ProvNext(last) == IF last THEN "dead" ELSE "waiting"

\* An attempt fails, or the 30-minute window has passed.  The 'failed' handler moves the
\* job to the dead-letter queue at the last attempt or after the window.  complete() may
\* have persisted before it failed.
ProvFails(t) ==
  /\ prov[t] = "waiting"
  /\ provTries' = [provTries EXCEPT ![t] = @ + 1]
  /\ \E windowExhausted \in BOOLEAN :
       LET last == provTries[t] + 1 >= MaxProviderAttempts \/ windowExhausted IN
       \/ /\ prov' = [prov EXCEPT ![t] = ProvNext(last)]
          /\ UNCHANGED faults
       \/ /\ last /\ Fault
          /\ prov' = [prov EXCEPT ![t] = "lost"]
  /\ MaySave(t)
  /\ UNCHANGED <<mainVars, ledger, fallback, llmVars, outVars>>

\* The 'completed' handler: publish whatever the ledger says; a failing publish goes to
\* the dead-letter queue, a crash before it (or a failing dead-letter call) loses it.
ProvPublish(t) ==
  /\ prov[t] = "completed"
  /\ \/ Publish(retries, t) /\ prov' = [prov EXCEPT ![t] = "done"] /\ UNCHANGED faults
     \/ /\ Fault
        /\ \E s \in {"dead", "lost"} : prov' = [prov EXCEPT ![t] = s]
        /\ UNCHANGED retries
  /\ UNCHANGED <<mainVars, ledger, fallback, llmVars, provTries, finals, texts, notices, saved>>

-----------------------------------------------------------------------------

Handler(t) ==
  \/ Receive(t)
  \/ OpenTurn(t)
  \/ ScheduleFallback(t)
  \/ ReplyWithoutLlm(t)
  \/ Generate(t)
  \/ GenerateFails(t)
  \/ SaveAnswer(t)
  \/ CancelFallback(t)
  \/ Decide(t)
  \/ PublishFinal(t)
  \/ EnqueueLlmRetry(t)
  \/ HandleError(t)

FallbackWorker(t) == FallbackFires(t) \/ PublishFallback(t) \/ CloseFallback(t)

LlmWorker(t) ==
  \/ LlmStart(t)
  \/ LlmAnswer(t)
  \/ LlmDecide(t)
  \/ LlmSave(t)
  \/ LlmPublish(t)
  \/ LlmClose(t)
  \/ LlmReturn(t)
  \/ LlmFails(t)
  \/ LlmDeadLetter(t)

ProviderWorker(t) == ProvAnswer(t) \/ ProvFails(t) \/ ProvPublish(t)

Next ==
  \/ \E t \in Turns :
       \/ Handler(t)
       \/ FallbackWorker(t) \/ CrashFallbackWorker(t)
       \/ LlmWorker(t) \/ CrashLlmWorker(t)
       \/ ProviderWorker(t)
  \/ \E m \in Msgs : DedupExpires(m)
  \/ CrashOrchestrator

Spec == Init /\ [][Next]_vars

\* Node's event loop and BullMQ run every handler and every waiting job to its end.
Fairness ==
  \A t \in Turns :
    /\ WF_vars(Handler(t))
    /\ WF_vars(FallbackWorker(t))
    /\ WF_vars(LlmWorker(t))
    /\ WF_vars(ProviderWorker(t))

FairSpec == Spec /\ Fairness

-----------------------------------------------------------------------------
(* What the pipeline promises.                                             *)

\* The answer the ledger governs is published at most once per turn, whichever of the
\* original call and the retry attempts decides, and however often a worker is re-run.
OneLedgerFinal == \A t \in Turns : finals[t] <= 1

\* An answer goes out only after the ledger was won and the conversation holds it, so a
\* reader of the history never misses an answer the channel has seen.
FinalIsRecorded ==
  \A t \in Turns : finals[t] > 0 => ledger[t] = "final_delivered" /\ t \in saved

\* The user gets at most one "still thinking" message, even when the job is re-run.
FallbackOnce == \A t \in Turns : texts[t] <= 1

\* The llm_retry_jobs row exists before the job, and is completed only when the ledger
\* has been decided.
RowBeforeJob ==
  \A t \in Turns :
    /\ llm[t] # "none" => row[t] # "none"
    /\ row[t] = "completed" => ledger[t] = "final_delivered"

\* The race the ledger is documented to arbitrate, a late original against a retry, has
\* no two contenders: the retry exists only after complete() has given up on the answer.
NoLateOriginal ==
  \A t \in Turns :
    llm[t] # "none" => pc[t] \in {"rethrown", "parked", "noticed", "unacked"}

\* What the ledger is for, in one: however the original call, the fallback and the
\* attempts of both retry queues interleave and are re-run, each turn gets at most one
\* governed answer and one fallback, both in order and on record.
LedgerIsTrue ==
  OneLedgerFinal /\ FinalIsRecorded /\ FallbackOnce /\ RowBeforeJob /\ NoLateOriginal

\* Of the entries that carry one message, at most one gets past the dedup key for each
\* time the key has expired.
DedupWindow ==
  \A m \in Msgs : \A t, u \in Turns :
    (MsgOf[t] = m /\ MsgOf[u] = m /\ t # u /\ expiries[m] = 0) =>
      (ledger[t] = "none" \/ ledger[u] = "none")

\* The promise of the ledger (AnswerLedger), over the rows and the OUTBOUND stream.
Ledger == INSTANCE AnswerLedger WITH
            state     <- ledger,
            fallbacks <- texts,
            finals    <- finals

\* The pipeline implements it: every step of every worker and every crash is one step of
\* the ledger's state machine or none.
ImplementsLedger == Ledger!LSpec

\* As long as nothing has failed but the LLM, and fallback messages are configured: an
\* answer the LLM gave is delivered, a turn handed to a retry queue gets that queue's
\* answer or ends in its dead letters, and no turn stays pending: the user hears the
\* answer or the fallback, after a scripted reply that skips the ledger too.
EveryCallAccounted ==
  \A t \in Turns :
    /\ pc[t] = "answered" ~> finals[t] = 1 \/ faults > 0
    /\ row[t] = "pending" ~> finals[t] = 1 \/ row[t] = "dlq" \/ faults > 0
    /\ prov[t] = "waiting" ~> retries[t] = 1 \/ prov[t] = "dead" \/ faults > 0
    /\ ledger[t] = "pending" ~> ledger[t] # "pending" \/ faults > 0

-----------------------------------------------------------------------------
(* What the repository says, and the code does not do.                     *)

\* models/delivery-record.ts: "Only ONE final delivery wins via CAS".
OneFinalDelivery == \A t \in Turns : finals[t] + retries[t] <= 1
=============================================================================
