--------------------------- MODULE DeliveryProofs ---------------------------
(***************************************************************************)
(* For every set of turns, every number of attempts and any number of      *)
(* faults: the delivery pipeline is type correct, publishes at most one    *)
(* governed answer and one fallback per turn, lets one entry of a message  *)
(* in while its dedup key lives, and implements AnswerLedger.              *)
(*                                                                         *)
(* The ledger's CAS gives the right to publish to whoever wins it.  The    *)
(* inductive invariant says who holds that right: at most one of the       *)
(* original call (pc = "pacing") and the retry attempt ("won", "saved"),   *)
(* nobody before the ledger is decided, nobody once the answer is out.     *)
(***************************************************************************)
EXTENDS Delivery, TLAPS

\* The original call's progress: no ledger row before it opens one, a row from then on,
\* and the answer in the conversation before it is decided.
MainInv(t) ==
  /\ pc[t] \in {"inbound", "accepted", "dropped"} => ledger[t] = "none"
  /\ pc[t] \in {"opened", "generating", "answered", "saved", "deciding", "pacing", "caught"}
       => ledger[t] # "none"
  /\ pc[t] \in {"saved", "deciding", "pacing"} => t \in saved

\* The retry job exists only once the original call has given up and its row is in.
RetryInv(t) ==
  /\ llm[t] # "none" =>
       /\ pc[t] \in {"rethrown", "parked", "noticed", "unacked"}
       /\ row[t] # "none"
       /\ ledger[t] # "none"
  /\ llm[t] \in {"won", "saved", "closing", "closed"} => ledger[t] = "final_delivered"
  /\ llm[t] = "saved" => t \in saved
  /\ row[t] = "completed" => ledger[t] = "final_delivered"

\* Who may still publish the governed answer.
FinalInv(t) ==
  /\ finals[t] \in {0, 1}
  /\ pc[t] = "pacing" \/ llm[t] \in {"won", "saved"} \/ finals[t] = 1
       => ledger[t] = "final_delivered"
  /\ pc[t] = "pacing" \/ llm[t] \in {"won", "saved"} => finals[t] = 0
  /\ finals[t] = 1 => t \in saved

\* Who may still publish the fallback.
FallbackInv(t) ==
  /\ texts[t] \in {0, 1}
  /\ fallback[t] \in {"job_sending", "timer_sending"} =>
       texts[t] = 0 /\ ledger[t] \in {"fallback_sent", "final_delivered"}
  /\ texts[t] = 1 => ledger[t] \in {"fallback_sent", "final_delivered"}

TurnInv(t) == MainInv(t) /\ RetryInv(t) /\ FinalInv(t) /\ FallbackInv(t)

IInv == TypeOK /\ \A t \in Turns : TurnInv(t)

-----------------------------------------------------------------------------
(* Type correctness.                                                       *)

LEMMA TypeInit == Init => TypeOK
  BY DEF Init, TypeOK, PCs, InFlight, Acked, Causes, LlmCauses, LedgerStates,
         FallbackStates, RowStates, LlmActive, LlmStates, ProvStates

LEMMA TypeStep == TypeOK /\ [Next]_vars => TypeOK'
<1> SUFFICES ASSUME TypeOK, [Next]_vars PROVE TypeOK'
  OBVIOUS
<1> USE DeliveryAssumption DEF TypeOK, PCs, InFlight, Acked, Causes, LlmCauses,
    LedgerStates, FallbackStates, RowStates, LlmActive, LlmStates, ProvStates,
    Fault, Goto, Throw, Publish, Save, MaySave, Finish, InsertRow, Rethrow,
    LlmGoto, mainVars, llmVars, provVars, outVars, ProvNext
<1>1. ASSUME NEW t \in Turns, Receive(t) PROVE TypeOK'
  BY <1>1 DEF Receive, DedupHeld
<1>2. ASSUME NEW t \in Turns, OpenTurn(t) PROVE TypeOK'
  BY <1>2 DEF OpenTurn
<1>3. ASSUME NEW t \in Turns, ScheduleFallback(t) PROVE TypeOK'
  BY <1>3 DEF ScheduleFallback
<1>4. ASSUME NEW t \in Turns, ReplyWithoutLlm(t) PROVE TypeOK'
  BY <1>4 DEF ReplyWithoutLlm
<1>5. ASSUME NEW t \in Turns, Generate(t) PROVE TypeOK'
  BY <1>5 DEF Generate
<1>6. ASSUME NEW t \in Turns, GenerateFails(t) PROVE TypeOK'
  BY <1>6 DEF GenerateFails
<1>7. ASSUME NEW t \in Turns, SaveAnswer(t) PROVE TypeOK'
  BY <1>7 DEF SaveAnswer
<1>8. ASSUME NEW t \in Turns, CancelFallback(t) PROVE TypeOK'
  BY <1>8 DEF CancelFallback
<1>9. ASSUME NEW t \in Turns, Decide(t) PROVE TypeOK'
  BY <1>9 DEF Decide, CasFinalWins
<1>10. ASSUME NEW t \in Turns, PublishFinal(t) PROVE TypeOK'
  BY <1>10 DEF PublishFinal
<1>11. ASSUME NEW t \in Turns, EnqueueLlmRetry(t) PROVE TypeOK'
  BY <1>11 DEF EnqueueLlmRetry
<1>12. ASSUME NEW t \in Turns, HandleError(t) PROVE TypeOK'
  BY <1>12 DEF HandleError
<1>13. ASSUME NEW t \in Turns, FallbackFires(t) PROVE TypeOK'
  BY <1>13 DEF FallbackFires, CasFallbackWins
<1>14. ASSUME NEW t \in Turns, PublishFallback(t) PROVE TypeOK'
  BY <1>14 DEF PublishFallback
<1>15. ASSUME NEW t \in Turns, CloseFallback(t) PROVE TypeOK'
  BY <1>15 DEF CloseFallback
<1>16. ASSUME NEW t \in Turns, CrashFallbackWorker(t) PROVE TypeOK'
  BY <1>16 DEF CrashFallbackWorker
<1>17. ASSUME NEW t \in Turns, LlmStart(t) PROVE TypeOK'
  BY <1>17 DEF LlmStart
<1>18. ASSUME NEW t \in Turns, LlmAnswer(t) PROVE TypeOK'
  BY <1>18 DEF LlmAnswer
<1>19. ASSUME NEW t \in Turns, LlmDecide(t) PROVE TypeOK'
  BY <1>19 DEF LlmDecide, CasFinalWins
<1>20. ASSUME NEW t \in Turns, LlmSave(t) PROVE TypeOK'
  BY <1>20 DEF LlmSave
<1>21. ASSUME NEW t \in Turns, LlmPublish(t) PROVE TypeOK'
  BY <1>21 DEF LlmPublish
<1>22. ASSUME NEW t \in Turns, LlmClose(t) PROVE TypeOK'
  BY <1>22 DEF LlmClose
<1>23. ASSUME NEW t \in Turns, LlmReturn(t) PROVE TypeOK'
  BY <1>23 DEF LlmReturn
<1>24. ASSUME NEW t \in Turns, LlmFails(t) PROVE TypeOK'
  BY <1>24 DEF LlmFails
<1>25. ASSUME NEW t \in Turns, LlmDeadLetter(t) PROVE TypeOK'
  BY <1>25 DEF LlmDeadLetter
<1>26. ASSUME NEW t \in Turns, CrashLlmWorker(t) PROVE TypeOK'
  BY <1>26 DEF CrashLlmWorker
<1>27. ASSUME NEW t \in Turns, ProvAnswer(t) PROVE TypeOK'
  BY <1>27 DEF ProvAnswer
<1>28. ASSUME NEW t \in Turns, ProvFails(t) PROVE TypeOK'
  BY <1>28 DEF ProvFails
<1>29. ASSUME NEW t \in Turns, ProvPublish(t) PROVE TypeOK'
  BY <1>29 DEF ProvPublish
<1>30. ASSUME NEW m \in Msgs, DedupExpires(m) PROVE TypeOK'
  BY <1>30 DEF DedupExpires
<1>31. CASE CrashOrchestrator
  BY <1>31 DEF CrashOrchestrator
<1>32. CASE UNCHANGED vars
  BY <1>32 DEF vars
<1> QED
  BY <1>1, <1>2, <1>3, <1>4, <1>5, <1>6, <1>7, <1>8, <1>9, <1>10, <1>11,
     <1>12, <1>13, <1>14, <1>15, <1>16, <1>17, <1>18, <1>19, <1>20, <1>21,
     <1>22, <1>23, <1>24, <1>25, <1>26, <1>27, <1>28, <1>29, <1>30, <1>31,
     <1>32 DEF Next, Handler, FallbackWorker, LlmWorker, ProviderWorker

\* Every reachable state is well typed (the TypeOK the runs check), for all constants.
THEOREM TypeCorrect == Spec => []TypeOK
  BY TypeInit, TypeStep, PTL DEF Spec

-----------------------------------------------------------------------------
(* Who may publish.                                                        *)

LEMMA InvInit == Init => IInv
  BY TypeInit DEF Init, IInv, TurnInv, MainInv, RetryInv, FinalInv, FallbackInv

LEMMA InvStep == IInv /\ [Next]_vars => IInv'
<1> SUFFICES ASSUME IInv, [Next]_vars, NEW u \in Turns PROVE TurnInv(u)'
  BY TypeStep DEF IInv
<1> TypeOK /\ TypeOK' /\ TurnInv(u)
  BY TypeStep DEF IInv
<1> USE DEF TypeOK, TurnInv, MainInv, RetryInv, FinalInv, FallbackInv,
    Fault, Goto, Throw, Publish, Save, MaySave, Finish, InsertRow, Rethrow,
    LlmGoto, mainVars, llmVars, provVars, outVars, ProvNext
<1>1. ASSUME NEW t \in Turns, Receive(t) PROVE TurnInv(u)'
  BY <1>1 DEF Receive, DedupHeld
<1>2. ASSUME NEW t \in Turns, OpenTurn(t) PROVE TurnInv(u)'
  BY <1>2 DEF OpenTurn
<1>3. ASSUME NEW t \in Turns, ScheduleFallback(t) PROVE TurnInv(u)'
  BY <1>3 DEF ScheduleFallback
<1>4. ASSUME NEW t \in Turns, ReplyWithoutLlm(t) PROVE TurnInv(u)'
  BY <1>4 DEF ReplyWithoutLlm
<1>5. ASSUME NEW t \in Turns, Generate(t) PROVE TurnInv(u)'
  BY <1>5 DEF Generate
<1>6. ASSUME NEW t \in Turns, GenerateFails(t) PROVE TurnInv(u)'
  BY <1>6 DEF GenerateFails
<1>7. ASSUME NEW t \in Turns, SaveAnswer(t) PROVE TurnInv(u)'
  BY <1>7 DEF SaveAnswer
<1>8. ASSUME NEW t \in Turns, CancelFallback(t) PROVE TurnInv(u)'
  BY <1>8 DEF CancelFallback
<1>9. ASSUME NEW t \in Turns, Decide(t) PROVE TurnInv(u)'
  BY <1>9 DEF Decide, CasFinalWins
<1>10. ASSUME NEW t \in Turns, PublishFinal(t) PROVE TurnInv(u)'
  BY <1>10 DEF PublishFinal
<1>11. ASSUME NEW t \in Turns, EnqueueLlmRetry(t) PROVE TurnInv(u)'
  BY <1>11 DEF EnqueueLlmRetry
<1>12. ASSUME NEW t \in Turns, HandleError(t) PROVE TurnInv(u)'
  BY <1>12 DEF HandleError
<1>13. ASSUME NEW t \in Turns, FallbackFires(t) PROVE TurnInv(u)'
  BY <1>13 DEF FallbackFires, CasFallbackWins
<1>14. ASSUME NEW t \in Turns, PublishFallback(t) PROVE TurnInv(u)'
  BY <1>14 DEF PublishFallback
<1>15. ASSUME NEW t \in Turns, CloseFallback(t) PROVE TurnInv(u)'
  BY <1>15 DEF CloseFallback
<1>16. ASSUME NEW t \in Turns, CrashFallbackWorker(t) PROVE TurnInv(u)'
  BY <1>16 DEF CrashFallbackWorker
<1>17. ASSUME NEW t \in Turns, LlmStart(t) PROVE TurnInv(u)'
  BY <1>17 DEF LlmStart
<1>18. ASSUME NEW t \in Turns, LlmAnswer(t) PROVE TurnInv(u)'
  BY <1>18 DEF LlmAnswer
<1>19. ASSUME NEW t \in Turns, LlmDecide(t) PROVE TurnInv(u)'
  BY <1>19 DEF LlmDecide, CasFinalWins, LedgerStates
<1>20. ASSUME NEW t \in Turns, LlmSave(t) PROVE TurnInv(u)'
  BY <1>20 DEF LlmSave
<1>21. ASSUME NEW t \in Turns, LlmPublish(t) PROVE TurnInv(u)'
  BY <1>21 DEF LlmPublish
<1>22. ASSUME NEW t \in Turns, LlmClose(t) PROVE TurnInv(u)'
  BY <1>22 DEF LlmClose
<1>23. ASSUME NEW t \in Turns, LlmReturn(t) PROVE TurnInv(u)'
  BY <1>23 DEF LlmReturn
<1>24. ASSUME NEW t \in Turns, LlmFails(t) PROVE TurnInv(u)'
  BY <1>24 DEF LlmFails, LlmActive, LlmLastTry
<1>25. ASSUME NEW t \in Turns, LlmDeadLetter(t) PROVE TurnInv(u)'
  BY <1>25 DEF LlmDeadLetter
<1>26. ASSUME NEW t \in Turns, CrashLlmWorker(t) PROVE TurnInv(u)'
  BY <1>26 DEF CrashLlmWorker, LlmActive
<1>27. ASSUME NEW t \in Turns, ProvAnswer(t) PROVE TurnInv(u)'
  BY <1>27 DEF ProvAnswer
<1>28. ASSUME NEW t \in Turns, ProvFails(t) PROVE TurnInv(u)'
  BY <1>28 DEF ProvFails
<1>29. ASSUME NEW t \in Turns, ProvPublish(t) PROVE TurnInv(u)'
  BY <1>29 DEF ProvPublish
<1>30. ASSUME NEW m \in Msgs, DedupExpires(m) PROVE TurnInv(u)'
  BY <1>30 DEF DedupExpires
<1>31. CASE CrashOrchestrator
  BY <1>31 DEF CrashOrchestrator, InFlight
<1>32. CASE UNCHANGED vars
  BY <1>32 DEF vars
<1> QED
  BY <1>1, <1>2, <1>3, <1>4, <1>5, <1>6, <1>7, <1>8, <1>9, <1>10, <1>11,
     <1>12, <1>13, <1>14, <1>15, <1>16, <1>17, <1>18, <1>19, <1>20, <1>21,
     <1>22, <1>23, <1>24, <1>25, <1>26, <1>27, <1>28, <1>29, <1>30, <1>31,
     <1>32 DEF Next, Handler, FallbackWorker, LlmWorker, ProviderWorker

\* The invariant holds in every reachable state.
THEOREM InvCorrect == Spec => []IInv
  BY InvInit, InvStep, PTL DEF Spec

\* The governed answer is published at most once per turn: the ledger's promise, for any
\* number of turns, attempts and faults.
THEOREM OneFinal == Spec => []OneLedgerFinal
<1>1. ASSUME IInv PROVE OneLedgerFinal
  <2>1. finals \in [Turns -> Nat] /\ \A t \in Turns : finals[t] \in {0, 1}
    BY <1>1 DEF IInv, TypeOK, TurnInv, FinalInv
  <2>2. ASSUME NEW t \in Turns PROVE finals[t] <= 1
    <3>1. finals[t] \in Nat /\ (finals[t] = 0 \/ finals[t] = 1)
      BY <2>1
    <3> QED
      BY <3>1
  <2> QED
    BY <2>2 DEF OneLedgerFinal
<1> QED
  BY <1>1, InvCorrect, PTL

\* A published answer is decided in the ledger and kept in the conversation.
THEOREM FinalRecorded == Spec => []FinalIsRecorded
<1>1. IInv => FinalIsRecorded
  BY DEF IInv, TurnInv, FinalInv, FinalIsRecorded
<1> QED
  BY <1>1, InvCorrect, PTL

\* At most one fallback text per turn, however often the job is run.
THEOREM OneFallback == Spec => []FallbackOnce
<1>1. ASSUME IInv PROVE FallbackOnce
  <2>1. texts \in [Turns -> Nat] /\ \A t \in Turns : texts[t] \in {0, 1}
    BY <1>1 DEF IInv, TypeOK, TurnInv, FallbackInv
  <2>2. ASSUME NEW t \in Turns PROVE texts[t] <= 1
    <3>1. texts[t] \in Nat /\ (texts[t] = 0 \/ texts[t] = 1)
      BY <2>1
    <3> QED
      BY <3>1
  <2> QED
    BY <2>2 DEF FallbackOnce
<1> QED
  BY <1>1, InvCorrect, PTL

\* No late original: once a retry job exists, complete() no longer delivers.
THEOREM OriginalGivesUp == Spec => [](RowBeforeJob /\ NoLateOriginal)
<1>1. IInv => RowBeforeJob /\ NoLateOriginal
  BY DEF IInv, TurnInv, RetryInv, RowBeforeJob, NoLateOriginal
<1> QED
  BY <1>1, InvCorrect, PTL

\* LedgerIsTrue, for every number of turns, messages, attempts and faults.
THEOREM LedgerTrue == Spec => []LedgerIsTrue
  BY OneFinal, FinalRecorded, OneFallback, OriginalGivesUp, PTL DEF LedgerIsTrue

-----------------------------------------------------------------------------
(* The dedup key lets one entry of a message in.                           *)

\* The turn is past the key: it is about to open its conversation, or has.
Entered(t) == pc[t] = "accepted" \/ ledger[t] # "none"

\* While the key of a message has not expired, it is held if a turn of it has entered, and
\* no second one has.
KeyInv ==
  \A t, u \in Turns :
    Entered(t) /\ expiries[MsgOf[t]] = 0 =>
      /\ MsgOf[t] \in dedup
      /\ Entered(u) /\ MsgOf[u] = MsgOf[t] => u = t

\* No step but Receive lets a turn in, and none but an expiry takes a key away.
Quiet ==
  /\ UNCHANGED <<dedup, expiries>>
  /\ \A t \in Turns : Entered(t)' => Entered(t)

LEMMA QuietKeeps == KeyInv /\ Quiet => KeyInv'
BY DEF KeyInv, Quiet

LEMMA QuietSteps ==
    TypeOK /\ [Next]_vars =>
      Quiet \/ (\E t \in Turns : Receive(t)) \/ \E m \in Msgs : DedupExpires(m)
<1> SUFFICES ASSUME TypeOK, [Next]_vars
             PROVE  Quiet \/ (\E t \in Turns : Receive(t)) \/ \E m \in Msgs : DedupExpires(m)
  OBVIOUS
<1> USE DEF TypeOK, Quiet, Entered, Goto, Throw, Finish, Rethrow, mainVars, llmVars, provVars
<1>1. ASSUME NEW t \in Turns, OpenTurn(t) PROVE Quiet
  BY <1>1 DEF OpenTurn
<1>2. ASSUME NEW t \in Turns, ScheduleFallback(t) PROVE Quiet
  BY <1>2 DEF ScheduleFallback
<1>3. ASSUME NEW t \in Turns, ReplyWithoutLlm(t) PROVE Quiet
  BY <1>3 DEF ReplyWithoutLlm
<1>4. ASSUME NEW t \in Turns, Generate(t) PROVE Quiet
  BY <1>4 DEF Generate
<1>5. ASSUME NEW t \in Turns, GenerateFails(t) PROVE Quiet
  BY <1>5 DEF GenerateFails
<1>6. ASSUME NEW t \in Turns, SaveAnswer(t) PROVE Quiet
  BY <1>6 DEF SaveAnswer
<1>7. ASSUME NEW t \in Turns, CancelFallback(t) PROVE Quiet
  BY <1>7 DEF CancelFallback
<1>8. ASSUME NEW t \in Turns, Decide(t) PROVE Quiet
  BY <1>8 DEF Decide, CasFinalWins
<1>9. ASSUME NEW t \in Turns, PublishFinal(t) PROVE Quiet
  BY <1>9 DEF PublishFinal
<1>10. ASSUME NEW t \in Turns, EnqueueLlmRetry(t) PROVE Quiet
  BY <1>10 DEF EnqueueLlmRetry
<1>11. ASSUME NEW t \in Turns, HandleError(t) PROVE Quiet
  BY <1>11 DEF HandleError
<1>12. ASSUME NEW t \in Turns, FallbackFires(t) PROVE Quiet
  BY <1>12 DEF FallbackFires, CasFallbackWins
<1>13. ASSUME NEW t \in Turns, PublishFallback(t) PROVE Quiet
  BY <1>13 DEF PublishFallback
<1>14. ASSUME NEW t \in Turns, CloseFallback(t) PROVE Quiet
  BY <1>14 DEF CloseFallback
<1>15. ASSUME NEW t \in Turns, CrashFallbackWorker(t) PROVE Quiet
  BY <1>15 DEF CrashFallbackWorker
<1>16. ASSUME NEW t \in Turns, LlmStart(t) PROVE Quiet
  BY <1>16 DEF LlmStart
<1>17. ASSUME NEW t \in Turns, LlmAnswer(t) PROVE Quiet
  BY <1>17 DEF LlmAnswer
<1>18. ASSUME NEW t \in Turns, LlmDecide(t) PROVE Quiet
  BY <1>18 DEF LlmDecide, CasFinalWins
<1>19. ASSUME NEW t \in Turns, LlmSave(t) PROVE Quiet
  BY <1>19 DEF LlmSave
<1>20. ASSUME NEW t \in Turns, LlmPublish(t) PROVE Quiet
  BY <1>20 DEF LlmPublish
<1>21. ASSUME NEW t \in Turns, LlmClose(t) PROVE Quiet
  BY <1>21 DEF LlmClose
<1>22. ASSUME NEW t \in Turns, LlmReturn(t) PROVE Quiet
  BY <1>22 DEF LlmReturn
<1>23. ASSUME NEW t \in Turns, LlmFails(t) PROVE Quiet
  BY <1>23 DEF LlmFails
<1>24. ASSUME NEW t \in Turns, LlmDeadLetter(t) PROVE Quiet
  BY <1>24 DEF LlmDeadLetter
<1>25. ASSUME NEW t \in Turns, CrashLlmWorker(t) PROVE Quiet
  BY <1>25 DEF CrashLlmWorker
<1>26. ASSUME NEW t \in Turns, ProvAnswer(t) PROVE Quiet
  BY <1>26 DEF ProvAnswer
<1>27. ASSUME NEW t \in Turns, ProvFails(t) PROVE Quiet
  BY <1>27 DEF ProvFails
<1>28. ASSUME NEW t \in Turns, ProvPublish(t) PROVE Quiet
  BY <1>28 DEF ProvPublish
<1>29. CASE CrashOrchestrator
  BY <1>29 DEF CrashOrchestrator
<1>30. CASE UNCHANGED vars
  BY <1>30 DEF vars
<1> QED
  BY <1>1, <1>2, <1>3, <1>4, <1>5, <1>6, <1>7, <1>8, <1>9, <1>10, <1>11, <1>12, <1>13,
     <1>14, <1>15, <1>16, <1>17, <1>18, <1>19, <1>20, <1>21, <1>22, <1>23, <1>24,
     <1>25, <1>26, <1>27, <1>28, <1>29, <1>30 DEF Next, Handler, FallbackWorker,
     LlmWorker, ProviderWorker

LEMMA KeyStep == TypeOK /\ KeyInv /\ [Next]_vars => KeyInv'
<1> SUFFICES ASSUME TypeOK, KeyInv, [Next]_vars PROVE KeyInv'
  OBVIOUS
<1>1. CASE Quiet
  BY <1>1, QuietKeeps
<1>2. ASSUME NEW t \in Turns, Receive(t) PROVE KeyInv'
  <2>1. /\ UNCHANGED <<expiries, ledger>> /\ dedup \subseteq dedup'
        /\ \A u \in Turns \ {t} : pc'[u] = pc[u]
    BY <1>2 DEF Receive, Goto, TypeOK, Fault
  <2>2. \A u \in Turns \ {t} : Entered(u)' <=> Entered(u)
    BY <2>1 DEF Entered
  <2>3. CASE MsgOf[t] \notin dedup /\ MsgOf[t] \in dedup'
    BY <2>1, <2>2, <2>3 DEF KeyInv
  <2>4. CASE Entered(t)' => Entered(t)
    BY <2>1, <2>2, <2>4 DEF KeyInv
  <2>5. (MsgOf[t] \notin dedup /\ MsgOf[t] \in dedup') \/ (Entered(t)' => Entered(t))
    BY <1>2 DEF Receive, Goto, DedupHeld, Entered, TypeOK, Fault
  <2> QED
    BY <2>3, <2>4, <2>5
<1>3. ASSUME NEW m \in Msgs, DedupExpires(m) PROVE KeyInv'
  <2>1. UNCHANGED <<pc, ledger>> /\ dedup' = dedup \ {m}
        /\ expiries' = [expiries EXCEPT ![m] = @ + 1]
    BY <1>3 DEF DedupExpires
  <2>2. expiries'[m] # 0 /\ \A n \in Msgs \ {m} : expiries'[n] = expiries[n]
    BY <2>1 DEF TypeOK
  <2>3. \A t \in Turns : MsgOf[t] \in Msgs /\ (Entered(t)' <=> Entered(t))
    BY <2>1, DeliveryAssumption DEF Entered
  <2> QED
    BY <2>1, <2>2, <2>3 DEF KeyInv
<1> QED
  BY <1>1, <1>2, <1>3, QuietSteps

\* Of the entries that carry one message at most one gets past the key while it lives, for
\* any number of entries, handlers that race for it, crashes and failing calls.
THEOREM OneEntryPasses == Spec => []DedupWindow
<1>1. Init => KeyInv
  BY DEF Init, KeyInv, Entered
<1>2. KeyInv => DedupWindow
  BY DEF KeyInv, DedupWindow, Entered
<1> QED
  BY <1>1, <1>2, KeyStep, TypeCorrect, PTL DEF Spec

-----------------------------------------------------------------------------
(* The pipeline implements the ledger's promise.                           *)

LEMMA LedgerInit == Init => Ledger!LInit
  BY DEF Init, Ledger!LInit

LEMMA LedgerStep == IInv /\ [Next]_vars => [Ledger!LNext]_<<ledger, texts, finals>>
<1> SUFFICES ASSUME IInv, [Next]_vars
             PROVE  Ledger!LNext \/ UNCHANGED <<ledger, texts, finals>>
  OBVIOUS
<1> DEFINE Promise == Ledger!LNext \/ UNCHANGED <<ledger, texts, finals>>
<1> TypeOK /\ \A t \in Turns : TurnInv(t)
  BY DEF IInv
<1> USE DEF TypeOK, TurnInv, MainInv, FinalInv, FallbackInv, Ledger!LNext,
    Fault, Goto, Throw, Publish, Save, MaySave, Finish, InsertRow, Rethrow,
    LlmGoto, mainVars, llmVars, provVars, outVars, ProvNext
<1>1. ASSUME NEW t \in Turns, Receive(t) PROVE Promise
  BY <1>1 DEF Receive
<1>2. ASSUME NEW t \in Turns, OpenTurn(t) PROVE Promise
  BY <1>2 DEF OpenTurn, Ledger!Advance, Ledger!Open
<1>3. ASSUME NEW t \in Turns, ScheduleFallback(t) PROVE Promise
  BY <1>3 DEF ScheduleFallback
<1>4. ASSUME NEW t \in Turns, ReplyWithoutLlm(t) PROVE Promise
  BY <1>4 DEF ReplyWithoutLlm
<1>5. ASSUME NEW t \in Turns, Generate(t) PROVE Promise
  BY <1>5 DEF Generate
<1>6. ASSUME NEW t \in Turns, GenerateFails(t) PROVE Promise
  BY <1>6 DEF GenerateFails
<1>7. ASSUME NEW t \in Turns, SaveAnswer(t) PROVE Promise
  BY <1>7 DEF SaveAnswer
<1>8. ASSUME NEW t \in Turns, CancelFallback(t) PROVE Promise
  BY <1>8 DEF CancelFallback
<1>9. ASSUME NEW t \in Turns, Decide(t) PROVE Promise
  BY <1>9 DEF Decide, Ledger!Advance, Ledger!DecideOnce, CasFinalWins
<1>10. ASSUME NEW t \in Turns, PublishFinal(t) PROVE Promise
  BY <1>10 DEF PublishFinal, Ledger!EmitFinal
<1>11. ASSUME NEW t \in Turns, EnqueueLlmRetry(t) PROVE Promise
  BY <1>11 DEF EnqueueLlmRetry
<1>12. ASSUME NEW t \in Turns, HandleError(t) PROVE Promise
  BY <1>12 DEF HandleError
<1>13. ASSUME NEW t \in Turns, FallbackFires(t) PROVE Promise
  BY <1>13 DEF FallbackFires, Ledger!Advance, Ledger!FallBack, CasFallbackWins
<1>14. ASSUME NEW t \in Turns, PublishFallback(t) PROVE Promise
  BY <1>14 DEF PublishFallback, Ledger!EmitFallback
<1>15. ASSUME NEW t \in Turns, CloseFallback(t) PROVE Promise
  BY <1>15 DEF CloseFallback
<1>16. ASSUME NEW t \in Turns, CrashFallbackWorker(t) PROVE Promise
  BY <1>16 DEF CrashFallbackWorker
<1>17. ASSUME NEW t \in Turns, LlmStart(t) PROVE Promise
  BY <1>17 DEF LlmStart
<1>18. ASSUME NEW t \in Turns, LlmAnswer(t) PROVE Promise
  BY <1>18 DEF LlmAnswer
<1>19. ASSUME NEW t \in Turns, LlmDecide(t) PROVE Promise
  BY <1>19 DEF LlmDecide, Ledger!Advance, Ledger!DecideOnce, CasFinalWins
<1>20. ASSUME NEW t \in Turns, LlmSave(t) PROVE Promise
  BY <1>20 DEF LlmSave
<1>21. ASSUME NEW t \in Turns, LlmPublish(t) PROVE Promise
  <2>1. finals[t] = 0 /\ ledger[t] = "final_delivered"
    BY <1>21 DEF LlmPublish
  <2>2. finals' = [finals EXCEPT ![t] = 1] /\ UNCHANGED <<ledger, texts>>
    BY <1>21, <2>1 DEF LlmPublish
  <2>3. Ledger!EmitFinal(t)
    BY <2>1, <2>2 DEF Ledger!EmitFinal
  <2> QED
    BY <2>3
<1>22. ASSUME NEW t \in Turns, LlmClose(t) PROVE Promise
  BY <1>22 DEF LlmClose
<1>23. ASSUME NEW t \in Turns, LlmReturn(t) PROVE Promise
  BY <1>23 DEF LlmReturn
<1>24. ASSUME NEW t \in Turns, LlmFails(t) PROVE Promise
  BY <1>24 DEF LlmFails
<1>25. ASSUME NEW t \in Turns, LlmDeadLetter(t) PROVE Promise
  BY <1>25 DEF LlmDeadLetter
<1>26. ASSUME NEW t \in Turns, CrashLlmWorker(t) PROVE Promise
  BY <1>26 DEF CrashLlmWorker
<1>27. ASSUME NEW t \in Turns, ProvAnswer(t) PROVE Promise
  BY <1>27 DEF ProvAnswer
<1>28. ASSUME NEW t \in Turns, ProvFails(t) PROVE Promise
  BY <1>28 DEF ProvFails
<1>29. ASSUME NEW t \in Turns, ProvPublish(t) PROVE Promise
  BY <1>29 DEF ProvPublish
<1>30. ASSUME NEW m \in Msgs, DedupExpires(m) PROVE Promise
  BY <1>30 DEF DedupExpires
<1>31. CASE CrashOrchestrator
  BY <1>31 DEF CrashOrchestrator
<1>32. CASE UNCHANGED vars
  BY <1>32 DEF vars
<1> QED
  BY <1>1, <1>2, <1>3, <1>4, <1>5, <1>6, <1>7, <1>8, <1>9, <1>10, <1>11,
     <1>12, <1>13, <1>14, <1>15, <1>16, <1>17, <1>18, <1>19, <1>20, <1>21,
     <1>22, <1>23, <1>24, <1>25, <1>26, <1>27, <1>28, <1>29, <1>30, <1>31,
     <1>32 DEF Next, Handler, FallbackWorker, LlmWorker, ProviderWorker

\* Every behaviour of the pipeline, seen through its rows and OUTBOUND, is one of
\* AnswerLedger.
THEOREM Implementation == Spec => ImplementsLedger
  BY LedgerInit, LedgerStep, InvCorrect, PTL
     DEF Spec, ImplementsLedger, Ledger!LSpec, Ledger!ledgerVars
=============================================================================
