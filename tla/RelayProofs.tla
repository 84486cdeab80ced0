---------------------------- MODULE RelayProofs -----------------------------
(***************************************************************************)
(* Proofs about Relay, for any set of jobs, any finite set of workers, any *)
(* settings that satisfy the assumptions of JobStore and Dispatcher, and   *)
(* any number of faults.                                                   *)
(***************************************************************************)
EXTENDS Relay, StoreProofs

\* The assumptions on the constants, for citing.
ConstantsOK ==
  /\ StoreConstantsOK
  /\ RetryMaxAttempts \in Nat /\ RetryMaxAttempts > 0
  /\ Codes \subseteq Nat

\* What the named assumptions say about the numbers of the model.
LEMMA ConstantFacts == ConstantsOK
<1>1. RetryMaxAttempts \in Nat /\ RetryMaxAttempts > 0
  BY RetryAssumption
<1>2. Codes \subseteq Nat
  BY CodesAssumption DEF Codes
<1>. QED BY <1>1, <1>2, StoreConstantFacts DEF ConstantsOK

-----------------------------------------------------------------------------
(* Facts about the decisions of a worker *)

\* jitteredBackoff gives a number of ticks, never a negative one.
LEMMA BackoffType ==
  ASSUME TypeOK, NEW w \in Workers
  PROVE  BatchBackoff(w) \subseteq Nat
<1>1. SUFFICES ASSUME NEW n \in Nat PROVE JitteredBackoff(n) \subseteq Nat
  <2>1. \A j \in Jobs : seen[w][j] + 1 \in Nat
    BY DEF TypeOK
  <2>2. RetryJobs(w) \subseteq Jobs
    BY DEF TypeOK, RetryJobs
  <2>. QED BY <1>1, <2>1, <2>2 DEF BatchBackoff
<1>2. Len(BackoffSchedule) \in Nat \ {0}
  BY RetryAssumption
<1>3. \A i \in 1..Len(BackoffSchedule) : BackoffSchedule[i] \in Nat
  BY RetryAssumption
<1>. QED BY <1>2, <1>3 DEF JitteredBackoff

\* The status code of a failed Send is one of the codes of the model.
LEMMA FailureCodesType ==
  ASSUME NEW w \in Workers PROVE FailureCodes(w) \subseteq Codes
BY DEF FailureCodes, Codes

\* doubt stays a count, whichever workers lose track.
LEMMA LoseTrackType ==
  ASSUME doubt \in [Jobs -> Nat], NEW ws \in SUBSET Workers, LoseTrack(ws)
  PROVE  doubt' \in [Jobs -> Nat]
<1>. DEFINE Lost(j) == {w \in ws : pc[w] \in {"taken", "markSent"} /\ j \in batch[w]}
<1>1. SUFFICES ASSUME NEW j \in Jobs PROVE Cardinality(Lost(j)) \in Nat
  BY <1>1 DEF LoseTrack
<1>2. IsFiniteSet(Lost(j))
  BY WorkersAssumption, FS_Subset
<1>. QED BY <1>2, FS_CardinalityType

-----------------------------------------------------------------------------
(* Type correctness *)

\* What BackToLoop leaves has the right types.
LEMMA BackToLoopType ==
  ASSUME TypeOK, NEW w \in Workers, BackToLoop(w)
  PROVE  /\ pc' \in [Workers -> PCs]
         /\ batch' \in [Workers -> SUBSET Jobs]
         /\ seen' \in [Workers -> [Jobs -> Nat]]
         /\ code' \in [Workers -> Codes]
BY DEF TypeOK, BackToLoop, PCs, Codes

\* A spent fault is still a count.
LEMMA SpendType ==
  ASSUME TypeOK, NEW f \in Faults, Spend(f)
  PROVE  used' \in [Faults -> Nat]
BY DEF TypeOK, Spend

\* Init establishes the types.
LEMMA TypeInit == Init => TypeOK
BY NoRowType DEF Init, StoreInit, DispatcherInit, TypeOK, PCs, Codes

\* Every step of a worker keeps the types.
LEMMA TypeWorkerStep ==
  ASSUME TypeOK, NEW w \in Workers, WorkerStep(w)
  PROVE  TypeOK'
<1>. USE DEF history
<1>1. CASE Claim(w)
  <2>1. PICK lag, b, got :
          /\ lag \in Lags /\ b \in Batches(lag) /\ got \in ReadClaimed(b)
          /\ ClaimRows(b, lag)
          /\ IF got = b THEN UNCHANGED used ELSE Spend("db")
          /\ batch' = [batch EXCEPT ![w] = got]
          /\ seen' = [seen EXCEPT ![w] =
                        [j \in Jobs |-> IF j \in got THEN jobs[j].attempt_count ELSE 0]]
          /\ pc' = [pc EXCEPT ![w] = IF got = {} THEN "loop" ELSE "send"]
    BY <1>1 DEF Claim
  <2>2. jobs' \in [Jobs -> Row]
    BY <2>1, ClaimRowsType DEF TypeOK
  <2>3. batch' \in [Workers -> SUBSET Jobs]
    BY <2>1, ClaimedAreEligible DEF TypeOK
  <2>4. \A j \in Jobs : jobs[j].attempt_count \in Nat
    BY DEF TypeOK, Row
  <2>5. seen' \in [Workers -> [Jobs -> Nat]]
    BY <2>1, <2>4 DEF TypeOK
  <2>6. pc' \in [Workers -> PCs]
    BY <2>1 DEF TypeOK, PCs
  <2>7. used' \in [Faults -> Nat]
    BY <2>1, SpendType DEF TypeOK, Faults
  <2>. QED BY <1>1, <2>2, <2>3, <2>5, <2>6, <2>7 DEF TypeOK, Claim
<1>2. CASE WorkerExit(w)
  BY <1>2 DEF WorkerExit, TypeOK, PCs
<1>3. CASE ApiAccept(w)
  <2>1. accepted' \in [Jobs -> Nat]
    BY <1>3 DEF ApiAccept, TypeOK
  <2>. QED BY <1>3, <2>1 DEF ApiAccept, TypeOK, PCs
<1>4. CASE SendSucceeds(w)
  BY <1>4 DEF SendSucceeds, TypeOK, PCs
<1>5. CASE SendFails(w)
  <2>1. doubt' \in [Jobs -> Nat]
    BY <1>5, LoseTrackType DEF SendFails, TypeOK
  <2>2. code' \in [Workers -> Codes]
    BY <1>5, FailureCodesType DEF SendFails, TypeOK
  <2>. QED BY <1>5, <2>1, <2>2 DEF SendFails, TypeOK, PCs
<1>6. CASE WorkerMarkSent(w)
  <2>1. jobs' \in [Jobs -> Row]
    BY <1>6, MarkType DEF WorkerMarkSent, TypeOK
  <2>. QED BY <1>6, <2>1, BackToLoopType DEF WorkerMarkSent, TypeOK
<1>7. CASE WorkerMarkRetry(w)
  <2>1. code[w] \in Nat
    BY ConstantFacts DEF TypeOK, ConstantsOK, StoreConstantsOK
  <2>2. PICK d \in BatchBackoff(w), lag \in Lags : MarkRetry(RetryJobs(w), d - lag, code[w])
    BY <1>7 DEF WorkerMarkRetry
  <2>3. d - lag \in Int
    BY BackoffType, ConstantFacts DEF Lags, ConstantsOK, StoreConstantsOK
  <2>4. jobs' \in [Jobs -> Row]
    BY <2>1, <2>2, <2>3, MarkType DEF TypeOK
  <2>5. CASE RetryJobs(w) = batch[w]
    BY <1>7, <2>4, <2>5, BackToLoopType DEF WorkerMarkRetry, TypeOK
  <2>6. CASE RetryJobs(w) # batch[w]
    <3>1. batch[w] \ RetryJobs(w) \in SUBSET Jobs
      BY DEF TypeOK
    <3>2. batch' \in [Workers -> SUBSET Jobs]
      BY <1>7, <2>6, <3>1 DEF WorkerMarkRetry, TypeOK
    <3>. QED BY <1>7, <2>4, <2>6, <3>2 DEF WorkerMarkRetry, TypeOK, PCs
  <2>. QED BY <2>5, <2>6
<1>8. CASE WorkerMarkDLQ(w)
  <2>1. code[w] \in Nat
    BY ConstantFacts DEF TypeOK, ConstantsOK, StoreConstantsOK
  <2>2. jobs' \in [Jobs -> Row]
    BY <1>8, <2>1, MarkType DEF WorkerMarkDLQ, TypeOK
  <2>. QED BY <1>8, <2>2, BackToLoopType DEF WorkerMarkDLQ, TypeOK
<1>9. CASE MarkFails(w)
  <2>1. doubt' \in [Jobs -> Nat]
    BY <1>9, LoseTrackType DEF MarkFails, TypeOK
  <2>2. used' \in [Faults -> Nat]
    BY <1>9, SpendType DEF MarkFails, TypeOK, Faults
  <2>. QED BY <1>9, <2>1, <2>2, BackToLoopType DEF MarkFails, TypeOK
<1>. QED BY <1>1, <1>2, <1>3, <1>4, <1>5, <1>6, <1>7, <1>8, <1>9 DEF WorkerStep

\* Every step of the system keeps the types.
LEMMA TypeStep == TypeOK /\ [Next]_vars => TypeOK'
<1>. SUFFICES ASSUME TypeOK, [Next]_vars PROVE TypeOK'
  OBVIOUS
<1>. USE DEF worker, history
<1>1. ASSUME NEW w \in Workers, WorkerStep(w) PROVE TypeOK'
  BY <1>1, TypeWorkerStep
<1>2. CASE RequeueStaleLoop
  <2>1. jobs' \in [Jobs -> Row]
    BY <1>2, RecoveryType DEF RequeueStaleLoop, TypeOK
  <2>. QED BY <1>2, <2>1 DEF RequeueStaleLoop, TypeOK
<1>3. CASE Start
  <2>1. jobs' \in [Jobs -> Row]
    BY <1>3, RecoveryType DEF Start, TypeOK
  <2>2. used' \in [Faults -> Nat]
    BY <1>3, SpendType DEF Start, TypeOK, Faults
  <2>. QED BY <1>3, <2>1, <2>2 DEF Start, TypeOK, PCs
<1>4. CASE Signal
  BY <1>4, SpendType DEF Signal, TypeOK, Faults
<1>5. CASE Exit
  BY <1>5 DEF Exit, TypeOK
<1>6. CASE Crash
  <2>1. doubt' \in [Jobs -> Nat]
    BY <1>6, LoseTrackType DEF Crash, TypeOK
  <2>2. used' \in [Faults -> Nat]
    BY <1>6, SpendType DEF Crash, Faults
  <2>. QED BY <1>6, <2>1, <2>2 DEF Crash, TypeOK, PCs, Codes
<1>7. CASE Enqueue
  <2>1. jobs' \in [Jobs -> Row]
    BY <1>7, EnqueueTxType DEF Enqueue, TypeOK
  <2>. QED BY <1>7, <2>1 DEF Enqueue, TypeOK
<1>8. CASE DlqReplay
  <2>1. PICK js \in SUBSET Jobs, lag \in Lags : RequeueDLQIDs(js, lag)
    BY <1>8 DEF DlqReplay
  <2>2. used' \in [Faults -> Nat]
    BY <1>8, SpendType DEF DlqReplay, Faults
  <2>3. jobs' \in [Jobs -> Row]
    BY <2>1, RecoveryType DEF TypeOK
  <2>. QED BY <1>8, <2>2, <2>3 DEF DlqReplay, TypeOK
<1>9. CASE QueueRetryNow
  <2>1. jobs' \in [Jobs -> Row]
    BY <1>9, RecoveryType DEF QueueRetryNow, TypeOK
  <2>. QED BY <1>9, <2>1 DEF QueueRetryNow, TypeOK
<1>10. CASE Tick
  <2>1. jobs' \in [Jobs -> Row]
    BY <1>10, RecoveryType DEF Tick, TypeOK
  <2>2. used' \in [Faults -> Nat]
    BY <1>10, SpendType DEF Tick, TypeOK, Faults
  <2>. QED BY <1>10, <2>1, <2>2 DEF Tick, TypeOK
<1>11. CASE UNCHANGED vars
  BY <1>11 DEF vars, dvars, TypeOK
<1>. QED BY <1>1, <1>2, <1>3, <1>4, <1>5, <1>6, <1>7, <1>8, <1>9, <1>10, <1>11 DEF Next

\* The specification keeps every variable in its type: a row is never in a
\* status or with a lease outside those the code knows, a worker never holds
\* anything but jobs, for any settings and any number of faults.
THEOREM TypeCorrect == Spec => []TypeOK
BY TypeInit, TypeStep, PTL DEF Spec

-----------------------------------------------------------------------------
(* The inductive invariant behind SentMeansAccepted and DlqJustified.      *)
(* Neither is inductive: what a Mark* statement writes was decided from    *)
(* what its worker knew at the claim and at the answer, so the worker's    *)
(* knowledge has to be tied to the table and to the API.                   *)

\* A row that was never inserted has no attempts.
AbsentUnattempted ==
  \A j \in Jobs : jobs[j].status = "none" => jobs[j].attempt_count = 0

\* A worker about to record success holds only jobs the API took.
SuccessIsReal ==
  \A w \in Workers : pc[w] \in {"taken", "markSent"} =>
    \A j \in batch[w] : accepted[j] > 0

\* The AttemptCount a worker read at its claim may be out of date, but only by
\* being too small.
SeenBehind ==
  \A w \in Workers : \A j \in batch[w] : seen[w][j] <= jobs[j].attempt_count

\* A worker holds only rows that were inserted.
HeldInserted ==
  \A w \in Workers : \A j \in batch[w] : jobs[j].status # "none"

\* A worker about to write to the dead-letter queue has a reason for each job.
DlqDecided ==
  \A w \in Workers : pc[w] = "markDLQ" =>
    \A j \in batch[w] : ClassifyFailure(code[w]) = "dlq" \/ Exhausted(w, j)

SafetyInv ==
  /\ TypeOK
  /\ AbsentUnattempted
  /\ SuccessIsReal
  /\ SeenBehind
  /\ HeldInserted
  /\ DlqDecided
  /\ LeaseRecorded
  /\ SentMeansAccepted
  /\ DlqJustified

\* The same invariant, one row and one worker at a time.
GoodRow(j) ==
  /\ jobs[j].status = "none" => jobs[j].attempt_count = 0
  /\ jobs[j].status = "processing" <=> jobs[j].processing_started_at # NULL
  /\ jobs[j].status = "sent" => accepted[j] > 0
  /\ jobs[j].status = "dlq" => \/ ClassifyFailure(jobs[j].last_http_status) = "dlq"
                               \/ jobs[j].attempt_count >= RetryMaxAttempts

GoodWorker(w) ==
  /\ pc[w] \in {"taken", "markSent"} => \A j \in batch[w] : accepted[j] > 0
  /\ \A j \in batch[w] : seen[w][j] <= jobs[j].attempt_count /\ jobs[j].status # "none"
  /\ pc[w] = "markDLQ" =>
       \A j \in batch[w] : \/ ClassifyFailure(code[w]) = "dlq"
                           \/ seen[w][j] + 1 >= RetryMaxAttempts

\* SafetyInv is TypeOK with every row and every worker good.
LEMMA SafetyByPart ==
  SafetyInv <=> /\ TypeOK
                /\ \A j \in Jobs : GoodRow(j)
                /\ \A w \in Workers : GoodWorker(w)
BY DEF SafetyInv, AbsentUnattempted, SuccessIsReal, SeenBehind, HeldInserted, DlqDecided, LeaseRecorded,
       SentMeansAccepted, DlqJustified, GoodRow, GoodWorker, Exhausted

\* What a worker relies on is never taken back: rows are not deleted, and
\* neither the attempts counted for a job nor the acceptances decrease.
Grows(j) ==
  /\ jobs[j].status # "none" => jobs'[j].status # "none"
  /\ jobs'[j].attempt_count >= jobs[j].attempt_count
  /\ accepted'[j] >= accepted[j]

\* A row that a step leaves alone stays good.
LEMMA RowUntouched ==
  ASSUME TypeOK, NEW j \in Jobs, GoodRow(j), jobs'[j] = jobs[j], accepted'[j] >= accepted[j],
         accepted'[j] \in Nat
  PROVE  GoodRow(j)' /\ Grows(j)
<1>. /\ jobs[j].attempt_count \in Nat
     /\ accepted[j] \in Nat
  BY DEF TypeOK, Row
<1>. QED BY DEF GoodRow, Grows

\* Each step of a worker keeps every row good.
LEMMA WorkerStepRows ==
  ASSUME SafetyInv, TypeOK', NEW w \in Workers, WorkerStep(w), NEW j \in Jobs
  PROVE  GoodRow(j)' /\ Grows(j)
<1>. USE DEF history
<1>1. TypeOK /\ GoodRow(j) /\ GoodWorker(w)
  BY SafetyByPart
<1>2. /\ jobs \in [Jobs -> Row]
      /\ jobs[j].attempt_count \in Nat
      /\ accepted[j] \in Nat /\ accepted'[j] \in Nat
      /\ batch[w] \subseteq Jobs
      /\ code[w] \in Nat
      /\ seen[w][j] \in Nat
  <2>1. code[w] \in Nat
    BY <1>1, ConstantFacts DEF TypeOK, ConstantsOK, StoreConstantsOK
  <2>2. jobs \in [Jobs -> Row] /\ jobs[j].attempt_count \in Nat
    BY <1>1 DEF TypeOK, Row
  <2>. QED BY <1>1, <2>1, <2>2 DEF TypeOK
<1>3. CASE Claim(w)
  <2>1. PICK lag, b, got :
          /\ lag \in Lags /\ b \in Batches(lag) /\ got \in ReadClaimed(b)
          /\ ClaimRows(b, lag)
    BY <1>3 DEF Claim
  <2>2. accepted' = accepted
    BY <1>3 DEF Claim
  <2>3. lag # NULL
    BY <2>1, ConstantFacts DEF Lags, NULL, ConstantsOK, StoreConstantsOK
  <2>4. b \subseteq Eligible(lag)
    BY <2>1, ClaimedAreEligible
  <2>5. CASE j \in b
    <3>1. Moved(j, "processing", jobs[j].attempt_count, lag, jobs[j].last_http_status)
      BY <1>2, <2>1, <2>4, <2>5, ClaimEffect
    <3>. QED BY <1>2, <2>2, <2>3, <3>1 DEF GoodRow, Grows, Moved
  <2>6. CASE j \notin b
    <3>1. jobs'[j] = jobs[j]
      BY <1>2, <2>1, <2>4, <2>6, ClaimEffect
    <3>. QED BY <1>1, <1>2, <2>2, <3>1, RowUntouched
  <2>. QED BY <2>5, <2>6
<1>4. CASE WorkerExit(w) \/ SendSucceeds(w) \/ SendFails(w) \/ MarkFails(w)
  <2>1. jobs'[j] = jobs[j] /\ accepted'[j] = accepted[j]
    BY <1>4 DEF WorkerExit, SendSucceeds, SendFails, MarkFails
  <2>. QED BY <1>1, <1>2, <2>1, RowUntouched
<1>5. CASE ApiAccept(w)
  <2>1. jobs'[j] = jobs[j] /\ accepted'[j] >= accepted[j]
    BY <1>2, <1>5 DEF ApiAccept
  <2>. QED BY <1>1, <1>2, <2>1, RowUntouched
<1>6. CASE WorkerMarkSent(w)
  <2>1. MarkSent(batch[w]) /\ accepted' = accepted
    BY <1>6 DEF WorkerMarkSent
  <2>2. CASE j \in batch[w] /\ jobs[j].status = "processing"
    <3>1. Moved(j, "sent", jobs[j].attempt_count + 1, NULL, 0)
      BY <1>2, <2>1, <2>2, MarkSentEffect
    <3>2. accepted[j] > 0
      BY <1>1, <1>6, <2>2 DEF GoodWorker, WorkerMarkSent
    <3>. QED BY <1>2, <2>1, <3>1, <3>2 DEF GoodRow, Grows, Moved
  <2>3. CASE ~(j \in batch[w] /\ jobs[j].status = "processing")
    <3>1. jobs'[j] = jobs[j]
      BY <1>2, <2>1, <2>3, MarkSentEffect
    <3>. QED BY <1>1, <1>2, <2>1, <3>1, RowUntouched
  <2>. QED BY <2>2, <2>3
<1>7. CASE WorkerMarkRetry(w)
  <2>1. PICK d \in BatchBackoff(w), lag \in Lags : MarkRetry(RetryJobs(w), d - lag, code[w])
    BY <1>7 DEF WorkerMarkRetry
  <2>2. accepted' = accepted
    BY <1>7 DEF WorkerMarkRetry
  <2>3. CASE j \in RetryJobs(w) /\ jobs[j].status = "processing"
    <3>1. Moved(j, "retry", jobs[j].attempt_count + 1, NULL, code[w])
      BY <1>2, <2>1, <2>3, MarkRetryEffect
    <3>. QED BY <1>2, <2>2, <3>1 DEF GoodRow, Grows, Moved
  <2>4. CASE ~(j \in RetryJobs(w) /\ jobs[j].status = "processing")
    <3>1. jobs'[j] = jobs[j]
      BY <1>2, <2>1, <2>4, MarkRetryEffect
    <3>. QED BY <1>1, <1>2, <2>2, <3>1, RowUntouched
  <2>. QED BY <2>3, <2>4
<1>8. CASE WorkerMarkDLQ(w)
  <2>1. MarkDLQ(batch[w], code[w]) /\ accepted' = accepted
    BY <1>8 DEF WorkerMarkDLQ
  <2>2. CASE j \in batch[w] /\ jobs[j].status = "processing"
    <3>1. Moved(j, "dlq", jobs[j].attempt_count + 1, NULL, code[w])
      BY <1>2, <2>1, <2>2, MarkDLQEffect
    <3>2. \/ ClassifyFailure(code[w]) = "dlq"
          \/ seen[w][j] + 1 >= RetryMaxAttempts
      BY <1>1, <1>8, <2>2 DEF GoodWorker, WorkerMarkDLQ
    <3>3. seen[w][j] <= jobs[j].attempt_count
      BY <1>1, <2>2 DEF GoodWorker
    <3>. QED BY <1>2, <2>1, <3>1, <3>2, <3>3, ConstantFacts DEF GoodRow, Grows, Moved, ConstantsOK, StoreConstantsOK
  <2>3. CASE ~(j \in batch[w] /\ jobs[j].status = "processing")
    <3>1. jobs'[j] = jobs[j]
      BY <1>2, <2>1, <2>3, MarkDLQEffect
    <3>. QED BY <1>1, <1>2, <2>1, <3>1, RowUntouched
  <2>. QED BY <2>2, <2>3
<1>. QED BY <1>3, <1>4, <1>5, <1>6, <1>7, <1>8 DEF WorkerStep

\* Every other step keeps every row good: the stale requeue and the operator
\* never write sent or dlq, and the clock and retry-now write only times.
LEMMA StepRows ==
  ASSUME SafetyInv, TypeOK', [Next]_vars, NEW j \in Jobs
  PROVE  GoodRow(j)' /\ Grows(j)
<1>. USE DEF worker, history
<1>1. TypeOK /\ GoodRow(j)
  BY SafetyByPart
<1>2. /\ jobs \in [Jobs -> Row]
      /\ jobs[j].attempt_count \in Nat
      /\ jobs[j].processing_started_at \in {NULL} \cup 0..AgeCap
      /\ accepted[j] \in Nat /\ accepted'[j] \in Nat
  <2>1. jobs[j] \in Row
    BY <1>1 DEF TypeOK
  <2>. QED BY <1>1, <2>1 DEF TypeOK, Row
<1>3. ASSUME NEW w \in Workers, WorkerStep(w) PROVE GoodRow(j)' /\ Grows(j)
  BY <1>3, WorkerStepRows
<1>4. CASE Signal \/ Exit \/ Crash \/ UNCHANGED vars
  <2>1. jobs'[j] = jobs[j] /\ accepted'[j] = accepted[j]
    BY <1>4 DEF Signal, Exit, Crash, vars, dvars
  <2>. QED BY <1>1, <1>2, <2>1, RowUntouched
<1>5. ASSUME NEW lag \in Lags, RequeueStaleProcessing(lag), accepted' = accepted
      PROVE  GoodRow(j)' /\ Grows(j)
  <2>1. CASE Moved(j, "retry", jobs[j].attempt_count, NULL, jobs[j].last_http_status)
    BY <1>2, <1>5, <2>1 DEF GoodRow, Grows, Moved
  <2>2. CASE jobs'[j] = jobs[j]
    BY <1>1, <1>2, <1>5, <2>2, RowUntouched
  <2>. QED BY <1>2, <1>5, <2>1, <2>2, RequeueStaleEffect
<1>6. CASE RequeueStaleLoop
  BY <1>5, <1>6 DEF RequeueStaleLoop
<1>7. CASE Start
  <2>1. CASE \E lag \in Lags : RequeueStaleProcessing(lag)
    BY <1>5, <1>7, <2>1 DEF Start
  <2>2. CASE jobs' = jobs
    BY <1>1, <1>2, <1>7, <2>2, RowUntouched DEF Start
  <2>. QED BY <1>7, <2>1, <2>2 DEF Start
<1>8. CASE Enqueue
  <2>1. PICK m \in Messages, lag \in Lags : EnqueueTx(m, lag)
    BY <1>8 DEF Enqueue
  <2>2. accepted' = accepted
    BY <1>8 DEF Enqueue
  <2>3. CASE jobs[j].status = "none" /\ Moved(j, "queued", 0, NULL, 0)
    BY <1>1, <1>2, <2>2, <2>3 DEF GoodRow, Grows, Moved
  <2>4. CASE jobs'[j] = jobs[j]
    BY <1>1, <1>2, <2>2, <2>4, RowUntouched
  <2>. QED BY <2>1, <2>3, <2>4, EnqueueEffect
<1>9. CASE DlqReplay
  <2>1. PICK js \in SUBSET Jobs, lag \in Lags : RequeueDLQIDs(js, lag)
    BY <1>9 DEF DlqReplay
  <2>2. accepted' = accepted
    BY <1>9 DEF DlqReplay
  <2>3. CASE Moved(j, "retry", jobs[j].attempt_count, NULL, 0)
    BY <1>2, <2>2, <2>3 DEF GoodRow, Grows, Moved
  <2>4. CASE jobs'[j] = jobs[j]
    BY <1>1, <1>2, <2>2, <2>4, RowUntouched
  <2>. QED BY <1>2, <2>1, <2>3, <2>4, ReplayEffect
<1>10. CASE QueueRetryNow
  <2>1. Moved(j, jobs[j].status, jobs[j].attempt_count, jobs[j].processing_started_at,
                 jobs[j].last_http_status)
    BY <1>2, <1>10, RetryNowEffect DEF QueueRetryNow
  <2>2. accepted' = accepted
    BY <1>10 DEF QueueRetryNow
  <2>. QED BY <1>1, <1>2, <2>1, <2>2 DEF GoodRow, Grows, Moved
<1>11. CASE Tick
  <2>. DEFINE started == IF jobs[j].processing_started_at \in {NULL, AgeCap}
                         THEN jobs[j].processing_started_at
                         ELSE jobs[j].processing_started_at + 1
  <2>1. AgeRows /\ accepted' = accepted
    BY <1>11 DEF Tick
  <2>2. Moved(j, jobs[j].status, jobs[j].attempt_count, started, jobs[j].last_http_status)
    BY <1>2, <2>1, AgeEffect
  <2>3. started = NULL <=> jobs[j].processing_started_at = NULL
    BY <1>2, ConstantFacts DEF NULL, ConstantsOK, StoreConstantsOK
  <2>. HIDE DEF started
  <2>. QED BY <1>1, <1>2, <2>1, <2>2, <2>3 DEF GoodRow, Grows, Moved
<1>. QED BY <1>3, <1>4, <1>6, <1>7, <1>8, <1>9, <1>10, <1>11 DEF Next

\* What a worker knows stays true while other steps happen.
LEMMA WorkerUntouched ==
  ASSUME TypeOK, TypeOK', NEW v \in Workers, GoodWorker(v), \A j \in Jobs : Grows(j),
         pc'[v] = pc[v], batch'[v] = batch[v], seen'[v] = seen[v], code'[v] = code[v]
  PROVE  GoodWorker(v)'
<1>1. batch[v] \subseteq Jobs
  BY DEF TypeOK
<1>2. \A j \in Jobs : /\ accepted[j] \in Nat /\ accepted'[j] \in Nat
                      /\ seen[v][j] \in Nat
                      /\ jobs[j].attempt_count \in Nat /\ jobs'[j].attempt_count \in Nat
  BY DEF TypeOK, Row
<1>. QED BY <1>1, <1>2 DEF GoodWorker, Grows

\* The worker that takes a step stays right about its batch.
LEMMA ActingWorker ==
  ASSUME SafetyInv, TypeOK', NEW w \in Workers, WorkerStep(w), \A j \in Jobs : Grows(j)
  PROVE  GoodWorker(w)'
<1>. USE DEF history
<1>1. TypeOK /\ GoodWorker(w)
  BY SafetyByPart
<1>2. \A j \in Jobs : /\ accepted[j] \in Nat /\ accepted'[j] \in Nat
                      /\ seen[w][j] \in Nat /\ seen'[w][j] \in Nat
                      /\ jobs[j].attempt_count \in Nat /\ jobs'[j].attempt_count \in Nat
  BY <1>1 DEF TypeOK, Row
<1>3. batch[w] \subseteq Jobs
  BY <1>1 DEF TypeOK
<1>4. CASE Claim(w)
  <2>1. PICK lag, b, got :
          /\ lag \in Lags /\ b \in Batches(lag) /\ got \in ReadClaimed(b)
          /\ batch' = [batch EXCEPT ![w] = got]
          /\ seen' = [seen EXCEPT ![w] =
                        [j \in Jobs |-> IF j \in got THEN jobs[j].attempt_count ELSE 0]]
          /\ pc' = [pc EXCEPT ![w] = IF got = {} THEN "loop" ELSE "send"]
    BY <1>4 DEF Claim
  <2>2. got \subseteq Jobs
    BY <2>1, ClaimedAreEligible
  <2>3. batch'[w] = got /\ pc'[w] \in {"loop", "send"}
    BY <1>1, <2>1 DEF TypeOK
  <2>4. \A j \in got : seen'[w][j] = jobs[j].attempt_count
    BY <1>1, <2>1, <2>2 DEF TypeOK
  <2>5. \A j \in got : jobs[j].status # "none"
    BY <2>1, ClaimedAreEligible DEF Eligible
  <2>. QED BY <1>2, <2>2, <2>3, <2>4, <2>5 DEF GoodWorker, Grows
<1>5. CASE WorkerExit(w)
  <2>1. /\ pc'[w] = "stopped" /\ batch'[w] = batch[w] /\ seen'[w] = seen[w]
        /\ jobs' = jobs
    BY <1>1, <1>5 DEF WorkerExit, TypeOK
  <2>. QED BY <1>1, <2>1 DEF GoodWorker
<1>6. CASE ApiAccept(w)
  <2>1. /\ pc'[w] = "taken" /\ batch'[w] = batch[w] /\ seen'[w] = seen[w]
        /\ jobs' = jobs
    BY <1>1, <1>6 DEF ApiAccept, TypeOK
  <2>2. \A j \in batch[w] : accepted'[j] > 0
    BY <1>2, <1>3, <1>6 DEF ApiAccept
  <2>. QED BY <1>1, <2>1, <2>2 DEF GoodWorker
<1>7. CASE SendSucceeds(w)
  <2>1. /\ pc[w] = "taken" /\ pc'[w] = "markSent" /\ batch'[w] = batch[w] /\ seen'[w] = seen[w]
        /\ jobs' = jobs /\ accepted' = accepted
    BY <1>1, <1>7 DEF SendSucceeds, TypeOK
  <2>. QED BY <1>1, <2>1 DEF GoodWorker
<1>8. CASE SendFails(w)
  <2>1. PICK c \in FailureCodes(w) :
          /\ code' = [code EXCEPT ![w] = c]
          /\ pc' = [pc EXCEPT ![w] =
                      IF ClassifyFailure(c) = "retry" /\ RetryJobs(w) # {}
                      THEN "markRetry" ELSE "markDLQ"]
    BY <1>8 DEF SendFails
  <2>2. batch'[w] = batch[w] /\ seen'[w] = seen[w] /\ jobs' = jobs
    BY <1>8 DEF SendFails
  <2>3. code'[w] = c
    BY <1>1, <2>1 DEF TypeOK
  <2>4. pc'[w] \in {"markRetry", "markDLQ"}
    BY <1>1, <2>1 DEF TypeOK
  <2>5. ASSUME pc'[w] = "markDLQ", NEW j \in batch[w], ClassifyFailure(c) # "dlq"
        PROVE  seen[w][j] + 1 >= RetryMaxAttempts
    <3>1. ClassifyFailure(c) = "retry"
      BY <2>5 DEF ClassifyFailure
    <3>2. RetryJobs(w) = {}
      BY <1>1, <2>1, <2>5, <3>1 DEF TypeOK
    <3>. QED BY <2>5, <3>2 DEF RetryJobs, Exhausted
  <2>. QED BY <1>1, <2>2, <2>3, <2>4, <2>5 DEF GoodWorker
<1>9. CASE WorkerMarkSent(w) \/ WorkerMarkDLQ(w) \/ MarkFails(w)
  <2>1. pc'[w] = "loop" /\ batch'[w] = {}
    BY <1>1, <1>9 DEF WorkerMarkSent, WorkerMarkDLQ, MarkFails, BackToLoop, TypeOK
  <2>. QED BY <2>1 DEF GoodWorker
<1>10. CASE WorkerMarkRetry(w)
  <2>1. CASE RetryJobs(w) = batch[w]
    <3>1. pc'[w] = "loop" /\ batch'[w] = {}
      BY <1>1, <1>10, <2>1 DEF WorkerMarkRetry, BackToLoop, TypeOK
    <3>. QED BY <3>1 DEF GoodWorker
  <2>2. CASE RetryJobs(w) # batch[w]
    <3>1. /\ pc'[w] = "markDLQ" /\ batch'[w] = batch[w] \ RetryJobs(w)
          /\ seen' = seen /\ code' = code
      BY <1>1, <1>10, <2>2 DEF WorkerMarkRetry, TypeOK
    <3>2. \A j \in batch'[w] : seen[w][j] + 1 >= RetryMaxAttempts
      BY <3>1 DEF RetryJobs, Exhausted
    <3>3. \A j \in batch'[w] : seen[w][j] <= jobs'[j].attempt_count /\ jobs'[j].status # "none"
      BY <1>1, <1>2, <1>3, <3>1 DEF GoodWorker, Grows
    <3>. QED BY <3>1, <3>2, <3>3 DEF GoodWorker
  <2>. QED BY <2>1, <2>2
<1>. QED BY <1>4, <1>5, <1>6, <1>7, <1>8, <1>9, <1>10 DEF WorkerStep

\* Every step keeps every worker right about its batch.
LEMMA StepWorkers ==
  ASSUME SafetyInv, TypeOK', [Next]_vars, NEW v \in Workers
  PROVE  GoodWorker(v)'
<1>. USE DEF worker, history
<1>1. TypeOK /\ GoodWorker(v)
  BY SafetyByPart
<1>2. \A j \in Jobs : Grows(j)
  BY StepRows
<1>3. ASSUME NEW w \in Workers, WorkerStep(w) PROVE GoodWorker(v)'
  <2>1. CASE w = v
    BY <1>2, <1>3, <2>1, ActingWorker
  <2>2. CASE w # v
    <3>1. /\ pc'[v] = pc[v] /\ batch'[v] = batch[v]
          /\ seen'[v] = seen[v] /\ code'[v] = code[v]
      BY <1>1, <1>3, <2>2 DEF WorkerStep, Claim, WorkerExit, ApiAccept, SendSucceeds, SendFails,
           WorkerMarkSent, WorkerMarkRetry, WorkerMarkDLQ, MarkFails, BackToLoop, TypeOK
    <3>. QED BY <1>1, <1>2, <3>1, WorkerUntouched
  <2>. QED BY <2>1, <2>2
<1>4. CASE Start
  <2>1. pc'[v] = "loop" /\ batch' = batch /\ seen' = seen
    BY <1>4 DEF Start
  <2>2. \A j \in batch[v] : j \in Jobs /\ seen[v][j] \in Nat
                           /\ jobs[j].attempt_count \in Nat /\ jobs'[j].attempt_count \in Nat
    BY <1>1 DEF TypeOK, Row
  <2>. QED BY <1>1, <1>2, <2>1, <2>2 DEF GoodWorker, Grows
<1>5. CASE Crash
  BY <1>5 DEF Crash, GoodWorker
<1>6. CASE RequeueStaleLoop \/ Signal \/ Exit \/ Enqueue \/ DlqReplay \/ QueueRetryNow \/ Tick
           \/ UNCHANGED vars
  <2>1. /\ pc'[v] = pc[v] /\ batch'[v] = batch[v]
        /\ seen'[v] = seen[v] /\ code'[v] = code[v]
    BY <1>6 DEF RequeueStaleLoop, Signal, Exit, Enqueue, DlqReplay, QueueRetryNow, Tick, vars, dvars
  <2>. QED BY <1>1, <1>2, <2>1, WorkerUntouched
<1>. QED BY <1>3, <1>4, <1>5, <1>6 DEF Next

\* The strengthening holds in every reachable state.
THEOREM SafetyInvariant == Spec => []SafetyInv
<1>1. Init => SafetyInv
  <2>1. SUFFICES ASSUME Init PROVE SafetyInv
    OBVIOUS
  <2>2. \A j \in Jobs : GoodRow(j)
    BY <2>1 DEF Init, StoreInit, NoRow, GoodRow
  <2>3. \A w \in Workers : GoodWorker(w)
    BY <2>1 DEF Init, DispatcherInit, GoodWorker
  <2>. QED BY <2>1, <2>2, <2>3, TypeInit, SafetyByPart
<1>2. SafetyInv /\ [Next]_vars => SafetyInv'
  <2>1. SUFFICES ASSUME SafetyInv, [Next]_vars PROVE SafetyInv'
    OBVIOUS
  <2>2. TypeOK'
    BY <2>1, TypeStep DEF SafetyInv
  <2>3. \A j \in Jobs : GoodRow(j)'
    BY <2>1, <2>2, StepRows
  <2>4. \A w \in Workers : GoodWorker(w)'
    BY <2>1, <2>2, StepWorkers
  <2>. QED BY <2>2, <2>3, <2>4
           DEF SafetyInv, AbsentUnattempted, SuccessIsReal, SeenBehind, HeldInserted, DlqDecided, LeaseRecorded,
               SentMeansAccepted, DlqJustified, GoodRow, GoodWorker, Exhausted
<1>. QED BY <1>1, <1>2, PTL DEF Spec

\* No recipient is recorded as sent that MailerSend never took, for any number
\* of workers, faults and overrunning leases.
THEOREM SentOnlyIfAccepted == Spec => []SentMeansAccepted
<1>1. SafetyInv => SentMeansAccepted
  BY DEF SafetyInv
<1>. QED BY <1>1, SafetyInvariant, PTL

\* A recipient is in the dead-letter queue only for a permanent refusal or
\* after RETRY_MAX_ATTEMPTS attempts, although the decision is taken from a
\* count that may be stale.
THEOREM DlqOnlyIfJustified == Spec => []DlqJustified
<1>1. SafetyInv => DlqJustified
  BY DEF SafetyInv
<1>. QED BY <1>1, SafetyInvariant, PTL

\* A row has a lease start exactly while it is processing, so the stale requeue
\* can reach every abandoned row.
THEOREM LeaseAlwaysRecorded == Spec => []LeaseRecorded
<1>1. SafetyInv => LeaseRecorded
  BY DEF SafetyInv
<1>. QED BY <1>1, SafetyInvariant, PTL

-----------------------------------------------------------------------------
(* Settled rows *)

\* What a single step may do to a settled row.
Settled(j) ==
  /\ jobs[j].status = "sent" => jobs'[j].status = "sent"
  /\ jobs[j].status = "dlq" /\ jobs'[j].status # "dlq" => used'["replay"] = used["replay"] + 1

\* The status guards of the statements leave settled rows alone, except for a
\* replay.
LEMMA StepSettled ==
  ASSUME TypeOK, [Next]_vars, NEW j \in Jobs
  PROVE  Settled(j)
<1>. USE DEF worker, history
<1>0. jobs \in [Jobs -> Row]
  BY DEF TypeOK
<1>1. ASSUME NEW w \in Workers, WorkerStep(w) PROVE Settled(j)
  <2>1. CASE Claim(w)
    <3>1. PICK lag, b, got :
            /\ lag \in Lags /\ b \in Batches(lag) /\ got \in ReadClaimed(b)
            /\ ClaimRows(b, lag)
      BY <2>1 DEF Claim
    <3>2. b \subseteq Eligible(lag)
      BY <3>1, ClaimedAreEligible
    <3>. QED BY <1>0, <3>1, <3>2, ClaimEffect DEF Settled
  <2>2. CASE WorkerExit(w) \/ ApiAccept(w) \/ SendSucceeds(w) \/ SendFails(w) \/ MarkFails(w)
    BY <2>2 DEF WorkerExit, ApiAccept, SendSucceeds, SendFails, MarkFails, Settled
  <2>3. CASE WorkerMarkSent(w)
    BY <1>0, <2>3, MarkSentEffect DEF WorkerMarkSent, Settled
  <2>4. CASE WorkerMarkRetry(w)
    BY <1>0, <2>4, MarkRetryEffect DEF WorkerMarkRetry, Settled
  <2>5. CASE WorkerMarkDLQ(w)
    BY <1>0, <2>5, MarkDLQEffect DEF WorkerMarkDLQ, Settled
  <2>. QED BY <1>1, <2>1, <2>2, <2>3, <2>4, <2>5 DEF WorkerStep
<1>2. ASSUME \E lag \in Lags : RequeueStaleProcessing(lag) PROVE Settled(j)
  BY <1>0, <1>2, RequeueStaleEffect DEF Settled
<1>3. CASE RequeueStaleLoop \/ Start
  BY <1>2, <1>3 DEF RequeueStaleLoop, Start, Settled
<1>4. CASE Signal \/ Exit \/ Crash \/ UNCHANGED vars
  BY <1>4 DEF Signal, Exit, Crash, vars, dvars, Settled
<1>5. CASE Enqueue
  BY <1>0, <1>5, EnqueueEffect DEF Enqueue, Settled
<1>6. CASE DlqReplay
  <2>1. used'["replay"] = used["replay"] + 1
    BY <1>6 DEF DlqReplay, Spend, TypeOK, Faults
  <2>2. PICK js \in SUBSET Jobs, lag \in Lags : RequeueDLQIDs(js, lag)
    BY <1>6 DEF DlqReplay
  <2>. QED BY <1>0, <2>1, <2>2, ReplayEffect DEF Settled
<1>7. CASE QueueRetryNow
  BY <1>0, <1>7, RetryNowEffect DEF QueueRetryNow, Settled, Moved
<1>8. CASE Tick
  BY <1>0, <1>8, AgeEffect DEF Tick, Settled, Moved
<1>. QED BY <1>1, <1>3, <1>4, <1>5, <1>6, <1>7, <1>8 DEF Next

\* A row that is sent stays sent, and only an operator's replay takes one out
\* of the dead-letter queue, whatever late workers write.
THEOREM SettledForGood == Spec => SettledStaysSettled
<1>1. TypeOK /\ [Next]_vars =>
        [\A j \in Jobs :
           /\ jobs[j].status = "sent" => jobs'[j].status = "sent"
           /\ jobs[j].status = "dlq" /\ jobs'[j].status # "dlq"
                => used'["replay"] = used["replay"] + 1]_vars
  BY StepSettled DEF Settled
<1>. QED BY <1>1, TypeCorrect, PTL DEF Spec, SettledStaysSettled

-----------------------------------------------------------------------------
(* The relay implements Delivery *)

\* A step that keeps every stage and every acceptance is a stutter of Delivery.
LEMMA Stutter ==
  ASSUME \A j \in Jobs : Stage(j)' = Stage(j), accepted' = accepted
  PROVE  UNCHANGED <<stages, accepted>>
BY DEF stages

\* A step that moves exactly the jobs S from one stage to another.
LEMMA MoveStages ==
  ASSUME NEW S \in SUBSET Jobs, NEW from, NEW to,
         \A j \in S : Stage(j) = from /\ Stage(j)' = to,
         \A j \in Jobs \ S : Stage(j)' = Stage(j),
         accepted' = accepted
  PROVE  Promise!Move(S, from, to)
BY DEF stages, Promise!Move

\* Each step of a worker is a step of Delivery or a stutter.
LEMMA WorkerStepPromise ==
  ASSUME SafetyInv, NEW w \in Workers, WorkerStep(w)
  PROVE  Promise!Next \/ UNCHANGED <<stages, accepted>>
<1>. USE DEF history
<1>1. TypeOK /\ GoodWorker(w)
  BY SafetyByPart
<1>2. jobs \in [Jobs -> Row] /\ batch[w] \subseteq Jobs /\ accepted \in [Jobs -> Nat]
  BY <1>1 DEF TypeOK
<1>3. CASE Claim(w)
  <2>1. PICK lag, b, got :
          /\ lag \in Lags /\ b \in Batches(lag) /\ got \in ReadClaimed(b)
          /\ ClaimRows(b, lag)
    BY <1>3 DEF Claim
  <2>2. b \subseteq Eligible(lag)
    BY <2>1, ClaimedAreEligible
  <2>3. \A j \in Jobs : Stage(j)' = Stage(j)
    BY <1>2, <2>1, <2>2, ClaimEffect DEF Stage, Moved
  <2>. QED BY <1>3, <2>3, Stutter DEF Claim
<1>4. CASE WorkerExit(w) \/ SendSucceeds(w) \/ SendFails(w) \/ MarkFails(w)
  <2>1. jobs' = jobs /\ accepted' = accepted
    BY <1>4 DEF WorkerExit, SendSucceeds, SendFails, MarkFails
  <2>. QED BY <2>1, Stutter DEF Stage
<1>5. CASE ApiAccept(w)
  <2>1. \A j \in batch[w] : stages[j] # "absent"
    BY <1>1, <1>2 DEF GoodWorker, stages, Stage
  <2>2. accepted' = [j \in Jobs |-> IF j \in batch[w] THEN accepted[j] + 1 ELSE accepted[j]]
    BY <1>2, <1>5 DEF ApiAccept
  <2>3. stages' = stages
    BY <1>5 DEF ApiAccept, stages, Stage
  <2>4. Promise!Take(batch[w])
    BY <2>1, <2>2, <2>3 DEF Promise!Take
  <2>. QED BY <1>2, <2>4 DEF Promise!Next
<1>6. CASE WorkerMarkSent(w)
  <2>. DEFINE S == Processing(batch[w])
  <2>1. MarkSent(batch[w]) /\ accepted' = accepted
    BY <1>6 DEF WorkerMarkSent
  <2>2. S \in SUBSET Jobs
    BY <1>2 DEF Processing
  <2>3. \A j \in S : accepted[j] > 0
    BY <1>1, <1>6 DEF WorkerMarkSent, GoodWorker, Processing
  <2>4. \A j \in S : Stage(j) = "pending" /\ Stage(j)' = "sent"
    BY <1>2, <2>1, MarkSentEffect DEF Processing, Stage, Moved
  <2>5. \A j \in Jobs \ S : Stage(j)' = Stage(j)
    BY <1>2, <2>1, MarkSentEffect DEF Processing, Stage
  <2>. HIDE DEF S
  <2>6. Promise!Record(S)
    BY <2>1, <2>2, <2>3, <2>4, <2>5, MoveStages DEF Promise!Record
  <2>. QED BY <2>2, <2>6 DEF Promise!Next
<1>7. CASE WorkerMarkRetry(w)
  <2>1. PICK d \in BatchBackoff(w), lag \in Lags : MarkRetry(RetryJobs(w), d - lag, code[w])
    BY <1>7 DEF WorkerMarkRetry
  <2>2. \A j \in Jobs : Stage(j)' = Stage(j)
    BY <1>2, <2>1, MarkRetryEffect DEF Stage, Moved
  <2>. QED BY <1>7, <2>2, Stutter DEF WorkerMarkRetry
<1>8. CASE WorkerMarkDLQ(w)
  <2>. DEFINE S == Processing(batch[w])
  <2>1. MarkDLQ(batch[w], code[w]) /\ accepted' = accepted
    BY <1>8 DEF WorkerMarkDLQ
  <2>2. S \in SUBSET Jobs
    BY <1>2 DEF Processing
  <2>3. \A j \in S : Stage(j) = "pending" /\ Stage(j)' = "dead"
    BY <1>2, <2>1, MarkDLQEffect DEF Processing, Stage, Moved
  <2>4. \A j \in Jobs \ S : Stage(j)' = Stage(j)
    BY <1>2, <2>1, MarkDLQEffect DEF Processing, Stage
  <2>. HIDE DEF S
  <2>5. Promise!Bury(S)
    BY <2>1, <2>2, <2>3, <2>4, MoveStages DEF Promise!Bury
  <2>. QED BY <2>2, <2>5 DEF Promise!Next
<1>. QED BY <1>3, <1>4, <1>5, <1>6, <1>7, <1>8 DEF WorkerStep

\* So is every other step.
LEMMA StepPromise ==
  ASSUME SafetyInv, [Next]_vars
  PROVE  Promise!Next \/ UNCHANGED <<stages, accepted>>
<1>. USE DEF worker, history
<1>1. jobs \in [Jobs -> Row]
  BY DEF SafetyInv, TypeOK
<1>2. ASSUME NEW w \in Workers, WorkerStep(w)
      PROVE  Promise!Next \/ UNCHANGED <<stages, accepted>>
  BY <1>2, WorkerStepPromise
<1>3. CASE RequeueStaleLoop \/ Start
  <2>1. (\E lag \in Lags : RequeueStaleProcessing(lag)) \/ jobs' = jobs
    BY <1>3 DEF RequeueStaleLoop, Start
  <2>2. \A j \in Jobs : Stage(j)' = Stage(j)
    BY <1>1, <2>1, RequeueStaleEffect DEF Stage, Moved
  <2>. QED BY <1>3, <2>2, Stutter DEF RequeueStaleLoop, Start
<1>4. CASE Signal \/ Exit \/ Crash \/ UNCHANGED vars
  <2>1. jobs' = jobs /\ accepted' = accepted
    BY <1>4 DEF Signal, Exit, Crash, vars, dvars
  <2>. QED BY <2>1, Stutter DEF Stage
<1>5. CASE Enqueue
  <2>1. PICK m \in Messages, lag \in Lags : EnqueueTx(m, lag)
    BY <1>5 DEF Enqueue
  <2>2. \A j \in RowsOf(m) : Stage(j) = "absent" /\ Stage(j)' = "pending"
    <3>1. SUFFICES ASSUME NEW j \in RowsOf(m) PROVE Stage(j) = "absent" /\ Stage(j)' = "pending"
      OBVIOUS
    <3>2. jobs[j].status = "none" /\ j \in Jobs
      BY <2>1 DEF EnqueueTx, RowsOf
    <3>3. jobs'[j].status = "queued"
      BY <2>1, <3>2 DEF EnqueueTx, NoRow
    <3>. QED BY <3>2, <3>3 DEF Stage
  <2>3. \A j \in Jobs \ RowsOf(m) : Stage(j)' = Stage(j)
    BY <2>1 DEF EnqueueTx, Stage
  <2>4. RowsOf(m) \in SUBSET Jobs
    BY DEF RowsOf
  <2>5. Promise!Submit(RowsOf(m))
    BY <1>5, <2>2, <2>3, <2>4, MoveStages DEF Enqueue, Promise!Submit
  <2>. QED BY <2>4, <2>5 DEF Promise!Next
<1>6. CASE DlqReplay
  <2>1. PICK js \in SUBSET Jobs, lag \in Lags : RequeueDLQIDs(js, lag)
    BY <1>6 DEF DlqReplay
  <2>. DEFINE S == {j \in js : jobs[j].status = "dlq"}
  <2>2. S \in SUBSET Jobs
    OBVIOUS
  <2>3. \A j \in S : Stage(j) = "dead" /\ Stage(j)' = "pending"
    <3>1. SUFFICES ASSUME NEW j \in S PROVE Stage(j) = "dead" /\ Stage(j)' = "pending"
      OBVIOUS
    <3>2. jobs'[j].status = "retry"
      BY <1>1, <2>1 DEF RequeueDLQIDs, Row
    <3>. QED BY <3>2 DEF Stage
  <2>4. \A j \in Jobs \ S : Stage(j)' = Stage(j)
    BY <2>1 DEF RequeueDLQIDs, Stage
  <2>. HIDE DEF S
  <2>5. Promise!Replay(S)
    BY <1>6, <2>2, <2>3, <2>4, MoveStages DEF DlqReplay, Promise!Replay
  <2>. QED BY <2>2, <2>5 DEF Promise!Next
<1>7. CASE QueueRetryNow
  <2>1. \A j \in Jobs : Stage(j)' = Stage(j)
    BY <1>1, <1>7, RetryNowEffect DEF QueueRetryNow, Stage, Moved
  <2>. QED BY <1>7, <2>1, Stutter DEF QueueRetryNow
<1>8. CASE Tick
  <2>1. \A j \in Jobs : Stage(j)' = Stage(j)
    BY <1>1, <1>8, AgeEffect DEF Tick, Stage, Moved
  <2>. QED BY <1>8, <2>1, Stutter DEF Tick
<1>. QED BY <1>2, <1>3, <1>4, <1>5, <1>6, <1>7, <1>8 DEF Next

\* The relay, with any number of workers and faults and with overrunning
\* leases, implements at-least-once delivery.
THEOREM RelayImplementsDelivery == Spec => ImplementsDelivery
<1>1. Init => Promise!Init
  BY DEF Init, StoreInit, DispatcherInit, NoRow, Promise!Init, stages, Stage
<1>2. SafetyInv /\ [Next]_vars => [Promise!Next]_<<stages, accepted>>
  BY StepPromise
<1>. QED BY <1>1, <1>2, SafetyInvariant, PTL DEF Spec, ImplementsDelivery, Promise!Spec

-----------------------------------------------------------------------------
(* Batches *)

\* Only a claim gives a worker rows it did not have.
LEMMA BatchChange ==
  ASSUME TypeOK, [Next]_vars, NEW w \in Workers
  PROVE  Claim(w) \/ batch'[w] \in SUBSET batch[w]
<1>. USE DEF worker, dvars
<1>1. ASSUME NEW v \in Workers, WorkerStep(v), ~Claim(w)
      PROVE  batch'[w] \in SUBSET batch[w]
  <2>1. CASE Claim(v)
    <3>1. v # w
      BY <1>1, <2>1
    <3>. QED BY <2>1, <3>1 DEF Claim, TypeOK
  <2>2. CASE WorkerExit(v) \/ ApiAccept(v) \/ SendSucceeds(v) \/ SendFails(v)
    BY <2>2 DEF WorkerExit, ApiAccept, SendSucceeds, SendFails
  <2>3. CASE WorkerMarkSent(v) \/ WorkerMarkRetry(v) \/ WorkerMarkDLQ(v) \/ MarkFails(v)
    BY <2>3 DEF WorkerMarkSent, WorkerMarkRetry, WorkerMarkDLQ, MarkFails, BackToLoop, TypeOK
  <2>. QED BY <1>1, <2>1, <2>2, <2>3 DEF WorkerStep
<1>2. CASE Crash
  BY <1>2 DEF Crash
<1>3. CASE RequeueStaleLoop \/ Start \/ Signal \/ Exit
  BY <1>3 DEF RequeueStaleLoop, Start, Signal, Exit
<1>4. CASE Enqueue \/ DlqReplay \/ QueueRetryNow \/ Tick
  BY <1>4 DEF Enqueue, DlqReplay, QueueRetryNow, Tick
<1>5. CASE UNCHANGED vars
  BY <1>5 DEF vars
<1>. QED BY <1>1, <1>2, <1>3, <1>4, <1>5 DEF Next

\* A claim takes a batch, and the worker has what was read of it.
LEMMA ClaimTakes ==
  ASSUME NEW w \in Workers, TypeOK, Claim(w)
  PROVE  \E lag \in Lags : \E b \in Batches(lag) :
           batch'[w] \in SUBSET b /\ ClaimRows(b, lag)
<1>1. PICK lag, b, got :
        /\ lag \in Lags /\ b \in Batches(lag) /\ got \in ReadClaimed(b)
        /\ ClaimRows(b, lag)
        /\ batch' = [batch EXCEPT ![w] = got]
  BY DEF Claim
<1>2. batch'[w] = got /\ got \in SUBSET b
  BY <1>1, ClaimedAreEligible DEF TypeOK
<1>. QED BY <1>1, <1>2

\* Every request, whatever claims, partial reads and half-recorded outcomes came
\* before, keeps the limits on rows and bytes, unless it is a single row.
THEOREM BatchesWithinLimits == Spec => []BatchWithinLimits
<1>1. Init => BatchWithinLimits
  <2>. SUFFICES ASSUME Init, NEW w \in Workers PROVE Fits(batch[w])
    BY DEF BatchWithinLimits, Fits, Sizes
  <2>1. batch[w] = {} /\ Cardinality({}) = 0
    BY FS_EmptySet DEF Init, DispatcherInit
  <2>. QED BY <2>1, LimitsAssumption DEF Fits
<1>2. TypeOK /\ BatchWithinLimits /\ [Next]_vars => BatchWithinLimits'
  <2>. SUFFICES ASSUME TypeOK, BatchWithinLimits, [Next]_vars, NEW w \in Workers
                PROVE  Fits(batch'[w])
    BY DEF BatchWithinLimits, Fits, Sizes
  <2>1. batch[w] \in SUBSET Jobs /\ Fits(batch[w])
    BY DEF TypeOK, BatchWithinLimits, Fits, Sizes
  <2>2. CASE Claim(w)
    <3>1. PICK lag, b : lag \in Lags /\ b \in Batches(lag) /\ batch'[w] \in SUBSET b
      BY <2>2, ClaimTakes
    <3>2. b \in SUBSET Jobs
      BY <3>1, BatchesEligible DEF Eligible
    <3>. QED BY <3>1, <3>2, BatchFits, FitsSubset
  <2>3. CASE batch'[w] \in SUBSET batch[w]
    BY <2>1, <2>3, FitsSubset
  <2>. QED BY <2>2, <2>3, BatchChange
<1>. QED BY <1>1, <1>2, TypeCorrect, PTL DEF Spec

\* One step never lets a row overtake an older one.
LEMMA StepOldest ==
  ASSUME TypeOK, [Next]_vars, NEW w \in Workers, NEW j \in batch'[w] \ batch[w],
         NEW k \in Eligible(MaxTxLag), jobs'[k].status # "processing"
  PROVE  Created[j] <= Created[k]
<1>1. Claim(w)
  BY BatchChange
<1>2. PICK lag, b : /\ lag \in Lags /\ b \in Batches(lag)
                   /\ batch'[w] \in SUBSET b /\ ClaimRows(b, lag)
  BY <1>1, ClaimTakes
<1>3. k \in Eligible(lag)
  <2>1. jobs[k].next_attempt_at \in Int
    BY DEF TypeOK, Row, Eligible
  <2>2. lag \in Nat /\ lag <= MaxTxLag /\ MaxTxLag \in Nat
    BY <1>2, LeaseAssumption DEF Lags
  <2>. QED BY <2>1, <2>2 DEF Eligible
<1>4. k \notin b
  <2>. SUFFICES ASSUME k \in b PROVE FALSE
    OBVIOUS
  <2>1. jobs'[k].status = "processing"
    BY <1>2 DEF ClaimRows, Eligible, TypeOK, Row
  <2>. QED BY <2>1
<1>. QED BY <1>2, <1>3, <1>4, BatchOldest

\* No row is taken before an older one that is due, in any behaviour.
THEOREM OldestRowsFirst == Spec => OldestFirst
<1>1. TypeOK /\ [Next]_vars =>
        [\A w \in Workers : \A j \in batch'[w] \ batch[w] : \A k \in Eligible(MaxTxLag) :
           jobs'[k].status # "processing" => Created[j] <= Created[k]]_vars
  BY StepOldest
<1>. QED BY <1>1, TypeCorrect, PTL DEF Spec, OldestFirst
=============================================================================
