---------------------------- MODULE LeaseProofs -----------------------------
(***************************************************************************)
(* Proofs of what the lease is for: while no worker outlives it, a claim   *)
(* has one owner, duplicates come only from lost answers, and the attempts *)
(* are bounded.  The three hold together or not at all, so they are proved *)
(* as one inductive invariant.                                             *)
(***************************************************************************)
EXTENDS RelayProofs

\* Some worker has had job j taken by the API and has not recorded it.
Carried(j) == \E w \in Workers : pc[w] \in {"taken", "markSent"} /\ j \in batch[w]

\* A claimed row is the claimer's own: valid, unchanged since the claim, and in
\* nobody else's batch.
OwnRow(w, j) ==
  /\ jobs[j].status = "processing"
  /\ jobs[j].processing_started_at <= LeaseTimeout
  /\ jobs[j].attempt_count = seen[w][j]
  /\ \A v \in Workers \ {w} : j \notin batch[v]

\* A row that can still be tried has not used up its attempts, except for those
\* an operator's replays have given back.
AttemptsLeft(j) ==
  /\ jobs[j].attempt_count <= RetryMaxAttempts + used["replay"]
  /\ jobs[j].status \notin {"sent", "dlq"} =>
       jobs[j].attempt_count < RetryMaxAttempts + used["replay"]

\* Every acceptance is in doubt, except for one that is being recorded or is
\* recorded as sent.
Accounted(j) ==
  /\ accepted[j] <= doubt[j] + 1
  /\ jobs[j].status # "sent" /\ ~Carried(j) => accepted[j] <= doubt[j]

Owned == \A w \in Workers : \A j \in batch[w] : OwnRow(w, j)

\* A relay that is down has no worker in the middle of anything.
StoppedWhenDown == proc = "down" => \A w \in Workers : pc[w] = "stopped"

PromptInv ==
  /\ TypeOK
  /\ StoppedWhenDown
  /\ Prompt => /\ Owned
               /\ \A j \in Jobs : AttemptsLeft(j)
               /\ \A j \in Jobs : Accounted(j)

-----------------------------------------------------------------------------
(* Ownership *)

\* A step spends faults and never takes one back.
LEMMA UsedGrows ==
  ASSUME TypeOK, [Next]_vars, NEW f \in Faults
  PROVE  used'[f] >= used[f]
<1>1. used \in [Faults -> Nat]
  BY DEF TypeOK
<1>2. CASE UNCHANGED used
  BY <1>1, <1>2
<1>3. ASSUME NEW g \in Faults, Spend(g) PROVE used'[f] >= used[f]
  BY <1>1, <1>3 DEF Spend
<1>4. (UNCHANGED used) \/ \E g \in Faults : Spend(g)
  BY DEF Next, WorkerStep, Claim, WorkerExit, ApiAccept, SendSucceeds, SendFails, WorkerMarkSent,
         WorkerMarkRetry, WorkerMarkDLQ, MarkFails, RequeueStaleLoop, Start, Signal, Exit, Crash,
         Enqueue, DlqReplay, QueueRetryNow, Tick, vars, dvars, Faults
<1>. QED BY <1>2, <1>3, <1>4

\* An owned row stays owned when its lease fields stay and no batch grows.
LEMMA OwnRowKept ==
  ASSUME NEW w \in Workers, NEW j \in Jobs, OwnRow(w, j),
         jobs'[j].status = "processing",
         jobs'[j].processing_started_at <= LeaseTimeout,
         jobs'[j].attempt_count = jobs[j].attempt_count,
         seen'[w][j] = seen[w][j],
         \A v \in Workers : batch'[v] \subseteq batch[v]
  PROVE  OwnRow(w, j)'
BY DEF OwnRow

\* A claim takes rows that nobody owns, and its lease has not run out when it
\* commits, however old the clock it was given.
LEMMA ClaimOwned ==
  ASSUME MaxTxLag <= LeaseTimeout, TypeOK, Owned, NEW w \in Workers, Claim(w)
  PROVE  Owned'
<1>0. Claim(w)
  OBVIOUS
<1>1. PICK lag, b, got :
        /\ lag \in Lags /\ b \in Batches(lag) /\ got \in ReadClaimed(b)
        /\ ClaimRows(b, lag)
        /\ batch' = [batch EXCEPT ![w] = got]
        /\ seen' = [seen EXCEPT ![w] =
                      [j \in Jobs |-> IF j \in got THEN jobs[j].attempt_count ELSE 0]]
        /\ pc' = [pc EXCEPT ![w] = IF got = {} THEN "loop" ELSE "send"]
  BY <1>0 DEF Claim
<1>2. got \subseteq b /\ b \subseteq Eligible(lag) /\ b \subseteq Jobs
  BY <1>1, ClaimedAreEligible
<1>3. /\ jobs \in [Jobs -> Row]
      /\ batch \in [Workers -> SUBSET Jobs]
      /\ seen \in [Workers -> [Jobs -> Nat]]
  BY DEF TypeOK
<1>4. \A v \in Workers : \A j \in batch[v] : j \notin b
  BY <1>2 DEF Owned, OwnRow, Eligible
<1>5. SUFFICES ASSUME NEW v \in Workers, NEW j \in batch'[v] PROVE OwnRow(v, j)'
  BY DEF Owned
<1>6. CASE v = w
  <2>1. j \in got /\ j \in Jobs
    BY <1>1, <1>2, <1>3, <1>5, <1>6
  <2>2. Moved(j, "processing", jobs[j].attempt_count, lag, jobs[j].last_http_status)
    BY <1>1, <1>2, <1>3, <2>1, ClaimEffect
  <2>3. lag <= LeaseTimeout
    BY <1>1, ConstantFacts DEF Lags, ConstantsOK, StoreConstantsOK
  <2>4. seen'[v][j] = jobs[j].attempt_count
    BY <1>1, <1>3, <1>6, <2>1
  <2>5. \A u \in Workers \ {v} : j \notin batch'[u]
    BY <1>1, <1>2, <1>3, <1>4, <1>6, <2>1
  <2>. QED BY <2>2, <2>3, <2>4, <2>5 DEF OwnRow, Moved
<1>7. CASE v # w
  <2>1. j \in batch[v] /\ j \in Jobs /\ j \notin b
    BY <1>1, <1>3, <1>4, <1>5, <1>7
  <2>2. jobs'[j] = jobs[j]
    BY <1>1, <1>2, <1>3, <2>1, ClaimEffect
  <2>3. OwnRow(v, j)
    BY <2>1 DEF Owned
  <2>4. seen'[v] = seen[v]
    BY <1>1, <1>3, <1>7
  <2>5. \A u \in Workers \ {v} : j \notin batch'[u]
    BY <1>1, <1>2, <1>3, <2>1, <2>3 DEF OwnRow
  <2>. QED BY <2>2, <2>3, <2>4, <2>5 DEF OwnRow
<1>. QED BY <1>6, <1>7

\* A worker's other steps write no row but its own.
LEMMA WorkerOwned ==
  ASSUME MaxTxLag <= LeaseTimeout, TypeOK, Owned, NEW w \in Workers, WorkerStep(w)
  PROVE  Owned'
<1>. USE DEF history
<1>1. /\ jobs \in [Jobs -> Row]
      /\ batch \in [Workers -> SUBSET Jobs]
      /\ seen \in [Workers -> [Jobs -> Nat]]
  BY DEF TypeOK
<1>2. CASE Claim(w)
  BY <1>2, ClaimOwned
<1>3. CASE WorkerExit(w) \/ ApiAccept(w) \/ SendSucceeds(w) \/ SendFails(w)
  <2>1. jobs' = jobs /\ batch' = batch /\ seen' = seen
    BY <1>3 DEF WorkerExit, ApiAccept, SendSucceeds, SendFails
  <2>. QED BY <2>1 DEF Owned, OwnRow
<1>4. CASE WorkerMarkSent(w) \/ WorkerMarkDLQ(w) \/ MarkFails(w)
  <2>1. SUFFICES ASSUME NEW v \in Workers, NEW j \in batch'[v] PROVE OwnRow(v, j)'
    BY DEF Owned
  <2>2. BackToLoop(w)
    BY <1>4 DEF WorkerMarkSent, WorkerMarkDLQ, MarkFails
  <2>3. /\ v # w /\ j \in batch[v] /\ seen'[v] = seen[v]
        /\ \A u \in Workers : batch'[u] \subseteq batch[u]
    BY <1>1, <2>1, <2>2 DEF BackToLoop
  <2>4. OwnRow(v, j) /\ j \in Jobs /\ j \notin batch[w]
    BY <1>1, <2>3 DEF Owned, OwnRow
  <2>5. jobs'[j] = jobs[j]
    BY <1>1, <1>4, <2>4, MarkSentEffect, MarkDLQEffect DEF WorkerMarkSent, WorkerMarkDLQ, MarkFails
  <2>. QED BY <2>3, <2>4, <2>5, OwnRowKept DEF OwnRow
<1>5. CASE WorkerMarkRetry(w)
  <2>1. SUFFICES ASSUME NEW v \in Workers, NEW j \in batch'[v] PROVE OwnRow(v, j)'
    BY DEF Owned
  <2>2. PICK d \in BatchBackoff(w), lag \in Lags : MarkRetry(RetryJobs(w), d - lag, code[w])
    BY <1>5 DEF WorkerMarkRetry
  <2>3. /\ j \in batch[v] \ RetryJobs(w) /\ seen'[v] = seen[v]
        /\ \A u \in Workers : batch'[u] \subseteq batch[u]
    <3>1. CASE RetryJobs(w) = batch[w]
      <4>1. BackToLoop(w)
        BY <1>5, <3>1 DEF WorkerMarkRetry
      <4>2. /\ v # w /\ j \in batch[v] /\ seen'[v] = seen[v]
            /\ \A u \in Workers : batch'[u] \subseteq batch[u]
        BY <1>1, <2>1, <4>1 DEF BackToLoop
      <4>. QED BY <3>1, <4>2 DEF Owned, OwnRow
    <3>2. CASE RetryJobs(w) # batch[w]
      <4>1. batch' = [batch EXCEPT ![w] = @ \ RetryJobs(w)] /\ seen' = seen
        BY <1>5, <3>2 DEF WorkerMarkRetry
      <4>2. j \in batch[v] /\ (v = w => j \notin RetryJobs(w))
            /\ \A u \in Workers : batch'[u] \subseteq batch[u]
        BY <1>1, <2>1, <4>1
      <4>. QED BY <4>1, <4>2 DEF Owned, OwnRow, RetryJobs
    <3>. QED BY <3>1, <3>2
  <2>4. OwnRow(v, j) /\ j \in Jobs
    BY <1>1, <2>3 DEF Owned
  <2>5. jobs'[j] = jobs[j]
    BY <1>1, <2>2, <2>3, <2>4, MarkRetryEffect
  <2>. QED BY <2>3, <2>4, <2>5, OwnRowKept DEF OwnRow
<1>. QED BY <1>2, <1>3, <1>4, <1>5 DEF WorkerStep

\* Nothing else touches a claim within its lease: the requeue waits for the
\* lease, the operator's commands look at the status, and time does not pass
\* the lease of a held claim without an overrun.
LEMMA StepOwned ==
  ASSUME MaxTxLag <= LeaseTimeout, TypeOK, Owned, [Next]_vars,
         used["overrun"] = 0, used'["overrun"] = 0
  PROVE  Owned'
<1>. USE DEF worker, history
<1>1. /\ jobs \in [Jobs -> Row]
      /\ batch \in [Workers -> SUBSET Jobs]
  BY DEF TypeOK
<1>2. ASSUME NEW w \in Workers, WorkerStep(w) PROVE Owned'
  BY <1>2, WorkerOwned
<1>3. CASE Crash
  <2>1. \A w \in Workers : batch'[w] = {}
    BY <1>3 DEF Crash
  <2>. QED BY <2>1 DEF Owned
<1>4. ASSUME batch' = batch, seen' = seen,
             \A w \in Workers : \A j \in batch[w] :
               /\ jobs'[j].status = "processing"
               /\ jobs'[j].attempt_count = jobs[j].attempt_count
               /\ jobs'[j].processing_started_at <= LeaseTimeout
      PROVE  Owned'
  BY <1>4 DEF Owned, OwnRow
<1>5. \A w \in Workers : \A j \in batch[w] :
        /\ j \in Jobs
        /\ jobs[j].status = "processing"
        /\ jobs[j].processing_started_at <= LeaseTimeout
  BY <1>1 DEF Owned, OwnRow
<1>6. \A w \in Workers : \A j \in batch[w] :
        jobs[j].processing_started_at \in {NULL} \cup 0..AgeCap
  BY <1>1, <1>5 DEF Row
<1>7. CASE Signal \/ Exit \/ UNCHANGED vars
  BY <1>7 DEF Signal, Exit, vars, dvars, Owned, OwnRow
<1>8. CASE RequeueStaleLoop \/ Start
  <2>1. (\E lag \in Lags : RequeueStaleProcessing(lag)) \/ jobs' = jobs
    BY <1>8 DEF RequeueStaleLoop, Start
  <2>2. \A lag \in Lags : \A w \in Workers : \A j \in batch[w] : j \notin Stale(lag)
    BY <1>5, <1>6, ConstantFacts DEF Stale, Lags, NULL, ConstantsOK, StoreConstantsOK
  <2>3. \A w \in Workers : \A j \in batch[w] : jobs'[j] = jobs[j]
    BY <1>5, <2>1, <2>2 DEF RequeueStaleProcessing
  <2>. QED BY <1>4, <1>5, <1>8, <2>3 DEF RequeueStaleLoop, Start
<1>9. CASE Enqueue
  <2>1. \A w \in Workers : \A j \in batch[w] : jobs'[j] = jobs[j]
    BY <1>5, <1>9, EnqueueEffect DEF Enqueue
  <2>. QED BY <1>4, <1>5, <1>9, <2>1 DEF Enqueue
<1>10. CASE DlqReplay
  <2>1. PICK js \in SUBSET Jobs, lag \in Lags : RequeueDLQIDs(js, lag)
    BY <1>10 DEF DlqReplay
  <2>2. \A w \in Workers : \A j \in batch[w] : jobs'[j] = jobs[j]
    BY <1>5, <2>1 DEF RequeueDLQIDs
  <2>. QED BY <1>4, <1>5, <1>10, <2>2 DEF DlqReplay
<1>11. CASE QueueRetryNow
  <2>1. \A w \in Workers : \A j \in batch[w] : jobs'[j] = jobs[j]
    BY <1>5, <1>11 DEF QueueRetryNow, RetryNow
  <2>. QED BY <1>4, <1>5, <1>11, <2>1 DEF QueueRetryNow
<1>12. CASE Tick
  <2>1. \A w \in Workers : \A j \in Processing(batch[w]) :
          jobs[j].processing_started_at # LeaseTimeout
    <3>1. ~Spend("overrun")
      BY DEF Spend, TypeOK, Faults
    <3>. QED BY <1>12, <3>1 DEF Tick
  <2>2. SUFFICES ASSUME NEW w \in Workers, NEW j \in batch[w]
                 PROVE  /\ jobs'[j].status = "processing"
                        /\ jobs'[j].attempt_count = jobs[j].attempt_count
                        /\ jobs'[j].processing_started_at <= LeaseTimeout
    BY <1>4, <1>12 DEF Tick
  <2>3. jobs[j].processing_started_at # LeaseTimeout
    BY <1>5, <2>1 DEF Processing
  <2>4. Moved(j, jobs[j].status, jobs[j].attempt_count,
              IF jobs[j].processing_started_at \in {NULL, AgeCap}
              THEN jobs[j].processing_started_at ELSE jobs[j].processing_started_at + 1,
              jobs[j].last_http_status)
    BY <1>1, <1>5, <1>12, AgeEffect DEF Tick
  <2>. QED BY <1>5, <1>6, <2>3, <2>4, ConstantFacts DEF Moved, NULL, ConstantsOK, StoreConstantsOK
<1>. QED BY <1>2, <1>3, <1>7, <1>8, <1>9, <1>10, <1>11, <1>12 DEF Next

-----------------------------------------------------------------------------
(* Attempts *)

\* A row keeps its attempts left when the step does not count one and does not
\* revive it, or when it settles the row.
LEMMA AttemptsKept ==
  ASSUME TypeOK, TypeOK', [Next]_vars, NEW j \in Jobs, AttemptsLeft(j),
         \/ /\ jobs'[j].attempt_count = jobs[j].attempt_count
            /\ jobs'[j].status = jobs[j].status \/ jobs[j].status \notin {"sent", "dlq"}
         \/ /\ jobs'[j].attempt_count = jobs[j].attempt_count + 1
            /\ jobs[j].status = "processing" /\ jobs'[j].status \in {"sent", "dlq"}
  PROVE  AttemptsLeft(j)'
<1>1. /\ used["replay"] \in Nat /\ used'["replay"] \in Nat
      /\ jobs[j].attempt_count \in Nat
  BY DEF TypeOK, Row, Faults
<1>2. used'["replay"] >= used["replay"]
  BY UsedGrows DEF Faults
<1>3. RetryMaxAttempts \in Nat
  BY RetryAssumption
<1>. QED BY <1>1, <1>2, <1>3 DEF AttemptsLeft

\* A worker counts an attempt only on a row that has one left: the count its
\* claim read is still the row's.
LEMMA WorkerAttempts ==
  ASSUME TypeOK, TypeOK', Owned, NEW j \in Jobs, AttemptsLeft(j), NEW w \in Workers, WorkerStep(w)
  PROVE  AttemptsLeft(j)'
<1>. USE DEF history
<1>1. /\ jobs \in [Jobs -> Row]
      /\ [Next]_vars
  BY DEF TypeOK, Next
<1>2. CASE Claim(w)
  <2>1. PICK lag, b, got :
          /\ lag \in Lags /\ b \in Batches(lag) /\ got \in ReadClaimed(b)
          /\ ClaimRows(b, lag)
    BY <1>2 DEF Claim
  <2>2. b \subseteq Eligible(lag)
    BY <2>1, ClaimedAreEligible
  <2>3. \/ jobs'[j] = jobs[j]
        \/ /\ jobs[j].status \in {"queued", "retry"}
           /\ jobs'[j].attempt_count = jobs[j].attempt_count
    BY <1>1, <2>1, <2>2, ClaimEffect DEF Moved
  <2>. QED BY <1>1, <2>3, AttemptsKept
<1>3. CASE WorkerExit(w) \/ ApiAccept(w) \/ SendSucceeds(w) \/ SendFails(w) \/ MarkFails(w)
  <2>1. jobs' = jobs
    BY <1>3 DEF WorkerExit, ApiAccept, SendSucceeds, SendFails, MarkFails
  <2>. QED BY <1>1, <2>1, AttemptsKept
<1>4. CASE WorkerMarkSent(w) \/ WorkerMarkDLQ(w)
  <2>1. \/ jobs'[j] = jobs[j]
        \/ /\ jobs[j].status = "processing" /\ jobs'[j].status \in {"sent", "dlq"}
           /\ jobs'[j].attempt_count = jobs[j].attempt_count + 1
    BY <1>1, <1>4, MarkSentEffect, MarkDLQEffect DEF WorkerMarkSent, WorkerMarkDLQ, Moved
  <2>. QED BY <1>1, <2>1, AttemptsKept
<1>5. CASE WorkerMarkRetry(w)
  <2>1. PICK d \in BatchBackoff(w), lag \in Lags : MarkRetry(RetryJobs(w), d - lag, code[w])
    BY <1>5 DEF WorkerMarkRetry
  <2>2. CASE j \in RetryJobs(w) /\ jobs[j].status = "processing"
    <3>1. jobs'[j].attempt_count = jobs[j].attempt_count + 1
      BY <1>1, <2>1, <2>2, MarkRetryEffect DEF Moved
    <3>2. jobs[j].attempt_count = seen[w][j] /\ ~(seen[w][j] + 1 >= RetryMaxAttempts)
      BY <2>2 DEF RetryJobs, Exhausted, Owned, OwnRow
    <3>3. /\ seen[w][j] \in Nat
          /\ used'["replay"] \in Nat
          /\ RetryMaxAttempts \in Nat
      BY RetryAssumption DEF TypeOK, Faults
    <3>. QED BY <3>1, <3>2, <3>3 DEF AttemptsLeft
  <2>3. CASE ~(j \in RetryJobs(w) /\ jobs[j].status = "processing")
    <3>1. jobs'[j] = jobs[j]
      BY <1>1, <2>1, <2>3, MarkRetryEffect
    <3>. QED BY <1>1, <3>1, AttemptsKept
  <2>. QED BY <2>2, <2>3
<1>. QED BY <1>2, <1>3, <1>4, <1>5 DEF WorkerStep

\* Nothing but a worker counts an attempt, and a replay, which does not reset
\* the count, allows one more.
LEMMA StepAttempts ==
  ASSUME TypeOK, TypeOK', Owned, [Next]_vars, NEW j \in Jobs, AttemptsLeft(j)
  PROVE  AttemptsLeft(j)'
<1>1. jobs \in [Jobs -> Row]
  BY DEF TypeOK
<1>2. ASSUME NEW w \in Workers, WorkerStep(w) PROVE AttemptsLeft(j)'
  BY <1>2, WorkerAttempts
<1>3. CASE Signal \/ Exit \/ Crash \/ UNCHANGED vars
  <2>1. jobs' = jobs
    BY <1>3 DEF Signal, Exit, Crash, vars, dvars
  <2>. QED BY <2>1, AttemptsKept
<1>4. CASE RequeueStaleLoop \/ Start
  <2>1. (\E lag \in Lags : RequeueStaleProcessing(lag)) \/ jobs' = jobs
    BY <1>4 DEF RequeueStaleLoop, Start
  <2>2. \/ jobs'[j] = jobs[j]
        \/ /\ jobs[j].status = "processing"
           /\ jobs'[j].attempt_count = jobs[j].attempt_count
    BY <1>1, <2>1, RequeueStaleEffect DEF Moved
  <2>. QED BY <2>2, AttemptsKept
<1>5. CASE Enqueue
  <2>1. \/ jobs'[j] = jobs[j]
        \/ jobs'[j].attempt_count = 0
    BY <1>5, EnqueueEffect DEF Enqueue, Moved
  <2>2. used'["replay"] \in Nat
    BY DEF TypeOK, Faults
  <2>3. CASE jobs'[j].attempt_count = 0
    BY <2>2, <2>3, RetryAssumption DEF AttemptsLeft
  <2>. QED BY <2>1, <2>3, AttemptsKept
<1>6. CASE DlqReplay
  <2>1. used'["replay"] = used["replay"] + 1
    BY <1>6 DEF DlqReplay, Spend, TypeOK, Faults
  <2>2. PICK js \in SUBSET Jobs, lag \in Lags : RequeueDLQIDs(js, lag)
    BY <1>6 DEF DlqReplay
  <2>3. jobs'[j].attempt_count = jobs[j].attempt_count
    BY <1>1, <2>2, ReplayEffect DEF Moved
  <2>4. used["replay"] \in Nat /\ jobs[j].attempt_count \in Nat /\ RetryMaxAttempts \in Nat
    BY RetryAssumption DEF TypeOK, Row, Faults
  <2>. QED BY <2>1, <2>3, <2>4 DEF AttemptsLeft
<1>7. CASE QueueRetryNow \/ Tick
  <2>1. jobs'[j].attempt_count = jobs[j].attempt_count /\ jobs'[j].status = jobs[j].status
    BY <1>1, <1>7, RetryNowEffect, AgeEffect DEF QueueRetryNow, Tick, Moved
  <2>. QED BY <2>1, AttemptsKept
<1>. QED BY <1>2, <1>3, <1>4, <1>5, <1>6, <1>7 DEF Next

-----------------------------------------------------------------------------
(* Acceptances *)

\* Losing track of an acceptance raises doubt at least by one, and losing track
\* of none does not lower it.
LEMMA LoseTrackCounts ==
  ASSUME TypeOK, NEW ws \in SUBSET Workers, LoseTrack(ws), NEW j \in Jobs
  PROVE  /\ doubt'[j] >= doubt[j]
         /\ (\E w \in ws : pc[w] \in {"taken", "markSent"} /\ j \in batch[w])
              => doubt'[j] >= doubt[j] + 1
<1>. DEFINE Lost == {w \in ws : pc[w] \in {"taken", "markSent"} /\ j \in batch[w]}
<1>1. doubt'[j] = doubt[j] + Cardinality(Lost)
  BY DEF LoseTrack
<1>2. IsFiniteSet(Lost)
  BY WorkersAssumption, FS_Subset
<1>3. Cardinality(Lost) \in Nat /\ (Cardinality(Lost) = 0 <=> Lost = {})
  BY <1>2, FS_CardinalityType, FS_EmptySet
<1>4. doubt[j] \in Nat
  BY DEF TypeOK
<1>5. (\E w \in ws : pc[w] \in {"taken", "markSent"} /\ j \in batch[w]) => Lost # {}
  OBVIOUS
<1>. HIDE DEF Lost
<1>. QED BY <1>1, <1>3, <1>4, <1>5

\* The account of a job stays balanced unless the API takes it: whoever carries
\* an acceptance goes on carrying it, records it, or loses track of it.
LEMMA AccountKept ==
  ASSUME TypeOK, TypeOK', [Next]_vars, NEW j \in Jobs, Accounted(j),
         accepted'[j] = accepted[j], doubt'[j] >= doubt[j],
         Carried(j) => Carried(j)' \/ doubt'[j] >= doubt[j] + 1 \/ jobs'[j].status = "sent"
  PROVE  Accounted(j)'
<1>1. accepted[j] \in Nat /\ doubt[j] \in Nat /\ doubt'[j] \in Nat
  BY DEF TypeOK
<1>2. jobs[j].status = "sent" => jobs'[j].status = "sent"
  BY StepSettled DEF Settled
<1>. QED BY <1>1, <1>2 DEF Accounted

\* A worker's own step loses no acceptance that another worker carries.
LEMMA CarriedByOther ==
  ASSUME TypeOK, NEW w \in Workers, WorkerStep(w), NEW j \in Jobs, Carried(j),
         ~(pc[w] \in {"taken", "markSent"} /\ j \in batch[w])
  PROVE  Carried(j)'
<1>. USE DEF history
<1>1. PICK u \in Workers : pc[u] \in {"taken", "markSent"} /\ j \in batch[u]
  BY DEF Carried
<1>2. u # w
  BY <1>1
<1>3. pc'[u] = pc[u] /\ batch'[u] = batch[u]
  BY <1>2 DEF WorkerStep, Claim, WorkerExit, ApiAccept, SendSucceeds, SendFails,
       WorkerMarkSent, WorkerMarkRetry, WorkerMarkDLQ, MarkFails, BackToLoop, TypeOK
<1>. QED BY <1>1, <1>3 DEF Carried

\* The API takes a job only from its one owner, who carries the acceptance
\* until it is recorded or lost.
LEMMA WorkerAccounted ==
  ASSUME TypeOK, TypeOK', Owned, NEW j \in Jobs, Accounted(j), NEW w \in Workers, WorkerStep(w)
  PROVE  Accounted(j)'
<1>. USE DEF history
<1>. DEFINE Mine == pc[w] \in {"taken", "markSent"} /\ j \in batch[w]
<1>1. /\ accepted[j] \in Nat /\ doubt[j] \in Nat
      /\ jobs \in [Jobs -> Row] /\ pc \in [Workers -> PCs]
      /\ [Next]_vars
  BY DEF TypeOK, Next
<1>2. Carried(j) /\ ~Mine => Carried(j)'
  BY CarriedByOther
<1>3. CASE Claim(w) \/ WorkerExit(w) \/ WorkerMarkRetry(w) \/ WorkerMarkDLQ(w)
  <2>1. ~Mine /\ accepted' = accepted /\ doubt' = doubt
    BY <1>3 DEF Claim, WorkerExit, WorkerMarkRetry, WorkerMarkDLQ
  <2>. HIDE DEF Mine
  <2>. QED BY <1>1, <1>2, <2>1, AccountKept
<1>4. CASE ApiAccept(w)
  <2>1. /\ pc[w] = "send" /\ pc'[w] = "taken" /\ batch' = batch /\ jobs' = jobs /\ doubt' = doubt
        /\ accepted'[j] = accepted[j] + IF j \in batch[w] THEN 1 ELSE 0
    BY <1>1, <1>4 DEF ApiAccept
  <2>2. CASE j \in batch[w]
    <3>1. jobs[j].status = "processing" /\ ~Carried(j)
      BY <2>1, <2>2 DEF Owned, OwnRow, Carried
    <3>2. accepted[j] <= doubt[j]
      BY <3>1 DEF Accounted
    <3>3. Carried(j)'
      BY <2>1, <2>2 DEF Carried
    <3>. QED BY <1>1, <2>1, <2>2, <3>2, <3>3 DEF Accounted
  <2>3. CASE j \notin batch[w]
    BY <1>1, <1>2, <2>1, <2>3, AccountKept
  <2>. QED BY <2>2, <2>3
<1>5. CASE SendSucceeds(w)
  <2>1. /\ pc'[w] = "markSent" /\ batch' = batch
        /\ accepted' = accepted /\ doubt' = doubt
    BY <1>1, <1>5 DEF SendSucceeds
  <2>2. Mine => Carried(j)'
    BY <2>1 DEF Carried
  <2>. HIDE DEF Mine
  <2>. QED BY <1>1, <1>2, <2>1, <2>2, AccountKept
<1>6. CASE SendFails(w) \/ MarkFails(w)
  <2>1. LoseTrack({w}) /\ accepted' = accepted
    BY <1>6 DEF SendFails, MarkFails
  <2>2. doubt'[j] >= doubt[j] /\ (Mine => doubt'[j] >= doubt[j] + 1)
    BY <2>1, LoseTrackCounts
  <2>. HIDE DEF Mine
  <2>. QED BY <1>1, <1>2, <2>1, <2>2, AccountKept
<1>7. CASE WorkerMarkSent(w)
  <2>1. MarkSent(batch[w]) /\ accepted' = accepted /\ doubt' = doubt
    BY <1>7 DEF WorkerMarkSent
  <2>2. Mine => jobs'[j].status = "sent"
    <3>1. SUFFICES ASSUME Mine PROVE jobs'[j].status = "sent"
      OBVIOUS
    <3>2. jobs[j].status = "processing"
      BY <3>1 DEF Owned, OwnRow
    <3>. QED BY <1>1, <2>1, <3>1, <3>2, MarkSentEffect DEF Moved
  <2>. HIDE DEF Mine
  <2>. QED BY <1>1, <1>2, <2>1, <2>2, AccountKept
<1>. QED BY <1>3, <1>4, <1>5, <1>6, <1>7 DEF WorkerStep

\* A crash loses track of everything that is carried, a start finds nothing
\* carried, and nothing else touches the account.
LEMMA StepAccounted ==
  ASSUME TypeOK, TypeOK', StoppedWhenDown, Owned, [Next]_vars, NEW j \in Jobs, Accounted(j)
  PROVE  Accounted(j)'
<1>. USE DEF worker, history
<1>1. accepted[j] \in Nat /\ doubt[j] \in Nat
  BY DEF TypeOK
<1>2. ASSUME NEW w \in Workers, WorkerStep(w) PROVE Accounted(j)'
  BY <1>2, WorkerAccounted
<1>3. CASE Crash
  <2>1. LoseTrack(Workers) /\ accepted' = accepted
    BY <1>3 DEF Crash
  <2>2. doubt'[j] >= doubt[j] /\ (Carried(j) => doubt'[j] >= doubt[j] + 1)
    BY <2>1, LoseTrackCounts DEF Carried
  <2>. QED BY <2>1, <2>2, AccountKept
<1>4. CASE Start
  <2>1. ~Carried(j) /\ accepted' = accepted /\ doubt' = doubt
    BY <1>4 DEF Start, StoppedWhenDown, Carried
  <2>. QED BY <1>1, <2>1, AccountKept
<1>5. CASE RequeueStaleLoop \/ Signal \/ Exit \/ Enqueue \/ DlqReplay \/ QueueRetryNow \/ Tick
           \/ UNCHANGED vars
  <2>1. pc' = pc /\ batch' = batch /\ accepted' = accepted /\ doubt' = doubt
    BY <1>5 DEF RequeueStaleLoop, Signal, Exit, Enqueue, DlqReplay, QueueRetryNow, Tick, vars, dvars
  <2>2. Carried(j) => Carried(j)'
    BY <2>1 DEF Carried
  <2>. QED BY <1>1, <2>1, <2>2, AccountKept
<1>. QED BY <1>2, <1>3, <1>4, <1>5 DEF Next

-----------------------------------------------------------------------------
(* The invariant *)

\* The process goes down only after its workers stopped, or with them.
LEMMA StepStopped ==
  ASSUME TypeOK, StoppedWhenDown, [Next]_vars
  PROVE  StoppedWhenDown'
<1>. USE DEF worker, history
<1>1. ASSUME NEW w \in Workers, WorkerStep(w) PROVE StoppedWhenDown'
  <2>1. pc[w] # "stopped" /\ proc' = proc
    BY <1>1 DEF WorkerStep, Claim, WorkerExit, ApiAccept, SendSucceeds, SendFails,
         WorkerMarkSent, WorkerMarkRetry, WorkerMarkDLQ, MarkFails
  <2>. QED BY <2>1 DEF StoppedWhenDown
<1>2. CASE Start \/ Signal \/ Exit \/ Crash
  BY <1>2 DEF Start, Signal, Exit, Crash, StoppedWhenDown
<1>3. CASE RequeueStaleLoop \/ Enqueue \/ DlqReplay \/ QueueRetryNow \/ Tick \/ UNCHANGED vars
  BY <1>3 DEF RequeueStaleLoop, Enqueue, DlqReplay, QueueRetryNow, Tick, vars, dvars, StoppedWhenDown
<1>. QED BY <1>1, <1>2, <1>3 DEF Next

\* Ownership, attempts and acceptances together are an invariant.
THEOREM PromptInvariant == Spec => []PromptInv
<1>1. Init => PromptInv
  <2>1. SUFFICES ASSUME Init PROVE PromptInv
    OBVIOUS
  <2>2. TypeOK
    BY <2>1, TypeInit
  <2>3. StoppedWhenDown /\ Owned
    BY <2>1 DEF Init, DispatcherInit, StoppedWhenDown, Owned
  <2>4. \A j \in Jobs : AttemptsLeft(j)
    BY <2>1, RetryAssumption DEF Init, StoreInit, NoRow, DispatcherInit, AttemptsLeft, Faults
  <2>5. \A j \in Jobs : Accounted(j)
    BY <2>1 DEF Init, DispatcherInit, Accounted
  <2>. QED BY <2>2, <2>3, <2>4, <2>5 DEF PromptInv
<1>2. PromptInv /\ [Next]_vars => PromptInv'
  <2>1. SUFFICES ASSUME PromptInv, [Next]_vars PROVE PromptInv'
    OBVIOUS
  <2>2. TypeOK /\ StoppedWhenDown
    BY <2>1 DEF PromptInv
  <2>3. TypeOK'
    BY <2>1, <2>2, TypeStep
  <2>4. StoppedWhenDown'
    BY <2>1, <2>2, StepStopped
  <2>5. ASSUME Prompt'
        PROVE  /\ Owned'
               /\ \A j \in Jobs : AttemptsLeft(j)'
               /\ \A j \in Jobs : Accounted(j)'
    <3>1. used'["overrun"] >= used["overrun"] /\ used["overrun"] \in Nat
      BY <2>1, <2>2, UsedGrows DEF TypeOK, Faults
    <3>2. used'["overrun"] = 0 /\ used["overrun"] = 0 /\ MaxTxLag <= LeaseTimeout
      BY <2>5, <3>1 DEF Prompt
    <3>3. Owned /\ (\A j \in Jobs : AttemptsLeft(j)) /\ (\A j \in Jobs : Accounted(j))
      BY <2>1, <3>2 DEF PromptInv, Prompt
    <3>4. Owned'
      BY <2>1, <2>2, <3>2, <3>3, StepOwned
    <3>5. \A j \in Jobs : AttemptsLeft(j)'
      BY <2>1, <2>2, <2>3, <3>3, StepAttempts
    <3>6. \A j \in Jobs : Accounted(j)'
      BY <2>1, <2>2, <2>3, <3>3, StepAccounted
    <3>. QED BY <3>4, <3>5, <3>6
  <2>. QED BY <2>3, <2>4, <2>5 DEF PromptInv
<1>. QED BY <1>1, <1>2, PTL DEF Spec

\* Unless a worker outlives its lease, a claimed row has one owner and is as
\* that owner's claim left it, for any number of workers, jobs and other faults.
THEOREM OneOwner == Spec => []ClaimExclusive
<1>1. PromptInv => ClaimExclusive
  BY DEF PromptInv, Owned, OwnRow, ClaimExclusive
<1>. QED BY <1>1, PromptInvariant, PTL

\* Unless a worker outlives its lease, every acceptance beyond the first is one
\* the relay lost track of.
THEOREM DuplicatesAreDoubts == Spec => []DuplicatesOnlyOnDoubt
<1>1. PromptInv => DuplicatesOnlyOnDoubt
  <2>1. SUFFICES ASSUME PromptInv, Prompt, NEW j \in Jobs
                 PROVE  accepted[j] <= 1 + doubt[j]
    BY DEF DuplicatesOnlyOnDoubt
  <2>2. accepted[j] <= doubt[j] + 1 /\ doubt[j] \in Nat
    BY <2>1 DEF PromptInv, Accounted, TypeOK
  <2>. QED BY <2>2
<1>. QED BY <1>1, PromptInvariant, PTL

\* Unless a worker outlives its lease, RETRY_MAX_ATTEMPTS and the replays bound
\* the attempts recorded for a recipient.
THEOREM AttemptsAreBounded == Spec => []AttemptsBounded
<1>1. PromptInv => AttemptsBounded
  BY DEF PromptInv, AttemptsLeft, AttemptsBounded
<1>. QED BY <1>1, PromptInvariant, PTL
=============================================================================
