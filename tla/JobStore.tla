------------------------------ MODULE JobStore ------------------------------
(***************************************************************************)
(* The SQLite job table of internal/queue: one row per recipient, changed  *)
(* by the statements of SQLiteStore.  Every operator that defines jobs' is *)
(* one committed transaction; a transaction that fails rolls back and      *)
(* leaves jobs unchanged.                                                  *)
(*                                                                         *)
(* Times are kept relative to the current instant, in ticks, so that the   *)
(* table stays finite without bounding the clock: next_attempt_at is how   *)
(* far ahead the row becomes due, processing_started_at is the age of the  *)
(* claim.  Every statement takes `now' from its caller, who reads the      *)
(* clock BEFORE the transaction waits for SQLite's write lock; `lag' is    *)
(* how long ago that was when the statement takes effect.                  *)
(***************************************************************************)
EXTENDS Integers, Sequences, FiniteSets, Functions

CONSTANTS
  Jobs,           \* rows that may ever be inserted, one per recipient
  Created,        \* created_at of each row; the rows of one SMTP message share it
  PayloadBytes,   \* len(payload_json) of each row
  ClaimLimit,     \* QUEUE_CLAIM_LIMIT
  BatchMaxCount,  \* EffectiveBatchMaxCount()
  BatchMaxBytes,  \* BATCH_MAX_BYTES
  LeaseTimeout,   \* QUEUE_LEASE_TIMEOUT, in ticks
  MaxTxLag        \* longest wait between reading the clock and the commit, in ticks

ASSUME JobsAssumption ==
  /\ IsFiniteSet(Jobs)
  /\ Created \in [Jobs -> Nat]
  /\ PayloadBytes \in [Jobs -> Nat]

ASSUME LimitsAssumption ==
  /\ ClaimLimit \in Nat \ {0}
  /\ BatchMaxCount \in Nat \ {0}
  /\ BatchMaxBytes \in Nat \ {0}

ASSUME LeaseAssumption ==
  /\ LeaseTimeout \in Nat \ {0}
  /\ MaxTxLag \in Nat

VARIABLE jobs     \* [Jobs -> row]

NULL == -1        \* processing_started_at of a row nobody has claimed

Lags == 0..MaxTxLag

\* Ages are not told apart beyond this one: the lease has expired for every
\* reader of the clock.
AgeCap == LeaseTimeout + MaxTxLag + 1

\* "none" stands for a row that has not been inserted.
Statuses == {"none", "queued", "processing", "retry", "sent", "dlq"}

Row == [status : Statuses,
        attempt_count : Nat,
        next_attempt_at : Int,
        processing_started_at : {NULL} \cup 0..AgeCap,
        last_http_status : Nat]

NoRow == [status |-> "none", attempt_count |-> 0, next_attempt_at |-> -MaxTxLag,
          processing_started_at |-> NULL, last_http_status |-> 0]

StoreInit == jobs = [j \in Jobs |-> NoRow]

-----------------------------------------------------------------------------
(* Inserting *)

Messages == {Created[j] : j \in Jobs}
RowsOf(m) == {j \in Jobs : Created[j] = m}

\* All the rows of one accepted SMTP message, in one transaction.
EnqueueTx(m, lag) ==
  /\ \A j \in RowsOf(m) : jobs[j].status = "none"
  /\ jobs' = [j \in Jobs |->
                IF j \in RowsOf(m)
                THEN [NoRow EXCEPT !.status = "queued", !.next_attempt_at = -lag]
                ELSE jobs[j]]

-----------------------------------------------------------------------------
(* Claiming *)

\* Mutant: the claim does not skip rows another worker is processing.
EligibleWhileProcessing(lag) ==
  {j \in Jobs : jobs[j].status \in {"queued", "retry", "processing"}
                /\ jobs[j].next_attempt_at <= -lag}

Eligible(lag) ==
  {j \in Jobs : jobs[j].status \in {"queued", "retry"}
                /\ jobs[j].next_attempt_at <= -lag}

\* Mutant: no ORDER BY.
ListingsAnyOrder(lag) ==
  LET E == Eligible(lag)
      n == IF Cardinality(E) < ClaimLimit THEN Cardinality(E) ELSE ClaimLimit
  IN {s \in [1..n -> E] : IsInjective(s)}

\* What ORDER BY created_at LIMIT may return: rows with equal created_at come
\* in any order.
Listings(lag) ==
  LET E == Eligible(lag)
      n == IF Cardinality(E) < ClaimLimit THEN Cardinality(E) ELSE ClaimLimit
  IN {s \in [1..n -> E] :
        /\ IsInjective(s)
        /\ \A i \in 1..n : \A j \in E \ {s[k] : k \in 1..(i - 1)} :
             Created[s[i]] <= Created[j]}

JobBytes(j) == PayloadBytes[j] + 128

\* Mutant: a row larger than a batch is never taken.
ShouldStopOnFirst(batchCount, batchBytes, nextJobBytes) ==
  \/ batchCount >= BatchMaxCount
  \/ batchBytes + nextJobBytes > BatchMaxBytes

\* Mutant: the row that no longer fits is not counted.
ShouldStopWhenOver(batchCount, batchBytes, nextJobBytes) ==
  batchCount > 0 /\ \/ batchCount >= BatchMaxCount
                    \/ batchBytes > BatchMaxBytes

ShouldStop(batchCount, batchBytes, nextJobBytes) ==
  batchCount > 0 /\ \/ batchCount >= BatchMaxCount
                    \/ batchBytes + nextJobBytes > BatchMaxBytes

\* The rows of listing s the loop takes before shouldStop first says stop.
TakeBatch(s) ==
  LET bytes[i \in 0..Len(s)] ==
        IF i = 0 THEN 0 ELSE bytes[i - 1] + JobBytes(s[i])
  IN {s[i] : i \in {k \in 1..Len(s) :
                      \A m \in 1..k :
                        ~ShouldStop(m - 1, bytes[m - 1], JobBytes(s[m]))}}

\* The loop over the listing does not look at Rows.Err() either.  A read error
\* there ends the listing early, which is a claim with a smaller limit, and is
\* left out.
Batches(lag) == {TakeBatch(s) : s \in Listings(lag)}

\* Mutant: the end of the lease is stored in place of its start.
ClaimRowsUntil(b, lag) ==
  jobs' = [j \in Jobs |->
             IF j \in b
             THEN [jobs[j] EXCEPT !.status = "processing",
                                  !.processing_started_at = lag - LeaseTimeout - 1]
             ELSE jobs[j]]

\* Mutant: the start of the lease is not stored.
ClaimRowsNoLease(b, lag) ==
  jobs' = [j \in Jobs |->
             IF j \in b THEN [jobs[j] EXCEPT !.status = "processing"] ELSE jobs[j]]

\* The UPDATE of claimJobs: next_attempt_at, attempt_count and the last HTTP
\* status are left alone; the lease starts at the caller's `now'.
ClaimRows(b, lag) ==
  jobs' = [j \in Jobs |->
             IF j \in b
             THEN [jobs[j] EXCEPT !.status = "processing",
                                  !.processing_started_at = lag]
             ELSE jobs[j]]

\* The rows the SELECT after it hands to the worker, in created_at order.  The
\* loop does not look at Rows.Err(): a read error loses the rows after it,
\* and the transaction commits all the same.
ReadClaimed(b) ==
  {got \in SUBSET b : \A j \in got, k \in b \ got : Created[j] <= Created[k]}

-----------------------------------------------------------------------------
(* Recording the outcome of a batch.  The only guard is the row's status:  *)
(* neither the claimer nor the claim time is compared.                     *)

\* Mutant: the Mark* statements do not look at the row's status.
AnyStatus(js) == js

Processing(js) == {j \in js : jobs[j].status = "processing"}

MarkSent(js) ==
  jobs' = [j \in Jobs |->
             IF j \in Processing(js)
             THEN [jobs[j] EXCEPT !.status = "sent",
                                  !.attempt_count = @ + 1,
                                  !.processing_started_at = NULL,
                                  !.last_http_status = 0]
             ELSE jobs[j]]

MarkRetry(js, next, httpStatus) ==
  jobs' = [j \in Jobs |->
             IF j \in Processing(js)
             THEN [jobs[j] EXCEPT !.status = "retry",
                                  !.attempt_count = @ + 1,
                                  !.next_attempt_at = next,
                                  !.processing_started_at = NULL,
                                  !.last_http_status = httpStatus]
             ELSE jobs[j]]

\* Mutant: the attempt that sends a row to the dead-letter queue is not counted.
MarkDLQUncounted(js, httpStatus) ==
  jobs' = [j \in Jobs |->
             IF j \in Processing(js)
             THEN [jobs[j] EXCEPT !.status = "dlq",
                                  !.processing_started_at = NULL,
                                  !.last_http_status = httpStatus]
             ELSE jobs[j]]

MarkDLQ(js, httpStatus) ==
  jobs' = [j \in Jobs |->
             IF j \in Processing(js)
             THEN [jobs[j] EXCEPT !.status = "dlq",
                                  !.attempt_count = @ + 1,
                                  !.processing_started_at = NULL,
                                  !.last_http_status = httpStatus]
             ELSE jobs[j]]

-----------------------------------------------------------------------------
(* Recovery and operator commands *)

\* Mutant: the lease ends one tick early.
StaleTooEarly(lag) ==
  {j \in Jobs : /\ jobs[j].status = "processing"
                /\ jobs[j].processing_started_at # NULL
                /\ jobs[j].processing_started_at - lag >= LeaseTimeout}

Stale(lag) ==
  {j \in Jobs : /\ jobs[j].status = "processing"
                /\ jobs[j].processing_started_at # NULL
                /\ jobs[j].processing_started_at - lag > LeaseTimeout}

\* attempt_count is not touched: an attempt that never reported is not counted.
RequeueStaleProcessing(lag) ==
  jobs' = [j \in Jobs |->
             IF j \in Stale(lag)
             THEN [jobs[j] EXCEPT !.status = "retry",
                                  !.next_attempt_at = -lag,
                                  !.processing_started_at = NULL]
             ELSE jobs[j]]

\* Mutant: a replay takes any row whose id it is given.
RequeueIDs(js, lag) ==
  jobs' = [j \in Jobs |->
             IF j \in js
             THEN [jobs[j] EXCEPT !.status = "retry",
                                  !.next_attempt_at = -lag,
                                  !.processing_started_at = NULL,
                                  !.last_http_status = 0]
             ELSE jobs[j]]

\* attempt_count is not reset.
RequeueDLQIDs(js, lag) ==
  jobs' = [j \in Jobs |->
             IF j \in js /\ jobs[j].status = "dlq"
             THEN [jobs[j] EXCEPT !.status = "retry",
                                  !.next_attempt_at = -lag,
                                  !.processing_started_at = NULL,
                                  !.last_http_status = 0]
             ELSE jobs[j]]

RetryNow(lag) ==
  jobs' = [j \in Jobs |->
             IF jobs[j].status = "retry"
             THEN [jobs[j] EXCEPT !.next_attempt_at = -lag]
             ELSE jobs[j]]

-----------------------------------------------------------------------------
(* One tick of the clock, seen from the table.  A row is not told apart    *)
(* once it is due for every reader of the clock.                           *)

AgeRows ==
  jobs' = [j \in Jobs |->
             [jobs[j] EXCEPT
                !.next_attempt_at = IF @ > -MaxTxLag THEN @ - 1 ELSE @,
                !.processing_started_at =
                   IF @ = NULL \/ @ = AgeCap THEN @ ELSE @ + 1]]
=============================================================================
