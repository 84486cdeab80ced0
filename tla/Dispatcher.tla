----------------------------- MODULE Dispatcher -----------------------------
(***************************************************************************)
(* The workers of internal/dispatch against the job table: workerLoop      *)
(* claims a batch, processBatch posts it to the MailerSend bulk API and    *)
(* records the outcome.  Claiming, sending and each Mark* call are         *)
(* separate steps, so the steps of several workers, the stale requeue, the *)
(* operator's commands and crashes interleave between them.                *)
(*                                                                         *)
(* The rate limiter only delays a worker before it claims, so it appears   *)
(* here as a worker that takes no step.  A claim that fails or finds       *)
(* nothing leaves every variable unchanged.                                *)
(***************************************************************************)
EXTENDS JobStore

CONSTANTS
  Workers,           \* the goroutines running workerLoop
  RetryMaxAttempts,  \* RETRY_MAX_ATTEMPTS
  BackoffSchedule,   \* backoffSchedule, in ticks
  AcceptedStatus,    \* the 2xx status of a bulk request MailerSend took
  RejectCodes,       \* statuses of a bulk request MailerSend did not take
  Budget             \* how often each fault may happen in one behaviour

ASSUME WorkersAssumption == IsFiniteSet(Workers)

ASSUME RetryAssumption ==
  /\ RetryMaxAttempts \in Nat \ {0}
  /\ BackoffSchedule \in Seq(Nat \ {0}) \ {<<>>}

ASSUME CodesAssumption ==
  /\ AcceptedStatus \in 200..299
  /\ RejectCodes \subseteq (300..599)

\* What the environment may do to the relay, each at most Budget[f] times:
\* a failing database call, a crash, SIGTERM, a worker that outlives its
\* lease, `relay dlq replay'.
Faults == {"db", "crash", "signal", "overrun", "replay"}

ASSUME BudgetAssumption == Budget \in [Faults -> Nat]

VARIABLES
  proc,      \* relay serve: "down", "serving", or "draining" once rootCtx is cancelled
  pc,        \* where each worker is in workerLoop / processBatch
  batch,     \* the jobs a worker has claimed and not yet recorded
  seen,      \* AttemptCount of those jobs as the claim read it
  code,      \* statusCode of a failed Send
  used,      \* faults spent so far
  accepted,  \* history: how often the API took each job
  doubt      \* history: how often it did so without the relay recording it

worker == <<pc, batch, seen, code>>
history == <<accepted, doubt>>
dvars == <<jobs, proc, worker, used, history>>

Codes == {0, AcceptedStatus} \cup RejectCodes

PCs == {"stopped", "loop", "send", "taken", "markSent", "markRetry", "markDLQ"}

DispatcherInit ==
  /\ proc = "down"
  /\ pc = [w \in Workers |-> "stopped"]
  /\ batch = [w \in Workers |-> {}]
  /\ seen = [w \in Workers |-> [j \in Jobs |-> 0]]
  /\ code = [w \in Workers |-> 0]
  /\ used = [f \in Faults |-> 0]
  /\ accepted = [j \in Jobs |-> 0]
  /\ doubt = [j \in Jobs |-> 0]

Spend(f) ==
  /\ used[f] < Budget[f]
  /\ used' = [used EXCEPT ![f] = @ + 1]

\* A worker drops its batch and goes back to the top of workerLoop.
BackToLoop(w) ==
  /\ pc' = [pc EXCEPT ![w] = "loop"]
  /\ batch' = [batch EXCEPT ![w] = {}]
  /\ seen' = [seen EXCEPT ![w] = [j \in Jobs |-> 0]]
  /\ code' = [code EXCEPT ![w] = 0]

-----------------------------------------------------------------------------
(* Decisions *)

ClassifyFailure(statusCode) ==
  IF \/ statusCode = 0
     \/ statusCode \in {408, 425, 429}
     \/ statusCode >= 500
     \/ statusCode < 400
  THEN "retry" ELSE "dlq"

\* Mutant: one attempt too many.
ExhaustedLate(w, j) == seen[w][j] >= RetryMaxAttempts

Exhausted(w, j) == seen[w][j] + 1 >= RetryMaxAttempts

RetryJobs(w) == {j \in batch[w] : ~Exhausted(w, j)}

\* The delays jitteredBackoff may return: the schedule's entry, clamped at
\* its end, times a factor in [0.8, 1.2).
JitteredBackoff(attemptNumber) ==
  LET idx == IF attemptNumber < 1 THEN 1
             ELSE IF attemptNumber > Len(BackoffSchedule) THEN Len(BackoffSchedule)
             ELSE attemptNumber
      base == BackoffSchedule[idx]
  IN {d \in 0..(2 * base) : 8 * base <= 10 * d /\ 10 * d < 12 * base}

\* The one backoff a batch gets is that of its first job; the batch is in
\* created_at order, ties in any order.
BatchBackoff(w) ==
  UNION {JitteredBackoff(seen[w][f] + 1) :
           f \in {j \in RetryJobs(w) : \A k \in RetryJobs(w) : Created[j] <= Created[k]}}

-----------------------------------------------------------------------------
(* workerLoop *)

\* claimJobs as one transaction; the worker keeps what was read of the rows it
\* has put in processing.
Claim(w) ==
  /\ proc = "serving"
  /\ pc[w] = "loop"
  /\ \E lag \in Lags : \E b \in Batches(lag) : \E got \in ReadClaimed(b) :
       /\ b # {}
       /\ ClaimRows(b, lag)
       /\ IF got = b THEN UNCHANGED used ELSE Spend("db")
       /\ batch' = [batch EXCEPT ![w] = got]
       /\ seen' = [seen EXCEPT ![w] =
                     [j \in Jobs |-> IF j \in got THEN jobs[j].attempt_count ELSE 0]]
       /\ pc' = [pc EXCEPT ![w] = IF got = {} THEN "loop" ELSE "send"]
  /\ UNCHANGED <<proc, code, history>>

\* Mutant: a worker leaves only once nothing is left to claim.
WorkerExitWhenIdle(w) ==
  /\ proc = "draining"
  /\ pc[w] = "loop"
  /\ Eligible(0) = {}
  /\ pc' = [pc EXCEPT ![w] = "stopped"]
  /\ UNCHANGED <<jobs, proc, batch, seen, code, used, history>>

\* rootCtx is cancelled: the worker returns at the top of its loop.
WorkerExit(w) ==
  /\ proc = "draining"
  /\ pc[w] = "loop"
  /\ pc' = [pc EXCEPT ![w] = "stopped"]
  /\ UNCHANGED <<jobs, proc, batch, seen, code, used, history>>

-----------------------------------------------------------------------------
(* Send *)

\* The API takes the whole request; the worker does not know yet.
ApiAccept(w) ==
  /\ pc[w] = "send"
  /\ pc' = [pc EXCEPT ![w] = "taken"]
  /\ accepted' = [j \in Jobs |-> accepted[j] + IF j \in batch[w] THEN 1 ELSE 0]
  /\ UNCHANGED <<jobs, proc, batch, seen, code, used, doubt>>

\* Mutant: any answer counts as success.
SendAnswered(w) ==
  /\ pc[w] \in {"send", "taken"}
  /\ pc' = [pc EXCEPT ![w] = "markSent"]
  /\ UNCHANGED <<jobs, proc, batch, seen, code, used, history>>

\* A 2xx answer read to its end.
SendSucceeds(w) ==
  /\ pc[w] = "taken"
  /\ pc' = [pc EXCEPT ![w] = "markSent"]
  /\ UNCHANGED <<jobs, proc, batch, seen, code, used, history>>

\* Before the API took the request: no connection, time-out, cancelled
\* context, or a refusal.  After it did: the answer is lost, its body cannot
\* be read to the end, or a gateway answers in its place.
FailureCodes(w) ==
  IF pc[w] = "send" THEN {0} \cup RejectCodes
                    ELSE {0, AcceptedStatus} \cup {c \in RejectCodes : c >= 500}

\* doubt grows by the acceptances worker w is about to lose track of.
LoseTrack(ws) ==
  doubt' = [j \in Jobs |->
              doubt[j] + Cardinality({w \in ws : pc[w] \in {"taken", "markSent"}
                                                  /\ j \in batch[w]})]

SendFails(w) ==
  /\ pc[w] \in {"send", "taken"}
  /\ \E c \in FailureCodes(w) :
       /\ code' = [code EXCEPT ![w] = c]
       /\ pc' = [pc EXCEPT ![w] =
                   IF ClassifyFailure(c) = "retry" /\ RetryJobs(w) # {}
                   THEN "markRetry" ELSE "markDLQ"]
  /\ LoseTrack({w})
  /\ UNCHANGED <<jobs, proc, batch, seen, used, accepted>>

-----------------------------------------------------------------------------
(* Recording the outcome: with rootCtx, so only while it is not cancelled *)

WorkerMarkSent(w) ==
  /\ proc = "serving"
  /\ pc[w] = "markSent"
  /\ MarkSent(batch[w])
  /\ BackToLoop(w)
  /\ UNCHANGED <<proc, used, history>>

WorkerMarkRetry(w) ==
  /\ proc = "serving"
  /\ pc[w] = "markRetry"
  /\ \E d \in BatchBackoff(w), lag \in Lags : MarkRetry(RetryJobs(w), d - lag, code[w])
  /\ IF RetryJobs(w) = batch[w]
     THEN BackToLoop(w)
     ELSE /\ pc' = [pc EXCEPT ![w] = "markDLQ"]
          /\ batch' = [batch EXCEPT ![w] = @ \ RetryJobs(w)]
          /\ UNCHANGED <<seen, code>>
  /\ UNCHANGED <<proc, used, history>>

WorkerMarkDLQ(w) ==
  /\ proc = "serving"
  /\ pc[w] = "markDLQ"
  /\ MarkDLQ(batch[w], code[w])
  /\ BackToLoop(w)
  /\ UNCHANGED <<proc, used, history>>

\* The Mark* call returns an error, which workerLoop only logs: always once
\* rootCtx is cancelled, and whenever the database fails.  The rows stay in
\* processing until their lease expires; after a failed MarkRetry, MarkDLQ is
\* not tried.
MarkFails(w) ==
  /\ pc[w] \in {"markSent", "markRetry", "markDLQ"}
  /\ IF proc = "draining" THEN UNCHANGED used ELSE Spend("db")
  /\ LoseTrack({w})
  /\ BackToLoop(w)
  /\ UNCHANGED <<jobs, proc, accepted>>

WorkerStep(w) ==
  \/ Claim(w)
  \/ WorkerExit(w)
  \/ ApiAccept(w)
  \/ SendSucceeds(w)
  \/ SendFails(w)
  \/ WorkerMarkSent(w)
  \/ WorkerMarkRetry(w)
  \/ WorkerMarkDLQ(w)
  \/ MarkFails(w)

-----------------------------------------------------------------------------
(* requeueStaleLoop: also with rootCtx; a failing requeue changes nothing *)

RequeueStaleLoop ==
  /\ proc = "serving"
  /\ \E lag \in Lags : RequeueStaleProcessing(lag)
  /\ UNCHANGED <<proc, worker, used, history>>
=============================================================================
