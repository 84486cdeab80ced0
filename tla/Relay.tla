------------------------------- MODULE Relay --------------------------------
(***************************************************************************)
(* The whole of `relay serve' around the dispatcher (cmd/relay): the       *)
(* process starts, is signalled, drains, exits or crashes, and starts      *)
(* again on the same database; SMTP sessions insert messages; the          *)
(* operator's commands run against the table from processes of their own;  *)
(* the clock ticks.                                                        *)
(***************************************************************************)
EXTENDS Dispatcher

vars == dvars

Init == StoreInit /\ DispatcherInit

\* runServe up to disp.Start: a failing startup requeue is only logged.
Start ==
  /\ proc = "down"
  /\ proc' = "serving"
  /\ pc' = [w \in Workers |-> "loop"]
  /\ \/ (\E lag \in Lags : RequeueStaleProcessing(lag)) /\ UNCHANGED used
     \/ Spend("db") /\ UNCHANGED jobs
  /\ UNCHANGED <<batch, seen, code, history>>

\* SIGINT, SIGTERM or a failed listener cancels rootCtx.
Signal ==
  /\ proc = "serving"
  /\ Spend("signal")
  /\ proc' = "draining"
  /\ UNCHANGED <<jobs, worker, history>>

\* disp.Wait returned: runServe closes the store and the process ends.
Exit ==
  /\ proc = "draining"
  /\ \A w \in Workers : pc[w] = "stopped"
  /\ proc' = "down"
  /\ UNCHANGED <<jobs, worker, used, history>>

\* The process dies between any two steps; only the table survives.
Crash ==
  /\ proc # "down"
  /\ Spend("crash")
  /\ proc' = "down"
  /\ LoseTrack(Workers)
  /\ pc' = [w \in Workers |-> "stopped"]
  /\ batch' = [w \in Workers |-> {}]
  /\ seen' = [w \in Workers |-> [j \in Jobs |-> 0]]
  /\ code' = [w \in Workers |-> 0]
  /\ UNCHANGED <<jobs, accepted>>

\* Session.Data commits the message.  Its context is its own, so sessions that
\* are still open may do so while the workers drain.
Enqueue ==
  /\ proc # "down"
  /\ \E m \in Messages, lag \in Lags : EnqueueTx(m, lag)
  /\ UNCHANGED <<proc, worker, used, history>>

\* relay dlq replay; ids that no row has are among those it may be given.
DlqReplay ==
  /\ Spend("replay")
  /\ \E js \in SUBSET Jobs, lag \in Lags : RequeueDLQIDs(js, lag)
  /\ UNCHANGED <<proc, worker, history>>

\* relay queue retry-now
QueueRetryNow ==
  /\ \E lag \in Lags : RetryNow(lag)
  /\ UNCHANGED <<proc, worker, used, history>>

\* A tick takes a claim that is still being worked on past its lease only as
\* an "overrun": nothing in the code keeps the API call and the waits for the
\* database inside the lease, the default settings only make it likely.
Tick ==
  /\ IF \E w \in Workers : \E j \in Processing(batch[w]) :
          jobs[j].processing_started_at = LeaseTimeout
     THEN Spend("overrun") ELSE UNCHANGED used
  /\ AgeRows
  /\ UNCHANGED <<proc, worker, history>>

Next ==
  \/ \E w \in Workers : WorkerStep(w)
  \/ RequeueStaleLoop
  \/ Start
  \/ Signal
  \/ Exit
  \/ Crash
  \/ Enqueue
  \/ DlqReplay
  \/ QueueRetryNow
  \/ Tick

Spec == Init /\ [][Next]_vars

\* Every Send ends (http.Client.Timeout), every goroutine is scheduled, the
\* requeue ticker fires, time passes, and a supervisor restarts a relay that
\* is down.  Nothing is assumed of the API's answers, of the operator, of SMTP
\* clients or of faults.
Fairness ==
  /\ \A w \in Workers : WF_vars(WorkerStep(w))
  /\ WF_vars(RequeueStaleLoop)
  /\ WF_vars(Start)
  /\ WF_vars(Exit)
  /\ WF_vars(Tick)

FairSpec == Spec /\ Fairness

-----------------------------------------------------------------------------
(* Safety *)

\* Every variable keeps its type.
TypeOK ==
  /\ jobs \in [Jobs -> Row]
  /\ proc \in {"down", "serving", "draining"}
  /\ pc \in [Workers -> PCs]
  /\ batch \in [Workers -> SUBSET Jobs]
  /\ seen \in [Workers -> [Jobs -> Nat]]
  /\ code \in [Workers -> Codes]
  /\ used \in [Faults -> Nat]
  /\ accepted \in [Jobs -> Nat]
  /\ doubt \in [Jobs -> Nat]

\* No recipient is recorded as sent that MailerSend never took, whatever
\* crashes, failed writes and expired leases happen between a worker's claim
\* and its MarkSent, and whichever worker's MarkSent it is.
SentMeansAccepted ==
  \A j \in Jobs : jobs[j].status = "sent" => accepted[j] > 0

\* A recipient is in the dead-letter queue only because MailerSend refused it
\* for good or because its attempts are used up -- also when the MarkDLQ was
\* decided from an AttemptCount that another worker has since made stale.
DlqJustified ==
  \A j \in Jobs : jobs[j].status = "dlq" =>
    \/ ClassifyFailure(jobs[j].last_http_status) = "dlq"
    \/ jobs[j].attempt_count >= RetryMaxAttempts

\* A row carries the start of its lease exactly while it is processing: the
\* stale requeue skips a processing row without one, which would be stuck for
\* ever.
LeaseRecorded ==
  \A j \in Jobs : jobs[j].status = "processing" <=> jobs[j].processing_started_at # NULL

\* No worker outlived its lease, and the lease covers at least the wait for the
\* write lock, so that no claim commits with an expired one.  The defaults are 30 s
\* against SQLite's busy_timeout of 5 s; the configuration only asks for a lease
\* greater than 0.
Prompt == used["overrun"] = 0 /\ MaxTxLag <= LeaseTimeout

\* Unless a worker outlives its lease, a claimed row belongs to one worker of
\* the current process, and is still processing when that worker records its
\* outcome, so that the status guard of the Mark* statements is enough.
ClaimExclusive ==
  Prompt =>
    \A w \in Workers : \A j \in batch[w] :
      /\ jobs[j].status = "processing"
      /\ jobs[j].processing_started_at <= LeaseTimeout
      /\ jobs[j].attempt_count = seen[w][j]
      /\ \A v \in Workers \ {w} : j \notin batch[v]

\* Unless a worker outlives its lease, the only way MailerSend takes a
\* recipient twice is that the relay lost an earlier answer: a lost or
\* unreadable response, a failed MarkSent, a crash or a shutdown in between.
DuplicatesOnlyOnDoubt ==
  Prompt => \A j \in Jobs : accepted[j] <= 1 + doubt[j]

\* Unless a worker outlives its lease, RETRY_MAX_ATTEMPTS bounds the recorded
\* attempts of a recipient, with one more for every operator replay, which
\* does not reset the count.
AttemptsBounded ==
  Prompt =>
    \A j \in Jobs : jobs[j].attempt_count <= RetryMaxAttempts + used["replay"]

\* What a worker posts in one request, and still has to record, keeps the limits
\* of the plan and of BATCH_MAX_BYTES, beyond which MailerSend refuses the request
\* and with it every recipient of the batch.  A row that is larger by itself goes
\* alone: shouldStop never stops before the first.
BatchWithinLimits ==
  \A w \in Workers :
    /\ Cardinality(batch[w]) <= BatchMaxCount
    /\ Cardinality(batch[w]) > 1 =>
         SumFunctionOnSet([j \in Jobs |-> JobBytes(j)], batch[w]) <= BatchMaxBytes

-----------------------------------------------------------------------------
(* Action properties *)

\* No row overtakes an older one: when a worker takes row j, every row it leaves
\* behind that had been due for the longest wait on the database is as young as
\* j, whichever limit cut the batch short.
OldestFirst ==
  [][\A w \in Workers : \A j \in batch'[w] \ batch[w] : \A k \in Eligible(MaxTxLag) :
       jobs'[k].status # "processing" => Created[j] <= Created[k]]_vars

\* Whatever a late worker, the stale requeue, a replay or retry-now does, a row
\* that is sent stays sent, and nothing but a replay takes one out of the
\* dead-letter queue.
SettledStaysSettled ==
  [][\A j \in Jobs :
       /\ jobs[j].status = "sent" => jobs'[j].status = "sent"
       /\ jobs[j].status = "dlq" /\ jobs'[j].status # "dlq"
            => used'["replay"] = used["replay"] + 1]_vars

-----------------------------------------------------------------------------
(* Refinement *)

Stage(j) ==
  CASE jobs[j].status = "none" -> "absent"
    [] jobs[j].status = "sent" -> "sent"
    [] jobs[j].status = "dlq"  -> "dead"
    [] OTHER                   -> "pending"

stages == [j \in Jobs |-> Stage(j)]

Promise == INSTANCE Delivery WITH stage <- stages, taken <- accepted

\* The relay implements at-least-once delivery, with overrunning workers too.
ImplementsDelivery == Promise!Spec

-----------------------------------------------------------------------------
(* Liveness *)

\* Every recipient of a queued message is sent or set aside in the end, after
\* any bounded number of crashes, failed writes and shutdowns.
EventuallySettled ==
  \A j \in Jobs : jobs[j].status \in {"queued", "retry", "processing"}
                    ~> jobs[j].status \in {"sent", "dlq"}

\* A shutdown terminates: every worker leaves its loop and disp.Wait returns.
DrainTerminates == proc = "draining" ~> proc = "down"

-----------------------------------------------------------------------------
(* docs/RUNBOOK.md says that on SIGTERM the relay "waits for background    *)
(* workers to finish current work": a relay that was stopped without a     *)
(* crash and without a database failure would leave no row claimed.        *)
DrainFinishesWork ==
  proc = "down" /\ used["crash"] = 0 /\ used["db"] = 0 =>
    \A j \in Jobs : jobs[j].status # "processing"
=============================================================================
