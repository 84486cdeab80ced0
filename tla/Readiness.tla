----------------------------- MODULE Readiness ------------------------------
(***************************************************************************)
(* The timing of the dispatcher: the limiter all workers share, the loop   *)
(* of each worker around it, and the heartbeat from which Ready() answers  *)
(* /readyz.                                                                *)
(*                                                                         *)
(* Time is in ticks, TicksPerSecond to the second, and every time is kept  *)
(* relative to now.  Goroutines run as soon as what they wait for has      *)
(* happened: a tick passes only when every worker is waiting.  What may    *)
(* take time is a claim (up to MaxClaim, waiting for SQLite's lock) and a  *)
(* batch (up to MaxSend).                                                  *)
(*                                                                         *)
(* One due job is watched, among any number of others.  A claim takes the  *)
(* oldest of the rows it sees and as many as LIMIT, BATCH_MAX_COUNT and    *)
(* BATCH_MAX_BYTES let it, so batches of older rows may go before the      *)
(* watched job; `before' counts them.                                      *)
(***************************************************************************)
EXTENDS Integers, FiniteSets, FiniteSetsExt

CONSTANTS
  Workers,         \* the goroutines running workerLoop
  TicksPerSecond,
  Intervals,       \* ticks between two requests the plan may allow: a minute
                   \* divided by MAILERSEND_BULK_API_MAX_REQUESTS_PER_MIN
  Flush,           \* BATCH_FLUSH_INTERVAL
  MaxClaim,        \* longest claim
  MaxSend,         \* longest processBatch
  MaxFailures,     \* bound on the claims that fail
  MaxBefore        \* bound on the batches of older rows that go before a job

ASSUME TimingAssumption ==
  /\ IsFiniteSet(Workers) /\ Workers # {}
  /\ TicksPerSecond \in Nat \ {0}
  /\ Intervals \subseteq Nat \ {0}
  /\ Flush \in Nat \ {0}
  /\ MaxClaim \in Nat /\ MaxSend \in Nat
  /\ MaxFailures \in Nat /\ MaxBefore \in Nat

VARIABLES
  interval,   \* the limiter's interval, set when the relay starts
  free,       \* ticks until the limiter has a token that nobody has reserved
  pc,         \* where each worker is in workerLoop
  timer,      \* ticks until what it waits for happens
  phase,      \* ticks into the current second
  heartbeat,  \* age of lastHeartbeat, a whole second; NoBeat when it is 0
  due,        \* how long the watched job has been due; NoJob when none is
  before,     \* history: batches claimed since then that left it behind
  debt,       \* history: requests made, in ticks of the limiter not yet paid off
  failures    \* claims that failed so far

vars == <<interval, free, pc, timer, phase, heartbeat, due, before, debt, failures>>

NoBeat == -1
NoJob == -1

MaxAge == Max({3 * Flush, 5 * TicksPerSecond})
BeatCap == MaxAge + TicksPerSecond + 1

\* 500 ms, in workerLoop after a claim that failed.
ClaimPause == (TicksPerSecond + 1) \div 2

\* While a job is due, this much time passes at most until a claim takes it or
\* older rows, longer by a round for every claim that failed.  The job may have
\* become due just after a claim had read the clock: that claim finds nothing, and
\* its worker waits for its ticker, or finds other rows, and its worker sends them.
PickupBound ==
  MaxClaim + Max({MaxSend, Flush}) + interval + MaxClaim
    + failures * (ClaimPause + interval + MaxClaim)

\* A job is claimed at the latest this long after it became due.
PickupLimit == PickupBound * (before + 1)

Init ==
  /\ interval \in Intervals
  /\ free = 0
  /\ pc = [w \in Workers |-> "top"]
  /\ timer = [w \in Workers |-> 0]
  /\ phase \in 0..(TicksPerSecond - 1)
  /\ heartbeat = NoBeat
  /\ due = NoJob
  /\ before = 0
  /\ debt = 0
  /\ failures = 0

Wait(w, at, ticks) ==
  /\ pc' = [pc EXCEPT ![w] = at]
  /\ timer' = [timer EXCEPT ![w] = ticks]

-----------------------------------------------------------------------------
(* The limiter: a bucket of one token *)

\* Mutant: each worker has a limiter of its own.
ReserveOwn(w) == Wait(w, "limiter", interval - 1) /\ UNCHANGED free

\* Mutant: a round uses up two tokens.
ReserveTwo(w) == Wait(w, "limiter", free) /\ free' = free + 2 * interval

\* Wait reserves the next free token and sleeps until it is there.
Reserve(w) == Wait(w, "limiter", free) /\ free' = free + interval

-----------------------------------------------------------------------------
(* workerLoop *)

\* Mutant: the heartbeat is rounded to the next second.
StoreHeartbeatUp == heartbeat' = phase - TicksPerSecond

\* time.Now().Unix() drops the part of the second that has passed.
StoreHeartbeat == heartbeat' = phase

\* Mutant: the heartbeat is stored once, by the first loop.
TopOnce(w) ==
  /\ pc[w] = "top"
  /\ IF heartbeat = NoBeat THEN StoreHeartbeat ELSE UNCHANGED heartbeat
  /\ Reserve(w)
  /\ UNCHANGED <<interval, phase, due, before, debt, failures>>

Top(w) ==
  /\ pc[w] = "top"
  /\ StoreHeartbeat
  /\ Reserve(w)
  /\ UNCHANGED <<interval, phase, due, before, debt, failures>>

LimiterGrants(w) ==
  /\ pc[w] = "limiter" /\ timer[w] = 0
  /\ \E d \in 0..MaxClaim : Wait(w, "claim", d)
  /\ UNCHANGED <<interval, free, phase, heartbeat, due, before, debt, failures>>

\* A claim may miss the watched job only if it read the clock before that job was
\* due.
MissesJob == due <= MaxClaim

\* Nothing due at the moment the claim read the clock; the worker waits for
\* its ticker.  A token is spent although no request is made.
ClaimEmpty(w) ==
  /\ pc[w] = "claim" /\ timer[w] = 0
  /\ MissesJob
  /\ \E d \in 0..Flush : Wait(w, "pause", d)
  /\ UNCHANGED <<interval, free, phase, heartbeat, due, before, debt, failures>>

\* The rows of a claim that finds some: the watched job is among them, or older
\* rows fill the batch, or the claim misses it and takes any others.
TakeRows ==
  \/ due # NoJob /\ due' = NoJob /\ before' = 0
  \/ /\ due # NoJob /\ before < MaxBefore
     /\ before' = before + 1
     /\ UNCHANGED due
  \/ MissesJob /\ UNCHANGED <<due, before>>

\* processBatch: one request.
ClaimBatch(w) ==
  /\ pc[w] = "claim" /\ timer[w] = 0
  /\ TakeRows
  /\ debt' = debt + interval
  /\ \E d \in 0..MaxSend : Wait(w, "pause", d)
  /\ UNCHANGED <<interval, free, phase, heartbeat, failures>>

ClaimFails(w) ==
  /\ pc[w] = "claim" /\ timer[w] = 0
  /\ failures < MaxFailures
  /\ failures' = failures + 1
  /\ Wait(w, "pause", ClaimPause)
  /\ UNCHANGED <<interval, free, phase, heartbeat, due, before, debt>>

NextRound(w) ==
  /\ pc[w] = "pause" /\ timer[w] = 0
  /\ Wait(w, "top", 0)
  /\ UNCHANGED <<interval, free, phase, heartbeat, due, before, debt, failures>>

WorkerStep(w) ==
  \/ Top(w)
  \/ LimiterGrants(w)
  \/ ClaimEmpty(w)
  \/ ClaimBatch(w)
  \/ ClaimFails(w)
  \/ NextRound(w)

-----------------------------------------------------------------------------

\* The next job to be watched becomes due.
JobDue ==
  /\ due = NoJob
  /\ due' = 0
  /\ UNCHANGED <<interval, free, pc, timer, phase, heartbeat, before, debt, failures>>

Older(age, cap) == IF age = -1 \/ age = cap THEN age ELSE age + 1

Tick ==
  /\ \A w \in Workers : timer[w] > 0
  /\ timer' = [w \in Workers |-> timer[w] - 1]
  /\ free' = Max({free - 1, 0})
  /\ phase' = (phase + 1) % TicksPerSecond
  /\ heartbeat' = Older(heartbeat, BeatCap)
  /\ due' = Older(due, PickupLimit + 1)
  /\ debt' = Max({debt - 1, 0})
  /\ UNCHANGED <<interval, pc, before, failures>>

Next ==
  \/ \E w \in Workers : WorkerStep(w)
  \/ JobDue
  \/ Tick

\* Time passes and goroutines are scheduled; jobs need not come.
Fairness == WF_vars(Tick) /\ \A w \in Workers : WF_vars(WorkerStep(w))

Spec == Init /\ [][Next]_vars /\ Fairness

Ready == heartbeat # NoBeat /\ heartbeat <= MaxAge

-----------------------------------------------------------------------------
(* Properties *)

\* Every variable keeps its type; no worker waits longer for the limiter than
\* one interval per worker.
TimingTypeOK ==
  /\ interval \in Intervals
  /\ free \in 0..(interval * (Cardinality(Workers) + 1))
  /\ pc \in [Workers -> {"top", "limiter", "claim", "pause"}]
  /\ timer \in [Workers -> Nat]
  /\ phase \in 0..(TicksPerSecond - 1)
  /\ heartbeat \in {NoBeat} \cup 0..BeatCap
  /\ due \in {NoJob} \cup Nat
  /\ before \in 0..MaxBefore
  /\ debt \in Nat
  /\ failures \in 0..MaxFailures

\* Whatever the workers do, the bulk requests stay within the configured rate:
\* in any L ticks there are at most 1 + (L + MaxClaim) / interval of them.
RequestsPaced == debt <= interval + MaxClaim

\* A due job does not starve behind the tokens that idle workers reserve and
\* spend on empty claims, nor in a backlog: for every PickupBound it waits beyond
\* the first, a batch of rows older than it has been claimed.
PickupBounded == due <= PickupLimit

\* A relay whose slowest round fits in the limit, with the second that the
\* truncated heartbeat may lose, is ready from its first heartbeat on.
ReadyWhenPaced ==
  MaxSend + MaxClaim + Flush + ClaimPause + interval + TicksPerSecond <= MaxAge
    => (heartbeat # NoBeat => Ready)

\* A working dispatcher is ready again and again, at any rate.
ReadyAgain == []<>Ready

-----------------------------------------------------------------------------
(* docs/RUNBOOK.md: after the start, "GET /readyz returns 200".            *)
ReadyOnceStarted == heartbeat # NoBeat => Ready
=============================================================================
