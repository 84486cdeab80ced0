-------------------------- MODULE ReadinessProofs ---------------------------
(***************************************************************************)
(* Proofs about Readiness, for any finite set of workers, any interval of  *)
(* the limiter, any durations and any number of claims that fail.          *)
(*                                                                         *)
(* Everything rests on the queue in front of the limiter.  Its             *)
(* reservations lie exactly one interval apart, and the first of them is   *)
(* at most one interval away, however many workers wait.  So grants are an *)
(* interval apart, which bounds the requests; and whenever some worker     *)
(* waits, some worker is granted within an interval, which bounds how long *)
(* a due job and the heartbeat can be left alone.                          *)
(***************************************************************************)
EXTENDS Readiness, TLAPS, FiniteSetTheorems

Waiting == {w \in Workers : pc[w] = "limiter"}
Claiming == {w \in Workers : pc[w] = "claim"}

\* Ticks until the limiter can grant again: what is left of free when the
\* reservations of those who wait are taken off.
Cooldown == free - interval * Cardinality(Waiting)

-----------------------------------------------------------------------------
(* The invariant *)

\* TimingTypeOK without its bound on free, which the queue has to give.
PlainTypes ==
  /\ interval \in Intervals
  /\ free \in Nat
  /\ pc \in [Workers -> {"top", "limiter", "claim", "pause"}]
  /\ timer \in [Workers -> Nat]
  /\ phase \in 0..(TicksPerSecond - 1)
  /\ heartbeat \in {NoBeat} \cup 0..BeatCap
  /\ due \in {NoJob} \cup Nat
  /\ before \in 0..MaxBefore
  /\ debt \in Nat
  /\ failures \in 0..MaxFailures

\* The queue: an interval between any two, no hole before free, the first one
\* after the cooldown and not after that.
QueueOK ==
  /\ Cooldown \in 0..interval
  /\ \A w \in Waiting : Cooldown <= timer[w] /\ timer[w] + interval <= free
  /\ \A v, w \in Waiting :
       v # w => timer[v] + interval <= timer[w] \/ timer[w] + interval <= timer[v]
  /\ \A w \in Waiting :
       timer[w] + interval = free \/ \E v \in Waiting : timer[v] = timer[w] + interval
  /\ Waiting # {} => \E w \in Waiting : timer[w] = Cooldown

\* One more failed claim costs this much.
Round == ClaimPause + interval + MaxClaim
Busy == MaxClaim + Max({MaxSend, Flush})

TimersOK ==
  \A w \in Workers :
    /\ pc[w] = "top" => timer[w] = 0
    /\ pc[w] = "claim" => timer[w] <= MaxClaim
    /\ pc[w] = "pause" => timer[w] <= Busy + failures * Round

\* Claims that will take at least t more ticks began within MaxClaim - t ticks,
\* an interval apart.
SlowClaims(t) == {w \in Claiming : timer[w] >= t}

ClaimsSpaced ==
  \A t \in Nat : SlowClaims(t) # {} =>
    interval * Cardinality(SlowClaims(t)) + t <= Cooldown + MaxClaim

\* The requests made and those the claims under way may still lead to.
DebtOK == debt > 0 => debt + interval * Cardinality(Claiming) <= Cooldown + MaxClaim

\* How long it takes at most until worker w, or one before it in the queue, has
\* ended a claim, and until it is back at the top of its loop.
UntilClaimed(w) ==
  CASE pc[w] = "limiter" -> timer[w] + MaxClaim
    [] pc[w] = "claim" -> timer[w]
    [] OTHER -> timer[w] + interval + MaxClaim

Slow == MaxSend + Flush + ClaimPause

UntilTop(w) ==
  CASE pc[w] = "limiter" -> timer[w] + MaxClaim + Slow
    [] pc[w] = "claim" -> timer[w] + Slow
    [] OTHER -> timer[w]

PickupOK == due # NoJob => \E w \in Workers : due + UntilClaimed(w) <= PickupLimit

Paced == MaxSend + MaxClaim + Flush + ClaimPause + interval + TicksPerSecond <= MaxAge

BeatOK ==
  Paced /\ heartbeat # NoBeat =>
    \E w \in Workers : heartbeat + UntilTop(w) < TicksPerSecond + interval + MaxClaim + Slow

TimingInv ==
  /\ PlainTypes
  /\ QueueOK
  /\ TimersOK
  /\ ClaimsSpaced
  /\ DebtOK
  /\ PickupOK
  /\ BeatOK

-----------------------------------------------------------------------------
(* Arithmetic *)

\* The larger of two numbers.
LEMMA MaxOfTwo ==
  ASSUME NEW a \in Int, NEW b \in Int
  PROVE  /\ Max({a, b}) \in {a, b}
         /\ Max({a, b}) >= a
         /\ Max({a, b}) >= b
<1>1. \E x \in {a, b} : \A y \in {a, b} : x >= y
  <2>1. CASE a >= b
    BY <2>1
  <2>2. CASE b >= a
    BY <2>2
  <2>. QED BY <2>1, <2>2
<1>2. /\ Max({a, b}) \in {a, b}
      /\ \A y \in {a, b} : Max({a, b}) >= y
  BY <1>1 DEF Max
<1>. QED BY <1>2

\* An interval for one more worker.
LEMMA TimesOneMore ==
  ASSUME NEW a \in Nat, NEW b \in Nat
  PROVE  a * b \in Nat /\ a * (b + 1) = a * b + a
OBVIOUS

\* And for one less.
LEMMA TimesOneLess ==
  ASSUME NEW a \in Nat, NEW b \in Nat, b > 0
  PROVE  a * (b - 1) = a * b - a
OBVIOUS

\* No more workers, no more intervals.
LEMMA TimesMonotone ==
  ASSUME NEW a \in Nat, NEW b \in Nat, NEW c \in Nat, b <= c
  PROVE  a * b <= a * c
<1>1. PICK d \in Nat : c = b + d
  <2>1. c - b \in Nat /\ c = b + (c - b)
    OBVIOUS
  <2>. QED BY <2>1
<1>2. a * c = a * b + a * d /\ a * d \in Nat /\ a * b \in Nat
  BY <1>1
<1>. QED BY <1>2

\* The constants, for citing.
TimingConstantsOK ==
  /\ TicksPerSecond \in Nat /\ TicksPerSecond > 0
  /\ Flush \in Nat /\ Flush > 0
  /\ MaxClaim \in Nat
  /\ MaxSend \in Nat
  /\ MaxFailures \in Nat /\ MaxBefore \in Nat
  /\ ClaimPause \in Nat
  /\ Busy \in Nat /\ Busy >= MaxClaim + MaxSend /\ Busy >= MaxClaim + Flush
  /\ Slow = MaxSend + Flush + ClaimPause
  /\ MaxAge \in Nat
  /\ BeatCap = MaxAge + TicksPerSecond + 1

\* What the named assumption says of them.
LEMMA TimingConstantFacts == TimingConstantsOK
<1>1. /\ TicksPerSecond \in Nat /\ TicksPerSecond > 0
      /\ Flush \in Nat /\ Flush > 0
      /\ MaxClaim \in Nat /\ MaxSend \in Nat /\ MaxFailures \in Nat /\ MaxBefore \in Nat
  BY TimingAssumption
<1>2. ClaimPause \in Nat
  BY <1>1 DEF ClaimPause
<1>3. Busy \in Nat /\ Busy >= MaxClaim + MaxSend /\ Busy >= MaxClaim + Flush
  <2>. DEFINE m == Max({MaxSend, Flush})
  <2>1. m \in {MaxSend, Flush} /\ m >= MaxSend /\ m >= Flush
    BY <1>1, MaxOfTwo
  <2>2. Busy = MaxClaim + m
    BY DEF Busy
  <2>. HIDE DEF m
  <2>. QED BY <1>1, <2>1, <2>2
<1>4. MaxAge \in Nat
  <2>1. 3 * Flush \in Int /\ 5 * TicksPerSecond \in Int
    BY <1>1
  <2>2. MaxAge \in {3 * Flush, 5 * TicksPerSecond}
    BY <2>1, MaxOfTwo DEF MaxAge
  <2>. QED BY <1>1, <2>2
<1>. QED BY <1>1, <1>2, <1>3, <1>4 DEF TimingConstantsOK, Slow, BeatCap

\* The numbers that depend on the interval.
LEMMA IntervalFacts ==
  ASSUME PlainTypes
  PROVE  /\ interval \in Nat /\ interval > 0
         /\ Round \in Nat /\ Round = ClaimPause + interval + MaxClaim
         /\ failures \in Nat /\ failures * Round \in Nat
         /\ PickupBound = Busy + interval + MaxClaim + failures * Round
         /\ PickupBound \in Nat
<1>1. interval \in Nat /\ interval > 0
  BY TimingAssumption DEF PlainTypes
<1>2. Round \in Nat /\ Round = ClaimPause + interval + MaxClaim
  BY <1>1, TimingConstantFacts DEF Round, TimingConstantsOK
<1>3. failures \in Nat
  BY TimingConstantFacts DEF PlainTypes, TimingConstantsOK
<1>4. failures * Round \in Nat
  BY <1>2, <1>3, TimesOneMore
<1>5. PickupBound = Busy + interval + MaxClaim + failures * Round
  BY DEF PickupBound, Busy, Round
<1>. QED BY <1>1, <1>2, <1>3, <1>4, <1>5, TimingConstantFacts DEF TimingConstantsOK

\* A bound for each batch of older rows, and one more.
LEMMA LimitFacts ==
  ASSUME PlainTypes
  PROVE  /\ before \in Nat
         /\ PickupLimit = PickupBound * before + PickupBound
         /\ PickupBound * before \in Nat
         /\ PickupLimit \in Nat /\ PickupBound <= PickupLimit
<1>1. before \in Nat /\ PickupBound \in Nat
  BY TimingConstantFacts, IntervalFacts DEF PlainTypes, TimingConstantsOK
<1>2. PickupBound * before \in Nat /\ PickupBound * (before + 1) = PickupBound * before + PickupBound
  BY <1>1, TimesOneMore
<1>. QED BY <1>1, <1>2 DEF PickupLimit

\* Sets of workers are finite.
LEMMA WorkersFinite ==
  ASSUME NEW S \in SUBSET Workers
  PROVE  IsFiniteSet(S) /\ Cardinality(S) \in Nat /\ Cardinality(S) <= Cardinality(Workers)
BY TimingAssumption, FS_Subset, FS_CardinalityType

\* One worker more, one worker less, in intervals.
LEMMA OneMoreWorker ==
  ASSUME interval \in Nat, NEW S \in SUBSET Workers, NEW w \in Workers, w \notin S
  PROVE  /\ interval * Cardinality(S \cup {w}) = interval * Cardinality(S) + interval
         /\ interval * Cardinality(S) \in Nat
<1>1. IsFiniteSet(S) /\ Cardinality(S) \in Nat
  BY WorkersFinite
<1>2. Cardinality(S \cup {w}) = Cardinality(S) + 1
  BY <1>1, FS_AddElement
<1>. QED BY <1>1, <1>2, TimesOneMore

\* The same the other way.
LEMMA OneWorkerLess ==
  ASSUME interval \in Nat, NEW S \in SUBSET Workers, NEW w \in S
  PROVE  /\ interval * Cardinality(S \ {w}) = interval * Cardinality(S) - interval
         /\ interval * Cardinality(S) \in Nat
<1>1. IsFiniteSet(S) /\ Cardinality(S) \in Nat
  BY WorkersFinite
<1>2. Cardinality(S \ {w}) = Cardinality(S) - 1 /\ Cardinality(S \ {w}) \in Nat
  BY <1>1, FS_RemoveElement, FS_CardinalityType
<1>3. Cardinality(S) > 0
  BY <1>1, <1>2
<1>. QED BY <1>1, <1>2, <1>3, TimesOneLess, TimesOneMore

-----------------------------------------------------------------------------
(* What the steps of a worker change *)

\* A worker that moves leaves the others where they are.
OthersStay(w) == \A v \in Workers \ {w} : pc'[v] = pc[v] /\ timer'[v] = timer[v]

\* What Wait does, worker by worker.
LEMMA WaitEffect ==
  ASSUME PlainTypes, NEW w \in Workers, NEW at, NEW ticks, Wait(w, at, ticks)
  PROVE  pc'[w] = at /\ timer'[w] = ticks /\ OthersStay(w)
BY DEF PlainTypes, Wait, OthersStay

\* The queue in numbers.
LEMMA QueueFacts ==
  ASSUME PlainTypes
  PROVE  /\ interval * Cardinality(Waiting) \in Nat
         /\ interval * Cardinality(Claiming) \in Nat
         /\ Cooldown \in Int
         /\ free = Cooldown + interval * Cardinality(Waiting)
         /\ Waiting = {} => Cooldown = free
<1>1. Waiting \in SUBSET Workers /\ Claiming \in SUBSET Workers
  BY DEF Waiting, Claiming
<1>2. Cardinality(Waiting) \in Nat /\ Cardinality(Claiming) \in Nat
  BY <1>1, WorkersFinite
<1>3. interval \in Nat /\ free \in Nat
  BY IntervalFacts DEF PlainTypes
<1>4. interval * Cardinality(Waiting) \in Nat /\ interval * Cardinality(Claiming) \in Nat
  BY <1>2, <1>3, TimesOneMore
<1>5. Cooldown \in Int /\ free = Cooldown + interval * Cardinality(Waiting)
  BY <1>3, <1>4 DEF Cooldown
<1>6. ASSUME Waiting = {} PROVE Cooldown = free
  <2>1. Cardinality(Waiting) = 0
    BY <1>6, FS_EmptySet
  <2>. QED BY <1>3, <2>1 DEF Cooldown
<1>. QED BY <1>4, <1>5, <1>6

\* The estimates, by where the worker is.
LEMMA UntilFacts ==
  ASSUME PlainTypes, NEW w \in Workers
  PROVE  /\ UntilClaimed(w) \in Nat /\ UntilTop(w) \in Nat /\ timer[w] \in Nat
         /\ pc[w] = "limiter" => /\ UntilClaimed(w) = timer[w] + MaxClaim
                                 /\ UntilTop(w) = timer[w] + MaxClaim + Slow
         /\ pc[w] = "claim" => /\ UntilClaimed(w) = timer[w]
                               /\ UntilTop(w) = timer[w] + Slow
         /\ pc[w] \in {"top", "pause"} => /\ UntilClaimed(w) = timer[w] + interval + MaxClaim
                                          /\ UntilTop(w) = timer[w]
<1>1. pc[w] \in {"top", "limiter", "claim", "pause"} /\ timer[w] \in Nat
  BY DEF PlainTypes
<1>2. interval \in Nat /\ MaxClaim \in Nat /\ Slow \in Nat
  BY IntervalFacts, TimingConstantFacts DEF TimingConstantsOK
<1>3. CASE pc[w] = "limiter"
  BY <1>1, <1>2, <1>3 DEF UntilClaimed, UntilTop
<1>4. CASE pc[w] = "claim"
  BY <1>1, <1>2, <1>4 DEF UntilClaimed, UntilTop
<1>5. CASE pc[w] \in {"top", "pause"}
  BY <1>1, <1>2, <1>5 DEF UntilClaimed, UntilTop
<1>. QED BY <1>1, <1>3, <1>4, <1>5

\* A worker that only gets closer to its claim keeps the bound on a due job.
LEMMA PickupKept ==
  ASSUME PlainTypes, PickupOK, NEW w \in Workers, OthersStay(w),
         UNCHANGED <<interval, due, before, failures>>,
         UntilClaimed(w)' \in Nat, UntilClaimed(w)' <= UntilClaimed(w)
  PROVE  PickupOK'
<1>. SUFFICES ASSUME due' # NoJob
              PROVE  \E v \in Workers : due' + UntilClaimed(v)' <= PickupLimit'
  BY DEF PickupOK
<1>1. PickupLimit' = PickupLimit
  BY DEF PickupLimit, PickupBound
<1>2. PICK v \in Workers : due + UntilClaimed(v) <= PickupLimit
  BY DEF PickupOK
<1>3. UntilClaimed(v) \in Nat /\ UntilClaimed(v)' \in Nat /\ UntilClaimed(v)' <= UntilClaimed(v)
  <2>1. UntilClaimed(v) \in Nat
    BY UntilFacts
  <2>2. v # w => UntilClaimed(v)' = UntilClaimed(v)
    BY DEF OthersStay, UntilClaimed
  <2>. QED BY <2>1, <2>2
<1>4. due \in Int /\ PickupLimit \in Int
  BY LimitFacts DEF PlainTypes, NoJob
<1>. QED BY <1>1, <1>2, <1>3, <1>4

\* So does one that only gets closer to the top of its loop, for the heartbeat.
LEMMA BeatKept ==
  ASSUME PlainTypes, BeatOK, NEW w \in Workers, OthersStay(w),
         UNCHANGED <<interval, heartbeat>>,
         UntilTop(w)' \in Nat, UntilTop(w)' <= UntilTop(w)
  PROVE  BeatOK'
<1>. SUFFICES ASSUME Paced, heartbeat # NoBeat
              PROVE  \E v \in Workers :
                       heartbeat + UntilTop(v)' < TicksPerSecond + interval + MaxClaim + Slow
  BY DEF BeatOK, Paced
<1>1. PICK v \in Workers : heartbeat + UntilTop(v) < TicksPerSecond + interval + MaxClaim + Slow
  BY DEF BeatOK
<1>2. UntilTop(v) \in Nat /\ UntilTop(v)' \in Nat /\ UntilTop(v)' <= UntilTop(v)
  <2>1. UntilTop(v) \in Nat
    BY UntilFacts
  <2>2. v # w => UntilTop(v)' = UntilTop(v)
    BY DEF OthersStay, UntilTop
  <2>. QED BY <2>1, <2>2
<1>3. heartbeat \in Int /\ interval \in Int /\ MaxClaim \in Int /\ Slow \in Int /\ TicksPerSecond \in Int
  BY IntervalFacts, TimingConstantFacts DEF PlainTypes, NoBeat, TimingConstantsOK
<1>. QED BY <1>1, <1>2, <1>3

-----------------------------------------------------------------------------
(* The steps of a worker *)

\* The top of the loop: a heartbeat, and a place at the end of the queue.
LEMMA TopInv ==
  ASSUME TimingInv, NEW w \in Workers, Top(w)
  PROVE  TimingInv'
<1>. DEFINE T == interval * Cardinality(Waiting)
<1>0. PlainTypes /\ QueueOK /\ TimersOK /\ ClaimsSpaced /\ DebtOK /\ PickupOK /\ BeatOK
  BY DEF TimingInv
<1>1. /\ pc[w] = "top" /\ heartbeat' = phase /\ free' = free + interval
      /\ UNCHANGED <<interval, phase, due, before, debt, failures>>
      /\ pc'[w] = "limiter" /\ timer'[w] = free /\ OthersStay(w)
  BY <1>0, WaitEffect DEF Top, StoreHeartbeat, Reserve
<1>2. /\ interval \in Nat /\ interval > 0 /\ free \in Nat
      /\ Cooldown \in 0..interval /\ T \in Nat /\ free = Cooldown + T
      /\ Waiting = {} => Cooldown = free
  BY <1>0, IntervalFacts, QueueFacts DEF PlainTypes, QueueOK
<1>3. Waiting' = Waiting \cup {w} /\ w \notin Waiting /\ Claiming' = Claiming
  BY <1>1 DEF Waiting, Claiming, OthersStay
<1>4. Cooldown' = Cooldown
  <2>1. Waiting \in SUBSET Workers
    BY DEF Waiting
  <2>2. interval * Cardinality(Waiting') = T + interval
    BY <1>2, <1>3, <2>1, OneMoreWorker
  <2>3. Cooldown' = free' - interval' * Cardinality(Waiting')
    BY DEF Cooldown
  <2>. QED BY <1>1, <1>2, <2>2, <2>3
<1>5. PlainTypes'
  <2>1. phase \in 0..BeatCap
    BY <1>0, TimingConstantFacts DEF PlainTypes, TimingConstantsOK
  <2>2. pc' \in [Workers -> {"top", "limiter", "claim", "pause"}] /\ timer' \in [Workers -> Nat]
    BY <1>0, <1>2 DEF PlainTypes, Top, Reserve, Wait
  <2>. QED BY <1>0, <1>1, <1>2, <2>1, <2>2 DEF PlainTypes
<1>6. \A v \in Waiting : v # w /\ timer'[v] = timer[v] /\ timer[v] \in Nat
  BY <1>0, <1>1, <1>3 DEF OthersStay, Waiting, PlainTypes
<1>7. QueueOK'
  <2>1. \A v \in Waiting' : Cooldown' <= timer'[v] /\ timer'[v] + interval' <= free'
    BY <1>0, <1>1, <1>2, <1>3, <1>4, <1>6 DEF QueueOK
  <2>2. \A u, v \in Waiting' :
          u # v => timer'[u] + interval' <= timer'[v] \/ timer'[v] + interval' <= timer'[u]
    BY <1>0, <1>1, <1>2, <1>3, <1>6 DEF QueueOK
  <2>3. \A v \in Waiting' :
          timer'[v] + interval' = free' \/ \E u \in Waiting' : timer'[u] = timer'[v] + interval'
    BY <1>0, <1>1, <1>2, <1>3, <1>6 DEF QueueOK
  <2>4. \E v \in Waiting' : timer'[v] = Cooldown'
    <3>1. CASE Waiting = {}
      BY <1>1, <1>2, <1>3, <1>4, <3>1
    <3>2. CASE Waiting # {}
      BY <1>0, <1>3, <1>4, <1>6, <3>2 DEF QueueOK
    <3>. QED BY <3>1, <3>2
  <2>. QED BY <1>1, <1>2, <1>4, <2>1, <2>2, <2>3, <2>4 DEF QueueOK
<1>8. TimersOK'
  BY <1>0, <1>1 DEF TimersOK, OthersStay, Round
<1>9. ClaimsSpaced' /\ DebtOK'
  <2>1. \A t : SlowClaims(t)' = SlowClaims(t)
    BY <1>1, <1>3 DEF SlowClaims, OthersStay, Claiming
  <2>. QED BY <1>0, <1>1, <1>3, <1>4, <2>1 DEF ClaimsSpaced, DebtOK
<1>10. PICK m \in Waiting' : timer'[m] = Cooldown'
  BY <1>3, <1>7 DEF QueueOK
<1>11. m \in Workers /\ pc'[m] = "limiter" /\ timer'[m] <= interval /\ timer'[m] \in Nat
  BY <1>2, <1>4, <1>5, <1>10 DEF Waiting
<1>12. /\ UntilClaimed(m)' = timer'[m] + MaxClaim
       /\ UntilTop(m)' = timer'[m] + MaxClaim + Slow
  BY <1>11 DEF UntilClaimed, UntilTop
<1>13. PickupOK'
  <2>. SUFFICES ASSUME due # NoJob
                PROVE  \E v \in Workers : due + UntilClaimed(v)' <= PickupLimit
    BY <1>1 DEF PickupOK, PickupLimit, PickupBound
  <2>1. PICK v \in Workers : due + UntilClaimed(v) <= PickupLimit
    BY <1>0 DEF PickupOK
  <2>2. CASE v # w
    <3>1. UntilClaimed(v)' = UntilClaimed(v)
      BY <1>1, <2>2 DEF OthersStay, UntilClaimed
    <3>. QED BY <2>1, <3>1
  <2>3. CASE v = w
    <3>1. UntilClaimed(w) = timer[w] + interval + MaxClaim /\ timer[w] \in Nat
      BY <1>0, <1>1, UntilFacts
    <3>2. due \in Int /\ PickupLimit \in Int /\ MaxClaim \in Nat
      BY <1>0, LimitFacts, TimingConstantFacts DEF PlainTypes, NoJob, TimingConstantsOK
    <3>3. due + UntilClaimed(m)' <= PickupLimit
      BY <1>2, <1>11, <1>12, <2>1, <2>3, <3>1, <3>2
    <3>. QED BY <1>11, <3>3
  <2>. QED BY <2>2, <2>3
<1>14. BeatOK'
  <2>1. phase \in Int /\ phase < TicksPerSecond /\ TicksPerSecond \in Int /\ MaxClaim \in Nat /\ Slow \in Nat
    BY <1>0, TimingConstantFacts DEF PlainTypes, TimingConstantsOK
  <2>2. heartbeat' + UntilTop(m)' < TicksPerSecond + interval' + MaxClaim + Slow
    BY <1>1, <1>2, <1>11, <1>12, <2>1
  <2>. QED BY <1>11, <2>2 DEF BeatOK
<1>. QED BY <1>5, <1>7, <1>8, <1>9, <1>13, <1>14 DEF TimingInv

\* The limiter lets the first of the queue through: the others are an interval
\* behind it, and its claim joins those under way.
LEMMA LimiterGrantsInv ==
  ASSUME TimingInv, NEW w \in Workers, LimiterGrants(w)
  PROVE  TimingInv'
<1>0. PlainTypes /\ QueueOK /\ TimersOK /\ ClaimsSpaced /\ DebtOK /\ PickupOK /\ BeatOK
  BY DEF TimingInv
<1>1. PICK d \in 0..MaxClaim : Wait(w, "claim", d)
  BY DEF LimiterGrants
<1>2. /\ pc[w] = "limiter" /\ timer[w] = 0
      /\ UNCHANGED <<interval, free, phase, heartbeat, due, before, debt, failures>>
      /\ pc'[w] = "claim" /\ timer'[w] = d /\ OthersStay(w)
  BY <1>0, <1>1, WaitEffect DEF LimiterGrants
<1>3. /\ interval \in Nat /\ interval > 0 /\ free \in Nat
      /\ MaxClaim \in Nat /\ d \in Nat /\ d <= MaxClaim
  BY <1>0, IntervalFacts, TimingConstantFacts DEF PlainTypes, TimingConstantsOK
<1>4. /\ Waiting' = Waiting \ {w} /\ w \in Waiting
      /\ Claiming' = Claiming \cup {w} /\ w \notin Claiming
  BY <1>2 DEF Waiting, Claiming, OthersStay
<1>5. Cooldown = 0
  BY <1>0, <1>2, <1>4 DEF QueueOK
<1>6. Cooldown' = interval
  <2>1. Waiting \in SUBSET Workers
    BY DEF Waiting
  <2>2. /\ interval * Cardinality(Waiting') = interval * Cardinality(Waiting) - interval
        /\ interval * Cardinality(Waiting) \in Nat
    BY <1>3, <1>4, <2>1, OneWorkerLess
  <2>3. Cooldown' = free' - interval' * Cardinality(Waiting')
    BY DEF Cooldown
  <2>4. free = interval * Cardinality(Waiting)
    BY <1>3, <1>5, <2>2 DEF Cooldown
  <2>. QED BY <1>2, <1>3, <2>2, <2>3, <2>4
<1>7. PlainTypes'
  <2>1. pc' \in [Workers -> {"top", "limiter", "claim", "pause"}] /\ timer' \in [Workers -> Nat]
    BY <1>0, <1>1, <1>3 DEF PlainTypes, Wait
  <2>. QED BY <1>0, <1>2, <2>1 DEF PlainTypes
<1>8. \A v \in Waiting' : v \in Waiting /\ v # w /\ timer'[v] = timer[v] /\ timer[v] \in Nat
  BY <1>0, <1>2, <1>4 DEF OthersStay, Waiting, PlainTypes
<1>9. \A v \in Waiting' : interval <= timer[v]
  BY <1>0, <1>2, <1>3, <1>4, <1>8 DEF QueueOK
<1>10. QueueOK'
  <2>1. \A v \in Waiting' : Cooldown' <= timer'[v] /\ timer'[v] + interval' <= free'
    BY <1>0, <1>2, <1>6, <1>8, <1>9 DEF QueueOK
  <2>2. \A u, v \in Waiting' :
          u # v => timer'[u] + interval' <= timer'[v] \/ timer'[v] + interval' <= timer'[u]
    BY <1>0, <1>2, <1>8 DEF QueueOK
  <2>3. \A v \in Waiting' :
          timer'[v] + interval' = free' \/ \E u \in Waiting' : timer'[u] = timer'[v] + interval'
    <3>. SUFFICES ASSUME NEW v \in Waiting', timer[v] + interval # free
                  PROVE  \E u \in Waiting' : timer'[u] = timer[v] + interval
      BY <1>2, <1>8
    <3>1. PICK u \in Waiting : timer[u] = timer[v] + interval
      BY <1>0, <1>8 DEF QueueOK
    <3>2. u # w
      BY <1>2, <1>3, <1>8, <3>1
    <3>. QED BY <1>4, <1>8, <3>1, <3>2
  <2>4. ASSUME NEW v \in Waiting' PROVE \E u \in Waiting' : timer'[u] = Cooldown'
    <3>1. free # interval
      BY <1>0, <1>3, <1>8, <1>9 DEF QueueOK
    <3>2. PICK u \in Waiting : timer[u] = timer[w] + interval
      BY <1>0, <1>2, <1>3, <1>4, <3>1 DEF QueueOK
    <3>3. u # w /\ timer[u] = interval
      BY <1>2, <1>3, <3>2
    <3>. QED BY <1>4, <1>6, <1>8, <3>2, <3>3
  <2>. QED BY <1>2, <1>3, <1>6, <2>1, <2>2, <2>3, <2>4 DEF QueueOK
<1>11. TimersOK'
  BY <1>0, <1>2, <1>3 DEF TimersOK, OthersStay, Round
<1>12. ClaimsSpaced'
  <2>. SUFFICES ASSUME NEW t \in Nat, SlowClaims(t)' # {}
                PROVE  interval * Cardinality(SlowClaims(t)') + t <= interval + MaxClaim
    BY <1>2, <1>6 DEF ClaimsSpaced
  <2>. DEFINE S == SlowClaims(t)
  <2>1. S \in SUBSET Workers /\ w \notin S
    BY <1>4 DEF SlowClaims, Claiming
  <2>2. interval * Cardinality(S) \in Nat
    BY <1>3, <2>1, WorkersFinite, TimesOneMore
  <2>3. S # {} => interval * Cardinality(S) + t <= MaxClaim
    BY <1>0, <1>3, <1>5, <2>2 DEF ClaimsSpaced
  <2>4. CASE d >= t
    <3>1. SlowClaims(t)' = S \cup {w}
      BY <1>2, <1>4, <2>4 DEF SlowClaims, OthersStay, Claiming
    <3>2. interval * Cardinality(S \cup {w}) = interval * Cardinality(S) + interval
      BY <1>3, <2>1, OneMoreWorker
    <3>3. S = {} => interval * Cardinality(S) = 0
      BY <1>3, FS_EmptySet
    <3>. QED BY <1>3, <2>2, <2>3, <2>4, <3>1, <3>2, <3>3
  <2>5. CASE ~(d >= t)
    <3>1. SlowClaims(t)' = S
      BY <1>2, <1>4, <2>5 DEF SlowClaims, OthersStay, Claiming
    <3>. QED BY <1>3, <2>2, <2>3, <3>1
  <2>. QED BY <2>4, <2>5
<1>13. DebtOK'
  <2>1. Claiming \in SUBSET Workers
    BY DEF Claiming
  <2>2. /\ interval * Cardinality(Claiming') = interval * Cardinality(Claiming) + interval
        /\ interval * Cardinality(Claiming) \in Nat
    BY <1>3, <1>4, <2>1, OneMoreWorker
  <2>3. debt > 0 => debt + interval * Cardinality(Claiming) <= MaxClaim
    BY <1>0, <1>3, <1>5, <2>2 DEF DebtOK
  <2>4. debt \in Nat
    BY <1>0 DEF PlainTypes
  <2>. QED BY <1>2, <1>3, <1>6, <2>2, <2>3, <2>4 DEF DebtOK
<1>14. /\ UntilClaimed(w)' = d /\ UntilClaimed(w) = MaxClaim
       /\ UntilTop(w)' = d + Slow /\ UntilTop(w) = MaxClaim + Slow /\ Slow \in Nat
  <2>1. UntilClaimed(w)' = d /\ UntilTop(w)' = d + Slow
    BY <1>2 DEF UntilClaimed, UntilTop
  <2>2. UntilClaimed(w) = MaxClaim /\ UntilTop(w) = MaxClaim + Slow /\ Slow \in Nat
    BY <1>0, <1>2, <1>3, UntilFacts, TimingConstantFacts DEF TimingConstantsOK
  <2>. QED BY <2>1, <2>2
<1>15. PickupOK' /\ BeatOK'
  <2>1. UntilClaimed(w)' \in Nat /\ UntilClaimed(w)' <= UntilClaimed(w)
    BY <1>3, <1>14
  <2>2. UntilTop(w)' \in Nat /\ UntilTop(w)' <= UntilTop(w)
    BY <1>3, <1>14
  <2>. QED BY <1>0, <1>2, <2>1, <2>2, PickupKept, BeatKept
<1>. QED BY <1>7, <1>10, <1>11, <1>12, <1>13, <1>15 DEF TimingInv

\* A claim that ends leaves the queue alone and spaces those under way no less.
LEMMA ClaimEndEffect ==
  ASSUME TimingInv, NEW w \in Workers, NEW d \in Nat, pc[w] = "claim", timer[w] = 0,
         Wait(w, "pause", d), UNCHANGED <<interval, free>>
  PROVE  /\ QueueOK' /\ ClaimsSpaced'
         /\ pc'[w] = "pause" /\ timer'[w] = d /\ OthersStay(w)
         /\ pc' \in [Workers -> {"top", "limiter", "claim", "pause"}]
         /\ timer' \in [Workers -> Nat]
         /\ Cooldown' = Cooldown
         /\ interval * Cardinality(Claiming') = interval * Cardinality(Claiming) - interval
<1>0. PlainTypes /\ QueueOK /\ ClaimsSpaced
  BY DEF TimingInv
<1>1. pc'[w] = "pause" /\ timer'[w] = d /\ OthersStay(w)
  BY <1>0, WaitEffect
<1>2. /\ pc' \in [Workers -> {"top", "limiter", "claim", "pause"}]
      /\ timer' \in [Workers -> Nat]
  BY <1>0 DEF PlainTypes, Wait
<1>3. interval \in Nat
  BY <1>0, IntervalFacts
<1>4. Waiting' = Waiting /\ Claiming' = Claiming \ {w} /\ w \in Claiming /\ w \notin Waiting
  BY <1>1 DEF Waiting, Claiming, OthersStay
<1>5. Cooldown' = Cooldown
  BY <1>4 DEF Cooldown
<1>6. \A v \in Waiting : timer'[v] = timer[v]
  BY <1>1, <1>4 DEF OthersStay, Waiting
<1>7. QueueOK'
  BY <1>0, <1>4, <1>5, <1>6 DEF QueueOK
<1>8. interval * Cardinality(Claiming') = interval * Cardinality(Claiming) - interval
  <2>1. Claiming \in SUBSET Workers
    BY DEF Claiming
  <2>. QED BY <1>3, <1>4, <2>1, OneWorkerLess
<1>9. ClaimsSpaced'
  <2>. SUFFICES ASSUME NEW t \in Nat, SlowClaims(t)' # {}
                PROVE  interval * Cardinality(SlowClaims(t)') + t <= Cooldown + MaxClaim
    BY <1>5 DEF ClaimsSpaced
  <2>1. SlowClaims(t)' \subseteq SlowClaims(t) /\ SlowClaims(t) \in SUBSET Workers
    BY <1>1, <1>4 DEF SlowClaims, OthersStay, Claiming
  <2>2. /\ Cardinality(SlowClaims(t)) \in Nat /\ Cardinality(SlowClaims(t)') \in Nat
        /\ Cardinality(SlowClaims(t)') <= Cardinality(SlowClaims(t))
    BY <2>1, WorkersFinite, FS_Subset
  <2>3. /\ interval * Cardinality(SlowClaims(t)') <= interval * Cardinality(SlowClaims(t))
        /\ interval * Cardinality(SlowClaims(t)') \in Nat
        /\ interval * Cardinality(SlowClaims(t)) \in Nat
    BY <1>3, <2>2, TimesMonotone, TimesOneMore
  <2>4. interval * Cardinality(SlowClaims(t)) + t <= Cooldown + MaxClaim
    BY <1>0, <2>1 DEF ClaimsSpaced
  <2>5. Cooldown \in Int /\ MaxClaim \in Int
    BY <1>0, QueueFacts, TimingConstantFacts DEF TimingConstantsOK
  <2>. QED BY <2>3, <2>4, <2>5
<1>. QED BY <1>1, <1>2, <1>5, <1>7, <1>8, <1>9

\* A claim that found nothing: the job that became due meanwhile is young enough
\* to wait for this worker's ticker.
LEMMA ClaimEmptyInv ==
  ASSUME TimingInv, NEW w \in Workers, ClaimEmpty(w)
  PROVE  TimingInv'
<1>0. PlainTypes /\ QueueOK /\ TimersOK /\ ClaimsSpaced /\ DebtOK /\ PickupOK /\ BeatOK
  BY DEF TimingInv
<1>1. PICK d \in 0..Flush : Wait(w, "pause", d)
  BY DEF ClaimEmpty
<1>2. /\ pc[w] = "claim" /\ timer[w] = 0 /\ due <= MaxClaim
      /\ UNCHANGED <<interval, free, phase, heartbeat, due, before, debt, failures>>
  BY DEF ClaimEmpty, MissesJob
<1>3. /\ interval \in Nat /\ MaxClaim \in Nat /\ Slow \in Nat /\ Flush \in Nat /\ Flush <= Slow
      /\ d \in Nat /\ d <= Flush /\ Busy \in Nat /\ Busy >= MaxClaim + Flush
      /\ failures * Round \in Nat /\ debt \in Nat /\ due \in Int
      /\ PickupBound = Busy + interval + MaxClaim + failures * Round
  BY <1>0, IntervalFacts, TimingConstantFacts DEF PlainTypes, NoJob, TimingConstantsOK
<1>4. /\ QueueOK' /\ ClaimsSpaced'
      /\ pc'[w] = "pause" /\ timer'[w] = d /\ OthersStay(w)
      /\ pc' \in [Workers -> {"top", "limiter", "claim", "pause"}]
      /\ timer' \in [Workers -> Nat]
      /\ Cooldown' = Cooldown
      /\ interval * Cardinality(Claiming') = interval * Cardinality(Claiming) - interval
  BY <1>1, <1>2, <1>3, ClaimEndEffect
<1>5. PlainTypes'
  BY <1>0, <1>2, <1>4 DEF PlainTypes
<1>6. TimersOK'
  <2>1. Round' = Round
    BY <1>2 DEF Round
  <2>. QED BY <1>0, <1>2, <1>3, <1>4, <2>1 DEF TimersOK, OthersStay
<1>7. DebtOK'
  <2>1. interval * Cardinality(Claiming) \in Nat /\ Cooldown \in Int
    BY <1>0, QueueFacts
  <2>. QED BY <1>0, <1>2, <1>3, <1>4, <2>1 DEF DebtOK
<1>8. PickupOK'
  <2>1. UntilClaimed(w)' = d + interval + MaxClaim
    BY <1>2, <1>4 DEF UntilClaimed
  <2>2. PickupLimit \in Nat /\ PickupBound <= PickupLimit
    BY <1>0, LimitFacts
  <2>3. due + UntilClaimed(w)' <= PickupLimit
    BY <1>2, <1>3, <2>1, <2>2
  <2>. QED BY <1>2, <2>3 DEF PickupOK, PickupLimit, PickupBound
<1>9. BeatOK'
  <2>1. UntilTop(w)' = d /\ UntilTop(w) = Slow
    BY <1>0, <1>2, <1>3, <1>4, UntilFacts DEF UntilTop
  <2>2. UntilTop(w)' \in Nat /\ UntilTop(w)' <= UntilTop(w)
    BY <1>3, <2>1
  <2>. QED BY <1>0, <1>2, <1>4, <2>2, BeatKept
<1>. QED BY <1>4, <1>5, <1>6, <1>7, <1>8, <1>9 DEF TimingInv

\* A claim that found a batch: its request takes the place of the claim in what
\* the limiter has let through.
LEMMA ClaimBatchInv ==
  ASSUME TimingInv, NEW w \in Workers, ClaimBatch(w)
  PROVE  TimingInv'
<1>0. PlainTypes /\ QueueOK /\ TimersOK /\ ClaimsSpaced /\ DebtOK /\ PickupOK /\ BeatOK
  BY DEF TimingInv
<1>1. PICK d \in 0..MaxSend : Wait(w, "pause", d)
  BY DEF ClaimBatch
<1>2. /\ pc[w] = "claim" /\ timer[w] = 0 /\ TakeRows /\ debt' = debt + interval
      /\ UNCHANGED <<interval, free, phase, heartbeat, failures>>
  BY DEF ClaimBatch
<1>3. /\ interval \in Nat /\ MaxClaim \in Nat /\ Slow \in Nat /\ MaxSend \in Nat /\ MaxSend <= Slow
      /\ d \in Nat /\ d <= MaxSend /\ Busy \in Nat /\ Busy >= MaxClaim + MaxSend
      /\ failures * Round \in Nat /\ debt \in Nat /\ due \in Int
      /\ PickupBound \in Nat /\ PickupBound = Busy + interval + MaxClaim + failures * Round
  BY <1>0, IntervalFacts, TimingConstantFacts DEF PlainTypes, NoJob, TimingConstantsOK
<1>4. /\ QueueOK' /\ ClaimsSpaced'
      /\ pc'[w] = "pause" /\ timer'[w] = d /\ OthersStay(w)
      /\ pc' \in [Workers -> {"top", "limiter", "claim", "pause"}]
      /\ timer' \in [Workers -> Nat]
      /\ Cooldown' = Cooldown
      /\ interval * Cardinality(Claiming') = interval * Cardinality(Claiming) - interval
  BY <1>1, <1>2, <1>3, ClaimEndEffect
<1>5. PlainTypes'
  <2>1. due' \in {NoJob} \cup Nat /\ before' \in 0..MaxBefore
    BY <1>0, <1>2, TimingConstantFacts DEF PlainTypes, TakeRows, TimingConstantsOK
  <2>. QED BY <1>0, <1>2, <1>3, <1>4, <2>1 DEF PlainTypes
<1>6. TimersOK'
  <2>1. Round' = Round
    BY <1>2 DEF Round
  <2>. QED BY <1>0, <1>2, <1>3, <1>4, <2>1 DEF TimersOK, OthersStay
<1>7. DebtOK'
  <2>1. interval * Cardinality(Claiming) \in Nat /\ Cooldown \in Int
    BY <1>0, QueueFacts
  <2>2. interval * Cardinality(Claiming) <= Cooldown + MaxClaim
    <3>1. SlowClaims(0) = Claiming /\ w \in Claiming
      BY <1>0, <1>2 DEF SlowClaims, Claiming, PlainTypes
    <3>2. interval * Cardinality(SlowClaims(0)) + 0 <= Cooldown + MaxClaim
      BY <1>0, <3>1 DEF ClaimsSpaced
    <3>. QED BY <2>1, <3>1, <3>2
  <2>3. debt + interval * Cardinality(Claiming) <= Cooldown + MaxClaim
    BY <1>0, <1>3, <2>1, <2>2 DEF DebtOK
  <2>. QED BY <1>2, <1>3, <1>4, <2>1, <2>3 DEF DebtOK
<1>8. PickupOK'
  <2>0. /\ before \in Nat /\ PickupBound * before \in Nat
        /\ PickupLimit = PickupBound * before + PickupBound
        /\ PickupLimit \in Nat /\ PickupBound <= PickupLimit
    BY <1>0, LimitFacts
  <2>1. UntilClaimed(w)' = d + interval + MaxClaim
    BY <1>2, <1>4 DEF UntilClaimed
  <2>2. CASE due' = NoJob
    BY <2>2 DEF PickupOK
  <2>3. CASE due # NoJob /\ before' = before + 1 /\ due' = due
    <3>1. PICK v \in Workers : due + UntilClaimed(v) <= PickupLimit
      BY <1>0, <2>3 DEF PickupOK
    <3>2. due <= PickupLimit
      BY <1>0, <1>3, <2>0, <3>1, UntilFacts
    <3>3. PickupLimit' = PickupLimit + PickupBound
      <4>1. PickupLimit' = PickupBound * ((before + 1) + 1)
        BY <1>2, <2>3 DEF PickupLimit, PickupBound
      <4>2. PickupBound * ((before + 1) + 1) = PickupBound * (before + 1) + PickupBound
        BY <1>3, <2>0, TimesOneMore
      <4>. QED BY <4>1, <4>2 DEF PickupLimit
    <3>4. due' + UntilClaimed(w)' <= PickupLimit'
      BY <1>3, <2>0, <2>1, <2>3, <3>2, <3>3
    <3>. QED BY <3>4 DEF PickupOK
  <2>4. CASE due <= MaxClaim /\ UNCHANGED <<due, before>>
    <3>1. PickupLimit' = PickupLimit
      BY <1>2, <2>4 DEF PickupLimit, PickupBound
    <3>2. due' + UntilClaimed(w)' <= PickupLimit'
      BY <1>3, <2>0, <2>1, <2>4, <3>1
    <3>. QED BY <3>2 DEF PickupOK
  <2>. QED BY <1>2, <2>2, <2>3, <2>4 DEF TakeRows, MissesJob
<1>9. BeatOK'
  <2>1. UntilTop(w)' = d /\ UntilTop(w) = Slow
    BY <1>0, <1>2, <1>3, <1>4, UntilFacts DEF UntilTop
  <2>2. UntilTop(w)' \in Nat /\ UntilTop(w)' <= UntilTop(w)
    BY <1>3, <2>1
  <2>. QED BY <1>0, <1>2, <1>4, <2>2, BeatKept
<1>. QED BY <1>4, <1>5, <1>6, <1>7, <1>8, <1>9 DEF TimingInv

\* A claim that failed: the due job waits a round longer, for this worker or for
\* the one it waited for.
LEMMA ClaimFailsInv ==
  ASSUME TimingInv, NEW w \in Workers, ClaimFails(w)
  PROVE  TimingInv'
<1>0. PlainTypes /\ QueueOK /\ TimersOK /\ ClaimsSpaced /\ DebtOK /\ PickupOK /\ BeatOK
  BY DEF TimingInv
<1>1. /\ pc[w] = "claim" /\ timer[w] = 0 /\ Wait(w, "pause", ClaimPause)
      /\ failures < MaxFailures /\ failures' = failures + 1
      /\ UNCHANGED <<interval, free, phase, heartbeat, due, before, debt>>
  BY DEF ClaimFails
<1>2. /\ interval \in Nat /\ MaxClaim \in Nat /\ Slow \in Nat /\ ClaimPause \in Nat
      /\ ClaimPause <= Slow /\ Busy \in Nat /\ MaxFailures \in Nat
      /\ Round \in Nat /\ Round = ClaimPause + interval + MaxClaim /\ failures \in Nat
      /\ failures * Round \in Nat /\ debt \in Nat /\ due \in Int
      /\ PickupBound \in Nat
      /\ PickupBound = Busy + interval + MaxClaim + failures * Round
  BY <1>0, IntervalFacts, TimingConstantFacts DEF PlainTypes, NoJob, TimingConstantsOK
<1>3. /\ QueueOK' /\ ClaimsSpaced'
      /\ pc'[w] = "pause" /\ timer'[w] = ClaimPause /\ OthersStay(w)
      /\ pc' \in [Workers -> {"top", "limiter", "claim", "pause"}]
      /\ timer' \in [Workers -> Nat]
      /\ Cooldown' = Cooldown
      /\ interval * Cardinality(Claiming') = interval * Cardinality(Claiming) - interval
  BY <1>1, <1>2, ClaimEndEffect
<1>4. PlainTypes'
  BY <1>0, <1>1, <1>2, <1>3 DEF PlainTypes
<1>5. Round' = Round /\ failures' * Round = failures * Round + Round
  <2>1. Round' = Round
    BY <1>1 DEF Round
  <2>2. (failures + 1) * Round = failures * Round + Round
    BY <1>2
  <2>. QED BY <1>1, <2>1, <2>2
<1>6. TimersOK'
  <2>1. \A v \in Workers : timer[v] \in Nat
    BY <1>0 DEF PlainTypes
  <2>. QED BY <1>0, <1>1, <1>2, <1>3, <1>5, <2>1 DEF TimersOK, OthersStay
<1>7. DebtOK'
  <2>1. interval * Cardinality(Claiming) \in Nat /\ Cooldown \in Int
    BY <1>0, QueueFacts
  <2>. QED BY <1>0, <1>1, <1>2, <1>3, <2>1 DEF DebtOK
<1>8. PickupOK'
  <2>. SUFFICES ASSUME due # NoJob
                PROVE  \E v \in Workers : due + UntilClaimed(v)' <= PickupLimit'
    BY <1>1 DEF PickupOK
  <2>1. PickupLimit \in Nat /\ PickupLimit' \in Nat /\ PickupLimit' >= PickupLimit + Round
    <3>1. PickupBound' = Busy + interval + MaxClaim + failures' * Round'
      BY <1>1 DEF PickupBound, Busy, Round
    <3>2. PickupBound' = PickupBound + Round
      BY <1>2, <1>5, <3>1
    <3>3. before \in Nat /\ PickupLimit \in Nat
      BY <1>0, LimitFacts
    <3>4. /\ (before + 1) * (PickupBound + Round) = (before + 1) * PickupBound + (before * Round + Round)
          /\ before * Round \in Nat
          /\ (before + 1) * PickupBound = PickupBound * (before + 1)
          /\ (before + 1) * (PickupBound + Round) = (PickupBound + Round) * (before + 1)
      BY <1>2, <3>3, TimesOneMore
    <3>5. PickupLimit' = (PickupBound + Round) * (before + 1)
      BY <1>1, <3>2 DEF PickupLimit
    <3>6. PickupLimit = PickupBound * (before + 1)
      BY DEF PickupLimit
    <3>. QED BY <1>2, <3>3, <3>4, <3>5, <3>6
  <2>2. PICK v \in Workers : due + UntilClaimed(v) <= PickupLimit
    BY <1>0 DEF PickupOK
  <2>3. UntilClaimed(v) \in Nat /\ UntilClaimed(w) = 0
    BY <1>0, <1>1, UntilFacts
  <2>4. CASE v # w
    <3>1. UntilClaimed(v)' = UntilClaimed(v)
      BY <1>1, <1>3, <2>4 DEF OthersStay, UntilClaimed
    <3>2. due + UntilClaimed(v)' <= PickupLimit'
      BY <1>2, <2>1, <2>2, <2>3, <3>1
    <3>. QED BY <3>2
  <2>5. CASE v = w
    <3>1. UntilClaimed(w)' = Round
      BY <1>1, <1>2, <1>3 DEF UntilClaimed
    <3>2. due + UntilClaimed(w)' <= PickupLimit'
      BY <1>2, <2>1, <2>2, <2>3, <2>5, <3>1
    <3>. QED BY <3>2
  <2>. QED BY <2>4, <2>5
<1>9. BeatOK'
  <2>1. UntilTop(w)' = ClaimPause /\ UntilTop(w) = Slow
    BY <1>0, <1>1, <1>2, <1>3, UntilFacts DEF UntilTop
  <2>2. UntilTop(w)' \in Nat /\ UntilTop(w)' <= UntilTop(w)
    BY <1>2, <2>1
  <2>. QED BY <1>0, <1>1, <1>3, <2>2, BeatKept
<1>. QED BY <1>3, <1>4, <1>6, <1>7, <1>8, <1>9 DEF TimingInv

\* Back to the top: nothing that is counted changes.
LEMMA NextRoundInv ==
  ASSUME TimingInv, NEW w \in Workers, NextRound(w)
  PROVE  TimingInv'
<1>0. PlainTypes /\ QueueOK /\ TimersOK /\ ClaimsSpaced /\ DebtOK /\ PickupOK /\ BeatOK
  BY DEF TimingInv
<1>1. /\ pc[w] = "pause" /\ timer[w] = 0 /\ Wait(w, "top", 0)
      /\ UNCHANGED <<interval, free, phase, heartbeat, due, before, debt, failures>>
      /\ pc'[w] = "top" /\ timer'[w] = 0 /\ OthersStay(w)
  BY <1>0, WaitEffect DEF NextRound
<1>2. Waiting' = Waiting /\ Claiming' = Claiming
  BY <1>1 DEF Waiting, Claiming, OthersStay
<1>3. timer' = timer
  BY <1>0, <1>1 DEF Wait, PlainTypes
<1>4. Cooldown' = Cooldown /\ (\A t : SlowClaims(t)' = SlowClaims(t))
  BY <1>1, <1>2, <1>3 DEF Cooldown, SlowClaims
<1>5. PlainTypes'
  BY <1>0, <1>1, <1>3 DEF PlainTypes, Wait
<1>6. QueueOK' /\ ClaimsSpaced' /\ DebtOK'
  BY <1>0, <1>1, <1>2, <1>3, <1>4 DEF QueueOK, ClaimsSpaced, DebtOK
<1>7. TimersOK'
  <2>1. Round' = Round
    BY <1>1 DEF Round
  <2>. QED BY <1>0, <1>1, <2>1 DEF TimersOK, OthersStay
<1>8. PickupOK' /\ BeatOK'
  <2>1. UntilClaimed(w)' = UntilClaimed(w) /\ UntilTop(w)' = UntilTop(w)
    BY <1>1 DEF UntilClaimed, UntilTop
  <2>2. /\ UntilClaimed(w)' \in Nat /\ UntilClaimed(w)' <= UntilClaimed(w)
        /\ UntilTop(w)' \in Nat /\ UntilTop(w)' <= UntilTop(w)
    BY <1>0, <2>1, UntilFacts
  <2>. QED BY <1>0, <1>1, <2>2, PickupKept, BeatKept
<1>. QED BY <1>5, <1>6, <1>7, <1>8 DEF TimingInv

-----------------------------------------------------------------------------
(* Jobs and time *)

\* A job that becomes due finds a worker that will have claimed in time: the
\* first of the queue if there is one, any worker if there is not.
LEMMA JobDueInv ==
  ASSUME TimingInv, JobDue
  PROVE  TimingInv'
<1>0. PlainTypes /\ QueueOK /\ TimersOK /\ ClaimsSpaced /\ DebtOK /\ PickupOK /\ BeatOK
  BY DEF TimingInv
<1>1. due' = 0 /\ UNCHANGED <<interval, free, pc, timer, phase, heartbeat, before, debt, failures>>
  BY DEF JobDue
<1>2. Waiting' = Waiting /\ Claiming' = Claiming
  BY <1>1 DEF Waiting, Claiming
<1>3. Cooldown' = Cooldown /\ (\A t : SlowClaims(t)' = SlowClaims(t))
  BY <1>1, <1>2 DEF Cooldown, SlowClaims
<1>4. PlainTypes'
  BY <1>0, <1>1 DEF PlainTypes
<1>5. QueueOK' /\ ClaimsSpaced' /\ DebtOK'
  BY <1>0, <1>1, <1>2, <1>3 DEF QueueOK, ClaimsSpaced, DebtOK
<1>6. TimersOK'
  <2>1. Round' = Round
    BY <1>1 DEF Round
  <2>. QED BY <1>0, <1>1, <2>1 DEF TimersOK
<1>7. BeatOK'
  <2>1. \A w \in Workers : UntilTop(w)' = UntilTop(w)
    BY <1>1 DEF UntilTop
  <2>. QED BY <1>0, <1>1, <2>1 DEF BeatOK, Paced
<1>8. PickupOK'
  <2>1. /\ interval \in Nat /\ MaxClaim \in Nat /\ Busy \in Nat /\ failures * Round \in Nat
        /\ PickupBound \in Nat
        /\ PickupBound = Busy + interval + MaxClaim + failures * Round
    BY <1>0, IntervalFacts, TimingConstantFacts DEF TimingConstantsOK
  <2>2. PickupLimit' = PickupLimit /\ \A w \in Workers : UntilClaimed(w)' = UntilClaimed(w)
    BY <1>1 DEF PickupLimit, PickupBound, UntilClaimed
  <2>3. \E w \in Workers : UntilClaimed(w) <= PickupBound
    <3>1. CASE Waiting # {}
      <4>1. PICK w \in Waiting : timer[w] = Cooldown
        BY <1>0, <3>1 DEF QueueOK
      <4>2. w \in Workers /\ pc[w] = "limiter" /\ timer[w] <= interval
        BY <1>0, <2>1, <4>1 DEF Waiting, QueueOK
      <4>3. UntilClaimed(w) = timer[w] + MaxClaim /\ timer[w] \in Nat
        BY <1>0, <4>2, UntilFacts
      <4>. QED BY <2>1, <4>2, <4>3
    <3>2. CASE Waiting = {}
      <4>1. PICK w \in Workers : TRUE
        BY TimingAssumption
      <4>2. pc[w] \in {"top", "claim", "pause"} /\ timer[w] \in Nat
        BY <1>0, <3>2 DEF PlainTypes, Waiting
      <4>3. CASE pc[w] = "claim"
        BY <1>0, <2>1, <4>2, <4>3, UntilFacts DEF TimersOK
      <4>4. CASE pc[w] \in {"top", "pause"}
        <5>1. timer[w] <= Busy + failures * Round
          BY <1>0, <2>1, <4>2, <4>4 DEF TimersOK
        <5>2. UntilClaimed(w) = timer[w] + interval + MaxClaim
          BY <1>0, <4>4, UntilFacts
        <5>. QED BY <2>1, <4>2, <5>1, <5>2
      <4>. QED BY <4>2, <4>3, <4>4
    <3>. QED BY <3>1, <3>2
  <2>4. PICK w \in Workers : UntilClaimed(w) <= PickupBound
    BY <2>3
  <2>5. PickupLimit \in Nat /\ PickupBound <= PickupLimit
    BY <1>0, LimitFacts
  <2>6. due' + UntilClaimed(w)' <= PickupLimit'
    BY <1>0, <1>1, <2>1, <2>2, <2>4, <2>5, UntilFacts
  <2>. QED BY <2>6 DEF PickupOK
<1>. QED BY <1>4, <1>5, <1>6, <1>7, <1>8 DEF TimingInv

\* A tick: everybody waits, so everything that is ahead comes a tick closer.
LEMMA TickInv ==
  ASSUME TimingInv, Tick
  PROVE  TimingInv'
<1>0. PlainTypes /\ QueueOK /\ TimersOK /\ ClaimsSpaced /\ DebtOK /\ PickupOK /\ BeatOK
  BY DEF TimingInv
<1>1. /\ \A w \in Workers : timer[w] > 0
      /\ timer' = [w \in Workers |-> timer[w] - 1]
      /\ UNCHANGED <<interval, pc, before, failures>>
  BY DEF Tick
<1>2. \A w \in Workers : timer[w] \in Nat /\ timer'[w] = timer[w] - 1 /\ timer'[w] \in Nat
  BY <1>0, <1>1 DEF PlainTypes
<1>3. /\ interval \in Nat /\ interval > 0 /\ free \in Nat /\ debt \in Nat
      /\ MaxClaim \in Nat /\ Slow \in Nat /\ MaxAge \in Nat
      /\ TicksPerSecond \in Nat /\ TicksPerSecond > 0 /\ BeatCap \in Nat
      /\ Busy \in Nat /\ failures * Round \in Nat /\ PickupLimit \in Nat
      /\ due \in Int /\ heartbeat \in Int
  BY <1>0, IntervalFacts, LimitFacts, TimingConstantFacts
  DEF PlainTypes, TimingConstantsOK, NoJob, NoBeat
<1>4. /\ free' \in {free - 1, 0} /\ free' >= free - 1 /\ free' >= 0
      /\ debt' \in {debt - 1, 0} /\ debt' >= 0
  <2>1. free - 1 \in Int /\ debt - 1 \in Int /\ 0 \in Int
    BY <1>3
  <2>. QED BY <2>1, MaxOfTwo DEF Tick
<1>5. Waiting' = Waiting /\ Claiming' = Claiming
  BY <1>1 DEF Waiting, Claiming
<1>6. /\ interval * Cardinality(Waiting) \in Nat /\ interval * Cardinality(Claiming) \in Nat
      /\ Cooldown \in Nat /\ Cooldown <= interval
      /\ free = Cooldown + interval * Cardinality(Waiting)
      /\ Waiting = {} => Cooldown = free
  BY <1>0, <1>3, QueueFacts DEF QueueOK
<1>7. Cooldown' = free' - interval * Cardinality(Waiting)
  BY <1>1, <1>5 DEF Cooldown
<1>8. \A w \in Waiting : w \in Workers
  BY DEF Waiting
<1>9. QueueOK' /\ Cooldown' \in Nat /\ Cooldown' >= Cooldown - 1
  <2>1. CASE Waiting = {}
    <3>1. Cooldown' = free'
      <4>1. interval * Cardinality(Waiting) = 0
        BY <1>3, <2>1, FS_EmptySet
      <4>. QED BY <1>3, <1>4, <1>7, <4>1
    <3>2. Cooldown' \in 0..interval /\ Cooldown' >= Cooldown - 1
      BY <1>3, <1>4, <1>6, <2>1, <3>1
    <3>. QED BY <1>1, <1>3, <1>5, <2>1, <3>2 DEF QueueOK
  <2>2. CASE Waiting # {}
    <3>1. PICK m \in Waiting : timer[m] = Cooldown
      BY <1>0, <2>2 DEF QueueOK
    <3>2. Cooldown > 0 /\ free > 0
      BY <1>1, <1>6, <1>8, <3>1
    <3>3. free' = free - 1
      BY <1>3, <1>4, <3>2
    <3>4. Cooldown' = Cooldown - 1
      BY <1>3, <1>6, <1>7, <3>3
    <3>5. \A w \in Waiting : Cooldown' <= timer'[w] /\ timer'[w] + interval <= free'
      BY <1>0, <1>2, <1>3, <1>6, <1>8, <3>3, <3>4 DEF QueueOK
    <3>6. \A v, w \in Waiting :
            v # w => timer'[v] + interval <= timer'[w] \/ timer'[w] + interval <= timer'[v]
      BY <1>0, <1>2, <1>3, <1>8 DEF QueueOK
    <3>7. \A w \in Waiting :
            timer'[w] + interval = free' \/ \E v \in Waiting : timer'[v] = timer'[w] + interval
      BY <1>0, <1>2, <1>3, <1>8, <3>3 DEF QueueOK
    <3>8. timer'[m] = Cooldown'
      BY <1>2, <1>8, <3>1, <3>4
    <3>9. Cooldown' \in 0..interval
      BY <1>3, <1>6, <3>2, <3>4
    <3>10. QueueOK'
      BY <1>1, <1>5, <3>1, <3>5, <3>6, <3>7, <3>8, <3>9 DEF QueueOK
    <3>. QED BY <1>3, <1>6, <3>4, <3>9, <3>10
  <2>. QED BY <2>1, <2>2
<1>10. PlainTypes'
  <2>1. phase' \in 0..(TicksPerSecond - 1)
    BY <1>0, <1>3 DEF PlainTypes, Tick
  <2>2. heartbeat' \in {NoBeat} \cup 0..BeatCap
    BY <1>0, <1>3 DEF PlainTypes, Tick, Older, NoBeat
  <2>3. due' \in {NoJob} \cup Nat
    BY <1>0, <1>3 DEF PlainTypes, Tick, Older, NoJob
  <2>4. free' \in Nat /\ debt' \in Nat
    BY <1>3, <1>4
  <2>5. timer' \in [Workers -> Nat]
    BY <1>1, <1>2
  <2>. QED BY <1>0, <1>1, <2>1, <2>2, <2>3, <2>4, <2>5 DEF PlainTypes
<1>11. TimersOK'
  <2>1. Round' = Round
    BY <1>1 DEF Round
  <2>. QED BY <1>0, <1>1, <1>2, <1>3, <2>1 DEF TimersOK
<1>12. ClaimsSpaced'
  <2>. SUFFICES ASSUME NEW t \in Nat, SlowClaims(t)' # {}
                PROVE  interval * Cardinality(SlowClaims(t)') + t <= Cooldown' + MaxClaim
    BY <1>1 DEF ClaimsSpaced
  <2>1. SlowClaims(t)' = SlowClaims(t + 1)
    BY <1>2, <1>5 DEF SlowClaims, Claiming
  <2>2. t + 1 \in Nat
    OBVIOUS
  <2>3. interval * Cardinality(SlowClaims(t + 1)) + (t + 1) <= Cooldown + MaxClaim
    BY <1>0, <2>1, <2>2 DEF ClaimsSpaced
  <2>4. interval * Cardinality(SlowClaims(t + 1)) \in Nat
    <3>1. SlowClaims(t + 1) \in SUBSET Workers
      BY DEF SlowClaims, Claiming
    <3>. QED BY <1>3, <3>1, WorkersFinite, TimesOneMore
  <2>. QED BY <1>3, <1>6, <1>9, <2>1, <2>3, <2>4
<1>13. DebtOK'
  <2>. SUFFICES ASSUME debt' > 0
                PROVE  debt' + interval * Cardinality(Claiming) <= Cooldown' + MaxClaim
    BY <1>1, <1>5 DEF DebtOK
  <2>1. debt' = debt - 1 /\ debt > 0
    BY <1>3, <1>4
  <2>. QED BY <1>0, <1>3, <1>6, <1>9, <2>1 DEF DebtOK
<1>14. \A w \in Workers : /\ UntilClaimed(w) \in Nat /\ UntilClaimed(w)' = UntilClaimed(w) - 1
                          /\ UntilTop(w) \in Nat /\ UntilTop(w)' = UntilTop(w) - 1
  <2>. SUFFICES ASSUME NEW w \in Workers
                PROVE  /\ UntilClaimed(w) \in Nat /\ UntilClaimed(w)' = UntilClaimed(w) - 1
                       /\ UntilTop(w) \in Nat /\ UntilTop(w)' = UntilTop(w) - 1
    OBVIOUS
  <2>1. UntilClaimed(w) \in Nat /\ UntilTop(w) \in Nat
    BY <1>0, UntilFacts
  <2>2. pc[w] \in {"top", "limiter", "claim", "pause"} /\ pc'[w] = pc[w]
    BY <1>0, <1>1 DEF PlainTypes
  <2>3. CASE pc[w] = "limiter"
    BY <1>1, <1>2, <1>3, <2>1, <2>2, <2>3 DEF UntilClaimed, UntilTop
  <2>4. CASE pc[w] = "claim"
    BY <1>1, <1>2, <1>3, <2>1, <2>2, <2>4 DEF UntilClaimed, UntilTop
  <2>5. CASE pc[w] \in {"top", "pause"}
    BY <1>1, <1>2, <1>3, <2>1, <2>2, <2>5 DEF UntilClaimed, UntilTop
  <2>. QED BY <2>2, <2>3, <2>4, <2>5
<1>15. PickupOK'
  <2>. SUFFICES ASSUME due' # NoJob
                PROVE  \E w \in Workers : due' + UntilClaimed(w)' <= PickupLimit
    BY <1>1 DEF PickupOK, PickupLimit, PickupBound
  <2>1. due # NoJob /\ due' <= due + 1 /\ due' \in Int
    BY <1>3 DEF Tick, Older, NoJob
  <2>2. PICK w \in Workers : due + UntilClaimed(w) <= PickupLimit
    BY <1>0, <2>1 DEF PickupOK
  <2>3. due' + UntilClaimed(w)' <= PickupLimit
    BY <1>3, <1>14, <2>1, <2>2
  <2>. QED BY <2>3
<1>16. BeatOK'
  <2>. SUFFICES ASSUME Paced, heartbeat' # NoBeat
                PROVE  \E w \in Workers :
                         heartbeat' + UntilTop(w)' < TicksPerSecond + interval + MaxClaim + Slow
    BY <1>1 DEF BeatOK, Paced
  <2>1. heartbeat # NoBeat /\ heartbeat' <= heartbeat + 1 /\ heartbeat' \in Int
    BY <1>3 DEF Tick, Older, NoBeat
  <2>2. PICK w \in Workers : heartbeat + UntilTop(w) < TicksPerSecond + interval + MaxClaim + Slow
    BY <1>0, <2>1 DEF BeatOK
  <2>3. heartbeat' + UntilTop(w)' < TicksPerSecond + interval + MaxClaim + Slow
    BY <1>3, <1>14, <2>1, <2>2
  <2>. QED BY <2>3
<1>. QED BY <1>9, <1>10, <1>11, <1>12, <1>13, <1>15, <1>16 DEF TimingInv

-----------------------------------------------------------------------------
(* The theorems *)

\* When the relay starts nobody queues and no request has been made.
LEMMA TimingInvInit ==
  ASSUME Init
  PROVE  TimingInv
<1>1. Waiting = {} /\ Claiming = {} /\ \A t : SlowClaims(t) = {}
  BY DEF Init, Waiting, Claiming, SlowClaims
<1>2. PlainTypes
  BY TimingAssumption DEF Init, PlainTypes
<1>3. interval \in Nat /\ Busy \in Nat /\ failures * Round \in Nat
  BY <1>2, IntervalFacts, TimingConstantFacts DEF TimingConstantsOK
<1>4. Cooldown = 0
  BY <1>1, <1>2, QueueFacts DEF Init
<1>5. QueueOK
  BY <1>1, <1>3, <1>4 DEF QueueOK
<1>6. TimersOK
  BY <1>3 DEF TimersOK, Init
<1>7. ClaimsSpaced /\ DebtOK /\ PickupOK /\ BeatOK
  BY <1>1 DEF Init, ClaimsSpaced, DebtOK, PickupOK, BeatOK
<1>. QED BY <1>2, <1>5, <1>6, <1>7 DEF TimingInv

\* Every step keeps the invariant.
LEMMA TimingInvNext ==
  ASSUME TimingInv, [Next]_vars
  PROVE  TimingInv'
<1>1. ASSUME NEW w \in Workers, WorkerStep(w) PROVE TimingInv'
  BY <1>1, TopInv, LimiterGrantsInv, ClaimEmptyInv, ClaimBatchInv, ClaimFailsInv, NextRoundInv
  DEF WorkerStep
<1>2. CASE UNCHANGED vars
  <2>1. /\ Waiting' = Waiting /\ Claiming' = Claiming /\ Cooldown' = Cooldown
        /\ \A t : SlowClaims(t)' = SlowClaims(t)
    BY <1>2 DEF vars, Waiting, Claiming, Cooldown, SlowClaims
  <2>2. /\ Round' = Round /\ PickupLimit' = PickupLimit
        /\ \A w : UntilClaimed(w)' = UntilClaimed(w) /\ UntilTop(w)' = UntilTop(w)
    BY <1>2 DEF vars, Round, PickupLimit, PickupBound, UntilClaimed, UntilTop
  <2>3. PlainTypes' /\ QueueOK' /\ TimersOK'
    BY <1>2, <2>1, <2>2 DEF TimingInv, vars, PlainTypes, QueueOK, TimersOK
  <2>4. ClaimsSpaced' /\ DebtOK' /\ PickupOK' /\ BeatOK'
    BY <1>2, <2>1, <2>2 DEF TimingInv, vars, ClaimsSpaced, DebtOK, PickupOK, BeatOK, Paced
  <2>. QED BY <2>3, <2>4 DEF TimingInv
<1>. QED BY <1>1, <1>2, JobDueInv, TickInv DEF Next

\* The queue in front of the limiter, the claims it has let through and the two
\* bounds that follow from them hold in every state, whatever jobs come and
\* however long claims and batches take within their limits.
THEOREM TimingInvariant == Spec => []TimingInv
<1>1. Init => TimingInv
  BY TimingInvInit
<1>2. TimingInv /\ [Next]_vars => TimingInv'
  BY TimingInvNext
<1>. QED BY <1>1, <1>2, PTL DEF Spec

\* Every variable keeps its type; however many workers queue, the last of them
\* waits at most an interval for each (rate.Limiter.Wait in workerLoop).
THEOREM TimingTypes == Spec => []TimingTypeOK
<1>1. TimingInv => TimingTypeOK
  <2>. SUFFICES ASSUME TimingInv PROVE TimingTypeOK
    OBVIOUS
  <2>1. PlainTypes /\ QueueOK
    BY DEF TimingInv
  <2>2. interval \in Nat /\ free \in Nat
    BY <2>1, IntervalFacts DEF PlainTypes
  <2>3. /\ Cardinality(Waiting) \in Nat /\ Cardinality(Workers) \in Nat
        /\ Cardinality(Waiting) <= Cardinality(Workers)
    <3>1. Waiting \in SUBSET Workers /\ Workers \in SUBSET Workers
      BY DEF Waiting
    <3>. QED BY <3>1, WorkersFinite
  <2>4. interval * Cardinality(Waiting) <= interval * Cardinality(Workers)
    BY <2>2, <2>3, TimesMonotone
  <2>5. interval * (Cardinality(Workers) + 1) = interval * Cardinality(Workers) + interval
    BY <2>2, <2>3, TimesOneMore
  <2>6. /\ interval * Cardinality(Workers) \in Nat /\ interval * Cardinality(Waiting) \in Nat
    BY <2>2, <2>3, TimesOneMore
  <2>7. free = Cooldown + interval * Cardinality(Waiting) /\ Cooldown \in Int /\ Cooldown <= interval
    BY <2>1, <2>2, QueueFacts DEF QueueOK
  <2>8. free <= interval * (Cardinality(Workers) + 1) /\ interval * (Cardinality(Workers) + 1) \in Nat
    BY <2>2, <2>4, <2>5, <2>6, <2>7
  <2>. QED BY <2>1, <2>2, <2>8 DEF PlainTypes, TimingTypeOK
<1>. QED BY <1>1, TimingInvariant, PTL

\* The bulk requests of all workers together stay within the configured rate:
\* one limiter for all of them is enough, however long the claims between the
\* limiter and the request take.
THEOREM RequestsArePaced == Spec => []RequestsPaced
<1>1. TimingInv => RequestsPaced
  <2>. SUFFICES ASSUME TimingInv PROVE RequestsPaced
    OBVIOUS
  <2>1. PlainTypes /\ QueueOK /\ DebtOK
    BY DEF TimingInv
  <2>2. /\ debt \in Nat /\ interval \in Nat /\ MaxClaim \in Nat /\ Cooldown \in 0..interval
        /\ interval * Cardinality(Claiming) \in Nat
    BY <2>1, IntervalFacts, QueueFacts, TimingConstantFacts
    DEF PlainTypes, QueueOK, TimingConstantsOK
  <2>. QED BY <2>1, <2>2 DEF DebtOK, RequestsPaced
<1>. QED BY <1>1, TimingInvariant, PTL

\* While a job is due, every PickupBound brings a claim that takes it or a batch
\* of rows older than it: neither the tokens that idle workers spend on empty
\* claims (workerLoop waits for the limiter first and claims after) nor the limits
\* that cut a claim short (ORDER BY created_at LIMIT, shouldStop) starve it.
THEOREM PickupIsBounded == Spec => []PickupBounded
<1>1. TimingInv => PickupBounded
  <2>. SUFFICES ASSUME TimingInv PROVE PickupBounded
    OBVIOUS
  <2>1. PlainTypes /\ PickupOK
    BY DEF TimingInv
  <2>2. PickupLimit \in Nat /\ due \in Int
    BY <2>1, LimitFacts DEF PlainTypes, NoJob
  <2>3. CASE due = NoJob
    BY <2>2, <2>3 DEF PickupBounded, NoJob
  <2>4. CASE due # NoJob
    <3>1. PICK w \in Workers : due + UntilClaimed(w) <= PickupLimit
      BY <2>1, <2>4 DEF PickupOK
    <3>2. UntilClaimed(w) \in Nat
      BY <2>1, UntilFacts
    <3>. QED BY <2>2, <3>1, <3>2 DEF PickupBounded
  <2>. QED BY <2>3, <2>4
<1>. QED BY <1>1, TimingInvariant, PTL

\* A relay whose slowest round fits in the limit of Ready() is ready from its
\* first heartbeat on, although that heartbeat drops up to a second.
THEOREM ReadyIfPaced == Spec => []ReadyWhenPaced
<1>1. TimingInv => ReadyWhenPaced
  <2>. SUFFICES ASSUME TimingInv, Paced, heartbeat # NoBeat PROVE heartbeat <= MaxAge
    BY DEF ReadyWhenPaced, Ready, Paced
  <2>1. PlainTypes /\ BeatOK
    BY DEF TimingInv
  <2>2. PICK w \in Workers : heartbeat + UntilTop(w) < TicksPerSecond + interval + MaxClaim + Slow
    BY <2>1 DEF BeatOK
  <2>3. UntilTop(w) \in Nat
    BY <2>1, UntilFacts
  <2>4. /\ heartbeat \in Int /\ interval \in Nat /\ MaxClaim \in Nat /\ Flush \in Nat
        /\ MaxSend \in Nat /\ ClaimPause \in Nat /\ TicksPerSecond \in Nat /\ MaxAge \in Nat
        /\ Slow = MaxSend + Flush + ClaimPause
    BY <2>1, IntervalFacts, TimingConstantFacts DEF PlainTypes, TimingConstantsOK, NoBeat
  <2>. QED BY <2>2, <2>3, <2>4 DEF Paced
<1>. QED BY <1>1, TimingInvariant, PTL
=============================================================================
