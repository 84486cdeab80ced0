---------------------------- MODULE StoreProofs -----------------------------
(***************************************************************************)
(* Lemmas about the statements of the job table, for whoever issues them:  *)
(* they keep the rows well formed, a claim takes only rows that are due,   *)
(* the oldest first and no more than fit into one request, and what each   *)
(* statement does to one row.                                              *)
(***************************************************************************)
EXTENDS JobStore, TLAPS, FiniteSetTheorems

\* The assumptions on the constants, for citing.
StoreConstantsOK ==
  /\ LeaseTimeout \in Nat /\ LeaseTimeout > 0
  /\ MaxTxLag \in Nat
  /\ AgeCap \in Nat /\ AgeCap = LeaseTimeout + MaxTxLag + 1
  /\ Lags \subseteq 0..AgeCap
  /\ Created \in [Jobs -> Nat]

\* What the named assumptions say about the numbers of the table.
LEMMA StoreConstantFacts == StoreConstantsOK
<1>1. LeaseTimeout \in Nat /\ LeaseTimeout > 0 /\ MaxTxLag \in Nat
  BY LeaseAssumption
<1>. QED BY <1>1, JobsAssumption DEF StoreConstantsOK, AgeCap, Lags

-----------------------------------------------------------------------------
(* The statements of the job table keep its rows well formed *)

\* A row inserted by EnqueueTx is a row, and so is one not inserted yet.
LEMMA NoRowType == NoRow \in Row
BY StoreConstantFacts DEF NoRow, Row, Statuses, NULL, StoreConstantsOK

\* EnqueueTx, which inserts the rows of one message.
LEMMA EnqueueTxType ==
  ASSUME jobs \in [Jobs -> Row], NEW m, NEW lag \in Lags, EnqueueTx(m, lag)
  PROVE  jobs' \in [Jobs -> Row]
<1>1. -lag \in Int
  BY StoreConstantFacts DEF Lags, StoreConstantsOK
<1>2. [NoRow EXCEPT !.status = "queued", !.next_attempt_at = -lag] \in Row
  BY <1>1 DEF NoRow, Row, Statuses
<1>. QED BY <1>2 DEF EnqueueTx

\* The claim's UPDATE.
LEMMA ClaimRowsType ==
  ASSUME jobs \in [Jobs -> Row], NEW b, NEW lag \in Lags, ClaimRows(b, lag)
  PROVE  jobs' \in [Jobs -> Row]
BY StoreConstantFacts DEF ClaimRows, Row, Statuses, StoreConstantsOK

\* The three Mark* statements.
LEMMA MarkType ==
  ASSUME jobs \in [Jobs -> Row], NEW js,
         \/ MarkSent(js)
         \/ \E next \in Int, httpStatus \in Nat : MarkRetry(js, next, httpStatus)
         \/ \E httpStatus \in Nat : MarkDLQ(js, httpStatus)
  PROVE  jobs' \in [Jobs -> Row]
<1>. \A j \in Jobs : jobs[j] \in Row /\ jobs[j].attempt_count + 1 \in Nat
  BY DEF Row
<1>1. CASE MarkSent(js)
  BY <1>1 DEF MarkSent, Row, Statuses
<1>2. ASSUME NEW next \in Int, NEW httpStatus \in Nat, MarkRetry(js, next, httpStatus)
      PROVE  jobs' \in [Jobs -> Row]
  BY <1>2 DEF MarkRetry, Row, Statuses
<1>3. ASSUME NEW httpStatus \in Nat, MarkDLQ(js, httpStatus)
      PROVE  jobs' \in [Jobs -> Row]
  BY <1>3 DEF MarkDLQ, Row, Statuses
<1>. QED BY <1>1, <1>2, <1>3

\* The stale requeue, the operator's commands and the clock.
LEMMA RecoveryType ==
  ASSUME jobs \in [Jobs -> Row],
         \/ \E lag \in Lags : RequeueStaleProcessing(lag)
         \/ \E js, lag : lag \in Lags /\ RequeueDLQIDs(js, lag)
         \/ \E lag \in Lags : RetryNow(lag)
         \/ AgeRows
  PROVE  jobs' \in [Jobs -> Row]
<1>. \A lag \in Lags : -lag \in Int
  BY StoreConstantFacts DEF Lags, StoreConstantsOK
<1>1. ASSUME NEW lag \in Lags, RequeueStaleProcessing(lag) PROVE jobs' \in [Jobs -> Row]
  BY <1>1 DEF RequeueStaleProcessing, Row, Statuses
<1>2. ASSUME NEW js, NEW lag \in Lags, RequeueDLQIDs(js, lag) PROVE jobs' \in [Jobs -> Row]
  BY <1>2 DEF RequeueDLQIDs, Row, Statuses
<1>3. ASSUME NEW lag \in Lags, RetryNow(lag) PROVE jobs' \in [Jobs -> Row]
  BY <1>3 DEF RetryNow, Row
<1>4. CASE AgeRows
  <2>1. SUFFICES ASSUME NEW j \in Jobs PROVE jobs'[j] \in Row
    BY <1>4 DEF AgeRows
  <2>2. jobs[j] \in Row
    OBVIOUS
  <2>3. jobs'[j] = [jobs[j] EXCEPT
                !.next_attempt_at = IF @ > -MaxTxLag THEN @ - 1 ELSE @,
                !.processing_started_at =
                   IF @ = NULL \/ @ = AgeCap THEN @ ELSE @ + 1]
    BY <1>4 DEF AgeRows
  <2>4. /\ jobs[j].next_attempt_at \in Int
        /\ jobs[j].next_attempt_at - 1 \in Int
        /\ jobs[j].processing_started_at \in {NULL} \cup 0..AgeCap
    BY <2>2 DEF Row
  <2>5. jobs[j].processing_started_at \in {NULL, AgeCap} \/ jobs[j].processing_started_at + 1 \in 0..AgeCap
    BY <2>4, StoreConstantFacts DEF StoreConstantsOK
  <2>. QED BY <2>2, <2>3, <2>4, <2>5 DEF Row
<1>. QED BY <1>1, <1>2, <1>3, <1>4

-----------------------------------------------------------------------------
(* What a claim takes *)

\* A claim takes rows that are queued or in retry, and due.
LEMMA BatchesEligible ==
  ASSUME NEW lag \in Lags, NEW b \in Batches(lag)
  PROVE  b \subseteq Eligible(lag)
<1>. DEFINE E == Eligible(lag)
            n == IF Cardinality(E) < ClaimLimit THEN Cardinality(E) ELSE ClaimLimit
<1>1. PICK s \in Listings(lag) : b = TakeBatch(s)
  BY DEF Batches
<1>2. IsFiniteSet(E)
  BY JobsAssumption, FS_Subset DEF Eligible
<1>3. n \in Nat
  BY <1>2, FS_CardinalityType, LimitsAssumption
<1>4. s \in [1..n -> E]
  BY <1>1 DEF Listings
<1>5. Len(s) = n
  BY <1>3, <1>4
<1>. HIDE DEF n, E
<1>6. \A i \in 1..Len(s) : s[i] \in E
  BY <1>4, <1>5
<1>. QED BY <1>1, <1>6 DEF TakeBatch, E

\* What a claim hands to its worker is part of what it claimed.
LEMMA ClaimedAreEligible ==
  ASSUME NEW lag \in Lags, NEW b \in Batches(lag), NEW got \in ReadClaimed(b)
  PROVE  got \subseteq b /\ b \subseteq Eligible(lag) /\ b \subseteq Jobs
BY BatchesEligible DEF ReadClaimed, Eligible

-----------------------------------------------------------------------------
(* Sums over sets of rows *)

\* A set of numbers has a least element.
LEMMA Least ==
  ASSUME NEW T \in SUBSET Nat, T # {}
  PROVE  \E x \in T : \A y \in T : x <= y
<1>1. IsWellFoundedOn(OpToRel(<, Nat), Nat)
  BY NatLessThanWellFounded
<1>2. \E x \in T : \A y \in T : ~(<<y, x>> \in OpToRel(<, Nat))
  BY <1>1, WFMin, Zenon
<1>3. ASSUME NEW x \in T, \A y \in T : ~(<<y, x>> \in OpToRel(<, Nat))
      PROVE  \A y \in T : x <= y
  <2>1. \A y \in T : ~(y < x)
    BY <1>3 DEF OpToRel
  <2>. QED BY <2>1
<1>. QED BY <1>2, <1>3, Zenon

\* A set of subsets of a finite set has a smallest one.
LEMMA SmallestSet ==
  ASSUME NEW S, IsFiniteSet(S), NEW T \in SUBSET (SUBSET S), T # {}
  PROVE  \E x \in T : \A y \in T : y \subseteq x => y = x
<1>1. IsWellFoundedOn(StrictSubsetOrdering(S), SUBSET S)
  <2>1. FiniteSubsetsOf(S) = SUBSET S
    BY FS_FiniteSubsetsOfFinite
  <2>2. IsWellFoundedOn(StrictSubsetOrdering(S), FiniteSubsetsOf(S))
    BY FS_StrictSubsetOrderingWellFounded
  <2>. QED BY <2>1, <2>2, Zenon
<1>2. \E x \in T : \A y \in T : ~(<<y, x>> \in StrictSubsetOrdering(S))
  BY <1>1, WFMin, Zenon
<1>. QED BY <1>2 DEF StrictSubsetOrdering

\* What holds of a subset when it holds of the smaller ones holds of all.
LEMMA SetInduction ==
  ASSUME NEW S, IsFiniteSet(S), NEW T \in SUBSET (SUBSET S),
         ASSUME NEW s \in SUBSET S, \A r \in SUBSET s : r # s => r \in T
         PROVE  s \in T
  PROVE  T = SUBSET S
<1>. DEFINE U == (SUBSET S) \ T
<1>. SUFFICES ASSUME U # {} PROVE FALSE
  OBVIOUS
<1>0. U \in SUBSET (SUBSET S)
  OBVIOUS
<1>. HIDE DEF U
<1>1. PICK s \in U : \A y \in U : y \subseteq s => y = s
  BY <1>0, SmallestSet
<1>2. s \in SUBSET S /\ s \notin T
  BY DEF U
<1>3. \A r \in SUBSET s : r # s => r \in T
  BY <1>1, <1>2 DEF U
<1>. QED BY <1>2, <1>3

\* The element SumFunctionOnSet takes out of a set next.
Chosen(s) == CHOOSE x \in s : TRUE

\* The partial sums that SumFunctionOnSet goes through.
Summing(f, S, iter) ==
  iter = [s \in SUBSET S |-> IF s = {} THEN 0 ELSE f[Chosen(s)] + iter[s \ {Chosen(s)}]]

\* SumFunctionOnSet is the last of them.
LEMMA SumIs ==
  ASSUME NEW f, NEW S
  PROVE  SumFunctionOnSet(f, S) = (CHOOSE iter : Summing(f, S, iter))[S]
BY DEF SumFunctionOnSet, FoldFunctionOnSet, MapThenFoldSet, Summing, Chosen

\* The partial sums do not depend on the set one started from.
LEMMA SummingAgree ==
  ASSUME NEW f, NEW S, NEW R \in SUBSET S, IsFiniteSet(S), NEW a, NEW b,
         Summing(f, S, a), Summing(f, R, b)
  PROVE  \A q \in SUBSET R : a[q] = b[q]
<1>. DEFINE T == {q \in SUBSET R : a[q] = b[q]}
<1>1. ASSUME NEW q \in SUBSET R, \A r \in SUBSET q : r # q => r \in T
      PROVE  q \in T
  <2>1. /\ a[q] = IF q = {} THEN 0 ELSE f[Chosen(q)] + a[q \ {Chosen(q)}]
        /\ b[q] = IF q = {} THEN 0 ELSE f[Chosen(q)] + b[q \ {Chosen(q)}]
    BY DEF Summing
  <2>2. CASE q = {}
    BY <2>1, <2>2
  <2>3. CASE q # {}
    <3>1. Chosen(q) \in q
      BY <2>3 DEF Chosen
    <3>2. q \ {Chosen(q)} \in T
      BY <1>1, <3>1
    <3>3. a[q \ {Chosen(q)}] = b[q \ {Chosen(q)}]
      BY <3>2
    <3>. QED BY <2>1, <2>3, <3>3
  <2>. QED BY <2>2, <2>3
<1>2. T \in SUBSET (SUBSET R) /\ IsFiniteSet(R)
  BY FS_Subset
<1>. HIDE DEF T
<1>3. T = SUBSET R
  BY <1>1, <1>2, SetInduction
<1>. QED BY <1>3 DEF T

\* So any function that obeys the recursion gives the sum.
LEMMA SummingIs ==
  ASSUME NEW f, NEW S, IsFiniteSet(S), NEW a, Summing(f, S, a)
  PROVE  SumFunctionOnSet(f, S) = a[S]
<1>. DEFINE c == CHOOSE iter : Summing(f, S, iter)
<1>1. Summing(f, S, c)
  OBVIOUS
<1>. HIDE DEF c
<1>2. c[S] = a[S]
  BY <1>1, SummingAgree
<1>. QED BY <1>2, SumIs DEF c

\* The partial sums exist for every finite set.
LEMMA SummingExists ==
  ASSUME NEW f, NEW S, IsFiniteSet(S)
  PROVE  \E iter : Summing(f, S, iter)
<1>. DEFINE T == {s \in SUBSET S : \E iter : Summing(f, s, iter)}
<1>1. ASSUME NEW s \in SUBSET S, \A r \in SUBSET s : r # s => r \in T
      PROVE  s \in T
  <2>. DEFINE new == [r \in SUBSET s |->
                        IF r # s THEN SumFunctionOnSet(f, r)
                        ELSE IF s = {} THEN 0
                        ELSE f[Chosen(s)] + SumFunctionOnSet(f, s \ {Chosen(s)})]
  <2>1. ASSUME NEW r \in SUBSET s, r # {}
        PROVE  /\ Chosen(r) \in r
               /\ r \ {Chosen(r)} \in SUBSET s
               /\ r \ {Chosen(r)} # s
               /\ new[r \ {Chosen(r)}] = SumFunctionOnSet(f, r \ {Chosen(r)})
    BY <2>1 DEF Chosen
  <2>2. ASSUME NEW r \in SUBSET s
        PROVE  new[r] = IF r = {} THEN 0 ELSE f[Chosen(r)] + new[r \ {Chosen(r)}]
    <3>1. CASE r = s
      BY <2>1, <3>1
    <3>2. CASE r # s
      <4>1. PICK a : Summing(f, r, a)
        BY <1>1, <3>2
      <4>2. IsFiniteSet(r)
        BY FS_Subset
      <4>3. new[r] = a[r]
        BY <3>2, <4>1, <4>2, SummingIs
      <4>4. a[r] = IF r = {} THEN 0 ELSE f[Chosen(r)] + a[r \ {Chosen(r)}]
        BY <4>1 DEF Summing
      <4>5. ASSUME r # {} PROVE a[r \ {Chosen(r)}] = new[r \ {Chosen(r)}]
        <5>. DEFINE q == r \ {Chosen(r)}
        <5>1. q \in SUBSET s /\ q # s /\ q \in SUBSET r /\ new[q] = SumFunctionOnSet(f, q)
          BY <2>1, <4>5
        <5>2. IsFiniteSet(q)
          BY <4>2, <5>1, FS_Subset
        <5>. HIDE DEF q, new
        <5>3. PICK b : Summing(f, q, b)
          BY <1>1, <5>1
        <5>4. a[q] = b[q]
          BY <4>1, <4>2, <5>1, <5>3, SummingAgree
        <5>5. SumFunctionOnSet(f, q) = b[q]
          BY <5>2, <5>3, SummingIs
        <5>. QED BY <5>1, <5>4, <5>5 DEF q
      <4>. HIDE DEF new
      <4>. QED BY <4>3, <4>4, <4>5
    <3>. QED BY <3>1, <3>2
  <2>3. new = [r \in SUBSET s |-> new[r]]
    OBVIOUS
  <2>. HIDE DEF new
  <2>4. Summing(f, s, new)
    BY <2>2, <2>3 DEF Summing
  <2>. QED BY <2>4
<1>2. T \in SUBSET (SUBSET S)
  OBVIOUS
<1>. HIDE DEF T
<1>3. T = SUBSET S
  BY <1>1, <1>2, SetInduction
<1>. QED BY <1>3 DEF T

\* The equation SumFunctionOnSet is defined by.
LEMMA SumFirst ==
  ASSUME NEW f, NEW S, IsFiniteSet(S)
  PROVE  SumFunctionOnSet(f, S) =
           IF S = {} THEN 0 ELSE f[Chosen(S)] + SumFunctionOnSet(f, S \ {Chosen(S)})
<1>1. PICK a : Summing(f, S, a)
  BY SummingExists
<1>2. SumFunctionOnSet(f, S) = a[S]
  BY <1>1, SummingIs
<1>3. a[S] = IF S = {} THEN 0 ELSE f[Chosen(S)] + a[S \ {Chosen(S)}]
  BY <1>1 DEF Summing
<1>4. ASSUME S # {} PROVE a[S \ {Chosen(S)}] = SumFunctionOnSet(f, S \ {Chosen(S)})
  <2>. DEFINE q == S \ {Chosen(S)}
  <2>1. q \in SUBSET S
    OBVIOUS
  <2>. HIDE DEF q
  <2>2. IsFiniteSet(q)
    BY <2>1, FS_Subset
  <2>3. PICK b : Summing(f, q, b)
    BY <2>2, SummingExists
  <2>4. a[q] = b[q]
    BY <1>1, <2>1, <2>3, SummingAgree
  <2>. QED BY <2>2, <2>3, <2>4, SummingIs DEF q
<1>. QED BY <1>2, <1>3, <1>4

\* A sum of numbers is a number.
LEMMA SumType ==
  ASSUME NEW J, NEW f \in [J -> Nat], NEW S \in SUBSET J, IsFiniteSet(S)
  PROVE  SumFunctionOnSet(f, S) \in Nat
<1>. DEFINE T == {s \in SUBSET S : SumFunctionOnSet(f, s) \in Nat}
<1>1. ASSUME NEW s \in SUBSET S, \A r \in SUBSET s : r # s => r \in T
      PROVE  s \in T
  <2>1. IsFiniteSet(s)
    BY FS_Subset
  <2>2. CASE s = {}
    <3>1. SumFunctionOnSet(f, s) = 0
      BY <2>1, <2>2, SumFirst
    <3>. QED BY <3>1
  <2>3. CASE s # {}
    <3>1. Chosen(s) \in s
      BY <2>3 DEF Chosen
    <3>2. s \ {Chosen(s)} \in T
      BY <1>1, <3>1
    <3>3. f[Chosen(s)] \in Nat /\ SumFunctionOnSet(f, s \ {Chosen(s)}) \in Nat
      BY <3>1, <3>2
    <3>. QED BY <2>1, <2>3, <3>3, SumFirst
  <2>. QED BY <2>2, <2>3
<1>2. T \in SUBSET (SUBSET S)
  OBVIOUS
<1>. HIDE DEF T
<1>3. T = SUBSET S
  BY <1>1, <1>2, SetInduction
<1>. QED BY <1>3 DEF T

\* Any element may be taken out first.
LEMMA SumRemove ==
  ASSUME NEW J, NEW f \in [J -> Nat], NEW S \in SUBSET J, IsFiniteSet(S), NEW e \in S
  PROVE  SumFunctionOnSet(f, S) = f[e] + SumFunctionOnSet(f, S \ {e})
<1>. DEFINE T == {s \in SUBSET S : \A x \in s :
                    SumFunctionOnSet(f, s) = f[x] + SumFunctionOnSet(f, s \ {x})}
<1>1. ASSUME NEW s \in SUBSET S, \A r \in SUBSET s : r # s => r \in T
      PROVE  s \in T
  <2>. SUFFICES ASSUME NEW x \in s
                PROVE  SumFunctionOnSet(f, s) = f[x] + SumFunctionOnSet(f, s \ {x})
    OBVIOUS
  <2>. DEFINE y == Chosen(s)
  <2>1. y \in s
    BY DEF Chosen
  <2>2. IsFiniteSet(s)
    BY FS_Subset
  <2>3. SumFunctionOnSet(f, s) = f[y] + SumFunctionOnSet(f, s \ {y})
    BY <2>1, <2>2, SumFirst
  <2>. HIDE DEF y
  <2>4. CASE x # y
    <3>1. s \ {y} \in T /\ x \in s \ {y} /\ s \ {x} \in T /\ y \in s \ {x}
      BY <1>1, <2>1, <2>4
    <3>2. SumFunctionOnSet(f, s \ {y}) = f[x] + SumFunctionOnSet(f, (s \ {y}) \ {x})
      BY <3>1
    <3>3. SumFunctionOnSet(f, s \ {x}) = f[y] + SumFunctionOnSet(f, (s \ {x}) \ {y})
      BY <3>1
    <3>4. (s \ {x}) \ {y} = (s \ {y}) \ {x}
      OBVIOUS
    <3>5. f[x] \in Nat /\ f[y] \in Nat
      BY <2>1
    <3>6. SumFunctionOnSet(f, (s \ {y}) \ {x}) \in Nat
      <4>1. (s \ {y}) \ {x} \in SUBSET J /\ IsFiniteSet((s \ {y}) \ {x})
        BY <2>2, FS_Subset
      <4>. QED BY <4>1, SumType
    <3>. QED BY <2>3, <3>2, <3>3, <3>4, <3>5, <3>6
  <2>. QED BY <2>3, <2>4
<1>2. T \in SUBSET (SUBSET S)
  OBVIOUS
<1>. HIDE DEF T
<1>3. T = SUBSET S
  BY <1>1, <1>2, SetInduction
<1>. QED BY <1>3 DEF T

\* A part of a set has no larger sum.
LEMMA SumMonotone ==
  ASSUME NEW J, NEW f \in [J -> Nat], NEW S \in SUBSET J, IsFiniteSet(S), NEW R \in SUBSET S
  PROVE  SumFunctionOnSet(f, R) <= SumFunctionOnSet(f, S)
<1>. DEFINE T == {s \in SUBSET S : \A r \in SUBSET s :
                    SumFunctionOnSet(f, r) <= SumFunctionOnSet(f, s)}
<1>1. ASSUME NEW s \in SUBSET S, \A r \in SUBSET s : r # s => r \in T
      PROVE  s \in T
  <2>. SUFFICES ASSUME NEW r \in SUBSET s
                PROVE  SumFunctionOnSet(f, r) <= SumFunctionOnSet(f, s)
    OBVIOUS
  <2>1. s \in SUBSET J /\ IsFiniteSet(s) /\ r \in SUBSET J /\ IsFiniteSet(r)
    BY FS_Subset
  <2>2. SumFunctionOnSet(f, r) \in Nat /\ SumFunctionOnSet(f, s) \in Nat
    BY <2>1, SumType
  <2>3. CASE r # s
    <3>1. PICK x \in s : x \notin r
      BY <2>3
    <3>2. s \ {x} \in T /\ r \in SUBSET (s \ {x})
      BY <1>1, <3>1
    <3>3. SumFunctionOnSet(f, r) <= SumFunctionOnSet(f, s \ {x})
      BY <3>2
    <3>4. SumFunctionOnSet(f, s) = f[x] + SumFunctionOnSet(f, s \ {x})
      BY <2>1, <3>1, SumRemove
    <3>5. s \ {x} \in SUBSET J /\ IsFiniteSet(s \ {x})
      BY <2>1, FS_Subset
    <3>6. f[x] \in Nat /\ SumFunctionOnSet(f, s \ {x}) \in Nat
      BY <2>1, <3>1, <3>5, SumType
    <3>. QED BY <2>2, <3>3, <3>4, <3>6
  <2>. QED BY <2>2, <2>3
<1>2. T \in SUBSET (SUBSET S)
  OBVIOUS
<1>. HIDE DEF T
<1>3. T = SUBSET S
  BY <1>1, <1>2, SetInduction
<1>. QED BY <1>3 DEF T

-----------------------------------------------------------------------------
(* The loop of claimJobs takes a prefix of the listing that fits *)

\* What each row counts for, and the first i rows of a listing.
Sizes == [j \in Jobs |-> JobBytes(j)]

FirstRows(s, i) == {s[m] : m \in 1..i}

\* The sizes are numbers.
LEMMA SizesType == Sizes \in [Jobs -> Nat]
BY JobsAssumption DEF Sizes, JobBytes

\* A listing has due rows, each once, the oldest first.
LEMMA ListingFacts ==
  ASSUME NEW lag \in Lags, NEW s \in Listings(lag)
  PROVE  /\ Len(s) \in Nat
         /\ s \in [1..Len(s) -> Eligible(lag)]
         /\ s \in [1..Len(s) -> Jobs]
         /\ \A a, b \in 1..Len(s) : s[a] = s[b] => a = b
         /\ \A i \in 1..Len(s) : \A j \in Eligible(lag) \ FirstRows(s, i - 1) :
              Created[s[i]] <= Created[j]
<1>. DEFINE E == Eligible(lag)
            n == IF Cardinality(E) < ClaimLimit THEN Cardinality(E) ELSE ClaimLimit
<1>1. IsFiniteSet(E)
  BY JobsAssumption, FS_Subset DEF Eligible
<1>2. n \in Nat
  BY <1>1, FS_CardinalityType, LimitsAssumption
<1>3. /\ s \in [1..n -> E] /\ IsInjective(s)
      /\ \A i \in 1..n : \A j \in E \ {s[k] : k \in 1..(i - 1)} : Created[s[i]] <= Created[j]
  BY DEF Listings
<1>4. E \subseteq Jobs
  BY DEF Eligible
<1>. HIDE DEF n, E
<1>5. Len(s) = n
  BY <1>2, <1>3
<1>6. \A a, b \in 1..n : s[a] = s[b] => a = b
  BY <1>3 DEF IsInjective
<1>7. s \in [1..n -> Jobs]
  BY <1>3, <1>4
<1>. QED BY <1>2, <1>3, <1>5, <1>6, <1>7 DEF FirstRows, E

\* The size of one row more.
LEMMA FirstRowsSum ==
  ASSUME NEW n \in Nat, NEW s \in [1..n -> Jobs], \A a, b \in 1..n : s[a] = s[b] => a = b,
         NEW i \in 0..n
  PROVE  /\ FirstRows(s, i) \in SUBSET Jobs
         /\ IsFiniteSet(FirstRows(s, i))
         /\ SumFunctionOnSet(Sizes, FirstRows(s, i)) \in Nat
         /\ SumFunctionOnSet(Sizes, FirstRows(s, i)) =
              IF i = 0 THEN 0
              ELSE SumFunctionOnSet(Sizes, FirstRows(s, i - 1)) + JobBytes(s[i])
<1>1. FirstRows(s, i) \in SUBSET Jobs
  BY DEF FirstRows
<1>2. IsFiniteSet(FirstRows(s, i))
  BY <1>1, JobsAssumption, FS_Subset
<1>3. SumFunctionOnSet(Sizes, FirstRows(s, i)) \in Nat
  BY <1>1, <1>2, SizesType, SumType
<1>4. CASE i = 0
  <2>1. FirstRows(s, i) = {}
    BY <1>4 DEF FirstRows
  <2>2. SumFunctionOnSet(Sizes, FirstRows(s, i)) = 0
    BY <1>2, <2>1, SumFirst
  <2>. QED BY <1>1, <1>2, <1>3, <1>4, <2>2
<1>5. CASE i # 0
  <2>1. s[i] \in FirstRows(s, i) /\ s[i] \in Jobs
    BY <1>5 DEF FirstRows
  <2>2. FirstRows(s, i) \ {s[i]} = FirstRows(s, i - 1)
    <3>1. ASSUME NEW m \in 1..(i - 1) PROVE s[m] # s[i] /\ m \in 1..i
      OBVIOUS
    <3>2. ASSUME NEW m \in 1..i, s[m] # s[i] PROVE m \in 1..(i - 1)
      BY <3>2
    <3>. QED BY <3>1, <3>2 DEF FirstRows
  <2>3. SumFunctionOnSet(Sizes, FirstRows(s, i)) =
          Sizes[s[i]] + SumFunctionOnSet(Sizes, FirstRows(s, i - 1))
    BY <1>1, <1>2, <2>1, <2>2, SizesType, SumRemove
  <2>4. FirstRows(s, i - 1) \in SUBSET Jobs /\ IsFiniteSet(FirstRows(s, i - 1))
    BY <1>1, <1>2, <2>2, FS_Subset
  <2>5. SumFunctionOnSet(Sizes, FirstRows(s, i - 1)) \in Nat
    BY <2>4, SizesType, SumType
  <2>6. Sizes[s[i]] = JobBytes(s[i]) /\ Sizes[s[i]] \in Nat
    BY <2>1, SizesType DEF Sizes
  <2>. QED BY <1>1, <1>2, <1>3, <1>5, <2>3, <2>5, <2>6
<1>. QED BY <1>4, <1>5

\* The values of batchBytes.
Running(s, f) == f = [i \in 0..Len(s) |-> IF i = 0 THEN 0 ELSE f[i - 1] + JobBytes(s[i])]

\* batchBytes is the size of the rows before.
LEMMA RunningIs ==
  ASSUME NEW s, Len(s) \in Nat, s \in [1..Len(s) -> Jobs],
         \A a, b \in 1..Len(s) : s[a] = s[b] => a = b
  PROVE  /\ \E f : Running(s, f)
         /\ \A f : Running(s, f) =>
              \A i \in 0..Len(s) : f[i] = SumFunctionOnSet(Sizes, FirstRows(s, i))
<1>. DEFINE n == Len(s)
            g == [i \in 0..n |-> SumFunctionOnSet(Sizes, FirstRows(s, i))]
<1>1. ASSUME NEW i \in 0..n PROVE g[i] = IF i = 0 THEN 0 ELSE g[i - 1] + JobBytes(s[i])
  <2>1. g[i] = IF i = 0 THEN 0
               ELSE SumFunctionOnSet(Sizes, FirstRows(s, i - 1)) + JobBytes(s[i])
    BY FirstRowsSum
  <2>2. i # 0 => i - 1 \in 0..n
    OBVIOUS
  <2>. QED BY <2>1, <2>2
<1>2. \A i \in 0..n : g[i] = SumFunctionOnSet(Sizes, FirstRows(s, i))
  OBVIOUS
<1>3. g = [i \in 0..n |-> g[i]]
  OBVIOUS
<1>. HIDE DEF g
<1>4. Running(s, g)
  BY <1>1, <1>3 DEF Running
<1>5. ASSUME NEW f, Running(s, f), NEW i \in 0..n PROVE f[i] = g[i]
  <2>. DEFINE D == {k \in 0..n : f[k] # g[k]}
  <2>. SUFFICES ASSUME D # {} PROVE FALSE
    OBVIOUS
  <2>1. D \in SUBSET Nat
    OBVIOUS
  <2>2. \A k \in 0..n : f[k] = IF k = 0 THEN 0 ELSE f[k - 1] + JobBytes(s[k])
    BY <1>5 DEF Running
  <2>. HIDE DEF D
  <2>3. PICK k \in D : \A m \in D : k <= m
    BY <2>1, Least
  <2>4. k \in 0..n /\ f[k] # g[k]
    BY DEF D
  <2>5. k # 0
    BY <1>1, <2>2, <2>4
  <2>6. k - 1 \in 0..n /\ k - 1 \notin D
    BY <2>1, <2>3, <2>4, <2>5
  <2>7. f[k - 1] = g[k - 1]
    BY <2>6 DEF D
  <2>. QED BY <1>1, <2>2, <2>4, <2>5, <2>7
<1>. QED BY <1>2, <1>4, <1>5

\* The loop stops at the first row that does not fit: what it took before is within
\* both limits, or is a single row.
LEMMA BatchIsPrefix ==
  ASSUME NEW lag \in Lags, NEW s \in Listings(lag)
  PROVE  \E k \in 0..Len(s) :
           /\ TakeBatch(s) = FirstRows(s, k)
           /\ k <= BatchMaxCount
           /\ k > 1 => SumFunctionOnSet(Sizes, FirstRows(s, k)) <= BatchMaxBytes
<1>. DEFINE n == Len(s)
            bytes == CHOOSE f : Running(s, f)
            K == {k \in 1..n : \A m \in 1..k : ~ShouldStop(m - 1, bytes[m - 1], JobBytes(s[m]))}
<1>1. TakeBatch(s) = {s[i] : i \in K}
  BY DEF TakeBatch, Running
<1>2. /\ n \in Nat /\ s \in [1..n -> Jobs]
      /\ \A a, b \in 1..n : s[a] = s[b] => a = b
  BY ListingFacts
<1>3. Running(s, bytes)
  BY <1>2, RunningIs
<1>. HIDE DEF bytes
<1>4. \A i \in 0..n : bytes[i] = SumFunctionOnSet(Sizes, FirstRows(s, i))
  BY <1>2, <1>3, RunningIs
<1>. DEFINE U == {k \in 1..(n + 1) : k \notin K}
<1>5. U \in SUBSET Nat /\ n + 1 \in U
  BY <1>2
<1>. HIDE DEF U
<1>6. PICK u \in U : \A v \in U : u <= v
  BY <1>5, Least
<1>. DEFINE k == u - 1
<1>7. u \in 1..(n + 1) /\ u \notin K /\ k \in 0..n
  BY <1>2, <1>6 DEF U
<1>8. ASSUME NEW i \in 1..n PROVE i \in K <=> i \in 1..k
  <2>1. ASSUME i \in 1..k PROVE i \in K
    BY <1>2, <1>6, <1>7, <2>1 DEF U
  <2>2. ASSUME i \in K, ~(i \in 1..k) PROVE FALSE
    <3>1. u \in 1..i /\ u \in 1..n
      BY <1>2, <1>7, <2>2
    <3>2. u \in K
      BY <2>2, <3>1
    <3>. QED BY <1>7, <3>2
  <2>. QED BY <2>1, <2>2
<1>9. K = 1..k
  BY <1>2, <1>7, <1>8
<1>10. TakeBatch(s) = FirstRows(s, k)
  BY <1>1, <1>9 DEF FirstRows
<1>11. ASSUME k # 0
       PROVE  /\ k <= BatchMaxCount
              /\ k > 1 => SumFunctionOnSet(Sizes, FirstRows(s, k)) <= BatchMaxBytes
  <2>1. k \in 1..n /\ k \in K
    BY <1>2, <1>7, <1>9, <1>11
  <2>2. ~ShouldStop(k - 1, bytes[k - 1], JobBytes(s[k]))
    BY <2>1
  <2>. HIDE DEF k, K
  <2>3. k - 1 \in 0..n /\ k \in 0..n /\ k # 0
    BY <1>2, <2>1
  <2>4. bytes[k - 1] = SumFunctionOnSet(Sizes, FirstRows(s, k - 1)) /\ bytes[k - 1] \in Nat
    BY <1>2, <1>4, <2>3, FirstRowsSum
  <2>5. SumFunctionOnSet(Sizes, FirstRows(s, k)) = bytes[k - 1] + JobBytes(s[k])
    BY <1>2, <2>3, <2>4, FirstRowsSum
  <2>6. JobBytes(s[k]) \in Nat
    BY <1>2, <2>1, JobsAssumption DEF JobBytes
  <2>. QED BY <1>2, <2>1, <2>2, <2>4, <2>5, <2>6, LimitsAssumption DEF ShouldStop
<1>12. k = 0 => k <= BatchMaxCount /\ ~(k > 1)
  BY LimitsAssumption
<1>. HIDE DEF k, K
<1>. QED BY <1>7, <1>10, <1>11, <1>12

\* No due row that a claim leaves behind is older than one it takes.
LEMMA BatchOldest ==
  ASSUME NEW lag \in Lags, NEW b \in Batches(lag), NEW j \in b, NEW r \in Eligible(lag) \ b
  PROVE  Created[j] <= Created[r]
<1>1. PICK s \in Listings(lag) : b = TakeBatch(s)
  BY DEF Batches
<1>2. PICK k \in 0..Len(s) : b = FirstRows(s, k)
  BY <1>1, BatchIsPrefix
<1>3. PICK i \in 1..k : j = s[i]
  BY <1>2 DEF FirstRows
<1>4. Len(s) \in Nat
  BY ListingFacts
<1>5. i \in 1..Len(s) /\ FirstRows(s, i - 1) \subseteq b
  BY <1>2, <1>4 DEF FirstRows
<1>6. r \in Eligible(lag) \ FirstRows(s, i - 1)
  BY <1>5
<1>. QED BY <1>3, <1>5, <1>6, ListingFacts

\* The limits of one request.
Fits(S) ==
  /\ Cardinality(S) <= BatchMaxCount
  /\ Cardinality(S) > 1 => SumFunctionOnSet(Sizes, S) <= BatchMaxBytes

\* A part of a batch fits if the batch does.
LEMMA FitsSubset ==
  ASSUME NEW S \in SUBSET Jobs, Fits(S), NEW R \in SUBSET S
  PROVE  Fits(R)
<1>1. IsFiniteSet(S) /\ IsFiniteSet(R) /\ R \in SUBSET Jobs
  BY JobsAssumption, FS_Subset
<1>2. Cardinality(R) \in Nat /\ Cardinality(S) \in Nat /\ Cardinality(R) <= Cardinality(S)
  BY <1>1, FS_Subset, FS_CardinalityType
<1>3. SumFunctionOnSet(Sizes, R) <= SumFunctionOnSet(Sizes, S)
  BY <1>1, SizesType, SumMonotone
<1>4. SumFunctionOnSet(Sizes, R) \in Nat /\ SumFunctionOnSet(Sizes, S) \in Nat
  BY <1>1, SizesType, SumType
<1>. QED BY <1>2, <1>3, <1>4, LimitsAssumption DEF Fits

\* What a claim takes fits into one request.
LEMMA BatchFits ==
  ASSUME NEW lag \in Lags, NEW b \in Batches(lag)
  PROVE  Fits(b)
<1>1. PICK s \in Listings(lag) : b = TakeBatch(s)
  BY DEF Batches
<1>2. PICK k \in 0..Len(s) :
        /\ b = FirstRows(s, k)
        /\ k <= BatchMaxCount
        /\ k > 1 => SumFunctionOnSet(Sizes, FirstRows(s, k)) <= BatchMaxBytes
  BY <1>1, BatchIsPrefix
<1>3. k \in Nat
  BY ListingFacts, <1>2
<1>4. Cardinality(b) \in Nat /\ Cardinality(b) <= k
  <2>1. IsFiniteSet(1..k) /\ Cardinality(1..k) = k
    BY <1>3, FS_Interval
  <2>. DEFINE f == [i \in 1..k |-> s[i]]
  <2>2. f \in Surjection(1..k, b)
    BY <1>2 DEF Surjection, FirstRows
  <2>. HIDE DEF f
  <2>3. IsFiniteSet(b) /\ Cardinality(b) <= Cardinality(1..k)
    BY <2>1, <2>2, FS_Surjection
  <2>. QED BY <2>1, <2>3, FS_CardinalityType
<1>. QED BY <1>2, <1>3, <1>4, LimitsAssumption DEF Fits

-----------------------------------------------------------------------------
(* What each statement does to one row *)

\* Row j is left with this status, attempt count, lease start and HTTP status.
Moved(j, status, attempts, started, http) ==
  /\ jobs'[j].status = status
  /\ jobs'[j].attempt_count = attempts
  /\ jobs'[j].processing_started_at = started
  /\ jobs'[j].last_http_status = http

\* EnqueueTx only inserts rows that were not there.
LEMMA EnqueueEffect ==
  ASSUME NEW m, NEW lag \in Lags, EnqueueTx(m, lag), NEW j \in Jobs
  PROVE  \/ jobs'[j] = jobs[j]
         \/ jobs[j].status = "none" /\ Moved(j, "queued", 0, NULL, 0)
<1>1. CASE j \in RowsOf(m)
  <2>1. jobs'[j] = [NoRow EXCEPT !.status = "queued", !.next_attempt_at = -lag]
    BY <1>1 DEF EnqueueTx
  <2>. QED BY <1>1, <2>1 DEF EnqueueTx, NoRow, Moved
<1>2. CASE j \notin RowsOf(m)
  BY <1>2 DEF EnqueueTx
<1>. QED BY <1>1, <1>2

\* A claim moves queued and retry rows, and keeps their counts.
LEMMA ClaimEffect ==
  ASSUME jobs \in [Jobs -> Row], NEW lag \in Lags, NEW b \in SUBSET Eligible(lag),
         ClaimRows(b, lag), NEW j \in Jobs
  PROVE  IF j \in b
         THEN /\ jobs[j].status \in {"queued", "retry"}
              /\ Moved(j, "processing", jobs[j].attempt_count, lag, jobs[j].last_http_status)
         ELSE jobs'[j] = jobs[j]
<1>1. CASE j \in b
  <2>1. jobs'[j] = [jobs[j] EXCEPT !.status = "processing", !.processing_started_at = lag]
    BY <1>1 DEF ClaimRows
  <2>2. jobs[j] \in Row
    OBVIOUS
  <2>3. Moved(j, "processing", jobs[j].attempt_count, lag, jobs[j].last_http_status)
    BY <2>1, <2>2 DEF Row, Moved
  <2>. QED BY <1>1, <2>3 DEF Eligible
<1>2. CASE j \notin b
  BY <1>2 DEF ClaimRows
<1>. QED BY <1>1, <1>2

\* MarkSent moves only rows that are processing, and counts the attempt.
LEMMA MarkSentEffect ==
  ASSUME jobs \in [Jobs -> Row], NEW js, MarkSent(js), NEW j \in Jobs
  PROVE  IF j \in js /\ jobs[j].status = "processing"
         THEN Moved(j, "sent", jobs[j].attempt_count + 1, NULL, 0)
         ELSE jobs'[j] = jobs[j]
<1>1. CASE j \in js /\ jobs[j].status = "processing"
  <2>1. jobs'[j] = [jobs[j] EXCEPT !.status = "sent", !.attempt_count = @ + 1,
                      !.processing_started_at = NULL, !.last_http_status = 0]
    BY <1>1 DEF MarkSent, Processing
  <2>2. jobs[j] \in Row
    OBVIOUS
  <2>. QED BY <1>1, <2>1, <2>2 DEF Row, Moved
<1>2. CASE ~(j \in js /\ jobs[j].status = "processing")
  BY <1>2 DEF MarkSent, Processing
<1>. QED BY <1>1, <1>2

\* So does MarkRetry.
LEMMA MarkRetryEffect ==
  ASSUME jobs \in [Jobs -> Row], NEW js, NEW next, NEW http, MarkRetry(js, next, http), NEW j \in Jobs
  PROVE  IF j \in js /\ jobs[j].status = "processing"
         THEN Moved(j, "retry", jobs[j].attempt_count + 1, NULL, http)
         ELSE jobs'[j] = jobs[j]
<1>1. CASE j \in js /\ jobs[j].status = "processing"
  <2>1. jobs'[j] = [jobs[j] EXCEPT !.status = "retry", !.attempt_count = @ + 1,
                      !.next_attempt_at = next,
                      !.processing_started_at = NULL, !.last_http_status = http]
    BY <1>1 DEF MarkRetry, Processing
  <2>2. jobs[j] \in Row
    OBVIOUS
  <2>. QED BY <1>1, <2>1, <2>2 DEF Row, Moved
<1>2. CASE ~(j \in js /\ jobs[j].status = "processing")
  BY <1>2 DEF MarkRetry, Processing
<1>. QED BY <1>1, <1>2

\* So does MarkDLQ.
LEMMA MarkDLQEffect ==
  ASSUME jobs \in [Jobs -> Row], NEW js, NEW http, MarkDLQ(js, http), NEW j \in Jobs
  PROVE  IF j \in js /\ jobs[j].status = "processing"
         THEN Moved(j, "dlq", jobs[j].attempt_count + 1, NULL, http)
         ELSE jobs'[j] = jobs[j]
<1>1. CASE j \in js /\ jobs[j].status = "processing"
  <2>1. jobs'[j] = [jobs[j] EXCEPT !.status = "dlq", !.attempt_count = @ + 1,
                      !.processing_started_at = NULL, !.last_http_status = http]
    BY <1>1 DEF MarkDLQ, Processing
  <2>2. jobs[j] \in Row
    OBVIOUS
  <2>. QED BY <1>1, <2>1, <2>2 DEF Row, Moved
<1>2. CASE ~(j \in js /\ jobs[j].status = "processing")
  BY <1>2 DEF MarkDLQ, Processing
<1>. QED BY <1>1, <1>2

\* The stale requeue moves only processing rows and keeps their counts.
LEMMA RequeueStaleEffect ==
  ASSUME jobs \in [Jobs -> Row], NEW lag \in Lags, RequeueStaleProcessing(lag), NEW j \in Jobs
  PROVE  \/ /\ j \in Stale(lag) /\ jobs[j].status = "processing"
            /\ Moved(j, "retry", jobs[j].attempt_count, NULL, jobs[j].last_http_status)
         \/ jobs'[j] = jobs[j]
<1>1. CASE j \in Stale(lag)
  <2>1. jobs'[j] = [jobs[j] EXCEPT !.status = "retry", !.next_attempt_at = -lag,
                                   !.processing_started_at = NULL]
    BY <1>1 DEF RequeueStaleProcessing
  <2>2. jobs[j] \in Row
    OBVIOUS
  <2>3. Moved(j, "retry", jobs[j].attempt_count, NULL, jobs[j].last_http_status)
    BY <2>1, <2>2 DEF Row, Moved
  <2>. QED BY <1>1, <2>3 DEF Stale
<1>2. CASE j \notin Stale(lag)
  BY <1>2 DEF RequeueStaleProcessing
<1>. QED BY <1>1, <1>2

\* A replay moves only rows of the dead-letter queue and keeps their counts.
LEMMA ReplayEffect ==
  ASSUME jobs \in [Jobs -> Row], NEW js, NEW lag \in Lags, RequeueDLQIDs(js, lag), NEW j \in Jobs
  PROVE  IF j \in js /\ jobs[j].status = "dlq"
         THEN Moved(j, "retry", jobs[j].attempt_count, NULL, 0)
         ELSE jobs'[j] = jobs[j]
<1>1. CASE j \in js /\ jobs[j].status = "dlq"
  <2>1. jobs'[j] = [jobs[j] EXCEPT !.status = "retry", !.next_attempt_at = -lag,
                                   !.processing_started_at = NULL, !.last_http_status = 0]
    BY <1>1 DEF RequeueDLQIDs
  <2>2. jobs[j] \in Row
    OBVIOUS
  <2>. QED BY <1>1, <2>1, <2>2 DEF Row, Moved
<1>2. CASE ~(j \in js /\ jobs[j].status = "dlq")
  BY <1>2 DEF RequeueDLQIDs
<1>. QED BY <1>1, <1>2

\* retry-now changes nothing but when a row is due.
LEMMA RetryNowEffect ==
  ASSUME jobs \in [Jobs -> Row], NEW lag \in Lags, RetryNow(lag), NEW j \in Jobs
  PROVE  Moved(j, jobs[j].status, jobs[j].attempt_count, jobs[j].processing_started_at,
                  jobs[j].last_http_status)
<1>1. jobs'[j] = IF jobs[j].status = "retry"
                 THEN [jobs[j] EXCEPT !.next_attempt_at = -lag] ELSE jobs[j]
  BY DEF RetryNow
<1>2. jobs[j] \in Row
  OBVIOUS
<1>. QED BY <1>1, <1>2 DEF Row, Moved

\* A tick changes nothing but ages.
LEMMA AgeEffect ==
  ASSUME jobs \in [Jobs -> Row], AgeRows, NEW j \in Jobs
  PROVE  Moved(j, jobs[j].status, jobs[j].attempt_count,
               IF jobs[j].processing_started_at \in {NULL, AgeCap}
               THEN jobs[j].processing_started_at ELSE jobs[j].processing_started_at + 1,
               jobs[j].last_http_status)
<1>1. jobs'[j] = [jobs[j] EXCEPT
                    !.next_attempt_at = IF @ > -MaxTxLag THEN @ - 1 ELSE @,
                    !.processing_started_at =
                       IF @ = NULL \/ @ = AgeCap THEN @ ELSE @ + 1]
  BY DEF AgeRows
<1>2. jobs[j] \in Row
  OBVIOUS
<1>. QED BY <1>1, <1>2 DEF Row, Moved
=============================================================================
