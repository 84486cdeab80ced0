-------------------------- MODULE AdmissionProofs ---------------------------
(***************************************************************************)
(* Proofs about SmtpAdmission, for any finite set of connections, any      *)
(* assignment of addresses to them, any limits and any number of ticks.    *)
(*                                                                         *)
(* The counters are exact because every step that moves a connection into  *)
(* or out of the set a counter stands for changes the counter by one, and  *)
(* the set by that connection.  A step of acquire or release that falls    *)
(* between two steps of another connection changes other members only.     *)
(***************************************************************************)
EXTENDS SmtpAdmission, TLAPS, FiniteSetTheorems

\* A session is created with the flag down, and only release raises it.
FlagDown == \A c \in Conns : conn[c] = "session" => ~releasedToken[c]

\* The table itself never exceeds the limit, also while connections are in
\* release.
PerIPBounded == \A ip \in IPs : perIPConn[ip] <= MaxConnectionsPerIP

\* The tokens an address has spent and has left are what it was given.
RateSpent == \A ip \in IPs : admitted[ip] + perIPLimiter[ip] <= RateLimitPerIP + elapsed

AdmissionInv ==
  /\ AdmissionTypeOK
  /\ FlagDown
  /\ TokensExact
  /\ PerIPExact
  /\ PerIPBounded
  /\ RateSpent

-----------------------------------------------------------------------------
(* Cardinalities *)

\* The sets that the counters stand for are finite.
LEMMA HoldersFinite ==
  /\ IsFiniteSet(TokenHolders) /\ Cardinality(TokenHolders) \in Nat
  /\ \A ip \in IPs : IsFiniteSet(Counted(ip)) /\ Cardinality(Counted(ip)) \in Nat
<1>1. TokenHolders \subseteq Conns
  BY DEF TokenHolders
<1>2. \A ip \in IPs : Counted(ip) \subseteq Conns
  BY DEF Counted
<1>3. IsFiniteSet(Conns)
  BY ConnsAssumption
<1>4. IsFiniteSet(TokenHolders) /\ \A ip \in IPs : IsFiniteSet(Counted(ip))
  BY <1>1, <1>2, <1>3, FS_Subset
<1>. QED BY <1>4, FS_CardinalityType

\* One member more is one more.
LEMMA OneMore ==
  ASSUME NEW S, IsFiniteSet(S), NEW x, x \notin S
  PROVE  Cardinality(S \cup {x}) = Cardinality(S) + 1
BY FS_AddElement

\* The other way, and then the set was not empty.
LEMMA OneLess ==
  ASSUME NEW S, IsFiniteSet(S), NEW x, x \in S
  PROVE  /\ Cardinality(S \ {x}) = Cardinality(S) - 1
         /\ Cardinality(S) > 0
<1>1. Cardinality(S \ {x}) = Cardinality(S) - 1
  BY FS_RemoveElement
<1>2. Cardinality(S) \in Nat /\ Cardinality(S \ {x}) \in Nat
  BY FS_CardinalityType, FS_RemoveElement
<1>. QED BY <1>1, <1>2

-----------------------------------------------------------------------------
(* What the steps keep *)

\* The initial state: no connection, no token, full limiters.
LEMMA AdmissionInvInit ==
  ASSUME AdmissionInit
  PROVE  AdmissionInv
<1>1. AdmissionTypeOK /\ FlagDown /\ PerIPBounded /\ RateSpent
  BY AdmissionAssumption
  DEF AdmissionInit, AdmissionTypeOK, FlagDown, PerIPBounded, RateSpent, Stages
<1>2. TokenHolders = {} /\ \A ip \in IPs : Counted(ip) = {}
  BY DEF AdmissionInit, TokenHolders, Counted, Live
<1>. QED BY <1>1, <1>2, FS_EmptySet DEF AdmissionInit, AdmissionInv, TokensExact, PerIPExact

\* The types and the flag, for each step of acquire, release and the library.
LEMMA TypeStep ==
  ASSUME AdmissionTypeOK, FlagDown, TokensExact, NEW c \in Conns, AdmissionStep(c)
  PROVE  AdmissionTypeOK' /\ FlagDown'
<1>. USE ConnsAssumption, AdmissionAssumption
     DEF AdmissionTypeOK, FlagDown, Stages, MoveTo
<1>0. RemoteIP[c] \in IPs
  OBVIOUS
<1>1. CASE Connect(c)
  BY <1>1 DEF Connect
<1>2. CASE AcquireToken(c)
  BY <1>2 DEF AcquireToken
<1>3. CASE AcquireRefused(c)
  BY <1>0, <1>3 DEF AcquireRefused
<1>4. CASE AcquireSucceeds(c)
  BY <1>0, <1>4 DEF AcquireSucceeds
<1>5. CASE EndSession(c)
  BY <1>5 DEF EndSession
<1>6. CASE LogoutReleases(c)
  BY <1>6 DEF LogoutReleases
<1>7. CASE Release(c)
  BY <1>0, <1>7 DEF Release
<1>8. CASE DropSession(c)
  BY <1>8 DEF DropSession
<1>9. CASE Disconnect(c)
  BY <1>9 DEF Disconnect
<1>. QED
  BY <1>1, <1>2, <1>3, <1>4, <1>5, <1>6, <1>7, <1>8, <1>9 DEF AdmissionStep

\* The channel: acquire's send and its taking back, and release's receive.
LEMMA TokensStep ==
  ASSUME AdmissionTypeOK, FlagDown, TokensExact, NEW c \in Conns, AdmissionStep(c)
  PROVE  TokensExact'
<1>. USE DEF AdmissionTypeOK, MoveTo, TokenHolders, Live
<1>. DEFINE H == TokenHolders
<1>0. IsFiniteSet(H) /\ Cardinality(H) \in Nat
  BY HoldersFinite
<1>1. CASE Connect(c) \/ AcquireSucceeds(c) \/ EndSession(c) \/ Release(c)
             \/ DropSession(c) \/ Disconnect(c)
  <2>1. CASE Connect(c)
    <3>1. TokenHolders' = H
      BY <2>1 DEF Connect
    <3>. QED BY <2>1, <3>1 DEF Connect, TokensExact
  <2>2. CASE AcquireSucceeds(c)
    <3>1. TokenHolders' = H
      BY <2>2 DEF AcquireSucceeds
    <3>. QED BY <2>2, <3>1 DEF AcquireSucceeds, TokensExact
  <2>3. CASE EndSession(c)
    <3>1. TokenHolders' = H
      BY <2>3 DEF EndSession, FlagDown
    <3>. QED BY <2>3, <3>1 DEF EndSession, TokensExact
  <2>4. CASE Release(c)
    <3>1. TokenHolders' = H
      BY <2>4 DEF Release
    <3>. QED BY <2>4, <3>1 DEF Release, TokensExact
  <2>5. CASE DropSession(c)
    <3>1. TokenHolders' = H
      BY <2>5 DEF DropSession
    <3>. QED BY <2>5, <3>1 DEF DropSession, TokensExact
  <2>6. CASE Disconnect(c)
    <3>1. TokenHolders' = H
      BY <2>6 DEF Disconnect
    <3>. QED BY <2>6, <3>1 DEF Disconnect, TokensExact
  <2>. QED BY <1>1, <2>1, <2>2, <2>3, <2>4, <2>5, <2>6
<1>2. CASE AcquireToken(c)
  <2>1. c \notin H
    BY <1>2 DEF AcquireToken
  <2>2. TokenHolders' = H \cup {c}
    BY <1>2 DEF AcquireToken
  <2>3. Cardinality(TokenHolders') = Cardinality(H) + 1
    BY <1>0, <2>1, <2>2, OneMore
  <2>. QED BY <1>2, <2>3 DEF AcquireToken, TokensExact
<1>3. CASE AcquireRefused(c)
  <2>1. c \in H
    BY <1>3 DEF AcquireRefused
  <2>2. TokenHolders' = H \ {c}
    BY <1>3 DEF AcquireRefused
  <2>3. Cardinality(TokenHolders') = Cardinality(H) - 1
    BY <1>0, <2>1, <2>2, OneLess
  <2>. QED BY <1>3, <2>3 DEF AcquireRefused, TokensExact
<1>4. CASE LogoutReleases(c)
  <2>1. c \in H
    BY <1>4 DEF LogoutReleases
  <2>2. TokenHolders' = H \ {c}
    BY <1>4 DEF LogoutReleases
  <2>3. Cardinality(TokenHolders') = Cardinality(H) - 1 /\ Cardinality(H) > 0
    BY <1>0, <2>1, <2>2, OneLess
  <2>. QED BY <1>4, <2>3 DEF LogoutReleases, TokensExact
<1>. QED BY <1>1, <1>2, <1>3, <1>4 DEF AdmissionStep

\* The table: acquire adds a connection to its address and release takes it
\* off again; the other addresses keep their entries.
LEMMA PerIPStep ==
  ASSUME AdmissionTypeOK, FlagDown, PerIPExact, PerIPBounded,
         NEW c \in Conns, AdmissionStep(c)
  PROVE  PerIPExact' /\ PerIPBounded'
<1>. USE DEF AdmissionTypeOK, MoveTo, Counted, Live
<1>. DEFINE Keeps == (\A ip \in IPs : Counted(ip)' = Counted(ip)) /\ UNCHANGED perIPConn
            mine == RemoteIP[c]
<1>0. /\ mine \in IPs
      /\ \A ip \in IPs : IsFiniteSet(Counted(ip)) /\ Cardinality(Counted(ip)) \in Nat
  BY HoldersFinite, ConnsAssumption
<1>1. ASSUME Keeps PROVE PerIPExact' /\ PerIPBounded'
  BY <1>1 DEF PerIPExact, PerIPBounded
<1>2. CASE Connect(c)
  <2>1. Keeps
    BY <1>2 DEF Connect
  <2>. QED BY <1>1, <2>1
<1>3. CASE AcquireToken(c)
  <2>1. Keeps
    BY <1>3 DEF AcquireToken
  <2>. QED BY <1>1, <2>1
<1>4. CASE AcquireRefused(c)
  <2>1. Keeps
    BY <1>4 DEF AcquireRefused
  <2>. QED BY <1>1, <2>1
<1>5. CASE AcquireSucceeds(c)
  <2>1. c \notin Counted(mine)
    BY <1>5 DEF AcquireSucceeds
  <2>2. Counted(mine)' = Counted(mine) \cup {c}
    BY <1>5 DEF AcquireSucceeds
  <2>3. \A ip \in IPs \ {mine} : Counted(ip)' = Counted(ip)
    BY <1>5 DEF AcquireSucceeds
  <2>4. Cardinality(Counted(mine)') = Cardinality(Counted(mine)) + 1
    BY <1>0, <2>1, <2>2, OneMore
  <2>5. perIPConn'[mine] = perIPConn[mine] + 1 /\ perIPConn[mine] < MaxConnectionsPerIP
    BY <1>0, <1>5 DEF AcquireSucceeds
  <2>6. \A ip \in IPs \ {mine} : perIPConn'[ip] = perIPConn[ip]
    BY <1>5 DEF AcquireSucceeds
  <2>7. PerIPExact'
    BY <1>0, <2>3, <2>4, <2>5, <2>6 DEF PerIPExact
  <2>8. PerIPBounded'
    BY <1>0, <2>5, <2>6, AdmissionAssumption DEF PerIPBounded
  <2>. QED BY <2>7, <2>8
<1>6. CASE EndSession(c)
  <2>1. Keeps
    BY <1>6 DEF EndSession, FlagDown
  <2>. QED BY <1>1, <2>1
<1>7. CASE LogoutReleases(c)
  <2>1. Keeps
    BY <1>7 DEF LogoutReleases
  <2>. QED BY <1>1, <2>1
<1>8. CASE Release(c)
  <2>1. c \in Counted(mine)
    BY <1>8 DEF Release
  <2>2. Counted(mine)' = Counted(mine) \ {c}
    BY <1>8 DEF Release
  <2>3. \A ip \in IPs \ {mine} : Counted(ip)' = Counted(ip)
    BY <1>8 DEF Release
  <2>4. /\ Cardinality(Counted(mine)') = Cardinality(Counted(mine)) - 1
        /\ Cardinality(Counted(mine)) > 0
    BY <1>0, <2>1, <2>2, OneLess
  <2>5. perIPConn'[mine] = perIPConn[mine] - 1
    BY <1>0, <1>8, <2>4 DEF Release, PerIPExact
  <2>6. \A ip \in IPs \ {mine} : perIPConn'[ip] = perIPConn[ip]
    BY <1>8 DEF Release
  <2>7. PerIPExact'
    BY <1>0, <2>3, <2>4, <2>5, <2>6 DEF PerIPExact
  <2>8. PerIPBounded'
    BY <1>0, <2>5, <2>6, AdmissionAssumption DEF PerIPBounded
  <2>. QED BY <2>7, <2>8
<1>9. CASE DropSession(c)
  <2>1. Keeps
    BY <1>9 DEF DropSession
  <2>. QED BY <1>1, <2>1
<1>10. CASE Disconnect(c)
  <2>1. Keeps
    BY <1>10 DEF Disconnect
  <2>. QED BY <1>1, <2>1
<1>. QED
  BY <1>2, <1>3, <1>4, <1>5, <1>6, <1>7, <1>8, <1>9, <1>10 DEF AdmissionStep

\* The limiter: a session costs its address one token, a refusal at most one.
LEMMA RateStep ==
  ASSUME AdmissionTypeOK, RateSpent, NEW c \in Conns, AdmissionStep(c)
  PROVE  RateSpent'
<1>. USE ConnsAssumption, AdmissionAssumption DEF AdmissionTypeOK, RateSpent
<1>1. CASE AcquireRefused(c)
  BY <1>1 DEF AcquireRefused
<1>2. CASE AcquireSucceeds(c)
  BY <1>2 DEF AcquireSucceeds
<1>3. CASE UNCHANGED <<perIPLimiter, elapsed, admitted>>
  BY <1>3
<1>. QED
  BY <1>1, <1>2, <1>3
  DEF AdmissionStep, Connect, AcquireToken, EndSession, LogoutReleases, Release,
      DropSession, Disconnect

\* Every step of a connection keeps the invariant.
LEMMA AdmissionStepInv ==
  ASSUME AdmissionInv, NEW c \in Conns, AdmissionStep(c)
  PROVE  AdmissionInv'
BY TypeStep, TokensStep, PerIPStep, RateStep DEF AdmissionInv

\* So does the passing of time, which gives every address at most one token.
LEMMA RefillInv ==
  ASSUME AdmissionInv, Refill
  PROVE  AdmissionInv'
<1>1. AdmissionTypeOK' /\ FlagDown' /\ PerIPBounded' /\ RateSpent'
  BY AdmissionAssumption
  DEF AdmissionInv, Refill, AdmissionTypeOK, FlagDown, PerIPBounded, RateSpent
<1>2. TokenHolders' = TokenHolders /\ \A ip \in IPs : Counted(ip)' = Counted(ip)
  BY DEF Refill, TokenHolders, Counted, Live
<1>. QED BY <1>1, <1>2 DEF AdmissionInv, Refill, TokensExact, PerIPExact

\* A step that leaves the variables of the admission alone keeps it.
LEMMA AdmissionStutterInv ==
  ASSUME AdmissionInv, UNCHANGED avars
  PROVE  AdmissionInv'
BY DEF AdmissionInv, avars, AdmissionTypeOK, FlagDown, TokensExact, PerIPExact, PerIPBounded,
       RateSpent, TokenHolders, Counted, Live

-----------------------------------------------------------------------------
(* What the invariant says *)

\* The exact counters and their limits bound the live sessions, the steps
\* between the two checks notwithstanding.
LEMMA LimitsFromInv ==
  ASSUME AdmissionInv
  PROVE  SessionsWithinLimits
<1>1. /\ {c \in Conns : Live(c)} \subseteq TokenHolders
      /\ \A ip \in IPs : {c \in Conns : RemoteIP[c] = ip /\ Live(c)} \subseteq Counted(ip)
  BY DEF TokenHolders, Counted
<1>2. Cardinality({c \in Conns : Live(c)}) <= Cardinality(TokenHolders)
  BY <1>1, HoldersFinite, FS_Subset
<1>3. \A ip \in IPs : Cardinality({c \in Conns : RemoteIP[c] = ip /\ Live(c)})
                        <= Cardinality(Counted(ip))
  BY <1>1, HoldersFinite, FS_Subset
<1>4. /\ IsFiniteSet({c \in Conns : Live(c)})
      /\ \A ip \in IPs : IsFiniteSet({c \in Conns : RemoteIP[c] = ip /\ Live(c)})
  BY <1>1, HoldersFinite, FS_Subset
<1>5. /\ Cardinality({c \in Conns : Live(c)}) \in Nat
      /\ \A ip \in IPs : Cardinality({c \in Conns : RemoteIP[c] = ip /\ Live(c)}) \in Nat
  BY <1>4, FS_CardinalityType
<1>6. Cardinality({c \in Conns : Live(c)}) <= MaxConnections
  BY <1>2, <1>5, HoldersFinite, AdmissionAssumption
  DEF AdmissionInv, AdmissionTypeOK, TokensExact
<1>7. ASSUME NEW ip \in IPs
      PROVE  Cardinality({c \in Conns : RemoteIP[c] = ip /\ Live(c)}) <= MaxConnectionsPerIP
  <2>1. perIPConn[ip] = Cardinality(Counted(ip)) /\ perIPConn[ip] <= MaxConnectionsPerIP
    BY DEF AdmissionInv, PerIPExact, PerIPBounded
  <2>. QED BY <1>3, <1>5, <2>1, HoldersFinite, AdmissionAssumption
<1>. QED BY <1>6, <1>7 DEF SessionsWithinLimits

\* An address has been admitted no more often than it was given tokens.
LEMMA RateFromInv ==
  ASSUME AdmissionInv
  PROVE  RateBounded
BY AdmissionAssumption DEF AdmissionInv, AdmissionTypeOK, RateSpent, RateBounded

\* The invariant holds in every state of the admission.
THEOREM AdmissionInvariant == AdmissionSpec => []AdmissionInv
<1>1. AdmissionInit => AdmissionInv
  BY AdmissionInvInit
<1>2. AdmissionInv /\ [AdmissionNext]_avars => AdmissionInv'
  BY AdmissionStepInv, RefillInv, AdmissionStutterInv DEF AdmissionNext
<1>. QED BY <1>1, <1>2, PTL DEF AdmissionSpec

\* Every variable of NewSession and Logout keeps its type; the channel is
\* never over its capacity.
THEOREM AdmissionTypes == AdmissionSpec => []AdmissionTypeOK
<1>1. AdmissionInv => AdmissionTypeOK
  BY DEF AdmissionInv
<1>. QED BY <1>1, AdmissionInvariant, PTL

\* No token of connTokens leaks and none is given back twice, however acquire,
\* release, STARTTLS and repeated Logouts of any number of connections
\* interleave.
THEOREM TokensAreExact == AdmissionSpec => []TokensExact
<1>1. AdmissionInv => TokensExact
  BY DEF AdmissionInv
<1>. QED BY <1>1, AdmissionInvariant, PTL

\* While a greeting is being decided the channel holds its token.
TokenAtHand == \A c \in Conns : conn[c] = "acquiring" => connTokens > 0

\* So acquire's receive after a refusal, which blocks on an empty channel and is
\* made with the mutex held, never blocks.
THEOREM RefusalNeverBlocks == AdmissionSpec => []TokenAtHand
<1>1. AdmissionInv => TokenAtHand
  <2>. SUFFICES ASSUME AdmissionInv, NEW c \in Conns, conn[c] = "acquiring"
                PROVE  connTokens > 0
    BY DEF TokenAtHand
  <2>1. c \in TokenHolders
    BY DEF TokenHolders
  <2>. QED BY <2>1, HoldersFinite, OneLess DEF AdmissionInv, TokensExact
<1>. QED BY <1>1, AdmissionInvariant, PTL

\* perIPConn counts the sessions of each address that release has not reached.
THEOREM PerIPIsExact == AdmissionSpec => []PerIPExact
<1>1. AdmissionInv => PerIPExact
  BY DEF AdmissionInv
<1>. QED BY <1>1, AdmissionInvariant, PTL

\* Both connection limits of NewSession hold for the live sessions at all times.
THEOREM LimitsHold == AdmissionSpec => []SessionsWithinLimits
<1>1. AdmissionInv => SessionsWithinLimits
  BY LimitsFromInv
<1>. QED BY <1>1, AdmissionInvariant, PTL

\* The limiter of an address survives its connections: its sessions never exceed
\* the burst and one per tick.
THEOREM RateHolds == AdmissionSpec => []RateBounded
<1>1. AdmissionInv => RateBounded
  BY RateFromInv
<1>. QED BY <1>1, AdmissionInvariant, PTL
=============================================================================
