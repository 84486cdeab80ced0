--------------------------- MODULE SmtpAdmission ----------------------------
(***************************************************************************)
(* Admission of SMTP connections (internal/smtpserver): the Backend's      *)
(* channel of connection tokens, its table of connections per address and  *)
(* its rate limiter per address, against many connections at once.         *)
(* acquire and release touch the channel before they take the mutex, so    *)
(* each is two steps here and the steps of other connections fall between  *)
(* them.                                                                   *)
(*                                                                         *)
(* The library that calls the Backend (go-smtp) is external: it calls      *)
(* NewSession when a connection without a session greets, and Logout when  *)
(* the connection closes or upgrades with STARTTLS.  A refused greeting    *)
(* leaves the connection open and may be repeated.  Logout may be called   *)
(* on a session more than once.                                            *)
(***************************************************************************)
EXTENDS Integers, FiniteSets

CONSTANTS
  Conns,                 \* client connections, each of them reusable
  IPs,                   \* client addresses
  RemoteIP,              \* the address of each connection
  MaxConnections,        \* SMTP_MAX_CONNECTIONS
  MaxConnectionsPerIP,   \* SMTP_MAX_CONNECTIONS_PER_IP
  RateLimitPerIP,        \* SMTP_RATE_LIMIT_PER_IP_PER_MIN
  RequireSTARTTLS,       \* SMTP_REQUIRE_STARTTLS, which also loads the certificate
  MaxTicks               \* bound on the clock; one tick earns an address one token

ASSUME ConnsAssumption ==
  /\ IsFiniteSet(Conns)
  /\ RemoteIP \in [Conns -> IPs]

ASSUME AdmissionAssumption ==
  /\ MaxConnections \in Nat \ {0}
  /\ MaxConnectionsPerIP \in Nat \ {0}
  /\ RateLimitPerIP \in Nat \ {0}
  /\ RequireSTARTTLS \in BOOLEAN
  /\ MaxTicks \in Nat

VARIABLES
  conn,           \* where each connection is, see Stages
  tls,            \* whether it has been upgraded
  releasedToken,  \* Session.releasedToken of its session
  connTokens,     \* number of tokens in the channel
  perIPConn,      \* connections per address; 0 stands for no entry
  perIPLimiter,   \* tokens left in the limiter of each address
  elapsed,        \* history: ticks so far
  admitted        \* history: sessions that passed the limiter, per address

avars == <<conn, tls, releasedToken, connTokens, perIPConn, perIPLimiter,
           elapsed, admitted>>

\* closed:    not connected
\* open:      connected, no session
\* acquiring: in acquire, has put a token in the channel
\* session:   has a session
\* logout:    the library is in Logout, to close or to upgrade
\* releasing: in release, past the channel
Stages == {"closed", "open", "acquiring", "session", "logout", "releasing"}

\* A limiter is created full on an address's first use.
AdmissionInit ==
  /\ conn = [c \in Conns |-> "closed"]
  /\ tls = [c \in Conns |-> FALSE]
  /\ releasedToken = [c \in Conns |-> FALSE]
  /\ connTokens = 0
  /\ perIPConn = [ip \in IPs |-> 0]
  /\ perIPLimiter = [ip \in IPs |-> RateLimitPerIP]
  /\ elapsed = 0
  /\ admitted = [ip \in IPs |-> 0]

MoveTo(c, stage) == conn' = [conn EXCEPT ![c] = stage]

-----------------------------------------------------------------------------
(* NewSession *)

Connect(c) ==
  /\ conn[c] = "closed"
  /\ MoveTo(c, "open")
  /\ tls' = [tls EXCEPT ![c] = FALSE]
  /\ UNCHANGED <<releasedToken, connTokens, perIPConn, perIPLimiter, elapsed, admitted>>

\* Mutant: the capacity of the channel is not looked at.
AcquireTokenAnyway(c) ==
  /\ conn[c] = "open"
  /\ connTokens' = connTokens + 1
  /\ MoveTo(c, "acquiring")
  /\ UNCHANGED <<tls, releasedToken, perIPConn, perIPLimiter, elapsed, admitted>>

\* A full channel refuses the greeting at once and changes nothing.
AcquireToken(c) ==
  /\ conn[c] = "open"
  /\ connTokens < MaxConnections
  /\ connTokens' = connTokens + 1
  /\ MoveTo(c, "acquiring")
  /\ UNCHANGED <<tls, releasedToken, perIPConn, perIPLimiter, elapsed, admitted>>

\* Mutant: a refusal keeps its token.
AcquireRefusedKeepsToken(c) ==
  LET ip == RemoteIP[c]
  IN /\ conn[c] = "acquiring"
     /\ perIPLimiter[ip] = 0 \/ perIPConn[ip] >= MaxConnectionsPerIP
     /\ perIPLimiter' = [perIPLimiter EXCEPT ![ip] = IF @ = 0 THEN 0 ELSE @ - 1]
     /\ MoveTo(c, "open")
     /\ UNCHANGED <<tls, releasedToken, connTokens, perIPConn, elapsed, admitted>>

\* Under the mutex.  Taking the token back is a blocking receive.  A greeting
\* refused because of the address's connections has used up a token of the
\* address's limiter.
AcquireRefused(c) ==
  LET ip == RemoteIP[c]
  IN /\ conn[c] = "acquiring"
     /\ perIPLimiter[ip] = 0 \/ perIPConn[ip] >= MaxConnectionsPerIP
     /\ perIPLimiter' = [perIPLimiter EXCEPT ![ip] = IF @ = 0 THEN 0 ELSE @ - 1]
     /\ connTokens > 0
     /\ connTokens' = connTokens - 1
     /\ MoveTo(c, "open")
     /\ UNCHANGED <<tls, releasedToken, perIPConn, elapsed, admitted>>

\* Mutant: one connection of an address too many.
AcquireSucceedsAtLimit(c) ==
  LET ip == RemoteIP[c]
  IN /\ conn[c] = "acquiring"
     /\ perIPLimiter[ip] > 0
     /\ perIPConn[ip] <= MaxConnectionsPerIP
     /\ perIPLimiter' = [perIPLimiter EXCEPT ![ip] = @ - 1]
     /\ perIPConn' = [perIPConn EXCEPT ![ip] = @ + 1]
     /\ releasedToken' = [releasedToken EXCEPT ![c] = FALSE]
     /\ MoveTo(c, "session")
     /\ admitted' = [admitted EXCEPT ![ip] = @ + 1]
     /\ UNCHANGED <<tls, connTokens, elapsed>>

\* Under the mutex; NewSession returns a fresh Session.
AcquireSucceeds(c) ==
  LET ip == RemoteIP[c]
  IN /\ conn[c] = "acquiring"
     /\ perIPLimiter[ip] > 0
     /\ perIPConn[ip] < MaxConnectionsPerIP
     /\ perIPLimiter' = [perIPLimiter EXCEPT ![ip] = @ - 1]
     /\ perIPConn' = [perIPConn EXCEPT ![ip] = @ + 1]
     /\ releasedToken' = [releasedToken EXCEPT ![c] = FALSE]
     /\ MoveTo(c, "session")
     /\ admitted' = [admitted EXCEPT ![ip] = @ + 1]
     /\ UNCHANGED <<tls, connTokens, elapsed>>

-----------------------------------------------------------------------------
(* Logout *)

\* The library ends the session: QUIT, a lost connection, a time-out, or a
\* completed STARTTLS handshake.
EndSession(c) ==
  /\ conn[c] = "session"
  /\ MoveTo(c, "logout")
  /\ UNCHANGED <<tls, releasedToken, connTokens, perIPConn, perIPLimiter, elapsed, admitted>>

\* Mutant: every Logout releases.
LogoutAlwaysReleases(c) ==
  /\ conn[c] = "logout"
  /\ connTokens' = IF connTokens > 0 THEN connTokens - 1 ELSE 0
  /\ MoveTo(c, "releasing")
  /\ UNCHANGED <<tls, releasedToken, perIPConn, perIPLimiter, elapsed, admitted>>

\* Logout and the channel receive of release, which does not block.
LogoutReleases(c) ==
  /\ conn[c] = "logout"
  /\ ~releasedToken[c]
  /\ connTokens' = IF connTokens > 0 THEN connTokens - 1 ELSE 0
  /\ MoveTo(c, "releasing")
  /\ UNCHANGED <<tls, releasedToken, perIPConn, perIPLimiter, elapsed, admitted>>

\* Mutant: the limiter goes with the address's last connection.
ReleaseForgetsLimiter(c) ==
  LET ip == RemoteIP[c]
  IN /\ conn[c] = "releasing"
     /\ perIPConn' = [perIPConn EXCEPT ![ip] = IF @ > 1 THEN @ - 1 ELSE 0]
     /\ perIPLimiter' = [perIPLimiter EXCEPT ![ip] =
                           IF perIPConn[ip] > 1 THEN @ ELSE RateLimitPerIP]
     /\ releasedToken' = [releasedToken EXCEPT ![c] = TRUE]
     /\ MoveTo(c, "logout")
     /\ UNCHANGED <<tls, connTokens, elapsed, admitted>>

\* The rest of release, under the mutex, and the flag that Logout sets after it.
Release(c) ==
  LET ip == RemoteIP[c]
  IN /\ conn[c] = "releasing"
     /\ perIPConn' = [perIPConn EXCEPT ![ip] = IF @ > 1 THEN @ - 1 ELSE 0]
     /\ releasedToken' = [releasedToken EXCEPT ![c] = TRUE]
     /\ MoveTo(c, "logout")
     /\ UNCHANGED <<tls, connTokens, perIPLimiter, elapsed, admitted>>

\* The library drops the session, with the connection or, after STARTTLS, without
\* it: the upgraded connection has to greet again.  STARTTLS is offered only
\* with a certificate, and once.
DropSession(c) ==
  /\ conn[c] = "logout"
  /\ releasedToken[c]
  /\ \/ MoveTo(c, "closed") /\ UNCHANGED tls
     \/ /\ RequireSTARTTLS /\ ~tls[c]
        /\ MoveTo(c, "open")
        /\ tls' = [tls EXCEPT ![c] = TRUE]
  /\ UNCHANGED <<releasedToken, connTokens, perIPConn, perIPLimiter, elapsed, admitted>>

\* A connection that has no session goes away.
Disconnect(c) ==
  /\ conn[c] = "open"
  /\ MoveTo(c, "closed")
  /\ UNCHANGED <<tls, releasedToken, connTokens, perIPConn, perIPLimiter, elapsed, admitted>>

\* time.Minute / SMTP_RATE_LIMIT_PER_IP_PER_MIN passes.
Refill ==
  /\ elapsed < MaxTicks
  /\ elapsed' = elapsed + 1
  /\ perIPLimiter' = [ip \in IPs |->
                        IF perIPLimiter[ip] < RateLimitPerIP
                        THEN perIPLimiter[ip] + 1 ELSE RateLimitPerIP]
  /\ UNCHANGED <<conn, tls, releasedToken, connTokens, perIPConn, admitted>>

AdmissionStep(c) ==
  \/ Connect(c)
  \/ AcquireToken(c)
  \/ AcquireRefused(c)
  \/ AcquireSucceeds(c)
  \/ EndSession(c)
  \/ LogoutReleases(c)
  \/ Release(c)
  \/ DropSession(c)
  \/ Disconnect(c)

AdmissionNext == Refill \/ \E c \in Conns : AdmissionStep(c)

AdmissionSpec == AdmissionInit /\ [][AdmissionNext]_avars

-----------------------------------------------------------------------------
(* Properties *)

\* Every variable keeps its type.
AdmissionTypeOK ==
  /\ conn \in [Conns -> Stages]
  /\ tls \in [Conns -> BOOLEAN]
  /\ releasedToken \in [Conns -> BOOLEAN]
  /\ connTokens \in 0..MaxConnections
  /\ perIPConn \in [IPs -> Nat]
  /\ perIPLimiter \in [IPs -> 0..RateLimitPerIP]
  /\ elapsed \in Nat
  /\ admitted \in [IPs -> Nat]

\* A session whose Logout has not released it yet.
Live(c) == conn[c] = "session" \/ (conn[c] = "logout" /\ ~releasedToken[c])

TokenHolders == {c \in Conns : Live(c) \/ conn[c] = "acquiring"}
Counted(ip) == {c \in Conns : RemoteIP[c] = ip /\ (Live(c) \/ conn[c] = "releasing")}

\* The channel holds one token for every live session and every greeting being
\* decided, however the steps of acquire, release, STARTTLS and repeated
\* Logouts interleave: no token leaks, none is released twice.  So the
\* blocking receive of a refusal, made with the mutex held, always finds a
\* token.
TokensExact == connTokens = Cardinality(TokenHolders)

\* The table counts exactly the sessions of each address that release has not
\* yet reached, so an address with no session has no entry.
PerIPExact == \A ip \in IPs : perIPConn[ip] = Cardinality(Counted(ip))

\* SMTP_MAX_CONNECTIONS bounds the live sessions and SMTP_MAX_CONNECTIONS_PER_IP
\* those of one address, although the two are checked at different times.
SessionsWithinLimits ==
  /\ Cardinality({c \in Conns : Live(c)}) <= MaxConnections
  /\ \A ip \in IPs :
       Cardinality({c \in Conns : RemoteIP[c] = ip /\ Live(c)}) <= MaxConnectionsPerIP

\* An address gets at most SMTP_RATE_LIMIT_PER_IP_PER_MIN sessions at once and
\* one more per tick, across reconnects, upgrades and refusals: closing all its
\* connections does not give it a new limiter.
RateBounded == \A ip \in IPs : admitted[ip] <= RateLimitPerIP + elapsed
=============================================================================
