---------------------------- MODULE SmtpSession -----------------------------
(***************************************************************************)
(* The commands of an SMTP session (internal/smtpserver.Session) on top of *)
(* the admission of connections, down to the transaction that inserts one  *)
(* row per recipient and the reply that follows it.                        *)
(*                                                                         *)
(* The library (go-smtp) is external.  It calls the session's methods one  *)
(* at a time per connection; they are allowed here in any order, so that   *)
(* the session's own checks carry the properties.  What the relay leaves   *)
(* to it through its settings is kept: AUTH needs TLS or                   *)
(* AllowInsecureAuth, and a session has at most MaxRecipients recipients.  *)
(* It resets the session after every DATA.                                 *)
(*                                                                         *)
(* A client submits a message again until it has a 250 for it, one         *)
(* submission at a time.                                                   *)
(***************************************************************************)
EXTENDS SmtpAdmission, Sequences

CONSTANTS
  Senders,             \* addresses that parse
  AllowedSenders,      \* those in SMTP_ALLOWED_SENDER_DOMAINS
  Messages,            \* what a client wants to send
  AllowInsecureAuth,   \* SMTP_ALLOW_INSECURE_AUTH
  MaxRecipients,       \* SMTP_MAX_RECIPIENTS
  MaxSubmissions,      \* bound on the messages handed to EnqueueTx
  MaxCrashes           \* bound on the deaths of the process

ASSUME SessionAssumption ==
  /\ AllowedSenders \subseteq Senders
  /\ AllowInsecureAuth \in BOOLEAN
  /\ MaxRecipients \in Nat \ {0}
  /\ MaxSubmissions \in Nat
  /\ MaxCrashes \in Nat

VARIABLES
  authed,        \* Session.authed, with the channel the client authenticated on
  envelopeFrom,  \* Session.envelopeFrom, None for ""
  recipients,    \* Session.recipients: the sender and the channel each came under
  step,          \* where the session is in Data
  sub,           \* the submission Data is working on
  tx,            \* rows inserted by the open transaction of a session
  stored,        \* committed rows of each submission
  submitted,     \* history: the message and the envelope of each submission
  acked,         \* history: submissions whose 250 reached the client
  lost,          \* history: stored submissions whose 250 did not
  crashes        \* deaths of the process so far

fields == <<authed, envelopeFrom, recipients>>
data == <<step, sub, tx, stored, submitted, acked, lost>>
vars == <<avars, fields, data, crashes>>

None == "none"
Subs == 1..MaxSubmissions

Init ==
  /\ AdmissionInit
  /\ authed = [c \in Conns |-> "no"]
  /\ envelopeFrom = [c \in Conns |-> None]
  /\ recipients = [c \in Conns |-> <<>>]
  /\ step = [c \in Conns |-> "idle"]
  /\ sub = [c \in Conns |-> 0]
  /\ tx = [c \in Conns |-> <<>>]
  /\ stored = [n \in Subs |-> <<>>]
  /\ submitted = <<>>
  /\ acked = {}
  /\ lost = {}
  /\ crashes = 0

InCommand(c) == conn[c] = "session" /\ step[c] = "idle"

-----------------------------------------------------------------------------
(* NewSession, AUTH, MAIL, RCPT, RSET: a refused command changes nothing *)

\* Mutant: an upgraded connection stays authenticated.
NewSessionKeepsAuth(c) ==
  /\ AcquireSucceeds(c)
  /\ envelopeFrom' = [envelopeFrom EXCEPT ![c] = None]
  /\ recipients' = [recipients EXCEPT ![c] = <<>>]
  /\ UNCHANGED <<authed, data, crashes>>

NewSession(c) ==
  /\ AcquireSucceeds(c)
  /\ authed' = [authed EXCEPT ![c] = "no"]
  /\ envelopeFrom' = [envelopeFrom EXCEPT ![c] = None]
  /\ recipients' = [recipients EXCEPT ![c] = <<>>]
  /\ UNCHANGED <<data, crashes>>

\* The right mechanism and credentials; the library lets AUTH through.
Auth(c) ==
  /\ InCommand(c)
  /\ tls[c] \/ AllowInsecureAuth
  /\ authed' = [authed EXCEPT ![c] = IF tls[c] THEN "tls" ELSE "plain"]
  /\ UNCHANGED <<avars, envelopeFrom, recipients, data, crashes>>

\* Mutant: a second MAIL keeps the recipients of the first.
MailKeepsRecipients(c, from) ==
  /\ InCommand(c)
  /\ RequireSTARTTLS => tls[c]
  /\ authed[c] # "no"
  /\ from \in AllowedSenders
  /\ envelopeFrom' = [envelopeFrom EXCEPT ![c] = from]
  /\ UNCHANGED <<avars, authed, recipients, data, crashes>>

Mail(c, from) ==
  /\ InCommand(c)
  /\ RequireSTARTTLS => tls[c]
  /\ authed[c] # "no"
  /\ from \in AllowedSenders
  /\ envelopeFrom' = [envelopeFrom EXCEPT ![c] = from]
  /\ recipients' = [recipients EXCEPT ![c] = <<>>]
  /\ UNCHANGED <<avars, authed, data, crashes>>

\* Mutant: RCPT is taken without MAIL.
RcptWithoutMail(c) ==
  /\ InCommand(c)
  /\ authed[c] # "no"
  /\ Len(recipients[c]) < MaxRecipients
  /\ recipients' = [recipients EXCEPT ![c] =
                      Append(@, [under |-> envelopeFrom[c], auth |-> authed[c]])]
  /\ UNCHANGED <<avars, authed, envelopeFrom, data, crashes>>

\* Neither RCPT nor DATA looks at TLS or at the sender's domain again.  The
\* row-to-be remembers the sender it was accepted under.
Rcpt(c) ==
  /\ InCommand(c)
  /\ authed[c] # "no"
  /\ envelopeFrom[c] # None
  /\ Len(recipients[c]) < MaxRecipients
  /\ recipients' = [recipients EXCEPT ![c] =
                      Append(@, [under |-> envelopeFrom[c], auth |-> authed[c]])]
  /\ UNCHANGED <<avars, authed, envelopeFrom, data, crashes>>

ResetFields(c) ==
  /\ envelopeFrom' = [envelopeFrom EXCEPT ![c] = None]
  /\ recipients' = [recipients EXCEPT ![c] = <<>>]
  /\ UNCHANGED authed

\* RSET, or a repeated greeting: the session stays authenticated.
Reset(c) ==
  /\ InCommand(c)
  /\ ResetFields(c)
  /\ UNCHANGED <<avars, data, crashes>>

-----------------------------------------------------------------------------
(* DATA *)

\* The client still has no 250 for m and no submission of it under way.
Wanted(m) ==
  /\ \A n \in acked : submitted[n].message # m
  /\ \A c \in Conns : step[c] # "idle" => submitted[sub[c]].message # m

\* The rows Transform and EnqueueTx make of the session's envelope.
JobRow(c, i) ==
  [from |-> envelopeFrom[c], under |-> recipients[c][i].under, auth |-> recipients[c][i].auth]

Envelope(c) == [i \in 1..Len(recipients[c]) |-> JobRow(c, i)]

\* Read to the end, within the size limit, and transformed.
DataAccepted(c, m) ==
  /\ InCommand(c)
  /\ authed[c] # "no"
  /\ envelopeFrom[c] # None
  /\ recipients[c] # <<>>
  /\ Wanted(m)
  /\ Len(submitted) < MaxSubmissions
  /\ submitted' = Append(submitted, [message |-> m, rows |-> Envelope(c)])
  /\ sub' = [sub EXCEPT ![c] = Len(submitted')]
  /\ step' = [step EXCEPT ![c] = "enqueue"]
  /\ UNCHANGED <<avars, fields, tx, stored, acked, lost, crashes>>

\* No authentication, no envelope, a read error, a message that is too large or
\* does not parse; the library resets the session.
DataRejected(c) ==
  /\ InCommand(c)
  /\ ResetFields(c)
  /\ UNCHANGED <<avars, data, crashes>>

\* The rows of EnqueueTx's transaction, one INSERT after the other; SQLite
\* lets one transaction write at a time.
InsertJob(c) ==
  /\ step[c] = "enqueue"
  /\ Len(tx[c]) < Len(recipients[c])
  /\ \A d \in Conns \ {c} : tx[d] = <<>>
  /\ tx' = [tx EXCEPT ![c] = Append(@, JobRow(c, Len(@) + 1))]
  /\ UNCHANGED <<avars, fields, step, sub, stored, submitted, acked, lost, crashes>>

\* Mutant: the rows inserted before the failure are kept.
EnqueueFailsHalfway(c) ==
  /\ step[c] = "enqueue"
  /\ stored' = [stored EXCEPT ![sub[c]] = tx[c]]
  /\ tx' = [tx EXCEPT ![c] = <<>>]
  /\ step' = [step EXCEPT ![c] = "idle"]
  /\ sub' = [sub EXCEPT ![c] = 0]
  /\ ResetFields(c)
  /\ UNCHANGED <<avars, submitted, acked, lost, crashes>>

\* Any statement of the transaction fails or the 10 s are over: rolled back,
\* 451, and the library resets the session.
EnqueueFails(c) ==
  /\ step[c] = "enqueue"
  /\ tx' = [tx EXCEPT ![c] = <<>>]
  /\ step' = [step EXCEPT ![c] = "idle"]
  /\ sub' = [sub EXCEPT ![c] = 0]
  /\ ResetFields(c)
  /\ UNCHANGED <<avars, stored, submitted, acked, lost, crashes>>

\* Mutant: the commit does not wait for every row.
CommitEarly(c) ==
  /\ step[c] = "enqueue"
  /\ tx[c] # <<>>
  /\ stored' = [stored EXCEPT ![sub[c]] = tx[c]]
  /\ tx' = [tx EXCEPT ![c] = <<>>]
  /\ step' = [step EXCEPT ![c] = "reply"]
  /\ UNCHANGED <<avars, fields, sub, submitted, acked, lost, crashes>>

Commit(c) ==
  /\ step[c] = "enqueue"
  /\ Len(tx[c]) = Len(recipients[c])
  /\ stored' = [stored EXCEPT ![sub[c]] = tx[c]]
  /\ tx' = [tx EXCEPT ![c] = <<>>]
  /\ step' = [step EXCEPT ![c] = "reply"]
  /\ UNCHANGED <<avars, fields, sub, submitted, acked, lost, crashes>>

\* The library writes the 250, which the client reads or not, and resets.
Reply(c) ==
  /\ step[c] = "reply"
  /\ \/ acked' = acked \cup {sub[c]} /\ UNCHANGED lost
     \/ lost' = lost \cup {sub[c]} /\ UNCHANGED acked
  /\ step' = [step EXCEPT ![c] = "idle"]
  /\ sub' = [sub EXCEPT ![c] = 0]
  /\ ResetFields(c)
  /\ UNCHANGED <<avars, tx, stored, submitted, crashes>>

SessionStep(c) ==
  \/ NewSession(c)
  \/ Auth(c)
  \/ \E from \in Senders : Mail(c, from)
  \/ Rcpt(c)
  \/ Reset(c)
  \/ \E m \in Messages : DataAccepted(c, m)
  \/ DataRejected(c)
  \/ InsertJob(c)
  \/ EnqueueFails(c)
  \/ Commit(c)
  \/ Reply(c)

-----------------------------------------------------------------------------
(* Connections and the process *)

ConnectionStep(c) ==
  /\ \/ Connect(c)
     \/ AcquireToken(c)
     \/ AcquireRefused(c)
     \/ step[c] = "idle" /\ EndSession(c)
     \/ LogoutReleases(c)
     \/ Release(c)
     \/ DropSession(c)
     \/ Disconnect(c)
  /\ UNCHANGED <<fields, data, crashes>>

Tick == Refill /\ UNCHANGED <<fields, data, crashes>>

\* The process dies, or exits after smtpSrv.Shutdown gave up on a session: open
\* transactions are rolled back, and a 250 not yet written is lost.
Crash ==
  /\ crashes < MaxCrashes
  /\ crashes' = crashes + 1
  /\ conn' = [c \in Conns |-> "closed"]
  /\ tls' = [c \in Conns |-> FALSE]
  /\ releasedToken' = [c \in Conns |-> FALSE]
  /\ connTokens' = 0
  /\ perIPConn' = [ip \in IPs |-> 0]
  /\ perIPLimiter' = [ip \in IPs |-> RateLimitPerIP]
  /\ admitted' = [ip \in IPs |-> 0]
  /\ authed' = [c \in Conns |-> "no"]
  /\ envelopeFrom' = [c \in Conns |-> None]
  /\ recipients' = [c \in Conns |-> <<>>]
  /\ step' = [c \in Conns |-> "idle"]
  /\ sub' = [c \in Conns |-> 0]
  /\ tx' = [c \in Conns |-> <<>>]
  /\ lost' = lost \cup {sub[c] : c \in {d \in Conns : step[d] = "reply"}}
  /\ UNCHANGED <<elapsed, stored, submitted, acked>>

Next ==
  \/ \E c \in Conns : SessionStep(c) \/ ConnectionStep(c)
  \/ Tick
  \/ Crash

Spec == Init /\ [][Next]_vars

-----------------------------------------------------------------------------
(* Properties *)

Recipient == [under : Senders, auth : {"plain", "tls"}]
Row == [from : Senders, under : Senders, auth : {"plain", "tls"}]

\* Every variable keeps its type.
SessionTypeOK ==
  /\ AdmissionTypeOK
  /\ authed \in [Conns -> {"no", "plain", "tls"}]
  /\ envelopeFrom \in [Conns -> Senders \cup {None}]
  /\ recipients \in [Conns -> Seq(Recipient)]
  /\ step \in [Conns -> {"idle", "enqueue", "reply"}]
  /\ sub \in [Conns -> 0..MaxSubmissions]
  /\ tx \in [Conns -> Seq(Row)]
  /\ stored \in [Subs -> Seq(Row)]
  /\ submitted \in Seq([message : Messages, rows : Seq(Row)])
  /\ acked \subseteq Subs
  /\ lost \subseteq Subs
  /\ crashes \in Nat

\* A queued row comes from an allowed sender and, when STARTTLS is required, from
\* a client that authenticated over TLS, also when AUTH is allowed before the
\* upgrade: only MAIL looks at TLS and at the domain, so this rests on the
\* upgrade replacing the session.
RowsAuthorized ==
  \A n \in Subs : \A i \in DOMAIN stored[n] :
    /\ stored[n][i].from \in AllowedSenders
    /\ RequireSTARTTLS => stored[n][i].auth = "tls"

\* A recipient is queued under the sender it was accepted for: nothing of one mail
\* transaction is left over in the next, whether it ended in a DATA, an RSET, a
\* second MAIL or a refused MAIL.
NoCarryOver ==
  \A n \in Subs : \A i \in DOMAIN stored[n] : stored[n][i].from = stored[n][i].under

Copies(m) == {n \in DOMAIN submitted : submitted[n].message = m /\ stored[n] # <<>>}

\* A client that submits again until it has a 250 makes the relay queue a
\* message twice only if a 250 was lost on its way or in a crash: every other
\* answer to DATA, and every crash before the commit, leaves nothing behind.
CopiesOnlyOnLostReply ==
  \A m \in Messages :
    Cardinality(Copies(m)) <= 1 + Cardinality({n \in lost : submitted[n].message = m})

asked == [n \in Subs |-> IF n \in DOMAIN submitted THEN submitted[n].rows ELSE <<>>]

Promise == INSTANCE Submission WITH Rows <- Row

\* "250 OK only after durable queue write", for all recipients or for none.
ImplementsSubmission == Promise!Spec
=============================================================================
