--------------------------- MODULE SessionProofs ----------------------------
(***************************************************************************)
(* Proofs about SmtpSession, for any finite set of connections, any        *)
(* senders, messages and limits, and any number of crashes.                *)
(***************************************************************************)
EXTENDS SmtpSession, AdmissionProofs

-----------------------------------------------------------------------------
(* The invariant *)

\* The fields of a session: what MAIL and RCPT checked still holds for the
\* sender and for every recipient.  On a connection without a session the
\* fields are those of the last one, and nothing is said of them.
EnvelopeOK(c) ==
  /\ authed[c] = "plain" => ~tls[c]
  /\ envelopeFrom[c] # None => /\ envelopeFrom[c] \in AllowedSenders
                               /\ RequireSTARTTLS => tls[c]
  /\ recipients[c] # <<>> => envelopeFrom[c] # None
  /\ \A i \in DOMAIN recipients[c] :
       /\ recipients[c][i].under = envelopeFrom[c]
       /\ RequireSTARTTLS => recipients[c][i].auth = "tls"

EnvelopesOK == \A c \in Conns : conn[c] = "session" => EnvelopeOK(c)

\* A session in Data still has the envelope it submitted, and its transaction
\* holds the first rows of it.
Enqueuing(c) ==
  /\ stored[sub[c]] = <<>>
  /\ Len(tx[c]) <= Len(recipients[c])
  /\ \A i \in 1..Len(tx[c]) : tx[c][i] = JobRow(c, i)

Replying(c) ==
  /\ tx[c] = <<>>
  /\ stored[sub[c]] # <<>>

InData(c) ==
  /\ conn[c] = "session"
  /\ envelopeFrom[c] # None
  /\ sub[c] \in 1..Len(submitted)
  /\ submitted[sub[c]].rows = Envelope(c)
  /\ step[c] = "enqueue" => Enqueuing(c)
  /\ step[c] = "reply" => Replying(c)

DataOK == \A c \in Conns : IF step[c] = "idle" THEN tx[c] = <<>> ELSE InData(c)

\* No two sessions work on one submission.
SubsDistinct ==
  \A c, d \in Conns : c # d /\ step[c] # "idle" /\ step[d] # "idle" => sub[c] # sub[d]

\* What was submitted was authorized, and whatever is stored was submitted.
RowOK(r) ==
  /\ r.from \in AllowedSenders
  /\ r.from = r.under
  /\ RequireSTARTTLS => r.auth = "tls"

SubmittedOK ==
  /\ Len(submitted) <= MaxSubmissions
  /\ \A n \in 1..Len(submitted) :
       /\ submitted[n].rows # <<>>
       /\ \A i \in DOMAIN submitted[n].rows : RowOK(submitted[n].rows[i])

StoredOK ==
  \A n \in Subs : stored[n] # <<>> => /\ n \in 1..Len(submitted)
                                      /\ stored[n] = submitted[n].rows

\* Only what is stored is acknowledged, or its acknowledgement lost; a stored
\* submission whose reply is not under way is one of the two.
UnderWay(n) == \E c \in Conns : step[c] # "idle" /\ sub[c] = n

RepliesOK ==
  /\ \A n \in acked \cup lost : n \in Subs /\ stored[n] # <<>>
  /\ \A n \in Subs : stored[n] # <<>> => n \in acked \cup lost \/ UnderWay(n)

\* A message is submitted again only after every other submission of it has
\* ended without a 250.
OneOpen ==
  \A n, k \in 1..Len(submitted) :
    /\ n \in acked \/ UnderWay(n)
    /\ k \in acked \/ UnderWay(k)
    /\ submitted[n].message = submitted[k].message
    => n = k

SessionInv ==
  /\ AdmissionInv
  /\ SessionTypeOK
  /\ EnvelopesOK
  /\ DataOK
  /\ SubsDistinct
  /\ SubmittedOK
  /\ StoredOK
  /\ RepliesOK
  /\ OneOpen

-----------------------------------------------------------------------------
(* Commands *)

\* The rows that Transform and EnqueueTx make of an envelope with a sender.
LEMMA EnvelopeFacts ==
  ASSUME SessionTypeOK, NEW c \in Conns, envelopeFrom[c] \in Senders
  PROVE  /\ Envelope(c) \in Seq(Row)
         /\ Len(Envelope(c)) = Len(recipients[c])
         /\ \A i \in 1..Len(recipients[c]) : Envelope(c)[i] = JobRow(c, i) /\ JobRow(c, i) \in Row
<1>1. recipients[c] \in Seq(Recipient)
  BY DEF SessionTypeOK
<1>2. ASSUME NEW i \in 1..Len(recipients[c])
      PROVE  JobRow(c, i) \in Row
  <2>1. recipients[c][i] \in Recipient
    BY <1>1
  <2>. QED BY <2>1 DEF JobRow, Row, Recipient
<1>3. Len(recipients[c]) \in Nat
  BY <1>1
<1>4. Envelope(c) \in Seq(Row) /\ Len(Envelope(c)) = Len(recipients[c])
  BY <1>2, <1>3 DEF Envelope
<1>. QED BY <1>2, <1>4 DEF Envelope

\* AUTH, MAIL, RCPT, RSET and a refused DATA keep the types.
LEMMA CommandTypes ==
  ASSUME SessionTypeOK, NEW c \in Conns,
         \/ Auth(c)
         \/ \E from \in Senders : Mail(c, from)
         \/ Rcpt(c)
         \/ Reset(c)
         \/ DataRejected(c)
  PROVE  SessionTypeOK'
<1>1. UNCHANGED <<avars, data, crashes>> => /\ AdmissionTypeOK'
                                            /\ step' \in [Conns -> {"idle", "enqueue", "reply"}]
                                            /\ sub' \in [Conns -> 0..MaxSubmissions]
                                            /\ tx' \in [Conns -> Seq(Row)]
                                            /\ stored' \in [Subs -> Seq(Row)]
                                            /\ submitted' \in Seq([message : Messages, rows : Seq(Row)])
                                            /\ acked' \subseteq Subs
                                            /\ lost' \subseteq Subs
                                            /\ crashes' \in Nat
  BY DEF SessionTypeOK, AdmissionTypeOK, avars, data
<1>2. UNCHANGED <<avars, data, crashes>>
  BY DEF Auth, Mail, Rcpt, Reset, DataRejected
<1>3. /\ authed' \in [Conns -> {"no", "plain", "tls"}]
      /\ envelopeFrom' \in [Conns -> Senders \cup {None}]
  BY SessionAssumption DEF SessionTypeOK, Auth, Mail, Rcpt, Reset, DataRejected, ResetFields
<1>4. recipients' \in [Conns -> Seq(Recipient)]
  <2>1. CASE Rcpt(c)
    <3>1. [under |-> envelopeFrom[c], auth |-> authed[c]] \in Recipient
      BY <2>1 DEF SessionTypeOK, Rcpt, Recipient
    <3>2. Append(recipients[c], [under |-> envelopeFrom[c], auth |-> authed[c]]) \in Seq(Recipient)
      BY <3>1 DEF SessionTypeOK
    <3>. QED BY <2>1, <3>2 DEF SessionTypeOK, Rcpt
  <2>2. CASE ~Rcpt(c)
    <3>1. <<>> \in Seq(Recipient)
      OBVIOUS
    <3>. QED BY <2>2, <3>1 DEF SessionTypeOK, Auth, Mail, Reset, DataRejected, ResetFields
  <2>. QED BY <2>1, <2>2
<1>. QED BY <1>1, <1>2, <1>3, <1>4 DEF SessionTypeOK

\* What MAIL and RCPT check is not looked at again: it has to stay true of the
\* envelope, whatever command comes next.
LEMMA CommandEnvelopes ==
  ASSUME SessionTypeOK, EnvelopesOK, NEW c \in Conns,
         \/ Auth(c)
         \/ \E from \in Senders : Mail(c, from)
         \/ Rcpt(c)
         \/ Reset(c)
         \/ DataRejected(c)
  PROVE  EnvelopesOK'
<1>. SUFFICES ASSUME NEW d \in Conns, conn'[d] = "session"
              PROVE  EnvelopeOK(d)'
  BY DEF EnvelopesOK
<1>0. UNCHANGED <<conn, tls>>
  BY DEF Auth, Mail, Rcpt, Reset, DataRejected, avars
<1>1. EnvelopeOK(d)
  BY <1>0 DEF EnvelopesOK
<1>2. CASE d # c
  <2>1. UNCHANGED <<authed[d], envelopeFrom[d], recipients[d]>>
    BY <1>2 DEF Auth, Mail, Rcpt, Reset, DataRejected, ResetFields, SessionTypeOK
  <2>. QED BY <1>0, <1>1, <2>1 DEF EnvelopeOK
<1>3. CASE d = c /\ Auth(c)
  BY <1>0, <1>1, <1>3 DEF EnvelopeOK, Auth, SessionTypeOK
<1>4. CASE d = c /\ \E from \in Senders : Mail(c, from)
  BY <1>0, <1>1, <1>4 DEF EnvelopeOK, Mail, SessionTypeOK
<1>5. CASE d = c /\ Rcpt(c)
  <2>1. authed[c] = "plain" \/ authed[c] = "tls"
    BY <1>5 DEF Rcpt, SessionTypeOK
  <2>2. RequireSTARTTLS => authed[c] = "tls"
    BY <1>1, <1>5, <2>1 DEF EnvelopeOK, Rcpt
  <2>3. recipients'[c] = Append(recipients[c], [under |-> envelopeFrom[c], auth |-> authed[c]])
    BY <1>5 DEF Rcpt, SessionTypeOK
  <2>4. recipients[c] \in Seq(Recipient)
    BY DEF SessionTypeOK
  <2>5. \A i \in DOMAIN recipients'[c] :
          /\ recipients'[c][i].under = envelopeFrom[c]
          /\ RequireSTARTTLS => recipients'[c][i].auth = "tls"
    <3>1. DOMAIN recipients'[c] = 1..(Len(recipients[c]) + 1)
      BY <2>3, <2>4
    <3>2. \A i \in 1..Len(recipients[c]) : recipients'[c][i] = recipients[c][i]
      BY <2>3, <2>4
    <3>3. recipients'[c][Len(recipients[c]) + 1] = [under |-> envelopeFrom[c], auth |-> authed[c]]
      BY <2>3, <2>4
    <3>4. DOMAIN recipients[c] = 1..Len(recipients[c]) /\ Len(recipients[c]) \in Nat
      BY <2>4
    <3>. QED BY <1>1, <1>5, <2>2, <3>1, <3>2, <3>3, <3>4 DEF EnvelopeOK
  <2>. QED BY <1>0, <1>1, <1>5, <2>5 DEF EnvelopeOK, Rcpt
<1>6. CASE d = c /\ (Reset(c) \/ DataRejected(c))
  BY <1>0, <1>1, <1>6 DEF EnvelopeOK, Reset, DataRejected, ResetFields, SessionTypeOK
<1>. QED BY <1>2, <1>3, <1>4, <1>5, <1>6

\* A new session starts with nothing; a connection that gets or loses TLS has
\* none.
LEMMA ConnectionEnvelopes ==
  ASSUME SessionTypeOK, EnvelopesOK, NEW c \in Conns, NewSession(c) \/ ConnectionStep(c)
  PROVE  EnvelopesOK'
<1>. SUFFICES ASSUME NEW d \in Conns, conn'[d] = "session"
              PROVE  EnvelopeOK(d)'
  BY DEF EnvelopesOK
<1>1. CASE NewSession(c)
  <2>1. CASE d = c
    BY <1>1, <2>1 DEF NewSession, EnvelopeOK, SessionTypeOK
  <2>2. CASE d # c
    <3>1. conn[d] = "session" /\ tls'[d] = tls[d]
      BY <1>1, <2>2 DEF NewSession, AcquireSucceeds, MoveTo, SessionTypeOK, AdmissionTypeOK
    <3>2. UNCHANGED <<authed[d], envelopeFrom[d], recipients[d]>>
      BY <1>1, <2>2 DEF NewSession, SessionTypeOK
    <3>. QED BY <3>1, <3>2 DEF EnvelopesOK, EnvelopeOK
  <2>. QED BY <2>1, <2>2
<1>2. CASE ConnectionStep(c)
  <2>1. conn[d] = "session" /\ tls'[d] = tls[d]
    BY <1>2
    DEF ConnectionStep, Connect, AcquireToken, AcquireRefused, EndSession, LogoutReleases,
        Release, DropSession, Disconnect, MoveTo, SessionTypeOK, AdmissionTypeOK
  <2>2. UNCHANGED <<authed, envelopeFrom, recipients>>
    BY <1>2 DEF ConnectionStep, fields
  <2>. QED BY <2>1, <2>2 DEF EnvelopesOK, EnvelopeOK
<1>. QED BY <1>1, <1>2

\* A session in Data is left alone by the steps of connections: no other
\* command of it runs, and the library does not end it.
DataUndisturbed ==
  \A d \in Conns : step[d] # "idle" => /\ conn'[d] = "session"
                                       /\ envelopeFrom'[d] = envelopeFrom[d]
                                       /\ recipients'[d] = recipients[d]

\* None of these steps of a connection disturbs a session in Data.
LEMMA Undisturbed ==
  ASSUME SessionTypeOK, DataOK, NEW c \in Conns,
         \/ NewSession(c)
         \/ Auth(c)
         \/ \E from \in Senders : Mail(c, from)
         \/ Rcpt(c)
         \/ Reset(c)
         \/ DataRejected(c)
         \/ ConnectionStep(c)
  PROVE  DataUndisturbed
<1>. SUFFICES ASSUME NEW d \in Conns, step[d] # "idle"
              PROVE  /\ conn'[d] = "session"
                     /\ envelopeFrom'[d] = envelopeFrom[d]
                     /\ recipients'[d] = recipients[d]
  BY DEF DataUndisturbed
<1>1. conn[d] = "session"
  BY DEF DataOK, InData
<1>2. CASE NewSession(c)
  <2>1. d # c /\ conn'[d] = conn[d]
    BY <1>1, <1>2 DEF NewSession, AcquireSucceeds, MoveTo, SessionTypeOK, AdmissionTypeOK
  <2>. QED BY <1>1, <1>2, <2>1 DEF NewSession, SessionTypeOK
<1>3. CASE ConnectionStep(c)
  <2>1. conn'[d] = "session"
    BY <1>1, <1>3
    DEF ConnectionStep, Connect, AcquireToken, AcquireRefused, EndSession, LogoutReleases,
        Release, DropSession, Disconnect, MoveTo, SessionTypeOK, AdmissionTypeOK
  <2>. QED BY <1>3, <2>1 DEF ConnectionStep, fields
<1>4. CASE \/ Auth(c) \/ (\E from \in Senders : Mail(c, from)) \/ Rcpt(c)
           \/ Reset(c) \/ DataRejected(c)
  <2>1. step[c] = "idle" /\ UNCHANGED conn
    BY <1>4 DEF Auth, Mail, Rcpt, Reset, DataRejected, InCommand, avars
  <2>2. d # c
    BY <2>1
  <2>. QED
    BY <1>1, <1>4, <2>1, <2>2
    DEF Auth, Mail, Rcpt, Reset, DataRejected, ResetFields, SessionTypeOK
<1>. QED BY <1>2, <1>3, <1>4

\* The invariant of Data, by itself.
DataInv ==
  /\ DataOK
  /\ SubsDistinct
  /\ SubmittedOK
  /\ StoredOK
  /\ RepliesOK
  /\ OneOpen

\* A step that changes nothing Data works on keeps it.
LEMMA QuietData ==
  ASSUME DataInv, UNCHANGED data, DataUndisturbed
  PROVE  DataInv'
<1>1. UNCHANGED <<step, sub, tx, stored, submitted, acked, lost>>
  BY DEF data
<1>2. ASSUME NEW d \in Conns, step[d] # "idle"
      PROVE  InData(d)'
  <2>1. InData(d)
    BY <1>2 DEF DataInv, DataOK
  <2>2. Envelope(d)' = Envelope(d) /\ \A i : JobRow(d, i)' = JobRow(d, i)
    BY <1>2 DEF DataUndisturbed, Envelope, JobRow
  <2>3. Enqueuing(d) => Enqueuing(d)'
    BY <1>1, <1>2, <2>2 DEF Enqueuing, DataUndisturbed
  <2>4. Replying(d) => Replying(d)'
    BY <1>1 DEF Replying
  <2>. QED BY <1>1, <1>2, <2>1, <2>2, <2>3, <2>4 DEF InData, DataUndisturbed
<1>3. DataOK'
  BY <1>1, <1>2 DEF DataInv, DataOK
<1>. QED
  BY <1>1, <1>3 DEF DataInv, SubsDistinct, SubmittedOK, StoredOK, RepliesOK, OneOpen, UnderWay

-----------------------------------------------------------------------------
(* DATA *)

\* The steps of Data leave the envelopes as they are, or reset one.
LEMMA DataEnvelopes ==
  ASSUME SessionTypeOK, EnvelopesOK, NEW c \in Conns, UNCHANGED avars,
         UNCHANGED fields \/ ResetFields(c)
  PROVE  EnvelopesOK'
<1>. SUFFICES ASSUME NEW d \in Conns, conn'[d] = "session"
              PROVE  EnvelopeOK(d)'
  BY DEF EnvelopesOK
<1>0. UNCHANGED <<conn, tls>>
  BY DEF avars
<1>1. EnvelopeOK(d)
  BY <1>0 DEF EnvelopesOK
<1>2. CASE UNCHANGED fields
  BY <1>0, <1>1, <1>2 DEF fields, EnvelopeOK
<1>3. CASE ResetFields(c)
  BY <1>0, <1>1, <1>3 DEF ResetFields, EnvelopeOK, SessionTypeOK
<1>. QED BY <1>2, <1>3

\* The types, for the part of the state that Data does not touch.
LEMMA DataTypes ==
  ASSUME SessionTypeOK, NEW c \in Conns, UNCHANGED <<avars, crashes>>,
         UNCHANGED fields \/ ResetFields(c)
  PROVE  /\ AdmissionTypeOK'
         /\ authed' \in [Conns -> {"no", "plain", "tls"}]
         /\ envelopeFrom' \in [Conns -> Senders \cup {None}]
         /\ recipients' \in [Conns -> Seq(Recipient)]
         /\ crashes' \in Nat
<1>1. <<>> \in Seq(Recipient)
  OBVIOUS
<1>2. AdmissionTypeOK' /\ crashes' \in Nat
  BY DEF SessionTypeOK, AdmissionTypeOK, avars
<1>. QED BY <1>1, <1>2 DEF SessionTypeOK, fields, ResetFields

\* What a session in Data knows of its own submission.
LEMMA InDataFacts ==
  ASSUME SessionTypeOK, DataInv, NEW c \in Conns, step[c] # "idle"
  PROVE  /\ InData(c)
         /\ sub[c] \in Subs
         /\ envelopeFrom[c] \in Senders
         /\ tx[c] \in Seq(Row)
         /\ recipients[c] \in Seq(Recipient)
<1>1. InData(c)
  BY DEF DataInv, DataOK
<1>2. sub[c] \in Subs
  BY <1>1, SessionAssumption DEF InData, DataInv, SubmittedOK, Subs, SessionTypeOK
<1>3. envelopeFrom[c] \in Senders
  BY <1>1 DEF InData, SessionTypeOK
<1>. QED BY <1>1, <1>2, <1>3 DEF SessionTypeOK

\* A session that is in Data before and after a step of another one.
LEMMA OthersInData ==
  ASSUME NEW d \in Conns, InData(d),
         UNCHANGED <<conn[d], envelopeFrom[d], recipients[d], step[d], sub[d], tx[d],
                     stored[sub[d]], submitted[sub[d]]>>,
         sub[d] \in 1..Len(submitted')
  PROVE  InData(d)'
<1>1. Envelope(d)' = Envelope(d) /\ \A i : JobRow(d, i)' = JobRow(d, i)
  BY DEF Envelope, JobRow
<1>2. Enqueuing(d) => Enqueuing(d)'
  BY <1>1 DEF Enqueuing
<1>3. Replying(d) => Replying(d)'
  BY DEF Replying
<1>. QED BY <1>1, <1>2, <1>3 DEF InData

\* Data begins: a new submission, which nothing is stored for yet.
LEMMA DataAcceptedInv ==
  ASSUME SessionTypeOK, EnvelopesOK, DataInv, NEW c \in Conns, NEW m \in Messages,
         DataAccepted(c, m)
  PROVE  SessionTypeOK' /\ EnvelopesOK' /\ DataInv'
<1>. DEFINE n == Len(submitted) + 1
            e == [message |-> m, rows |-> Envelope(c)]
<1>0. /\ submitted \in Seq([message : Messages, rows : Seq(Row)])
      /\ Len(submitted) \in Nat /\ Len(submitted) < MaxSubmissions
      /\ step[c] = "idle" /\ conn[c] = "session" /\ envelopeFrom[c] # None
      /\ recipients[c] # <<>>
      /\ UNCHANGED <<avars, fields, tx, stored, acked, lost, crashes>>
  BY DEF DataAccepted, InCommand, SessionTypeOK
<1>1. envelopeFrom[c] \in Senders /\ EnvelopeOK(c)
  BY <1>0 DEF SessionTypeOK, EnvelopesOK
<1>2. /\ Envelope(c) \in Seq(Row)
      /\ Len(Envelope(c)) = Len(recipients[c])
      /\ \A i \in 1..Len(recipients[c]) : Envelope(c)[i] = JobRow(c, i)
  BY <1>1, EnvelopeFacts
<1>3. Envelope(c) # <<>>
  BY <1>0, <1>2 DEF SessionTypeOK
<1>4. /\ submitted' = Append(submitted, e)
      /\ submitted' \in Seq([message : Messages, rows : Seq(Row)])
      /\ Len(submitted') = n
      /\ submitted'[n] = e
      /\ \A k \in 1..Len(submitted) : submitted'[k] = submitted[k]
  BY <1>0, <1>2 DEF DataAccepted
<1>5. n \in Subs /\ n \notin 1..Len(submitted)
  BY <1>0, SessionAssumption DEF Subs
<1>6. /\ sub' = [sub EXCEPT ![c] = n]
      /\ step' = [step EXCEPT ![c] = "enqueue"]
  BY <1>4 DEF DataAccepted
<1>7. SessionTypeOK'
  <2>1. /\ AdmissionTypeOK'
        /\ authed' \in [Conns -> {"no", "plain", "tls"}]
        /\ envelopeFrom' \in [Conns -> Senders \cup {None}]
        /\ recipients' \in [Conns -> Seq(Recipient)]
        /\ crashes' \in Nat
    BY <1>0, DataTypes
  <2>2. sub' \in [Conns -> 0..MaxSubmissions] /\ step' \in [Conns -> {"idle", "enqueue", "reply"}]
    BY <1>5, <1>6 DEF SessionTypeOK, Subs
  <2>. QED BY <1>0, <1>4, <2>1, <2>2 DEF SessionTypeOK
<1>8. EnvelopesOK'
  BY <1>0, DataEnvelopes
<1>9. stored[n] = <<>>
  BY <1>5 DEF DataInv, StoredOK
<1>10. DataOK'
  <2>. SUFFICES ASSUME NEW d \in Conns
                PROVE  IF step'[d] = "idle" THEN tx'[d] = <<>> ELSE InData(d)'
    BY DEF DataOK
  <2>1. CASE d = c
    <3>1. Envelope(c)' = Envelope(c)
      BY <1>0 DEF Envelope, JobRow, fields
    <3>2. tx'[c] = <<>>
      BY <1>0 DEF DataInv, DataOK
    <3>3. Enqueuing(c)'
      BY <1>0, <1>6, <1>9, <3>2 DEF Enqueuing, SessionTypeOK, fields
    <3>4. step'[c] = "enqueue" /\ sub'[c] = n
      BY <1>6 DEF SessionTypeOK
    <3>5. submitted'[sub'[c]].rows = Envelope(c)'
      BY <1>4, <3>1, <3>4
    <3>6. sub'[c] \in 1..Len(submitted')
      BY <1>0, <1>4, <3>4
    <3>. QED BY <1>0, <2>1, <3>3, <3>4, <3>5, <3>6 DEF InData, avars, fields
  <2>2. CASE d # c
    <3>1. step'[d] = step[d] /\ sub'[d] = sub[d] /\ tx'[d] = tx[d]
      BY <1>0, <1>6, <2>2 DEF SessionTypeOK
    <3>2. CASE step[d] = "idle"
      BY <3>1, <3>2 DEF DataInv, DataOK
    <3>3. CASE step[d] # "idle"
      <4>1. InData(d)
        BY <3>3 DEF DataInv, DataOK
      <4>2. sub[d] \in 1..Len(submitted') /\ submitted'[sub[d]] = submitted[sub[d]]
        BY <1>0, <1>4, <4>1 DEF InData
      <4>3. InData(d)'
        BY <1>0, <3>1, <4>1, <4>2, OthersInData DEF avars, fields
      <4>. QED BY <3>1, <3>3, <4>3
    <3>. QED BY <3>2, <3>3
  <2>. QED BY <2>1, <2>2
<1>11. \A d \in Conns : step[d] # "idle" => sub[d] \in 1..Len(submitted)
  BY DEF DataInv, DataOK, InData
<1>12. SubsDistinct'
  BY <1>5, <1>6, <1>11 DEF DataInv, SubsDistinct, SessionTypeOK
<1>13. SubmittedOK'
  <2>1. \A i \in DOMAIN Envelope(c) : RowOK(Envelope(c)[i])
    <3>1. DOMAIN Envelope(c) = 1..Len(recipients[c]) /\ DOMAIN recipients[c] = 1..Len(recipients[c])
      BY <1>2 DEF SessionTypeOK
    <3>2. ASSUME NEW i \in 1..Len(recipients[c])
          PROVE  RowOK(JobRow(c, i))
      <4>1. /\ recipients[c][i].under = envelopeFrom[c]
            /\ RequireSTARTTLS => recipients[c][i].auth = "tls"
            /\ envelopeFrom[c] \in AllowedSenders
        BY <1>0, <1>1, <3>1 DEF EnvelopeOK
      <4>. QED BY <4>1 DEF RowOK, JobRow
    <3>. QED BY <1>2, <3>1, <3>2
  <2>2. \A k \in 1..Len(submitted') : k = n \/ k \in 1..Len(submitted)
    BY <1>0, <1>4
  <2>3. ASSUME NEW k \in 1..Len(submitted')
        PROVE  /\ submitted'[k].rows # <<>>
               /\ \A i \in DOMAIN submitted'[k].rows : RowOK(submitted'[k].rows[i])
    BY <1>3, <1>4, <2>1, <2>2 DEF DataInv, SubmittedOK
  <2>4. Len(submitted') <= MaxSubmissions
    BY <1>4, <1>5 DEF Subs
  <2>. QED BY <2>3, <2>4 DEF SubmittedOK, RowOK
<1>14. StoredOK'
  BY <1>0, <1>4 DEF DataInv, StoredOK
<1>15. \A k : UnderWay(k) => UnderWay(k)'
  BY <1>0, <1>6 DEF UnderWay, SessionTypeOK
<1>16. RepliesOK'
  BY <1>0, <1>15 DEF DataInv, RepliesOK
<1>17. OneOpen'
  <2>. DEFINE Open(k) == k \in acked \/ UnderWay(k)
  <2>1. \A k : UnderWay(k)' => k = n \/ UnderWay(k)
    BY <1>6 DEF UnderWay, SessionTypeOK
  <2>2. \A k \in 1..Len(submitted) : Open(k) => submitted[k].message # m
    BY DEF DataAccepted, Wanted, UnderWay
  <2>3. acked' = acked
    BY <1>0
  <2>4. \A k \in 1..Len(submitted') : k = n \/ k \in 1..Len(submitted)
    BY <1>0, <1>4
  <2>5. n \notin acked
    BY <1>9 DEF DataInv, RepliesOK
  <2>6. \A k, l \in 1..Len(submitted) :
          Open(k) /\ Open(l) /\ submitted[k].message = submitted[l].message => k = l
    BY DEF DataInv, OneOpen
  <2>7. ASSUME NEW k \in 1..Len(submitted'), NEW l \in 1..Len(submitted'),
               k \in acked' \/ UnderWay(k)', l \in acked' \/ UnderWay(l)',
               submitted'[k].message = submitted'[l].message
        PROVE  k = l
    <3>1. k # n => k \in 1..Len(submitted) /\ Open(k) /\ submitted'[k] = submitted[k]
      BY <1>4, <2>1, <2>3, <2>4, <2>7
    <3>2. l # n => l \in 1..Len(submitted) /\ Open(l) /\ submitted'[l] = submitted[l]
      BY <1>4, <2>1, <2>3, <2>4, <2>7
    <3>3. submitted'[n].message = m
      BY <1>4
    <3>4. k # n /\ l # n => k = l
      BY <2>6, <2>7, <3>1, <3>2
    <3>5. ~(k = n /\ l # n) /\ ~(k # n /\ l = n)
      BY <2>2, <2>7, <3>1, <3>2, <3>3
    <3>. QED BY <3>4, <3>5
  <2>. QED BY <2>7 DEF OneOpen
<1>. QED BY <1>7, <1>8, <1>10, <1>12, <1>13, <1>14, <1>16, <1>17 DEF DataInv

\* A row is inserted: the next of the envelope, seen by nobody else.
LEMMA InsertJobInv ==
  ASSUME SessionTypeOK, EnvelopesOK, DataInv, NEW c \in Conns, InsertJob(c)
  PROVE  SessionTypeOK' /\ EnvelopesOK' /\ DataInv'
<1>. DEFINE k == Len(tx[c]) + 1
<1>0. /\ step[c] = "enqueue" /\ Len(tx[c]) < Len(recipients[c])
      /\ tx' = [tx EXCEPT ![c] = Append(tx[c], JobRow(c, k))]
      /\ UNCHANGED <<avars, fields, step, sub, stored, submitted, acked, lost, crashes>>
  BY DEF InsertJob
<1>1. /\ InData(c) /\ Enqueuing(c) /\ envelopeFrom[c] \in Senders
      /\ tx[c] \in Seq(Row) /\ recipients[c] \in Seq(Recipient)
  BY <1>0, InDataFacts DEF InData
<1>2. Len(tx[c]) \in Nat /\ Len(recipients[c]) \in Nat /\ k \in 1..Len(recipients[c])
  BY <1>0, <1>1
<1>3. JobRow(c, k) \in Row
  BY <1>1, <1>2, EnvelopeFacts
<1>4. /\ tx'[c] = Append(tx[c], JobRow(c, k))
      /\ tx' \in [Conns -> Seq(Row)]
      /\ \A d \in Conns \ {c} : tx'[d] = tx[d]
  BY <1>0, <1>1, <1>3 DEF SessionTypeOK
<1>5. SessionTypeOK'
  BY <1>0, <1>4, DataTypes DEF SessionTypeOK
<1>6. EnvelopesOK'
  BY <1>0, DataEnvelopes
<1>7. DataOK'
  <2>. SUFFICES ASSUME NEW d \in Conns
                PROVE  IF step'[d] = "idle" THEN tx'[d] = <<>> ELSE InData(d)'
    BY DEF DataOK
  <2>1. CASE d = c
    <3>1. Envelope(c)' = Envelope(c) /\ \A i : JobRow(c, i)' = JobRow(c, i)
      BY <1>0 DEF Envelope, JobRow, fields
    <3>2. /\ Len(tx'[c]) = k
          /\ \A i \in 1..Len(tx[c]) : tx'[c][i] = tx[c][i]
          /\ tx'[c][k] = JobRow(c, k)
      BY <1>1, <1>3, <1>4
    <3>3. \A i \in 1..k : i = k \/ i \in 1..Len(tx[c])
      BY <1>2
    <3>4. \A i \in 1..k : tx'[c][i] = JobRow(c, i)
      BY <1>1, <3>2, <3>3 DEF Enqueuing
    <3>5. Enqueuing(c)'
      BY <1>0, <1>1, <1>2, <3>1, <3>2, <3>4 DEF Enqueuing, fields
    <3>. QED BY <1>0, <1>1, <2>1, <3>1, <3>5 DEF InData, avars, fields
  <2>2. CASE d # c
    <3>1. tx'[d] = tx[d]
      BY <1>4, <2>2
    <3>2. InData(d) => InData(d)'
      BY <1>0, <3>1, OthersInData DEF avars, fields, InData
    <3>. QED BY <1>0, <3>1, <3>2 DEF DataInv, DataOK
  <2>. QED BY <2>1, <2>2
<1>. QED
  BY <1>0, <1>5, <1>6, <1>7
  DEF DataInv, SubsDistinct, SubmittedOK, StoredOK, RepliesOK, OneOpen, UnderWay

\* Data ends without a commit: its submission has nothing stored.
LEMMA EnqueueFailsInv ==
  ASSUME SessionTypeOK, EnvelopesOK, DataInv, NEW c \in Conns, EnqueueFails(c)
  PROVE  SessionTypeOK' /\ EnvelopesOK' /\ DataInv'
<1>0. /\ step[c] = "enqueue"
      /\ tx' = [tx EXCEPT ![c] = <<>>]
      /\ step' = [step EXCEPT ![c] = "idle"]
      /\ sub' = [sub EXCEPT ![c] = 0]
      /\ ResetFields(c)
      /\ UNCHANGED <<avars, stored, submitted, acked, lost, crashes>>
  BY DEF EnqueueFails
<1>1. InData(c) /\ Enqueuing(c)
  BY <1>0, InDataFacts DEF InData
<1>2. SessionTypeOK'
  <2>1. <<>> \in Seq(Row) /\ 0 \in 0..MaxSubmissions
    BY SessionAssumption
  <2>. QED BY <1>0, <2>1, DataTypes DEF SessionTypeOK
<1>3. EnvelopesOK'
  BY <1>0, DataEnvelopes
<1>4. DataOK'
  <2>. SUFFICES ASSUME NEW d \in Conns
                PROVE  IF step'[d] = "idle" THEN tx'[d] = <<>> ELSE InData(d)'
    BY DEF DataOK
  <2>1. CASE d = c
    BY <1>0, <2>1 DEF SessionTypeOK
  <2>2. CASE d # c
    <3>1. UNCHANGED <<step[d], sub[d], tx[d], envelopeFrom[d], recipients[d]>>
      BY <1>0, <2>2 DEF SessionTypeOK, ResetFields
    <3>2. InData(d) => InData(d)'
      BY <1>0, <3>1, OthersInData DEF avars, InData
    <3>. QED BY <1>0, <3>1, <3>2 DEF DataInv, DataOK
  <2>. QED BY <2>1, <2>2
<1>5. \A n : UnderWay(n)' => UnderWay(n)
  BY <1>0 DEF UnderWay, SessionTypeOK
<1>6. \A n : UnderWay(n) => n = sub[c] \/ UnderWay(n)'
  BY <1>0 DEF UnderWay, SessionTypeOK
<1>7. RepliesOK'
  BY <1>0, <1>1, <1>6 DEF DataInv, RepliesOK, Enqueuing
<1>8. OneOpen'
  BY <1>0, <1>5 DEF DataInv, OneOpen
<1>9. SubsDistinct'
  BY <1>0 DEF DataInv, SubsDistinct, SessionTypeOK
<1>. QED
  BY <1>0, <1>2, <1>3, <1>4, <1>7, <1>8, <1>9 DEF DataInv, SubmittedOK, StoredOK

\* The transaction holds exactly the rows of the submission when it commits.
LEMMA CommitRows ==
  ASSUME SessionTypeOK, DataInv, NEW c \in Conns, Commit(c)
  PROVE  /\ tx[c] = submitted[sub[c]].rows
         /\ tx[c] # <<>>
         /\ stored[sub[c]] = <<>>
         /\ sub[c] \in Subs /\ sub[c] \in 1..Len(submitted)
<1>1. /\ InData(c) /\ Enqueuing(c) /\ envelopeFrom[c] \in Senders /\ sub[c] \in Subs
      /\ tx[c] \in Seq(Row)
  BY InDataFacts DEF Commit, InData
<1>2. /\ Envelope(c) \in Seq(Row)
      /\ Len(Envelope(c)) = Len(tx[c])
      /\ \A i \in 1..Len(tx[c]) : Envelope(c)[i] = JobRow(c, i)
  BY <1>1, EnvelopeFacts DEF Commit
<1>3. \A i \in 1..Len(tx[c]) : tx[c][i] = Envelope(c)[i]
  BY <1>1, <1>2 DEF Enqueuing
<1>4. tx[c] = Envelope(c)
  BY <1>1, <1>2, <1>3
<1>5. submitted[sub[c]].rows = Envelope(c) /\ submitted[sub[c]].rows # <<>>
  BY <1>1 DEF InData, DataInv, SubmittedOK
<1>. QED BY <1>1, <1>4, <1>5 DEF InData, Enqueuing

\* The commit stores the submission, for all its recipients.
LEMMA CommitInv ==
  ASSUME SessionTypeOK, EnvelopesOK, DataInv, NEW c \in Conns, Commit(c)
  PROVE  SessionTypeOK' /\ EnvelopesOK' /\ DataInv'
<1>0. /\ step[c] = "enqueue"
      /\ stored' = [stored EXCEPT ![sub[c]] = tx[c]]
      /\ tx' = [tx EXCEPT ![c] = <<>>]
      /\ step' = [step EXCEPT ![c] = "reply"]
      /\ UNCHANGED <<avars, fields, sub, submitted, acked, lost, crashes>>
  BY DEF Commit
<1>1. InData(c)
  BY <1>0, InDataFacts
<1>2. /\ tx[c] = submitted[sub[c]].rows
      /\ tx[c] # <<>>
      /\ stored[sub[c]] = <<>>
      /\ sub[c] \in Subs /\ sub[c] \in 1..Len(submitted)
  BY CommitRows
<1>3. SessionTypeOK'
  <2>1. <<>> \in Seq(Row) /\ tx[c] \in Seq(Row)
    BY DEF SessionTypeOK
  <2>. QED BY <1>0, <2>1, DataTypes DEF SessionTypeOK
<1>4. EnvelopesOK'
  BY <1>0, DataEnvelopes
<1>5. /\ stored'[sub[c]] = tx[c]
      /\ \A n \in Subs \ {sub[c]} : stored'[n] = stored[n]
  BY <1>0, <1>2 DEF SessionTypeOK
<1>6. DataOK'
  <2>. SUFFICES ASSUME NEW d \in Conns
                PROVE  IF step'[d] = "idle" THEN tx'[d] = <<>> ELSE InData(d)'
    BY DEF DataOK
  <2>1. CASE d = c
    <3>1. Envelope(c)' = Envelope(c)
      BY <1>0 DEF Envelope, JobRow, fields
    <3>2. step'[c] = "reply" /\ tx'[c] = <<>>
      BY <1>0 DEF SessionTypeOK
    <3>3. Replying(c)'
      BY <1>0, <1>2, <1>5, <3>2 DEF Replying
    <3>. QED BY <1>0, <1>1, <2>1, <3>1, <3>2, <3>3 DEF InData, avars, fields
  <2>2. CASE d # c
    <3>1. step'[d] = step[d] /\ tx'[d] = tx[d]
      BY <1>0, <2>2 DEF SessionTypeOK
    <3>2. CASE step[d] = "idle"
      BY <3>1, <3>2 DEF DataInv, DataOK
    <3>3. CASE step[d] # "idle"
      <4>1. InData(d) /\ sub[d] \in Subs
        BY <3>3, InDataFacts
      <4>2. sub[d] # sub[c]
        BY <1>0, <2>2, <3>3 DEF DataInv, SubsDistinct
      <4>3. stored'[sub[d]] = stored[sub[d]]
        BY <1>5, <4>1, <4>2
      <4>4. InData(d)'
        BY <1>0, <3>1, <4>1, <4>3, OthersInData DEF avars, fields, InData
      <4>. QED BY <3>1, <3>3, <4>4
    <3>. QED BY <3>2, <3>3
  <2>. QED BY <2>1, <2>2
<1>7. StoredOK'
  BY <1>0, <1>2, <1>5 DEF DataInv, StoredOK
<1>8. \A n : UnderWay(n)' <=> UnderWay(n)
  BY <1>0 DEF UnderWay, SessionTypeOK
<1>9. UnderWay(sub[c])
  BY <1>0 DEF UnderWay
<1>10. RepliesOK'
  BY <1>0, <1>2, <1>5, <1>8, <1>9 DEF DataInv, RepliesOK
<1>11. OneOpen'
  BY <1>0, <1>8 DEF DataInv, OneOpen
<1>12. SubsDistinct'
  BY <1>0 DEF DataInv, SubsDistinct, SessionTypeOK
<1>. QED
  BY <1>0, <1>3, <1>4, <1>6, <1>7, <1>10, <1>11, <1>12 DEF DataInv, SubmittedOK

\* The 250 is written after the commit, and read or lost.
LEMMA ReplyInv ==
  ASSUME SessionTypeOK, EnvelopesOK, DataInv, NEW c \in Conns, Reply(c)
  PROVE  SessionTypeOK' /\ EnvelopesOK' /\ DataInv'
<1>0. /\ step[c] = "reply"
      /\ \/ acked' = acked \cup {sub[c]} /\ lost' = lost
         \/ lost' = lost \cup {sub[c]} /\ acked' = acked
      /\ step' = [step EXCEPT ![c] = "idle"]
      /\ sub' = [sub EXCEPT ![c] = 0]
      /\ ResetFields(c)
      /\ UNCHANGED <<avars, tx, stored, submitted, crashes>>
  BY DEF Reply
<1>1. InData(c) /\ Replying(c) /\ sub[c] \in Subs
  BY <1>0, InDataFacts DEF InData
<1>2. SessionTypeOK'
  <2>1. 0 \in 0..MaxSubmissions
    BY SessionAssumption
  <2>. QED BY <1>0, <1>1, <2>1, DataTypes DEF SessionTypeOK
<1>3. EnvelopesOK'
  BY <1>0, DataEnvelopes
<1>4. DataOK'
  <2>. SUFFICES ASSUME NEW d \in Conns
                PROVE  IF step'[d] = "idle" THEN tx'[d] = <<>> ELSE InData(d)'
    BY DEF DataOK
  <2>1. CASE d = c
    BY <1>0, <1>1, <2>1 DEF SessionTypeOK, Replying
  <2>2. CASE d # c
    <3>1. UNCHANGED <<step[d], sub[d], tx[d], envelopeFrom[d], recipients[d]>>
      BY <1>0, <2>2 DEF SessionTypeOK, ResetFields
    <3>2. InData(d) => InData(d)'
      BY <1>0, <3>1, OthersInData DEF avars, InData
    <3>. QED BY <1>0, <3>1, <3>2 DEF DataInv, DataOK
  <2>. QED BY <2>1, <2>2
<1>5. \A n : UnderWay(n)' => UnderWay(n)
  BY <1>0 DEF UnderWay, SessionTypeOK
<1>6. \A n : UnderWay(n) => n = sub[c] \/ UnderWay(n)'
  BY <1>0 DEF UnderWay, SessionTypeOK
<1>7. RepliesOK'
  BY <1>0, <1>1, <1>6 DEF DataInv, RepliesOK, Replying
<1>8. UnderWay(sub[c])
  BY <1>0 DEF UnderWay
<1>9. OneOpen'
  BY <1>0, <1>5, <1>8 DEF DataInv, OneOpen
<1>10. SubsDistinct'
  BY <1>0 DEF DataInv, SubsDistinct, SessionTypeOK
<1>. QED
  BY <1>0, <1>2, <1>3, <1>4, <1>7, <1>9, <1>10 DEF DataInv, SubmittedOK, StoredOK

-----------------------------------------------------------------------------
(* The process *)

\* A crash: what was committed and not answered counts as a lost 250.
LEMMA CrashInv ==
  ASSUME SessionInv, Crash
  PROVE  SessionInv'
<1>0. SessionTypeOK /\ DataInv
  BY DEF SessionInv, DataInv
<1>1. AdmissionInv'
  <2>1. AdmissionTypeOK' /\ FlagDown' /\ PerIPBounded' /\ RateSpent'
    BY AdmissionAssumption
    DEF SessionInv, AdmissionInv, Crash, AdmissionTypeOK, FlagDown, PerIPBounded, RateSpent, Stages
  <2>2. TokenHolders' = {} /\ \A ip \in IPs : Counted(ip)' = {}
    BY DEF Crash, TokenHolders, Counted, Live
  <2>. QED BY <2>1, <2>2, FS_EmptySet DEF Crash, AdmissionInv, TokensExact, PerIPExact
<1>2. \A c \in Conns : step[c] = "reply" => sub[c] \in Subs /\ stored[sub[c]] # <<>>
  BY <1>0, InDataFacts DEF InData, Replying
<1>3. SessionTypeOK'
  <2>1. lost' \subseteq Subs
    BY <1>0, <1>2 DEF Crash, SessionTypeOK
  <2>2. <<>> \in Seq(Row) /\ <<>> \in Seq(Recipient) /\ 0 \in 0..MaxSubmissions
    BY SessionAssumption
  <2>. QED BY <1>0, <1>1, <2>1, <2>2 DEF Crash, SessionTypeOK, AdmissionInv
<1>4. EnvelopesOK' /\ DataOK' /\ SubsDistinct'
  BY DEF Crash, EnvelopesOK, DataOK, SubsDistinct
<1>5. SubmittedOK' /\ StoredOK'
  BY DEF SessionInv, Crash, SubmittedOK, StoredOK
<1>6. \A n : ~UnderWay(n)'
  BY DEF Crash, UnderWay
<1>7. RepliesOK'
  <2>1. ASSUME NEW n \in Subs, stored[n] # <<>>, UnderWay(n)
        PROVE  n \in lost'
    <3>1. PICK c \in Conns : step[c] # "idle" /\ sub[c] = n
      BY <2>1 DEF UnderWay
    <3>2. step[c] = "reply"
      <4>1. InData(c)
        BY <1>0, <3>1, InDataFacts
      <4>2. step[c] # "enqueue"
        BY <2>1, <3>1, <4>1 DEF InData, Enqueuing
      <4>. QED BY <1>0, <3>1, <4>2 DEF SessionTypeOK
    <3>. QED BY <3>1, <3>2 DEF Crash
  <2>2. \A n \in lost' : n \in lost \/ (n \in Subs /\ stored[n] # <<>>)
    BY <1>2 DEF Crash
  <2>3. stored' = stored /\ acked' = acked /\ lost \subseteq lost'
    BY DEF Crash
  <2>. QED BY <2>1, <2>2, <2>3 DEF SessionInv, RepliesOK
<1>8. OneOpen'
  BY <1>6 DEF SessionInv, Crash, OneOpen
<1>. QED BY <1>1, <1>3, <1>4, <1>5, <1>7, <1>8 DEF SessionInv

\* The initial state.
LEMMA SessionInvInit ==
  ASSUME Init
  PROVE  SessionInv
<1>1. AdmissionInv
  BY AdmissionInvInit DEF Init
<1>2. SessionTypeOK
  <2>1. /\ <<>> \in Seq(Row) /\ <<>> \in Seq(Recipient) /\ 0 \in 0..MaxSubmissions
        /\ <<>> \in Seq([message : Messages, rows : Seq(Row)])
    BY SessionAssumption
  <2>. QED BY <1>1, <2>1 DEF Init, SessionTypeOK, AdmissionInv
<1>3. EnvelopesOK /\ DataOK /\ SubsDistinct /\ StoredOK
  BY DEF Init, AdmissionInit, EnvelopesOK, DataOK, SubsDistinct, StoredOK
<1>4. SubmittedOK /\ RepliesOK /\ OneOpen
  BY SessionAssumption DEF Init, SubmittedOK, RepliesOK, OneOpen
<1>. QED BY <1>1, <1>2, <1>3, <1>4 DEF SessionInv

\* Every step keeps the invariant.
LEMMA SessionInvStep ==
  ASSUME SessionInv, [Next]_vars
  PROVE  SessionInv'
<1>0. AdmissionInv /\ SessionTypeOK /\ EnvelopesOK /\ DataInv
  BY DEF SessionInv, DataInv
<1>1. ASSUME AdmissionInv', SessionTypeOK', EnvelopesOK', DataInv' PROVE SessionInv'
  BY <1>1 DEF SessionInv, DataInv
<1>2. ASSUME NEW c \in Conns,
             \/ Auth(c) \/ (\E from \in Senders : Mail(c, from)) \/ Rcpt(c)
             \/ Reset(c) \/ DataRejected(c)
      PROVE  SessionInv'
  <2>1. UNCHANGED avars /\ UNCHANGED data
    BY <1>2 DEF Auth, Mail, Rcpt, Reset, DataRejected
  <2>2. AdmissionInv' /\ SessionTypeOK' /\ EnvelopesOK'
    BY <1>0, <1>2, <2>1, AdmissionStutterInv, CommandTypes, CommandEnvelopes
  <2>3. DataUndisturbed
    BY <1>0, <1>2, Undisturbed DEF DataInv
  <2>4. DataInv'
    BY <1>0, <2>1, <2>3, QuietData
  <2>. QED BY <1>1, <2>2, <2>4
<1>3. ASSUME NEW c \in Conns, NewSession(c) \/ ConnectionStep(c)
      PROVE  SessionInv'
  <2>1. AdmissionStep(c) /\ UNCHANGED <<data, crashes>>
    BY <1>3 DEF NewSession, ConnectionStep, AdmissionStep
  <2>2. AdmissionInv' /\ EnvelopesOK'
    BY <1>0, <1>3, <2>1, AdmissionStepInv, ConnectionEnvelopes
  <2>3. SessionTypeOK'
    <3>1. <<>> \in Seq(Recipient)
      OBVIOUS
    <3>2. /\ authed' \in [Conns -> {"no", "plain", "tls"}]
          /\ envelopeFrom' \in [Conns -> Senders \cup {None}]
          /\ recipients' \in [Conns -> Seq(Recipient)]
      BY <1>0, <1>3, <3>1 DEF NewSession, ConnectionStep, fields, SessionTypeOK
    <3>. QED BY <1>0, <2>1, <2>2, <3>2 DEF SessionTypeOK, AdmissionInv, data
  <2>4. DataUndisturbed
    BY <1>0, <1>3, Undisturbed DEF DataInv
  <2>5. DataInv'
    BY <1>0, <2>1, <2>4, QuietData
  <2>. QED BY <1>1, <2>2, <2>3, <2>5
<1>4. ASSUME NEW c \in Conns,
             \/ \E m \in Messages : DataAccepted(c, m)
             \/ InsertJob(c) \/ EnqueueFails(c) \/ Commit(c) \/ Reply(c)
      PROVE  SessionInv'
  <2>1. UNCHANGED avars
    BY <1>4 DEF DataAccepted, InsertJob, EnqueueFails, Commit, Reply
  <2>2. AdmissionInv'
    BY <1>0, <2>1, AdmissionStutterInv
  <2>3. SessionTypeOK' /\ EnvelopesOK' /\ DataInv'
    BY <1>0, <1>4, DataAcceptedInv, InsertJobInv, EnqueueFailsInv, CommitInv, ReplyInv
  <2>. QED BY <1>1, <2>2, <2>3
<1>5. CASE Tick
  <2>1. Refill /\ UNCHANGED <<fields, data, crashes>>
    BY <1>5 DEF Tick
  <2>2. AdmissionInv' /\ UNCHANGED <<conn, tls>>
    BY <1>0, <2>1, RefillInv DEF Refill
  <2>3. SessionTypeOK' /\ EnvelopesOK'
    BY <1>0, <2>1, <2>2
    DEF SessionTypeOK, AdmissionInv, EnvelopesOK, EnvelopeOK, fields, data
  <2>4. DataUndisturbed
    BY <1>0, <2>1, <2>2 DEF DataUndisturbed, fields, DataInv, DataOK, InData
  <2>5. DataInv'
    BY <1>0, <2>1, <2>4, QuietData
  <2>. QED BY <1>1, <2>2, <2>3, <2>5
<1>6. CASE UNCHANGED vars
  <2>1. UNCHANGED <<avars, fields, data, crashes>> /\ UNCHANGED <<conn, tls>>
    BY <1>6 DEF vars, avars
  <2>2. AdmissionInv'
    BY <1>0, <2>1, AdmissionStutterInv
  <2>3. SessionTypeOK' /\ EnvelopesOK'
    BY <1>0, <2>1, <2>2
    DEF SessionTypeOK, AdmissionInv, EnvelopesOK, EnvelopeOK, fields, data
  <2>4. DataUndisturbed
    BY <1>0, <2>1 DEF DataUndisturbed, fields, DataInv, DataOK, InData
  <2>5. DataInv'
    BY <1>0, <2>1, <2>4, QuietData
  <2>. QED BY <1>1, <2>2, <2>3, <2>5
<1>. QED
  BY <1>2, <1>3, <1>4, <1>5, <1>6, CrashInv DEF Next, SessionStep

-----------------------------------------------------------------------------
(* What the invariant says *)

\* The invariant holds in every state.
THEOREM SessionInvariant == Spec => []SessionInv
<1>1. Init => SessionInv
  BY SessionInvInit
<1>2. SessionInv /\ [Next]_vars => SessionInv'
  BY SessionInvStep
<1>. QED BY <1>1, <1>2, PTL DEF Spec

\* Every variable of the sessions and of EnqueueTx keeps its type.
THEOREM SessionTypes == Spec => []SessionTypeOK
<1>1. SessionInv => SessionTypeOK
  BY DEF SessionInv
<1>. QED BY <1>1, SessionInvariant, PTL

\* The admission's counters stay exact and its limits hold under the real
\* sessions, their crashes included.
THEOREM SessionsStayAdmitted ==
  Spec => [](TokensExact /\ PerIPExact /\ SessionsWithinLimits /\ RateBounded)
<1>1. SessionInv => TokensExact /\ PerIPExact /\ SessionsWithinLimits /\ RateBounded
  BY LimitsFromInv, RateFromInv DEF SessionInv, AdmissionInv
<1>. QED BY <1>1, SessionInvariant, PTL

\* A stored row is one that was submitted, and what was submitted is authorized.
LEMMA StoredRowOK ==
  ASSUME SessionInv, NEW n \in Subs, NEW i \in DOMAIN stored[n]
  PROVE  RowOK(stored[n][i])
<1>1. stored[n] # <<>>
  BY DEF SessionInv, SessionTypeOK
<1>2. n \in 1..Len(submitted) /\ stored[n] = submitted[n].rows
  BY <1>1 DEF SessionInv, StoredOK
<1>. QED BY <1>2 DEF SessionInv, SubmittedOK

\* Mail checks the domain and TLS, Rcpt and Data do not: still every row that
\* EnqueueTx commits comes from an allowed sender and, where STARTTLS is
\* required, from a client that authenticated over TLS.
THEOREM RowsAreAuthorized == Spec => []RowsAuthorized
<1>1. SessionInv => RowsAuthorized
  BY StoredRowOK DEF RowsAuthorized, RowOK
<1>. QED BY <1>1, SessionInvariant, PTL

\* Reset, Mail, NewSession and the library's reset after DATA together leave no
\* recipient of one mail transaction in the next.
THEOREM NothingCarriedOver == Spec => []NoCarryOver
<1>1. SessionInv => NoCarryOver
  BY StoredRowOK DEF NoCarryOver, RowOK
<1>. QED BY <1>1, SessionInvariant, PTL

\* A message is queued more than once only for a 250 that was lost: of the
\* submissions that Data committed and whose reply was not lost, at most one
\* has the message.
THEOREM CopiesNeedLostReply == Spec => []CopiesOnlyOnLostReply
<1>1. SessionInv => CopiesOnlyOnLostReply
  <2>. SUFFICES ASSUME SessionInv, NEW m \in Messages
                PROVE  Cardinality(Copies(m))
                         <= 1 + Cardinality({n \in lost : submitted[n].message = m})
    BY DEF CopiesOnlyOnLostReply
  <2>. DEFINE C == Copies(m)
              L == {n \in lost : submitted[n].message = m}
  <2>0. /\ submitted \in Seq([message : Messages, rows : Seq(Row)])
        /\ lost \subseteq Subs /\ Len(submitted) <= MaxSubmissions
    BY DEF SessionInv, SessionTypeOK, SubmittedOK
  <2>1. C \subseteq Subs /\ L \subseteq Subs /\ C \subseteq 1..Len(submitted)
    <3>1. C \subseteq 1..Len(submitted) /\ Len(submitted) \in Nat
      BY <2>0 DEF Copies
    <3>2. 1..Len(submitted) \subseteq Subs
      BY <2>0, <3>1, SessionAssumption DEF Subs
    <3>. QED BY <2>0, <3>1, <3>2
  <2>2. IsFiniteSet(Subs)
    BY FS_Interval, SessionAssumption DEF Subs
  <2>3. IsFiniteSet(C) /\ IsFiniteSet(L)
    BY <2>1, <2>2, FS_Subset
  <2>4. Cardinality(C) \in Nat /\ Cardinality(L) \in Nat
    BY <2>3, FS_CardinalityType
  <2>5. \A n \in C \ L : (n \in acked \/ UnderWay(n)) /\ submitted[n].message = m
    BY <2>1 DEF Copies, SessionInv, RepliesOK
  <2>6. \A n, k \in C \ L : n = k
    BY <2>1, <2>5 DEF SessionInv, OneOpen
  <2>7. CASE C \subseteq L
    BY <2>3, <2>4, <2>7, FS_Subset
  <2>8. CASE ~(C \subseteq L)
    <3>1. PICK x \in C : x \notin L
      BY <2>8
    <3>2. C \subseteq L \cup {x}
      BY <2>6, <3>1
    <3>3. IsFiniteSet(L \cup {x}) /\ Cardinality(L \cup {x}) = Cardinality(L) + 1
      BY <2>3, <3>1, FS_AddElement
    <3>4. Cardinality(C) <= Cardinality(L) + 1
      BY <3>2, <3>3, FS_Subset
    <3>. QED BY <2>4, <3>4
  <2>. QED BY <2>7, <2>8
<1>. QED BY <1>1, SessionInvariant, PTL

-----------------------------------------------------------------------------
(* Submission *)

\* A step that adds no submission asks for nothing.
LEMMA AskedUnchanged ==
  ASSUME UNCHANGED submitted
  PROVE  UNCHANGED asked
BY DEF asked

\* DATA that is accepted asks, the commit stores, a 250 that is read
\* acknowledges; every other step is invisible to the client.
LEMMA SubmissionStep ==
  ASSUME SessionInv, [Next]_vars
  PROVE  [Promise!Next]_<<asked, stored, acked>>
<1>0. SessionTypeOK /\ EnvelopesOK /\ DataInv
  BY DEF SessionInv, DataInv
<1>1. ASSUME NEW c \in Conns, NEW m \in Messages, DataAccepted(c, m)
      PROVE  Promise!Next
  <2>. DEFINE n == Len(submitted) + 1
  <2>1. /\ submitted \in Seq([message : Messages, rows : Seq(Row)])
        /\ Len(submitted) \in Nat /\ Len(submitted) < MaxSubmissions
        /\ UNCHANGED <<stored, acked>>
    BY <1>0, <1>1 DEF DataAccepted, SessionTypeOK
  <2>2. n \in Subs
    BY <2>1, SessionAssumption DEF Subs
  <2>3. Envelope(c) \in Seq(Row) /\ Envelope(c) # <<>>
    <3>1. envelopeFrom[c] \in Senders /\ recipients[c] \in Seq(Recipient) /\ recipients[c] # <<>>
      BY <1>0, <1>1 DEF DataAccepted, SessionTypeOK
    <3>. QED BY <1>0, <3>1, EnvelopeFacts
  <2>4. /\ DOMAIN submitted = 1..Len(submitted)
        /\ DOMAIN submitted' = 1..n
        /\ submitted'[n].rows = Envelope(c)
        /\ \A k \in 1..Len(submitted) : submitted'[k] = submitted[k]
    BY <1>1, <2>1, <2>3 DEF DataAccepted
  <2>5. asked[n] = <<>> /\ asked'[n] = Envelope(c)
    BY <2>1, <2>2, <2>4 DEF asked
  <2>6. asked' = [asked EXCEPT ![n] = asked'[n]]
    <3>1. \A k \in Subs : k # n => (k \in 1..n <=> k \in 1..Len(submitted))
      BY <2>1 DEF Subs
    <3>2. \A k \in Subs : k # n => asked'[k] = asked[k]
      BY <2>4, <3>1 DEF asked
    <3>3. asked = [k \in Subs |-> asked[k]] /\ asked' = [k \in Subs |-> asked'[k]]
      BY DEF asked
    <3>. HIDE DEF asked
    <3>. QED BY <2>2, <3>2, <3>3
  <2>7. Promise!Ask(n)
    BY <2>1, <2>3, <2>5, <2>6 DEF Promise!Ask
  <2>. QED BY <2>2, <2>7 DEF Promise!Next
<1>2. ASSUME NEW c \in Conns, Commit(c)
      PROVE  Promise!Next
  <2>1. /\ tx[c] = submitted[sub[c]].rows
        /\ stored[sub[c]] = <<>>
        /\ sub[c] \in Subs /\ sub[c] \in 1..Len(submitted)
    BY <1>0, <1>2, CommitRows
  <2>2. asked[sub[c]] = tx[c]
    BY <1>0, <2>1 DEF asked, SessionTypeOK
  <2>3. UNCHANGED <<asked, acked>> /\ stored' = [stored EXCEPT ![sub[c]] = asked[sub[c]]]
    BY <1>2, <2>2, AskedUnchanged DEF Commit
  <2>4. Promise!Store(sub[c])
    BY <2>1, <2>3 DEF Promise!Store
  <2>. QED BY <2>1, <2>4 DEF Promise!Next
<1>3. ASSUME NEW c \in Conns, Reply(c)
      PROVE  [Promise!Next]_<<asked, stored, acked>>
  <2>1. sub[c] \in Subs /\ stored[sub[c]] # <<>>
    BY <1>0, <1>3, InDataFacts DEF Reply, InData, Replying
  <2>2. UNCHANGED <<asked, stored>>
    BY <1>3, AskedUnchanged DEF Reply
  <2>3. CASE acked' = acked \cup {sub[c]}
    <3>1. Promise!Acknowledge(sub[c])
      BY <2>1, <2>2, <2>3 DEF Promise!Acknowledge
    <3>. QED BY <2>1, <3>1 DEF Promise!Next
  <2>4. CASE acked' = acked
    BY <2>2, <2>4
  <2>. QED BY <1>3, <2>3, <2>4 DEF Reply
<1>4. CASE UNCHANGED <<submitted, stored, acked>>
  BY <1>4, AskedUnchanged
<1>5. ASSUME NEW c \in Conns,
             \/ NewSession(c) \/ Auth(c) \/ (\E from \in Senders : Mail(c, from)) \/ Rcpt(c)
             \/ Reset(c) \/ DataRejected(c) \/ InsertJob(c) \/ EnqueueFails(c) \/ ConnectionStep(c)
      PROVE  UNCHANGED <<submitted, stored, acked>>
  BY <1>5
  DEF NewSession, Auth, Mail, Rcpt, Reset, DataRejected, InsertJob, EnqueueFails,
      ConnectionStep, data
<1>6. Tick \/ Crash \/ UNCHANGED vars => UNCHANGED <<submitted, stored, acked>>
  BY DEF Tick, Crash, vars, data
<1>. QED BY <1>1, <1>2, <1>3, <1>4, <1>5, <1>6 DEF Next, SessionStep

\* A 250 means that the message is durably queued for all its recipients: Data
\* and EnqueueTx implement Submission, whatever fails or crashes between.
THEOREM SubmissionImplemented == Spec => ImplementsSubmission
<1>1. Init => Promise!Init
  BY DEF Init, Promise!Init, asked
<1>2. SessionInv /\ [Next]_vars => [Promise!Next]_<<asked, stored, acked>>
  BY SubmissionStep
<1>. QED BY <1>1, <1>2, SessionInvariant, PTL DEF Spec, ImplementsSubmission, Promise!Spec
=============================================================================
