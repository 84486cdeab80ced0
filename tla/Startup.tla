------------------------------ MODULE Startup -------------------------------
(***************************************************************************)
(* From the environment of `relay serve' to the messages it queues: the    *)
(* steps of runServe that can refuse to start, and the transformation of a *)
(* submission under the configuration that was let through.  A Transformer *)
(* keeps nothing but its flag, so one submission per start is enough.      *)
(***************************************************************************)
EXTENDS Config, Mime

CONSTANTS
  Environments,   \* what the process may be started with
  Submissions     \* [from, recipients, raw]: what a session hands to Transform

\* Atoi and ParseDuration give integers, ParseBool a flag.
ASSUME EnvironmentsAssumption ==
  \A e \in Environments :
    /\ \A k \in Numbers : e[k] \in {Unset, Malformed} \/ (e[k] \in Seq(Int) /\ Len(e[k]) = 1)
    /\ \A k \in Flags : e[k] \in {Unset, Malformed, <<TRUE>>, <<FALSE>>}

ASSUME SubmissionsAssumption ==
  \A s \in Submissions :
    /\ s.recipients \in Seq(Range(s.recipients))
    /\ s.raw.body \in Parts

VARIABLES
  env,        \* the environment
  stage,      \* how far runServe came
  cfg,        \* config.Config, None before it is loaded
  submission, \* what Data was given, None before
  result      \* what Transform made of it

vars == <<env, stage, cfg, submission, result>>

None == <<>>

Init ==
  /\ env \in Environments
  /\ stage = "starting"
  /\ cfg = None
  /\ submission = None
  /\ result = Refused

LoadFromEnv ==
  /\ stage = "starting"
  /\ IF LoadFromEnvSucceeds(env)
     THEN stage' = "loaded" /\ cfg' = CfgOf(env)
     ELSE stage' = "refused" /\ UNCHANGED cfg
  /\ UNCHANGED <<env, submission, result>>

Validate ==
  /\ stage = "loaded"
  /\ stage' = IF ValidateServe(cfg) THEN "validated" ELSE "refused"
  /\ UNCHANGED <<env, cfg, submission, result>>

\* smtpserver.New reads the key pair only when STARTTLS is required.
NewServer ==
  /\ stage = "validated"
  /\ \/ cfg["SMTPRequireSTARTTLS"] /\ stage' = "refused"
     \/ stage' = "built"
  /\ UNCHANGED <<env, cfg, submission, result>>

\* requeueStaleLoop makes a ticker of its interval, which panics when that is not
\* positive.
StartDispatcher ==
  /\ stage = "built"
  /\ stage' = IF cfg["RequeueStaleInterval"] > 0 THEN "serving" ELSE "panicked"
  /\ UNCHANGED <<env, cfg, submission, result>>

Data(s) ==
  /\ stage = "serving"
  /\ submission = None
  /\ submission' = s
  /\ result' = Transform(cfg["MailersendEnableCustomHeaders"], s.from, s.recipients, s.raw)
  /\ UNCHANGED <<env, stage, cfg>>

Next ==
  \/ LoadFromEnv
  \/ Validate
  \/ NewServer
  \/ StartDispatcher
  \/ \E s \in Submissions : Data(s)

Spec == Init /\ [][Next]_vars

-----------------------------------------------------------------------------
(* Properties of the configuration *)

\* A configuration that serves has positive limits, worker and attempt counts,
\* sizes and durations, REQUEUE_STALE_INTERVAL included, which only the ticker
\* rejects; a rate of at least one request a minute; and batches within both the
\* operator's and the plan's limit.  The other modules assume these of their
\* limits and rates.  How the lease compares with the waits for the database is
\* not checked by the code and not covered: Prompt of Relay has it as a premise.
ServesWithinLimits ==
  stage = "serving" =>
    /\ \A k \in Numbers \ {"DBMaxOpenConns"} : cfg[k] > 0
    /\ EffectiveBatchMaxCount(cfg) >= 1
    /\ EffectiveBatchMaxCount(cfg) <= cfg["BatchMaxCount"]
    /\ EffectiveBatchMaxCount(cfg) <= cfg["BulkAPIMaxMessagesPerRequest"]
    /\ cfg["BulkAPIMaxMessagesPerRequest"] <= 500
    /\ cfg["BulkAPIMaxRequestsPerMin"] >= 1
    /\ cfg["BulkAPISupported"]

\* The process panics after its workers were started only if the operator wrote
\* an interval that is not positive: blank and malformed values are safe.
PanicsOnlyOnWrittenInterval ==
  stage = "panicked" =>
    /\ env["RequeueStaleInterval"] \notin {Unset, Malformed}
    /\ env["RequeueStaleInterval"][1] <= 0

\* Plain-text mail and plain-text credentials are taken only by a relay whose
\* operator wrote so: a blank or misspelt flag never opens it.
OpenOnlyIfAsked ==
  stage = "serving" =>
    /\ ~cfg["SMTPRequireSTARTTLS"] => env["SMTPRequireSTARTTLS"] = <<FALSE>>
    /\ cfg["SMTPAllowInsecureAuth"] => env["SMTPAllowInsecureAuth"] = <<TRUE>>

-----------------------------------------------------------------------------
(* Properties of the messages *)

Accepted == submission # None /\ result.ok

\* MailerSend rejects custom headers of a plan without them (MS42233) and the
\* whole batch with them: no queued message has a header unless the effective
\* plan allows it, and none names the recipients of the original.
HeadersAllowed ==
  Accepted => \A i \in DOMAIN result.messages :
    /\ result.messages[i].headers # {} => cfg["CustomHeadersSupported"]
    /\ result.messages[i].headers \cap {"to", "cc", "bcc"} = {}

\* Reference: the leaves of a message from left to right.
Leaves[p \in Parts] ==
  IF p.type # "multipart" THEN <<p>>
  ELSE FlattenSeq([i \in DOMAIN p.parts |-> Leaves[p.parts[i]]])

\* Reference: those of some leaves that are attachments, in their order.
Attached(leaves) ==
  FlattenSeq([i \in DOMAIN leaves |->
    IF leaves[i].file # "none" THEN <<leaves[i]>> ELSE <<>>])

Bodies(leaves, type) ==
  {leaf.body : leaf \in {l \in Range(leaves) :
                            l.type = type /\ l.file = "none" /\ l.body # ""}}

\* However parts are nested, every attachment of the original is in the message,
\* once and in order, and no text or HTML body is lost or invented; suppressing
\* repeated bodies drops nothing that is not there already.
ContentKept ==
  Accepted => \A i \in DOMAIN result.messages :
    LET leaves == Leaves[submission.raw.body]
        made == result.messages[i]
    IN /\ made.attachments = Attached(leaves)
       /\ Range(made.text) = Bodies(leaves, "text")
       /\ Range(made.html) = Bodies(leaves, "html")

\* A submission is queued for all its recipients, one message each and in order,
\* or refused: one that RCPT accepted and Transform cannot parse is never dropped
\* behind a 250.
AllRecipientsOrNone ==
  submission # None =>
    IF result.ok
    THEN /\ Len(result.messages) = Len(submission.recipients)
         /\ \A i \in DOMAIN result.messages : result.messages[i].to = submission.recipients[i]
    ELSE result.messages = <<>>

\* The message goes out from the mailbox that MAIL checked against the allowed
\* domains, whatever its From header says.
SenderIsEnvelopes ==
  Accepted => \A i \in DOMAIN result.messages :
    result.messages[i].from.box = submission.from.box
=============================================================================
