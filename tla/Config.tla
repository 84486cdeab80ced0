------------------------------- MODULE Config -------------------------------
(***************************************************************************)
(* internal/config: what `relay serve' makes of its environment.  An       *)
(* environment gives each key a value: Unset (missing or blank), Malformed *)
(* (does not parse as the key's type) or <<v>>.  Durations are in          *)
(* milliseconds.  Keys carry the names of the fields of Config they set.   *)
(***************************************************************************)
EXTENDS Integers, Sequences, FiniteSets

Unset == <<>>
Malformed == <<0, 0>>

\* strconv.Atoi and time.ParseDuration refuse what does not fit.
MaxInt == 2147483647

NumberDefaults ==
  [SMTPMaxMessageBytes |-> 8388608, SMTPMaxRecipients |-> 1000,
   SMTPMaxConnections |-> 200, SMTPMaxConnectionsPerIP |-> 20,
   SMTPRateLimitPerIPPerMin |-> 600, DBMaxOpenConns |-> 1, DispatcherWorkers |-> 4,
   QueueClaimLimit |-> 1000, QueueLeaseTimeout |-> 30000, BatchMaxCount |-> 500,
   BatchMaxBytes |-> 5242880, BatchFlushInterval |-> 250, RetryMaxAttempts |-> 8,
   RequeueStaleInterval |-> 30000, MailersendTimeout |-> 20000]

FlagDefaults ==
  [SMTPAllowInsecureAuth |-> FALSE, SMTPRequireSTARTTLS |-> TRUE,
   MailersendEnableCustomHeaders |-> FALSE]

Numbers == DOMAIN NumberDefaults
Flags == DOMAIN FlagDefaults
Overrides == {"BulkAPISupported", "CustomHeadersSupported",
              "BulkAPIMaxMessagesPerRequest", "BulkAPIMaxRequestsPerMin"}
Required == {"SMTPAuthUsername", "SMTPAuthPassword", "SMTPAllowedSenderDomains",
             "SMTPTLSCertFile", "SMTPTLSKeyFile", "MailersendAPIKey"}
Keys == Numbers \cup Flags \cup Overrides \cup Required \cup {"Plan"}

-----------------------------------------------------------------------------
(* LoadFromEnv *)

\* Mutant: the error of Atoi is dropped and its zero taken.
GetenvIntZero(v, def) == IF v = Unset THEN def ELSE IF v = Malformed THEN 0 ELSE v[1]

\* getenvInt, getenvInt64, getenvDuration: a value that does not parse is
\* replaced by the default, without a word.
GetenvInt(v, def) == IF v \in {Unset, Malformed} THEN def ELSE v[1]

\* Mutant: the error of ParseBool is dropped and its false taken.
GetenvBoolFalse(v, def) == IF v = Unset THEN def ELSE IF v = Malformed THEN FALSE ELSE v[1]

GetenvBool(v, def) == IF v \in {Unset, Malformed} THEN def ELSE v[1]

Plans == {"trial", "free", "hobby", "starter", "professional", "enterprise"}

ResolveLimits(plan) ==
  [BulkAPISupported |-> plan \notin {"trial", "free"},
   CustomHeadersSupported |-> plan \in {"professional", "enterprise"},
   BulkAPIMaxMessagesPerRequest |-> 500,
   BulkAPIMaxRequestsPerMin |-> 10]

PlanOf(env) == IF env["Plan"] = Unset THEN "starter" ELSE env["Plan"][1]

\* loadMailerSendAccountLimitsFromEnv refuses an unknown plan and, unlike the
\* other keys, an override that does not parse.
LimitsLoad(env) ==
  /\ PlanOf(env) \in Plans
  /\ \A k \in Overrides : env[k] # Malformed

Limits(env) ==
  [k \in Overrides |-> IF env[k] = Unset THEN ResolveLimits(PlanOf(env))[k] ELSE env[k][1]]

\* The list of domains drops blank entries, so a value may be set and empty.
SplitCSV(v) == SelectSeq(v, LAMBDA part : part # "")

CfgOf(env) ==
  [k \in Keys |->
     IF k \in Numbers THEN GetenvInt(env[k], NumberDefaults[k])
     ELSE IF k \in Flags THEN GetenvBool(env[k], FlagDefaults[k])
     ELSE IF k \in Overrides THEN Limits(env)[k]
     ELSE IF k = "SMTPAllowedSenderDomains" THEN SplitCSV(env[k])
     ELSE IF k = "Plan" THEN PlanOf(env)
     ELSE env[k]]

Lowest ==
  [k \in (Numbers \cup {"BulkAPIMaxMessagesPerRequest", "BulkAPIMaxRequestsPerMin"})
           \ {"RequeueStaleInterval", "DBMaxOpenConns"} |->
     IF k = "BatchMaxBytes" THEN 1024 ELSE 1]

Highest(k) ==
  IF k \in {"BatchMaxCount", "BulkAPIMaxMessagesPerRequest"} THEN 500 ELSE MaxInt

\* REQUEUE_STALE_INTERVAL and SQLITE_MAX_OPEN_CONNS are not looked at.
ValidateCommon(cfg) == \A k \in DOMAIN Lowest : cfg[k] \in Lowest[k]..Highest(k)

LoadFromEnvSucceeds(env) == LimitsLoad(env) /\ ValidateCommon(CfgOf(env))

-----------------------------------------------------------------------------
(* ValidateServe *)

\* Mutant: the flag is not compared with what the plan supports.
ValidateServeNoHeaders(cfg) ==
  /\ \A k \in Required \ {"SMTPTLSCertFile", "SMTPTLSKeyFile"} : cfg[k] # <<>>
  /\ cfg["SMTPRequireSTARTTLS"] => cfg["SMTPTLSCertFile"] # <<>> /\ cfg["SMTPTLSKeyFile"] # <<>>
  /\ cfg["BulkAPISupported"]

ValidateServe(cfg) ==
  /\ \A k \in Required \ {"SMTPTLSCertFile", "SMTPTLSKeyFile"} : cfg[k] # <<>>
  /\ cfg["SMTPRequireSTARTTLS"] => cfg["SMTPTLSCertFile"] # <<>> /\ cfg["SMTPTLSKeyFile"] # <<>>
  /\ cfg["BulkAPISupported"]
  /\ cfg["MailersendEnableCustomHeaders"] => cfg["CustomHeadersSupported"]

\* Mutant: the larger of the two limits.
EffectiveBatchMaxCountLarger(cfg) ==
  IF cfg["BatchMaxCount"] < cfg["BulkAPIMaxMessagesPerRequest"]
  THEN cfg["BulkAPIMaxMessagesPerRequest"] ELSE cfg["BatchMaxCount"]

EffectiveBatchMaxCount(cfg) ==
  IF cfg["BatchMaxCount"] < cfg["BulkAPIMaxMessagesPerRequest"]
  THEN cfg["BatchMaxCount"] ELSE cfg["BulkAPIMaxMessagesPerRequest"]
=============================================================================
