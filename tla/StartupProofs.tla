---------------------------- MODULE StartupProofs ---------------------------
(***************************************************************************)
(* Proofs about Startup, for every environment the process may be started  *)
(* with and every submission a session may hand over, messages nested to   *)
(* any depth included.                                                     *)
(***************************************************************************)
EXTENDS Startup, SequenceTheorems, WellFoundedInduction, TLAPS

\* How far the configuration has been looked at.
Loaded == {"loaded", "validated", "built", "serving", "panicked"}
Validated == Loaded \ {"loaded"}

\* The stages, and that nothing changes the configuration once it is loaded and
\* validated: what each step checked still holds when the relay serves.
StartupInv ==
  /\ env \in Environments
  /\ stage \in Loaded \cup {"starting", "refused"}
  /\ stage \in Loaded => cfg = CfgOf(env) /\ ValidateCommon(cfg)
  /\ stage \in Validated => ValidateServe(cfg)
  /\ stage = "serving" => cfg["RequeueStaleInterval"] > 0
  /\ stage = "panicked" => ~(cfg["RequeueStaleInterval"] > 0)
  /\ submission # None =>
       /\ stage = "serving"
       /\ submission \in Submissions
       /\ result = Transform(cfg["MailersendEnableCustomHeaders"],
                             submission.from, submission.recipients, submission.raw)

-----------------------------------------------------------------------------
(* The operators *)

\* What the configuration has under a number and under a flag.
LEMMA CfgNumber ==
  ASSUME NEW e, NEW k \in Numbers
  PROVE  CfgOf(e)[k] = GetenvInt(e[k], NumberDefaults[k])
BY DEF CfgOf, Keys

\* Flags are not numbers, so the second alternative of CfgOf is theirs.
LEMMA CfgFlag ==
  ASSUME NEW e, NEW k \in Flags
  PROVE  CfgOf(e)[k] = GetenvBool(e[k], FlagDefaults[k])
<1>1. k \notin Numbers
  BY DEF Flags, Numbers, FlagDefaults, NumberDefaults
<1>. QED BY <1>1 DEF CfgOf, Keys

\* A number that was written is an integer.
LEMMA NumberWritten ==
  ASSUME NEW e \in Environments, NEW k \in Numbers
  PROVE  e[k] \in {Unset, Malformed} \/ (e[k] \in Seq(Int) /\ Len(e[k]) = 1)
BY EnvironmentsAssumption, Zenon

\* A flag is what was written, or its default.
LEMMA FlagWritten ==
  ASSUME NEW v \in {Unset, Malformed, <<TRUE>>, <<FALSE>>}, NEW def \in BOOLEAN
  PROVE  \/ GetenvBool(v, def) = def
         \/ v = <<TRUE>> /\ GetenvBool(v, def) = TRUE
         \/ v = <<FALSE>> /\ GetenvBool(v, def) = FALSE
<1>1. CASE v \in {Unset, Malformed}
  BY <1>1 DEF GetenvBool
<1>2. CASE v = <<TRUE>> /\ v \notin {Unset, Malformed}
  <2>1. v[1] = TRUE
    BY <1>2
  <2>. QED BY <1>2, <2>1 DEF GetenvBool
<1>3. CASE v = <<FALSE>> /\ v \notin {Unset, Malformed}
  <2>1. v[1] = FALSE
    BY <1>3
  <2>. QED BY <1>3, <2>1 DEF GetenvBool
<1>. QED BY <1>1, <1>2, <1>3

\* The limits that ValidateCommon compares a number with.
LEMMA ValidatedNumber ==
  ASSUME NEW c, ValidateCommon(c),
         NEW k \in (Numbers \cup {"BulkAPIMaxMessagesPerRequest", "BulkAPIMaxRequestsPerMin"})
                     \ {"RequeueStaleInterval", "DBMaxOpenConns"}
  PROVE  /\ c[k] \in Int /\ c[k] >= 1
         /\ k \in {"BatchMaxCount", "BulkAPIMaxMessagesPerRequest"} => c[k] <= 500
<1>1. k \in DOMAIN Lowest /\ Lowest[k] \in Int /\ Lowest[k] >= 1
  BY DEF Lowest
<1>2. Highest(k) \in Int /\ (k \in {"BatchMaxCount", "BulkAPIMaxMessagesPerRequest"} => Highest(k) = 500)
  BY DEF Highest, MaxInt
<1>3. c[k] \in Lowest[k]..Highest(k)
  BY <1>1 DEF ValidateCommon
<1>. QED BY <1>1, <1>2, <1>3

\* The fields of a message that the properties look at.
LEMMA MessageFields ==
  ASSUME NEW flag, NEW from, NEW rcpt, NEW raw, NEW content
  PROVE  /\ Message(flag, from, rcpt, raw, content).from = from
         /\ Message(flag, from, rcpt, raw, content).to = rcpt
         /\ Message(flag, from, rcpt, raw, content).text = content.text
         /\ Message(flag, from, rcpt, raw, content).html = content.html
         /\ Message(flag, from, rcpt, raw, content).attachments = content.attachments
         /\ Message(flag, from, rcpt, raw, content).headers =
              IF flag THEN CollectHeaders(raw.headers) ELSE {}
<1>. DEFINE headers == IF flag THEN CollectHeaders(raw.headers) ELSE {}
<1>. HIDE DEF headers
<1>1. Message(flag, from, rcpt, raw, content) =
        [from |-> from, to |-> rcpt, text |-> content.text, html |-> content.html,
         attachments |-> content.attachments, headers |-> headers]
  BY DEF Message, headers
<1>2. Message(flag, from, rcpt, raw, content).headers = headers
  BY <1>1
<1>3. /\ Message(flag, from, rcpt, raw, content).from = from
      /\ Message(flag, from, rcpt, raw, content).to = rcpt
      /\ Message(flag, from, rcpt, raw, content).text = content.text
      /\ Message(flag, from, rcpt, raw, content).html = content.html
      /\ Message(flag, from, rcpt, raw, content).attachments = content.attachments
  BY <1>1
<1>. QED BY <1>2, <1>3 DEF headers

\* What Transform answers.
LEMMA TransformResult ==
  ASSUME NEW flag, NEW from, NEW rcpts, NEW raw
  PROVE  LET r == Transform(flag, from, rcpts, raw)
         IN  \/ r = Refused
             \/ /\ r.ok
                /\ ParseContent[raw.body].ok
                /\ r.messages = [i \in DOMAIN rcpts |->
                     Message(flag, SelectFromAddress(from, raw.from), rcpts[i], raw,
                             ParseContent[raw.body])]
BY DEF Transform

-----------------------------------------------------------------------------
(* The invariant *)

\* The process starts with nothing loaded.
LEMMA StartupInvInit ==
  ASSUME Init
  PROVE  StartupInv
BY DEF Init, StartupInv, Loaded, Validated

\* Every step of runServe keeps the invariant.
LEMMA StartupInvNext ==
  ASSUME StartupInv, [Next]_vars
  PROVE  StartupInv'
<1>1. CASE LoadFromEnv
  BY <1>1 DEF StartupInv, Loaded, Validated, LoadFromEnv, LoadFromEnvSucceeds
<1>2. CASE Validate
  BY <1>2 DEF StartupInv, Loaded, Validated, Validate
<1>3. CASE NewServer
  BY <1>3 DEF StartupInv, Loaded, Validated, NewServer
<1>4. CASE StartDispatcher
  BY <1>4 DEF StartupInv, Loaded, Validated, StartDispatcher
<1>5. ASSUME NEW s \in Submissions, Data(s) PROVE StartupInv'
  BY <1>5 DEF StartupInv, Loaded, Validated, Data
<1>6. CASE UNCHANGED vars
  BY <1>6 DEF StartupInv, vars
<1>. QED BY <1>1, <1>2, <1>3, <1>4, <1>5, <1>6 DEF Next

\* What LoadFromEnv and ValidateServe let through is what the relay serves with,
\* and what it answers is Transform under that configuration.
THEOREM StartupInvariant == Spec => []StartupInv
<1>1. Init => StartupInv
  BY StartupInvInit
<1>2. StartupInv /\ [Next]_vars => StartupInv'
  BY StartupInvNext
<1>. QED BY <1>1, <1>2, PTL DEF Spec

-----------------------------------------------------------------------------
(* The configuration *)

\* Whatever the environment, a relay that serves has the limits and rates which the
\* other modules assume, REQUEUE_STALE_INTERVAL included, which no validation looks
\* at; its lease is positive, and may be shorter than the waits for the database.
THEOREM LimitsAtServing == Spec => []ServesWithinLimits
<1>1. StartupInv => ServesWithinLimits
  <2>. SUFFICES ASSUME StartupInv, stage = "serving"
                PROVE  /\ \A k \in Numbers \ {"DBMaxOpenConns"} : cfg[k] > 0
                       /\ EffectiveBatchMaxCount(cfg) >= 1
                       /\ EffectiveBatchMaxCount(cfg) <= cfg["BatchMaxCount"]
                       /\ EffectiveBatchMaxCount(cfg) <= cfg["BulkAPIMaxMessagesPerRequest"]
                       /\ cfg["BulkAPIMaxMessagesPerRequest"] <= 500
                       /\ cfg["BulkAPIMaxRequestsPerMin"] >= 1
                       /\ cfg["BulkAPISupported"]
    BY DEF ServesWithinLimits
  <2>1. ValidateCommon(cfg) /\ ValidateServe(cfg) /\ cfg["RequeueStaleInterval"] > 0
    BY DEF StartupInv, Loaded, Validated
  <2>2. \A k \in Numbers \ {"DBMaxOpenConns"} : cfg[k] > 0
    BY <2>1, ValidatedNumber
  <2>3. "BatchMaxCount" \in Numbers
    BY DEF Numbers, NumberDefaults
  <2>4. /\ cfg["BatchMaxCount"] \in Int /\ cfg["BatchMaxCount"] >= 1
        /\ cfg["BulkAPIMaxMessagesPerRequest"] \in Int
        /\ cfg["BulkAPIMaxMessagesPerRequest"] >= 1
        /\ cfg["BulkAPIMaxMessagesPerRequest"] <= 500
        /\ cfg["BulkAPIMaxRequestsPerMin"] >= 1
    BY <2>1, <2>3, ValidatedNumber
  <2>5. /\ EffectiveBatchMaxCount(cfg) >= 1
        /\ EffectiveBatchMaxCount(cfg) <= cfg["BatchMaxCount"]
        /\ EffectiveBatchMaxCount(cfg) <= cfg["BulkAPIMaxMessagesPerRequest"]
    BY <2>4 DEF EffectiveBatchMaxCount
  <2>6. cfg["BulkAPISupported"]
    BY <2>1 DEF ValidateServe
  <2>. QED BY <2>2, <2>4, <2>5, <2>6
<1>. QED BY <1>1, StartupInvariant, PTL

\* The ticker of requeueStaleLoop panics only on an interval that was written and
\* is not positive.
THEOREM PanicIsWritten == Spec => []PanicsOnlyOnWrittenInterval
<1>1. StartupInv => PanicsOnlyOnWrittenInterval
  <2>. DEFINE R == "RequeueStaleInterval"
  <2>. SUFFICES ASSUME StartupInv, stage = "panicked"
                PROVE  env[R] \notin {Unset, Malformed} /\ env[R][1] <= 0
    BY DEF PanicsOnlyOnWrittenInterval
  <2>1. R \in Numbers /\ NumberDefaults[R] = 30000
    BY DEF Numbers, NumberDefaults
  <2>2. cfg[R] = GetenvInt(env[R], 30000) /\ ~(cfg[R] > 0)
    BY <2>1, CfgNumber DEF StartupInv, Loaded
  <2>3. env[R] \in {Unset, Malformed} \/ (env[R] \in Seq(Int) /\ Len(env[R]) = 1)
    <3>1. env \in Environments
      BY DEF StartupInv
    <3>. QED BY <2>1, <3>1, NumberWritten
  <2>4. env[R] \notin {Unset, Malformed}
    BY <2>2 DEF GetenvInt
  <2>5. cfg[R] = env[R][1] /\ env[R][1] \in Int
    BY <2>2, <2>3, <2>4 DEF GetenvInt
  <2>. QED BY <2>2, <2>4, <2>5
<1>. QED BY <1>1, StartupInvariant, PTL

\* Plain text is never the consequence of a blank or misspelt flag.
THEOREM OpenMeansAsked == Spec => []OpenOnlyIfAsked
<1>1. StartupInv => OpenOnlyIfAsked
  <2>. SUFFICES ASSUME StartupInv, stage = "serving"
                PROVE  /\ ~cfg["SMTPRequireSTARTTLS"] => env["SMTPRequireSTARTTLS"] = <<FALSE>>
                       /\ cfg["SMTPAllowInsecureAuth"] => env["SMTPAllowInsecureAuth"] = <<TRUE>>
    BY DEF OpenOnlyIfAsked
  <2>1. /\ "SMTPRequireSTARTTLS" \in Flags /\ FlagDefaults["SMTPRequireSTARTTLS"] = TRUE
        /\ "SMTPAllowInsecureAuth" \in Flags /\ FlagDefaults["SMTPAllowInsecureAuth"] = FALSE
    BY DEF Flags, FlagDefaults
  <2>2. /\ cfg["SMTPRequireSTARTTLS"] = GetenvBool(env["SMTPRequireSTARTTLS"], TRUE)
        /\ cfg["SMTPAllowInsecureAuth"] = GetenvBool(env["SMTPAllowInsecureAuth"], FALSE)
    BY <2>1, CfgFlag DEF StartupInv, Loaded
  <2>3. \A k \in Flags : env[k] \in {Unset, Malformed, <<TRUE>>, <<FALSE>>}
    BY EnvironmentsAssumption DEF StartupInv
  <2>4. ~cfg["SMTPRequireSTARTTLS"] => env["SMTPRequireSTARTTLS"] = <<FALSE>>
    BY <2>1, <2>2, <2>3, FlagWritten, Zenon
  <2>5. cfg["SMTPAllowInsecureAuth"] => env["SMTPAllowInsecureAuth"] = <<TRUE>>
    BY <2>1, <2>2, <2>3, FlagWritten, Zenon
  <2>. QED BY <2>4, <2>5
<1>. QED BY <1>1, StartupInvariant, PTL

-----------------------------------------------------------------------------
(* Induction over numbers and sequences, on sets *)

\* A set of numbers has a least element; every induction below is an argument on
\* the least counterexample.
LEMMA Least ==
  ASSUME NEW T \in SUBSET Nat, T # {}
  PROVE  \E x \in T : \A y \in T : x <= y
<1>1. IsWellFoundedOn(OpToRel(<, Nat), Nat)
  BY NatLessThanWellFounded
<1>2. \E x \in T : \A y \in T : ~(<<y, x>> \in OpToRel(<, Nat))
  BY <1>1, WFMin, Zenon
<1>3. ASSUME NEW x \in T, \A y \in T : ~(<<y, x>> \in OpToRel(<, Nat)) PROVE \A y \in T : x <= y
  <2>1. \A y \in T : ~(y < x)
    BY <1>3 DEF OpToRel
  <2>. QED BY <2>1
<1>. QED BY <1>2, <1>3, Zenon

\* A set that has 0 and with each number the next one has all of them.
LEMMA NatSetInduction ==
  ASSUME NEW S \in SUBSET Nat, 0 \in S, \A n \in S : n + 1 \in S
  PROVE  S = Nat
<1>. SUFFICES ASSUME Nat \ S # {} PROVE FALSE
  OBVIOUS
<1>1. PICK x \in Nat \ S : \A y \in Nat \ S : x <= y
  BY Least
<1>2. x - 1 \in Nat /\ x - 1 \notin Nat \ S
  BY <1>1
<1>. QED BY <1>1, <1>2

\* An element more at the end of a sequence.
LEMMA AppendFacts ==
  ASSUME NEW X, NEW s \in Seq(X), NEW x \in X
  PROVE  /\ Append(s, x) \in Seq(X)
         /\ Len(Append(s, x)) = Len(s) + 1
         /\ Len(s) \in Nat
         /\ Append(s, x) # <<>>
OBVIOUS

\* A set that has the empty sequence and is closed under Append has every sequence.
LEMMA SeqInduction ==
  ASSUME NEW X, NEW T \in SUBSET Seq(X), <<>> \in T,
         \A s \in T, x \in X : Append(s, x) \in T
  PROVE  T = Seq(X)
<1>. SUFFICES ASSUME NEW b \in Seq(X), b \notin T PROVE FALSE
  OBVIOUS
<1>. DEFINE L == {Len(s) : s \in Seq(X) \ T}
<1>1. L \in SUBSET Nat /\ L # {}
  <2>1. \A s \in Seq(X) : Len(s) \in Nat
    OBVIOUS
  <2>2. Len(b) \in L
    OBVIOUS
  <2>. QED BY <2>1, <2>2
<1>. HIDE DEF L
<1>2. PICK n \in L : \A m \in L : n <= m
  BY <1>1, Least
<1>3. PICK s \in Seq(X) \ T : Len(s) = n
  BY <1>2 DEF L
<1>4. PICK r \in Seq(X), x \in X : s = Append(r, x)
  BY <1>3, SequenceEmptyOrAppend
<1>5. Len(r) < n
  BY <1>3, <1>4
<1>6. r \in T
  <2>. SUFFICES ASSUME r \notin T PROVE FALSE
    OBVIOUS
  <2>1. Len(r) \in L
    BY DEF L
  <2>2. n \in Nat /\ Len(r) \in Nat
    BY <1>1, <1>2
  <2>. QED BY <1>2, <1>5, <2>1, <2>2
<1>. QED BY <1>3, <1>4, <1>6

-----------------------------------------------------------------------------
(* The loop of parseContent *)

\* The values of out, one per part already seen.
Loop(s, out) ==
  out = [i \in 0..Len(s) |-> IF i = 0 THEN Empty ELSE AppendParsed(out[i - 1], s[i])]

\* One more part is one more iteration.
LEMMA LoopExtend ==
  ASSUME NEW X, NEW s \in Seq(X), NEW x \in X, NEW out, Loop(s, out)
  PROVE  Loop(Append(s, x),
              [i \in 0..Len(s) + 1 |->
                 IF i = Len(s) + 1 THEN AppendParsed(out[Len(s)], x) ELSE out[i]])
<1>. DEFINE n == Len(s)
            t == Append(s, x)
            new == [i \in 0..n + 1 |-> IF i = n + 1 THEN AppendParsed(out[n], x) ELSE out[i]]
<1>1. n \in Nat /\ Len(t) = n + 1 /\ t[n + 1] = x /\ \A i \in 1..n : t[i] = s[i]
  OBVIOUS
<1>2. \A i \in 0..n : out[i] = IF i = 0 THEN Empty ELSE AppendParsed(out[i - 1], s[i])
  BY DEF Loop
<1>. HIDE DEF n, t
<1>3. ASSUME NEW i \in 0..n + 1
      PROVE  new[i] = IF i = 0 THEN Empty ELSE AppendParsed(new[i - 1], t[i])
  <2>1. CASE i = n + 1
    <3>1. new[i] = AppendParsed(out[n], x) /\ new[n] = out[n] /\ i # 0 /\ i - 1 = n
      BY <1>1, <2>1
    <3>. QED BY <3>1, <1>1, <2>1
  <2>2. CASE i # n + 1 /\ i # 0
    <3>1. i \in 1..n /\ i - 1 \in 0..n /\ i - 1 # n + 1
      BY <1>1, <2>2
    <3>2. new[i] = out[i] /\ new[i - 1] = out[i - 1] /\ t[i] = s[i]
      BY <1>1, <3>1
    <3>. QED BY <3>1, <3>2, <1>2, <2>2
  <2>3. CASE i = 0
    BY <1>1, <1>2, <2>3
  <2>. QED BY <2>1, <2>2, <2>3
<1>4. Loop(t, new)
  BY <1>1, <1>3 DEF Loop
<1>. QED BY <1>4 DEF n, t

\* Every sequence of parsed parts has its loop: the recursive function is defined.
LEMMA LoopExists ==
  ASSUME NEW X, NEW s \in Seq(X)
  PROVE  \E out : Loop(s, out)
<1>. DEFINE T == {r \in Seq(X) : \E out : Loop(r, out)}
<1>1. <<>> \in T
  <2>1. Loop(<<>>, [i \in 0..0 |-> Empty])
    BY DEF Loop
  <2>. QED BY <2>1
<1>2. ASSUME NEW r \in T, NEW x \in X PROVE Append(r, x) \in T
  <2>1. r \in Seq(X) /\ Append(r, x) \in Seq(X)
    BY <1>2
  <2>2. PICK out : Loop(r, out)
    BY <1>2
  <2>3. \E new : Loop(Append(r, x), new)
    BY <2>1, <2>2, LoopExtend, Zenon
  <2>. QED BY <2>1, <2>3
<1>3. T \in SUBSET Seq(X)
  OBVIOUS
<1>. HIDE DEF T
<1>4. T = Seq(X)
  BY <1>1, <1>2, <1>3, SeqInduction
<1>. QED BY <1>4 DEF T

\* The loop has one outcome.
LEMMA LoopUnique ==
  ASSUME NEW X, NEW s \in Seq(X), NEW f, NEW g, Loop(s, f), Loop(s, g)
  PROVE  f = g
<1>. SUFFICES ASSUME f # g PROVE FALSE
  OBVIOUS
<1>. DEFINE D == {i \in 0..Len(s) : f[i] # g[i]}
<1>1. Len(s) \in Nat
  OBVIOUS
<1>2. D # {}
  BY DEF Loop
<1>3. D \in SUBSET Nat
  BY <1>1
<1>. HIDE DEF D
<1>4. PICK k \in D : \A m \in D : k <= m
  BY <1>2, <1>3, Least
<1>5. k # 0
  BY <1>1, <1>4 DEF D, Loop
<1>6. k - 1 \in 0..Len(s) /\ k - 1 \notin D
  BY <1>1, <1>3, <1>4, <1>5 DEF D
<1>7. f[k - 1] = g[k - 1]
  BY <1>6 DEF D
<1>. QED BY <1>1, <1>4, <1>5, <1>7 DEF D, Loop

\* AppendAll is the last value of out, whatever function describes the loop.
LEMMA AppendAllIs ==
  ASSUME NEW X, NEW s \in Seq(X), NEW out, Loop(s, out)
  PROVE  AppendAll(s) = out[Len(s)]
<1>. DEFINE g == CHOOSE out2 : Loop(s, out2)
<1>1. Loop(s, g)
  OBVIOUS
<1>2. g = out
  BY <1>1, LoopUnique
<1>3. AppendAll(s) = g[Len(s)]
  BY DEF AppendAll, Loop
<1>. QED BY <1>2, <1>3

\* A container without parts has no content.
LEMMA AppendAllEmpty == AppendAll(<<>>) = Empty
<1>1. Loop(<<>>, [i \in 0..0 |-> Empty])
  BY DEF Loop
<1>2. <<>> \in Seq({})
  OBVIOUS
<1>3. AppendAll(<<>>) = [i \in 0..0 |-> Empty][Len(<<>>)]
  BY <1>1, <1>2, AppendAllIs
<1>. QED BY <1>3

\* The last part is appended to what the parts before it gave.
LEMMA AppendAllAppend ==
  ASSUME NEW X, NEW s \in Seq(X), NEW x \in X
  PROVE  AppendAll(Append(s, x)) = AppendParsed(AppendAll(s), x)
<1>1. PICK out : Loop(s, out)
  BY LoopExists
<1>. DEFINE new == [i \in 0..Len(s) + 1 |->
                 IF i = Len(s) + 1 THEN AppendParsed(out[Len(s)], x) ELSE out[i]]
<1>2. Loop(Append(s, x), new)
  BY <1>1, LoopExtend
<1>3. Append(s, x) \in Seq(X) /\ Len(Append(s, x)) = Len(s) + 1 /\ Len(s) \in Nat
  OBVIOUS
<1>. HIDE DEF new
<1>4. AppendAll(Append(s, x)) = new[Len(s) + 1]
  BY <1>2, <1>3, AppendAllIs
<1>5. AppendAll(s) = out[Len(s)]
  BY <1>1, AppendAllIs
<1>. QED BY <1>3, <1>4, <1>5 DEF new

-----------------------------------------------------------------------------
(* FlattenSeq, the concatenation of several sequences *)

\* The prefixes that FlattenSeq goes through.
Flat(s, f) == f = [i \in 1..Len(s) |-> IF i = 1 THEN s[i] ELSE f[i - 1] \o s[i]]

\* One more sequence is one more prefix.
LEMMA FlatExtend ==
  ASSUME NEW X, NEW s \in Seq(X), NEW x \in X, NEW f, Flat(s, f)
  PROVE  Flat(Append(s, x),
              [i \in 1..Len(s) + 1 |->
                 IF i # Len(s) + 1 THEN f[i] ELSE IF i = 1 THEN x ELSE f[Len(s)] \o x])
<1>. DEFINE n == Len(s)
            t == Append(s, x)
            new == [i \in 1..n + 1 |->
                      IF i # n + 1 THEN f[i] ELSE IF i = 1 THEN x ELSE f[n] \o x]
<1>1. n \in Nat /\ Len(t) = n + 1 /\ t[n + 1] = x /\ \A i \in 1..n : t[i] = s[i]
  OBVIOUS
<1>2. \A i \in 1..n : f[i] = IF i = 1 THEN s[i] ELSE f[i - 1] \o s[i]
  BY DEF Flat
<1>. HIDE DEF n, t
<1>3. ASSUME NEW i \in 1..n + 1
      PROVE  new[i] = IF i = 1 THEN t[i] ELSE new[i - 1] \o t[i]
  <2>1. CASE i = 1
    BY <1>1, <1>2, <2>1
  <2>2. CASE i = n + 1 /\ i # 1
    <3>1. n \in 1..n + 1 /\ n # n + 1 /\ i - 1 = n
      BY <1>1, <2>2
    <3>2. new[i] = f[n] \o x /\ new[n] = f[n]
      BY <2>2, <3>1
    <3>. QED BY <1>1, <2>2, <3>1, <3>2
  <2>3. CASE i # n + 1 /\ i # 1
    <3>1. i \in 1..n /\ i - 1 \in 1..n /\ i - 1 # n + 1
      BY <1>1, <2>3
    <3>2. new[i] = f[i] /\ new[i - 1] = f[i - 1] /\ t[i] = s[i]
      BY <1>1, <3>1
    <3>. QED BY <3>1, <3>2, <1>2, <2>3
  <2>. QED BY <2>1, <2>2, <2>3
<1>4. Flat(t, new)
  BY <1>1, <1>3 DEF Flat
<1>. QED BY <1>4 DEF n, t

\* The prefixes exist.
LEMMA FlatExists ==
  ASSUME NEW X, NEW s \in Seq(X)
  PROVE  \E f : Flat(s, f)
<1>. DEFINE T == {r \in Seq(X) : \E f : Flat(r, f)}
<1>1. <<>> \in T
  <2>1. Flat(<<>>, [i \in 1..0 |-> 0])
    BY DEF Flat
  <2>. QED BY <2>1
<1>2. ASSUME NEW r \in T, NEW x \in X PROVE Append(r, x) \in T
  <2>1. r \in Seq(X) /\ Append(r, x) \in Seq(X)
    BY <1>2
  <2>2. PICK f : Flat(r, f)
    BY <1>2
  <2>3. \E new : Flat(Append(r, x), new)
    BY <2>1, <2>2, FlatExtend, Zenon
  <2>. QED BY <2>1, <2>3
<1>3. T \in SUBSET Seq(X)
  OBVIOUS
<1>. HIDE DEF T
<1>4. T = Seq(X)
  BY <1>1, <1>2, <1>3, SeqInduction
<1>. QED BY <1>4 DEF T

\* The prefixes are determined.
LEMMA FlatUnique ==
  ASSUME NEW X, NEW s \in Seq(X), NEW f, NEW g, Flat(s, f), Flat(s, g)
  PROVE  f = g
<1>. SUFFICES ASSUME f # g PROVE FALSE
  OBVIOUS
<1>. DEFINE D == {i \in 1..Len(s) : f[i] # g[i]}
<1>1. Len(s) \in Nat
  OBVIOUS
<1>2. D # {}
  <2>1. f = [i \in 1..Len(s) |-> f[i]] /\ g = [i \in 1..Len(s) |-> g[i]]
    BY Zenon DEF Flat
  <2>. QED BY <2>1
<1>3. D \in SUBSET Nat
  BY <1>1
<1>. HIDE DEF D
<1>4. PICK k \in D : \A m \in D : k <= m
  BY <1>2, <1>3, Least
<1>5. k # 1
  BY <1>1, <1>4 DEF D, Flat
<1>6. k - 1 \in 1..Len(s) /\ k - 1 \notin D
  BY <1>1, <1>3, <1>4, <1>5 DEF D
<1>7. f[k - 1] = g[k - 1]
  BY <1>6 DEF D
<1>8. k \in 1..Len(s) /\ f[k] # g[k]
  BY <1>4 DEF D
<1>9. f[k] = f[k - 1] \o s[k] /\ g[k] = g[k - 1] \o s[k]
  BY <1>5, <1>8, Zenon DEF Flat
<1>. QED BY <1>7, <1>8, <1>9

\* Nothing to concatenate.
LEMMA FlattenEmpty == FlattenSeq(<<>>) = <<>>
BY DEF FlattenSeq

\* FlattenSeq is the last of the prefixes.
LEMMA FlattenIs ==
  ASSUME NEW X, NEW s \in Seq(X), NEW f, Flat(s, f), s # <<>>
  PROVE  FlattenSeq(s) = f[Len(s)]
<1>. DEFINE g == CHOOSE h : Flat(s, h)
<1>1. Flat(s, g)
  OBVIOUS
<1>2. g = f
  BY <1>1, FlatUnique
<1>3. Len(s) # 0
  OBVIOUS
<1>4. FlattenSeq(s) = g[Len(s)]
  BY <1>3 DEF FlattenSeq, Flat
<1>. QED BY <1>2, <1>4

\* The last sequence comes last.
LEMMA FlattenAppend ==
  ASSUME NEW X, NEW s \in Seq(Seq(X)), NEW x \in Seq(X)
  PROVE  FlattenSeq(Append(s, x)) = FlattenSeq(s) \o x
<1>1. PICK f : Flat(s, f)
  BY FlatExists
<1>. DEFINE new == [i \in 1..Len(s) + 1 |->
                 IF i # Len(s) + 1 THEN f[i] ELSE IF i = 1 THEN x ELSE f[Len(s)] \o x]
<1>2. Flat(Append(s, x), new)
  BY <1>1, FlatExtend
<1>3. /\ Append(s, x) \in Seq(Seq(X)) /\ Len(Append(s, x)) = Len(s) + 1 /\ Len(s) \in Nat
      /\ Append(s, x) # <<>>
  BY AppendFacts
<1>4. new[Len(s) + 1] = IF Len(s) = 0 THEN x ELSE f[Len(s)] \o x
  BY <1>3
<1>. HIDE DEF new
<1>5. FlattenSeq(Append(s, x)) = new[Len(s) + 1]
  BY <1>2, <1>3, FlattenIs
<1>6. CASE s = <<>>
  BY <1>4, <1>5, <1>6, FlattenEmpty
<1>7. CASE s # <<>>
  <2>1. Len(s) # 0
    BY <1>7
  <2>2. FlattenSeq(s) = f[Len(s)]
    BY <1>1, <1>7, FlattenIs
  <2>. QED BY <1>4, <1>5, <2>1, <2>2
<1>. QED BY <1>6, <1>7

\* The elements are those of the sequences.
LEMMA FlattenType ==
  ASSUME NEW X, NEW s \in Seq(Seq(X))
  PROVE  FlattenSeq(s) \in Seq(X)
<1>. DEFINE T == {r \in Seq(Seq(X)) : FlattenSeq(r) \in Seq(X)}
<1>0. <<>> \in Seq(X) /\ <<>> \in Seq(Seq(X))
  BY EmptySeq
<1>1. <<>> \in T
  BY <1>0, FlattenEmpty
<1>2. ASSUME NEW r \in T, NEW x \in Seq(X) PROVE Append(r, x) \in T
  <2>1. r \in Seq(Seq(X)) /\ FlattenSeq(r) \in Seq(X)
    BY <1>2
  <2>2. Append(r, x) \in Seq(Seq(X))
    BY <2>1, AppendFacts
  <2>3. FlattenSeq(Append(r, x)) = FlattenSeq(r) \o x
    BY <2>1, FlattenAppend
  <2>4. FlattenSeq(r) \o x \in Seq(X)
    BY <2>1
  <2>. QED BY <2>2, <2>3, <2>4
<1>3. T \in SUBSET Seq(Seq(X))
  OBVIOUS
<1>. HIDE DEF T
<1>4. T = Seq(Seq(X))
  BY <1>1, <1>2, <1>3, SeqInduction
<1>. QED BY <1>4 DEF T

\* Flattening goes through concatenation.
LEMMA FlattenConcat ==
  ASSUME NEW X, NEW a \in Seq(Seq(X)), NEW b \in Seq(Seq(X))
  PROVE  FlattenSeq(a \o b) = FlattenSeq(a) \o FlattenSeq(b)
<1>. DEFINE T == {r \in Seq(Seq(X)) : FlattenSeq(a \o r) = FlattenSeq(a) \o FlattenSeq(r)}
<1>1. <<>> \in T
  <2>1. a \o <<>> = a /\ FlattenSeq(a) \o <<>> = FlattenSeq(a)
    BY FlattenType
  <2>2. <<>> \in Seq(Seq(X))
    BY EmptySeq
  <2>. QED BY <2>1, <2>2, FlattenEmpty
<1>2. ASSUME NEW r \in T, NEW x \in Seq(X) PROVE Append(r, x) \in T
  <2>0. r \in Seq(Seq(X)) /\ a \o r \in Seq(Seq(X))
    BY <1>2
  <2>1. a \o Append(r, x) = Append(a \o r, x)
    BY <2>0
  <2>2. FlattenSeq(a \o Append(r, x)) = (FlattenSeq(a) \o FlattenSeq(r)) \o x
    BY <1>2, <2>0, <2>1, FlattenAppend
  <2>3. (FlattenSeq(a) \o FlattenSeq(r)) \o x = FlattenSeq(a) \o (FlattenSeq(r) \o x)
    <3>1. FlattenSeq(a) \in Seq(X) /\ FlattenSeq(r) \in Seq(X)
      BY <2>0, FlattenType
    <3>. QED BY <3>1, ConcatAssociative
  <2>4. FlattenSeq(r) \o x = FlattenSeq(Append(r, x))
    BY <2>0, FlattenAppend
  <2>5. Append(r, x) \in Seq(Seq(X))
    BY <2>0, AppendFacts
  <2>. QED BY <2>2, <2>3, <2>4, <2>5
<1>3. T \in SUBSET Seq(Seq(X))
  OBVIOUS
<1>. HIDE DEF T
<1>4. T = Seq(Seq(X))
  BY <1>1, <1>2, <1>3, SeqInduction
<1>. QED BY <1>4 DEF T

-----------------------------------------------------------------------------
(* Recursion over the parts of a message *)

\* What holds of a part when it holds of the parts inside it holds of every part:
\* a counterexample of least depth would have none inside it.
LEMMA TreeInduction ==
  ASSUME NEW T \in SUBSET Parts,
         ASSUME NEW p \in Parts,
                p.type = "multipart" => \A i \in DOMAIN p.parts : p.parts[i] \in T
         PROVE  p \in T
  PROVE  T = Parts
<1>. SUFFICES ASSUME NEW b \in Parts, b \notin T PROVE FALSE
  OBVIOUS
<1>. DEFINE D == {Depth[p] : p \in Parts \ T}
<1>1. D \in SUBSET Nat
  BY DepthAssumption
<1>2. D # {}
  OBVIOUS
<1>. HIDE DEF D
<1>3. PICK d \in D : \A e \in D : d <= e
  BY <1>1, <1>2, Least
<1>4. PICK p \in Parts \ T : Depth[p] = d
  BY <1>3 DEF D
<1>5. ASSUME p.type = "multipart", NEW i \in DOMAIN p.parts PROVE p.parts[i] \in T
  <2>1. p.parts[i] \in Parts
    BY <1>4, <1>5, PartsAssumption
  <2>2. Depth[p.parts[i]] < d
    BY <1>4, <1>5, DepthAssumption
  <2>3. SUFFICES ASSUME p.parts[i] \notin T PROVE FALSE
    OBVIOUS
  <2>4. Depth[p.parts[i]] \in D
    BY <2>1, <2>3 DEF D
  <2>. QED BY <1>1, <1>3, <2>2, <2>4
<1>. QED BY <1>4, <1>5

\* A function at every element of a sequence.
MapSeq(f, s) == [i \in DOMAIN s |-> f[s[i]]]

\* The values of a function on parts, along a sequence of parts.
LEMMA MapType ==
  ASSUME NEW Y, NEW f \in [Parts -> Y], NEW s \in Seq(Parts)
  PROVE  MapSeq(f, s) \in Seq(Y)
<1>1. DOMAIN s = 1..Len(s) /\ Len(s) \in Nat /\ \A i \in 1..Len(s) : f[s[i]] \in Y
  OBVIOUS
<1>. QED BY <1>1, IsASeq DEF MapSeq

\* One more part is one more value.
LEMMA MapAppend ==
  ASSUME NEW Y, NEW f \in [Parts -> Y], NEW s \in Seq(Parts), NEW x \in Parts
  PROVE  MapSeq(f, Append(s, x)) = Append(MapSeq(f, s), f[x])
<1>. DEFINE n == Len(s)
            t == Append(s, x)
            u == MapSeq(f, s)
<1>1. /\ n \in Nat /\ DOMAIN s = 1..n /\ DOMAIN t = 1..n + 1 /\ t[n + 1] = x
      /\ \A i \in 1..n : t[i] = s[i]
  OBVIOUS
<1>2. u \in Seq(Y) /\ Len(u) = n /\ \A i \in 1..n : u[i] = f[s[i]]
  <2>1. u = [i \in 1..n |-> f[s[i]]]
    BY <1>1 DEF MapSeq
  <2>2. u \in Seq(Y)
    BY MapType
  <2>. QED BY <1>1, <2>1, <2>2
<1>. HIDE DEF n, t, u
<1>3. MapSeq(f, t) = [i \in 1..n + 1 |-> f[t[i]]]
  BY <1>1 DEF MapSeq
<1>4. Append(u, f[x]) = [i \in 1..n + 1 |-> IF i = n + 1 THEN f[x] ELSE u[i]]
  BY <1>1, <1>2
<1>5. \A i \in 1..n + 1 : f[t[i]] = IF i = n + 1 THEN f[x] ELSE u[i]
  BY <1>1, <1>2
<1>6. MapSeq(f, t) = Append(u, f[x])
  BY <1>3, <1>4, <1>5
<1>. QED BY <1>6 DEF t, u

\* What a function says of the parts inside a container.
Children(f, p) == MapSeq(f, p.parts)

\* The values at the parts inside a container are a sequence.
LEMMA ChildrenType ==
  ASSUME NEW V, NEW f \in [Parts -> V], NEW p \in Parts, p.type = "multipart"
  PROVE  Children(f, p) \in Seq(V)
BY PartsAssumption, MapType DEF Children

\* Functions that agree on the parts inside a container say the same of them.
LEMMA SameChildren ==
  ASSUME NEW f, NEW g, NEW p, \A i \in DOMAIN p.parts : f[p.parts[i]] = g[p.parts[i]]
  PROVE  Children(f, p) = Children(g, p)
BY DEF Children, MapSeq

\* One step of a recursion over parts: a leaf has its value, a container one that
\* depends on the values of its parts.
TreeStep(leaf, node, f, p) ==
  IF p.type # "multipart" THEN leaf[p] ELSE node[p][Children(f, p)]

\* The recursion holds for the parts nested less than d deep.
Approx(leaf, node, f, d) ==
  \A p \in Parts : Depth[p] < d => f[p] = TreeStep(leaf, node, f, p)

\* Two functions agree where both obey the recursion.
LEMMA ApproxAgree ==
  ASSUME NEW leaf, NEW node, NEW f, NEW g, NEW d \in Nat, NEW e \in Nat,
         Approx(leaf, node, f, d), Approx(leaf, node, g, e)
  PROVE  \A p \in Parts : Depth[p] < d /\ Depth[p] < e => f[p] = g[p]
<1>. DEFINE T == {p \in Parts : Depth[p] < d /\ Depth[p] < e => f[p] = g[p]}
<1>1. ASSUME NEW p \in Parts,
             p.type = "multipart" => \A i \in DOMAIN p.parts : p.parts[i] \in T
      PROVE  p \in T
  <2>. SUFFICES ASSUME Depth[p] < d, Depth[p] < e PROVE f[p] = g[p]
    OBVIOUS
  <2>1. f[p] = TreeStep(leaf, node, f, p) /\ g[p] = TreeStep(leaf, node, g, p)
    BY DEF Approx
  <2>2. CASE p.type = "multipart"
    <3>1. ASSUME NEW i \in DOMAIN p.parts PROVE f[p.parts[i]] = g[p.parts[i]]
      <4>1. p.parts[i] \in T
        BY <1>1, <2>2
      <4>2. p.parts[i] \in Parts
        BY <2>2, PartsAssumption
      <4>3. Depth[p.parts[i]] < Depth[p] /\ Depth[p] \in Nat /\ Depth[p.parts[i]] \in Nat
        BY <2>2, <4>2, DepthAssumption
      <4>. QED BY <4>1, <4>3
    <3>2. Children(f, p) = Children(g, p)
      BY <3>1, SameChildren
    <3>. QED BY <2>1, <3>2 DEF TreeStep
  <2>3. CASE p.type # "multipart"
    BY <2>1, <2>3 DEF TreeStep
  <2>. QED BY <2>2, <2>3
<1>2. T \in SUBSET Parts
  OBVIOUS
<1>. HIDE DEF T
<1>3. T = Parts
  BY <1>1, <1>2, TreeInduction
<1>. QED BY <1>3 DEF T

\* For every depth there is a function that obeys the recursion so far.
LEMMA ApproxExists ==
  ASSUME NEW V, NEW leaf \in [Parts -> V], NEW node \in [Parts -> [Seq(V) -> V]],
         NEW d \in Nat
  PROVE  \E f \in [Parts -> V] : Approx(leaf, node, f, d)
<1>. DEFINE S == {n \in Nat : \E f \in [Parts -> V] : Approx(leaf, node, f, n)}
<1>1. 0 \in S
  <2>1. Approx(leaf, node, leaf, 0)
    BY DepthAssumption DEF Approx
  <2>. QED BY <2>1
<1>2. ASSUME NEW n \in S PROVE n + 1 \in S
  <2>1. PICK f \in [Parts -> V] : Approx(leaf, node, f, n)
    BY <1>2
  <2>. DEFINE g == [p \in Parts |-> TreeStep(leaf, node, f, p)]
  <2>2. g \in [Parts -> V]
    <3>. SUFFICES ASSUME NEW p \in Parts PROVE TreeStep(leaf, node, f, p) \in V
      OBVIOUS
    <3>1. CASE p.type = "multipart"
      <4>1. Children(f, p) \in Seq(V)
        BY <3>1, ChildrenType
      <4>. QED BY <3>1, <4>1 DEF TreeStep
    <3>. QED BY <3>1 DEF TreeStep
  <2>3. ASSUME NEW p \in Parts, Depth[p] < n + 1
        PROVE  g[p] = TreeStep(leaf, node, g, p)
    <3>1. g[p] = TreeStep(leaf, node, f, p)
      OBVIOUS
    <3>2. CASE p.type = "multipart"
      <4>1. ASSUME NEW i \in DOMAIN p.parts PROVE g[p.parts[i]] = f[p.parts[i]]
        <5>1. p.parts[i] \in Parts
          BY <3>2, PartsAssumption
        <5>2. Depth[p.parts[i]] < n
          BY <2>3, <3>2, <5>1, DepthAssumption, <1>2
        <5>. QED BY <2>1, <5>1, <5>2 DEF Approx
      <4>2. Children(g, p) = Children(f, p)
        BY <4>1, SameChildren
      <4>. QED BY <3>1, <4>2 DEF TreeStep
    <3>3. CASE p.type # "multipart"
      BY <3>1, <3>3 DEF TreeStep
    <3>. QED BY <3>2, <3>3
  <2>. HIDE DEF g
  <2>4. Approx(leaf, node, g, n + 1)
    BY <2>3 DEF Approx
  <2>. QED BY <1>2, <2>2, <2>4
<1>3. S \in SUBSET Nat
  OBVIOUS
<1>. HIDE DEF S
<1>4. S = Nat
  BY <1>1, <1>2, <1>3, NatSetInduction
<1>. QED BY <1>4 DEF S

\* Every recursion over the parts has a solution, however deep they are nested.
LEMMA TreeRecursion ==
  ASSUME NEW V, NEW leaf \in [Parts -> V], NEW node \in [Parts -> [Seq(V) -> V]]
  PROVE  \E f \in [Parts -> V] : \A p \in Parts : f[p] = TreeStep(leaf, node, f, p)
<1>. DEFINE upTo(p) == CHOOSE f \in [Parts -> V] : Approx(leaf, node, f, Depth[p] + 1)
            f == [p \in Parts |-> upTo(p)[p]]
<1>1. ASSUME NEW p \in Parts
      PROVE  /\ upTo(p) \in [Parts -> V]
             /\ Approx(leaf, node, upTo(p), Depth[p] + 1)
             /\ Depth[p] \in Nat /\ Depth[p] + 1 \in Nat
  <2>1. Depth[p] \in Nat /\ Depth[p] + 1 \in Nat
    BY DepthAssumption
  <2>2. \E h \in [Parts -> V] : Approx(leaf, node, h, Depth[p] + 1)
    BY <2>1, ApproxExists
  <2>. QED BY <2>1, <2>2
<1>. HIDE DEF upTo
<1>2. f \in [Parts -> V]
  BY <1>1
<1>3. ASSUME NEW p \in Parts PROVE f[p] = TreeStep(leaf, node, f, p)
  <2>1. f[p] = upTo(p)[p]
    OBVIOUS
  <2>2. upTo(p)[p] = TreeStep(leaf, node, upTo(p), p)
    BY <1>1 DEF Approx
  <2>3. CASE p.type = "multipart"
    <3>1. ASSUME NEW i \in DOMAIN p.parts PROVE f[p.parts[i]] = upTo(p)[p.parts[i]]
      <4>. DEFINE q == p.parts[i]
      <4>1. q \in Parts
        BY <2>3, PartsAssumption
      <4>2. Depth[q] < Depth[p]
        BY <2>3, DepthAssumption
      <4>. HIDE DEF q
      <4>3. f[q] = upTo(q)[q]
        BY <4>1
      <4>4. Depth[q] < Depth[q] + 1 /\ Depth[q] < Depth[p] + 1
        BY <1>1, <4>1, <4>2
      <4>5. upTo(q)[q] = upTo(p)[q]
        BY <1>1, <4>1, <4>4, ApproxAgree
      <4>. QED BY <4>3, <4>5 DEF q
    <3>2. Children(f, p) = Children(upTo(p), p)
      BY <3>1, SameChildren
    <3>. QED BY <2>1, <2>2, <3>2 DEF TreeStep
  <2>4. CASE p.type # "multipart"
    BY <2>1, <2>2, <2>4 DEF TreeStep
  <2>. QED BY <2>3, <2>4
<1>. HIDE DEF f
<1>. QED BY <1>2, <1>3

-----------------------------------------------------------------------------
(* parseContent and its reference are defined for every part *)

\* The bodies of the parts, and what parseContent returns.
Atoms == {p.body : p \in Parts}

Content == [ok : BOOLEAN, text : Seq(Atoms), html : Seq(Atoms), attachments : Seq(Parts)]

\* Joined bodies are bodies.
LEMMA JoinType ==
  ASSUME NEW X, NEW a \in Seq(X), NEW b \in Seq(X)
  PROVE  Join(a, b) \in Seq(X)
BY DEF Join

\* The content before the first part, and that of a failure.
LEMMA EmptyType == Empty \in Content /\ Failed \in Content
<1>1. Failed \in Content
  BY DEF Failed, Content
<1>2. TRUE \in BOOLEAN
  OBVIOUS
<1>3. Empty \in Content
  BY <1>1, <1>2 DEF Empty, Content
<1>. QED BY <1>1, <1>3

\* Appending contents gives a content.
LEMMA AppendParsedType ==
  ASSUME NEW a \in Content, NEW b \in Content
  PROVE  AppendParsed(a, b) \in Content
<1>1. Failed \in Content
  BY EmptyType
<1>2. /\ Join(a.text, b.text) \in Seq(Atoms)
      /\ Join(a.html, b.html) \in Seq(Atoms)
      /\ a.attachments \o b.attachments \in Seq(Parts)
  BY JoinType DEF Content
<1>. QED BY <1>1, <1>2 DEF AppendParsed, Content

\* So does the loop.
LEMMA AppendAllType ==
  ASSUME NEW s \in Seq(Content)
  PROVE  AppendAll(s) \in Content
<1>. DEFINE T == {r \in Seq(Content) : AppendAll(r) \in Content}
<1>1. <<>> \in T
  BY AppendAllEmpty, EmptyType, EmptySeq
<1>2. ASSUME NEW r \in T, NEW x \in Content PROVE Append(r, x) \in T
  <2>1. r \in Seq(Content) /\ AppendAll(r) \in Content
    BY <1>2
  <2>2. Append(r, x) \in Seq(Content)
    BY <2>1, AppendFacts
  <2>3. AppendAll(Append(r, x)) = AppendParsed(AppendAll(r), x)
    BY <2>1, AppendAllAppend
  <2>. QED BY <2>1, <2>2, <2>3, AppendParsedType
<1>3. T \in SUBSET Seq(Content)
  OBVIOUS
<1>. HIDE DEF T
<1>4. T = Seq(Content)
  BY <1>1, <1>2, <1>3, SeqInduction
<1>. QED BY <1>4 DEF T

\* And so does a leaf.
LEMMA ParseLeafType ==
  ASSUME NEW p \in Parts
  PROVE  ParseLeaf(p) \in Content
<1>1. <<p>> \in Seq(Parts) /\ <<p.body>> \in Seq(Atoms)
  BY DEF Atoms
<1>2. /\ [Empty EXCEPT !.attachments = <<p>>] \in Content
      /\ [Empty EXCEPT !.text = <<p.body>>] \in Content
      /\ [Empty EXCEPT !.html = <<p.body>>] \in Content
  BY <1>1, EmptyType DEF Content
<1>. QED BY <1>2, EmptyType DEF ParseLeaf

\* The body of parseContent, with f for the recursive calls.
ParseStep(f, p) ==
  IF p.type # "multipart" THEN ParseLeaf(p)
  ELSE IF ~p.decodes \/ ~p.boundary THEN Failed
  ELSE AppendAll(Children(f, p))

\* ParseContent obeys its definition on every part, and its values are contents.
LEMMA ParseContentIs ==
  /\ ParseContent \in [Parts -> Content]
  /\ \A p \in Parts : ParseContent[p] = ParseStep(ParseContent, p)
<1>. DEFINE leaf == [p \in Parts |-> ParseLeaf(p)]
            node == [p \in Parts |-> [s \in Seq(Content) |->
                       IF ~p.decodes \/ ~p.boundary THEN Failed ELSE AppendAll(s)]]
<1>1. leaf \in [Parts -> Content]
  BY ParseLeafType
<1>2. node \in [Parts -> [Seq(Content) -> Content]]
  BY AppendAllType, EmptyType
<1>. HIDE DEF leaf, node
<1>3. PICK f \in [Parts -> Content] : \A p \in Parts : f[p] = TreeStep(leaf, node, f, p)
  BY <1>1, <1>2, TreeRecursion
<1>4. ASSUME NEW p \in Parts PROVE f[p] = ParseStep(f, p)
  <2>1. CASE p.type = "multipart"
    <3>1. Children(f, p) \in Seq(Content)
      BY <2>1, ChildrenType
    <3>2. node[p][Children(f, p)] =
            IF ~p.decodes \/ ~p.boundary THEN Failed ELSE AppendAll(Children(f, p))
      BY <3>1 DEF node
    <3>. QED BY <1>3, <2>1, <3>2 DEF TreeStep, ParseStep
  <2>2. CASE p.type # "multipart"
    BY <1>3, <2>2 DEF TreeStep, ParseStep, leaf
  <2>. QED BY <2>1, <2>2
<1>5. f = [p \in Parts |-> ParseStep(f, p)]
  BY <1>4
<1>6. ParseContent = CHOOSE g : g = [p \in Parts |-> ParseStep(g, p)]
  BY DEF ParseContent, ParseStep, Children, MapSeq
<1>7. ParseContent = [p \in Parts |-> ParseStep(ParseContent, p)]
  BY <1>5, <1>6
<1>8. f = ParseContent
  <2>. DEFINE T == {p \in Parts : f[p] = ParseContent[p]}
  <2>1. ASSUME NEW p \in Parts,
               p.type = "multipart" => \A i \in DOMAIN p.parts : p.parts[i] \in T
        PROVE  p \in T
    <3>1. f[p] = ParseStep(f, p) /\ ParseContent[p] = ParseStep(ParseContent, p)
      BY <1>4, <1>7
    <3>2. CASE p.type = "multipart"
      <4>1. \A i \in DOMAIN p.parts : f[p.parts[i]] = ParseContent[p.parts[i]]
        BY <2>1, <3>2
      <4>2. Children(f, p) = Children(ParseContent, p)
        BY <4>1, SameChildren
      <4>. QED BY <3>1, <4>2 DEF ParseStep
    <3>3. CASE p.type # "multipart"
      BY <3>1, <3>3 DEF ParseStep
    <3>. QED BY <3>2, <3>3
  <2>2. T \in SUBSET Parts
    OBVIOUS
  <2>. HIDE DEF T
  <2>3. T = Parts
    BY <2>1, <2>2, TreeInduction
  <2>. QED BY <1>3, <1>7, <2>3 DEF T
<1>. QED BY <1>4, <1>8

\* The definition of Leaves, with f for the recursive uses.
LeavesStep(f, p) ==
  IF p.type # "multipart" THEN <<p>> ELSE FlattenSeq(Children(f, p))

\* Leaves obeys its definition on every part.
LEMMA LeavesIs ==
  /\ Leaves \in [Parts -> Seq(Parts)]
  /\ \A p \in Parts : Leaves[p] = LeavesStep(Leaves, p)
<1>. DEFINE leaf == [p \in Parts |-> <<p>>]
            node == [p \in Parts |-> [s \in Seq(Seq(Parts)) |-> FlattenSeq(s)]]
<1>1. leaf \in [Parts -> Seq(Parts)]
  OBVIOUS
<1>2. node \in [Parts -> [Seq(Seq(Parts)) -> Seq(Parts)]]
  BY FlattenType
<1>. HIDE DEF leaf, node
<1>3. PICK f \in [Parts -> Seq(Parts)] : \A p \in Parts : f[p] = TreeStep(leaf, node, f, p)
  BY <1>1, <1>2, TreeRecursion
<1>4. ASSUME NEW p \in Parts PROVE f[p] = LeavesStep(f, p)
  <2>1. CASE p.type = "multipart"
    <3>1. Children(f, p) \in Seq(Seq(Parts))
      BY <2>1, ChildrenType
    <3>2. node[p][Children(f, p)] = FlattenSeq(Children(f, p))
      BY <3>1 DEF node
    <3>. QED BY <1>3, <2>1, <3>2 DEF TreeStep, LeavesStep
  <2>2. CASE p.type # "multipart"
    BY <1>3, <2>2 DEF TreeStep, LeavesStep, leaf
  <2>. QED BY <2>1, <2>2
<1>5. f = [p \in Parts |-> LeavesStep(f, p)]
  BY <1>4
<1>6. Leaves = CHOOSE g : g = [p \in Parts |-> LeavesStep(g, p)]
  BY DEF Leaves, LeavesStep, Children, MapSeq
<1>7. Leaves = [p \in Parts |-> LeavesStep(Leaves, p)]
  BY <1>5, <1>6
<1>8. f = Leaves
  <2>. DEFINE T == {p \in Parts : f[p] = Leaves[p]}
  <2>1. ASSUME NEW p \in Parts,
               p.type = "multipart" => \A i \in DOMAIN p.parts : p.parts[i] \in T
        PROVE  p \in T
    <3>1. f[p] = LeavesStep(f, p) /\ Leaves[p] = LeavesStep(Leaves, p)
      BY <1>4, <1>7
    <3>2. CASE p.type = "multipart"
      <4>1. \A i \in DOMAIN p.parts : f[p.parts[i]] = Leaves[p.parts[i]]
        BY <2>1, <3>2
      <4>2. Children(f, p) = Children(Leaves, p)
        BY <4>1, SameChildren
      <4>. QED BY <3>1, <4>2 DEF LeavesStep
    <3>3. CASE p.type # "multipart"
      BY <3>1, <3>3 DEF LeavesStep
    <3>. QED BY <3>2, <3>3
  <2>2. T \in SUBSET Parts
    OBVIOUS
  <2>. HIDE DEF T
  <2>3. T = Parts
    BY <2>1, <2>2, TreeInduction
  <2>. QED BY <1>3, <1>7, <2>3 DEF T
<1>. QED BY <1>4, <1>8

-----------------------------------------------------------------------------
(* What parseContent keeps *)

\* The content has what the leaves have.
Kept(content, leaves) ==
  /\ content.attachments = Attached(leaves)
  /\ Range(content.text) = Bodies(leaves, "text")
  /\ Range(content.html) = Bodies(leaves, "html")

\* Leaving out a repeated text loses no body.
LEMMA JoinRange ==
  ASSUME NEW X, NEW a \in Seq(X), NEW b \in Seq(X)
  PROVE  Range(Join(a, b)) = Range(a) \cup Range(b)
<1>1. Range(<<>>) = {}
  BY DEF Range
<1>2. Range(a \o b) = Range(a) \cup Range(b)
  BY RangeConcatenation
<1>. QED BY <1>1, <1>2 DEF Join

\* The bodies of leaves go through concatenation.
LEMMA BodiesConcat ==
  ASSUME NEW a \in Seq(Parts), NEW b \in Seq(Parts), NEW type
  PROVE  Bodies(a \o b, type) = Bodies(a, type) \cup Bodies(b, type)
<1>1. Range(a \o b) = Range(a) \cup Range(b)
  BY RangeConcatenation
<1>. QED BY <1>1 DEF Bodies

\* Each leaf as a sequence of its own, empty unless it is an attachment.
Marked(leaves) ==
  [i \in DOMAIN leaves |-> IF leaves[i].file # "none" THEN <<leaves[i]>> ELSE <<>>]

\* The marks of some leaves.
LEMMA MarkedType ==
  ASSUME NEW a \in Seq(Parts)
  PROVE  /\ Marked(a) \in Seq(Seq(Parts))
         /\ Len(Marked(a)) = Len(a)
<1>1. \A i \in 1..Len(a) : (IF a[i].file # "none" THEN <<a[i]>> ELSE <<>>) \in Seq(Parts)
  OBVIOUS
<1>2. DOMAIN a = 1..Len(a) /\ Len(a) \in Nat
  OBVIOUS
<1>3. Marked(a) \in Seq(Seq(Parts))
  BY <1>1, <1>2, IsASeq DEF Marked
<1>4. DOMAIN Marked(a) = 1..Len(a)
  BY <1>2 DEF Marked
<1>. QED BY <1>2, <1>3, <1>4

\* The attachments of leaves go through concatenation.
LEMMA AttachedConcat ==
  ASSUME NEW a \in Seq(Parts), NEW b \in Seq(Parts)
  PROVE  Attached(a \o b) = Attached(a) \o Attached(b)
<1>0. a \o b \in Seq(Parts) /\ Len(a \o b) = Len(a) + Len(b) /\ Len(a) \in Nat /\ Len(b) \in Nat
  OBVIOUS
<1>1. Marked(a \o b) = Marked(a) \o Marked(b)
  <2>0. Len(Marked(a) \o Marked(b)) = Len(Marked(a)) + Len(Marked(b))
    BY MarkedType, ConcatProperties
  <2>1. Len(Marked(a \o b)) = Len(Marked(a) \o Marked(b))
    BY <1>0, <2>0, MarkedType
  <2>2. ASSUME NEW i \in 1..Len(Marked(a \o b))
        PROVE  Marked(a \o b)[i] = (Marked(a) \o Marked(b))[i]
    <3>0. i \in 1..Len(a) + Len(b) /\ i \in DOMAIN (a \o b)
      <4>1. Len(Marked(a \o b)) = Len(a) + Len(b)
        BY <1>0, MarkedType
      <4>2. DOMAIN (a \o b) = 1..Len(a) + Len(b)
        BY <1>0
      <4>. QED BY <4>1, <4>2
    <3>1. Marked(a \o b)[i] = IF (a \o b)[i].file # "none" THEN <<(a \o b)[i]>> ELSE <<>>
      BY <3>0 DEF Marked
    <3>2. CASE i <= Len(a)
      <4>1. i \in 1..Len(a) /\ i \in DOMAIN a
        BY <1>0, <3>0, <3>2
      <4>2. (a \o b)[i] = a[i]
        BY <4>1
      <4>3. (Marked(a) \o Marked(b))[i] = Marked(a)[i]
        BY <4>1, MarkedType, ConcatProperties
      <4>4. Marked(a)[i] = IF a[i].file # "none" THEN <<a[i]>> ELSE <<>>
        BY <4>1 DEF Marked
      <4>. QED BY <3>1, <4>2, <4>3, <4>4
    <3>3. CASE ~(i <= Len(a))
      <4>. DEFINE k == i - Len(a)
      <4>1. k \in 1..Len(b) /\ k \in DOMAIN b
        BY <1>0, <3>0, <3>3
      <4>2. (a \o b)[i] = b[k]
        BY <1>0, <3>0, <3>3
      <4>3. (Marked(a) \o Marked(b))[i] = Marked(b)[k]
        BY <1>0, <3>0, <3>3, MarkedType, ConcatProperties
      <4>4. Marked(b)[k] = IF b[k].file # "none" THEN <<b[k]>> ELSE <<>>
        BY <4>1 DEF Marked
      <4>. QED BY <3>1, <4>2, <4>3, <4>4
    <3>. QED BY <3>2, <3>3
  <2>3. Marked(a \o b) \in Seq(Seq(Parts)) /\ Marked(a) \o Marked(b) \in Seq(Seq(Parts))
    BY <1>0, MarkedType, ConcatProperties
  <2>. QED BY <2>1, <2>2, <2>3, SeqEqual
<1>2. FlattenSeq(Marked(a) \o Marked(b)) = FlattenSeq(Marked(a)) \o FlattenSeq(Marked(b))
  BY MarkedType, FlattenConcat
<1>. QED BY <1>1, <1>2 DEF Attached, Marked

\* No leaves, no attachments.
LEMMA AttachedEmpty == Attached(<<>>) = <<>>
<1>1. Marked(<<>>) = <<>>
  BY DEF Marked
<1>. QED BY <1>1, FlattenEmpty DEF Attached, Marked

\* The attachments of one leaf.
LEMMA AttachedOne ==
  ASSUME NEW p \in Parts
  PROVE  Attached(<<p>>) = IF p.file # "none" THEN <<p>> ELSE <<>>
<1>. DEFINE x == IF p.file # "none" THEN <<p>> ELSE <<>>
<1>1. x \in Seq(Parts)
  OBVIOUS
<1>2. Marked(<<p>>) = <<x>>
  BY DEF Marked
<1>. HIDE DEF x
<1>3. <<x>> = Append(<<>>, x)
  OBVIOUS
<1>4. <<>> \in Seq(Seq(Parts))
  BY EmptySeq
<1>5. FlattenSeq(Append(<<>>, x)) = FlattenSeq(<<>>) \o x
  BY <1>1, <1>4, FlattenAppend
<1>6. FlattenSeq(<<x>>) = x
  BY <1>1, <1>3, <1>5, FlattenEmpty
<1>. QED BY <1>2, <1>6 DEF Attached, Marked, x

\* A leaf that decodes is an attachment, a body, or empty.
LEMMA LeafKept ==
  ASSUME NEW p \in Parts, ParseLeaf(p).ok
  PROVE  Kept(ParseLeaf(p), <<p>>)
<1>1. Range(<<p>>) = {p} /\ Range(<<>>) = {} /\ Range(<<p.body>>) = {p.body}
  BY DEF Range
<1>2. p.decodes
  BY DEF ParseLeaf, Failed
<1>3. Bodies(<<p>>, "text") =
        IF p.type = "text" /\ p.file = "none" /\ p.body # "" THEN {p.body} ELSE {}
  BY <1>1 DEF Bodies
<1>4. Bodies(<<p>>, "html") =
        IF p.type = "html" /\ p.file = "none" /\ p.body # "" THEN {p.body} ELSE {}
  BY <1>1 DEF Bodies
<1>5. Empty.text = <<>> /\ Empty.html = <<>> /\ Empty.attachments = <<>>
  BY DEF Empty, Failed
<1>6. /\ [Empty EXCEPT !.attachments = <<p>>].attachments = <<p>>
      /\ [Empty EXCEPT !.attachments = <<p>>].text = <<>>
      /\ [Empty EXCEPT !.attachments = <<p>>].html = <<>>
  BY DEF Empty, Failed
<1>7. /\ [Empty EXCEPT !.text = <<p.body>>].text = <<p.body>>
      /\ [Empty EXCEPT !.text = <<p.body>>].html = <<>>
      /\ [Empty EXCEPT !.text = <<p.body>>].attachments = <<>>
  BY DEF Empty, Failed
<1>8. /\ [Empty EXCEPT !.html = <<p.body>>].html = <<p.body>>
      /\ [Empty EXCEPT !.html = <<p.body>>].text = <<>>
      /\ [Empty EXCEPT !.html = <<p.body>>].attachments = <<>>
  BY DEF Empty, Failed
<1>9. CASE p.file # "none"
  <2>1. ParseLeaf(p) = [Empty EXCEPT !.attachments = <<p>>]
    BY <1>2, <1>9 DEF ParseLeaf
  <2>. QED BY <1>1, <1>3, <1>4, <1>6, <1>9, <2>1, AttachedOne DEF Kept
<1>10. CASE p.file = "none" /\ p.type = "text" /\ p.body # ""
  <2>1. ParseLeaf(p) = [Empty EXCEPT !.text = <<p.body>>]
    BY <1>2, <1>10 DEF ParseLeaf
  <2>. QED BY <1>1, <1>3, <1>4, <1>7, <1>10, <2>1, AttachedOne DEF Kept
<1>11. CASE p.file = "none" /\ p.type = "html" /\ p.body # ""
  <2>1. ParseLeaf(p) = [Empty EXCEPT !.html = <<p.body>>]
    BY <1>2, <1>11 DEF ParseLeaf
  <2>. QED BY <1>1, <1>3, <1>4, <1>8, <1>11, <2>1, AttachedOne DEF Kept
<1>12. CASE p.file = "none" /\ (p.type \notin {"text", "html"} \/ p.body = "")
  <2>1. ParseLeaf(p) = Empty
    BY <1>2, <1>12 DEF ParseLeaf
  <2>. QED BY <1>1, <1>3, <1>4, <1>5, <1>12, <2>1, AttachedOne DEF Kept
<1>. QED BY <1>9, <1>10, <1>11, <1>12

\* Two contents that keep what their leaves have keep it when appended.
LEMMA AppendKept ==
  ASSUME NEW a \in Content, NEW b \in Content, NEW la \in Seq(Parts), NEW lb \in Seq(Parts),
         a.ok => Kept(a, la), b.ok => Kept(b, lb), AppendParsed(a, b).ok
  PROVE  Kept(AppendParsed(a, b), la \o lb)
<1>1. a.ok /\ b.ok
  BY DEF AppendParsed, Failed
<1>2. /\ AppendParsed(a, b).text = Join(a.text, b.text)
      /\ AppendParsed(a, b).html = Join(a.html, b.html)
      /\ AppendParsed(a, b).attachments = a.attachments \o b.attachments
  BY <1>1 DEF AppendParsed
<1>3. /\ a.text \in Seq(Atoms) /\ b.text \in Seq(Atoms)
      /\ a.html \in Seq(Atoms) /\ b.html \in Seq(Atoms)
  BY DEF Content
<1>4. /\ Range(Join(a.text, b.text)) = Range(a.text) \cup Range(b.text)
      /\ Range(Join(a.html, b.html)) = Range(a.html) \cup Range(b.html)
  BY <1>3, JoinRange
<1>5. /\ Bodies(la \o lb, "text") = Bodies(la, "text") \cup Bodies(lb, "text")
      /\ Bodies(la \o lb, "html") = Bodies(la, "html") \cup Bodies(lb, "html")
  BY BodiesConcat
<1>6. Attached(la \o lb) = Attached(la) \o Attached(lb)
  BY AttachedConcat
<1>7. Kept(a, la) /\ Kept(b, lb)
  BY <1>1
<1>. QED BY <1>2, <1>4, <1>5, <1>6, <1>7 DEF Kept

\* So does the loop over parts that do.
LEMMA PartsKept ==
  ASSUME NEW T \in SUBSET Parts,
         \A p \in T : ParseContent[p].ok => Kept(ParseContent[p], Leaves[p]),
         NEW s \in Seq(T), AppendAll(MapSeq(ParseContent, s)).ok
  PROVE  Kept(AppendAll(MapSeq(ParseContent, s)), FlattenSeq(MapSeq(Leaves, s)))
<1>. DEFINE G == {r \in Seq(T) :
                    AppendAll(MapSeq(ParseContent, r)).ok =>
                      Kept(AppendAll(MapSeq(ParseContent, r)), FlattenSeq(MapSeq(Leaves, r)))}
<1>1. <<>> \in G
  <2>1. MapSeq(ParseContent, <<>>) = <<>> /\ MapSeq(Leaves, <<>>) = <<>>
    BY DEF MapSeq
  <2>2. Range(<<>>) = {}
    BY DEF Range
  <2>3. Empty.text = <<>> /\ Empty.html = <<>> /\ Empty.attachments = <<>>
    BY DEF Empty, Failed
  <2>4. Bodies(<<>>, "text") = {} /\ Bodies(<<>>, "html") = {}
    BY <2>2 DEF Bodies
  <2>5. Kept(Empty, <<>>)
    BY <2>2, <2>3, <2>4, AttachedEmpty DEF Kept
  <2>6. <<>> \in Seq(T)
    OBVIOUS
  <2>. QED BY <2>1, <2>5, <2>6, AppendAllEmpty, FlattenEmpty
<1>2. ASSUME NEW r \in G, NEW x \in T PROVE Append(r, x) \in G
  <2>. DEFINE cs == MapSeq(ParseContent, r)
              ls == MapSeq(Leaves, r)
  <2>1. r \in Seq(T) /\ r \in Seq(Parts) /\ x \in Parts /\ Append(r, x) \in Seq(T)
    BY <1>2, SeqMonotonic
  <2>2. AppendAll(cs).ok => Kept(AppendAll(cs), FlattenSeq(ls))
    BY <1>2
  <2>3. cs \in Seq(Content) /\ MapSeq(ParseContent, Append(r, x)) = Append(cs, ParseContent[x])
    BY <2>1, ParseContentIs, MapType, MapAppend
  <2>4. ls \in Seq(Seq(Parts)) /\ MapSeq(Leaves, Append(r, x)) = Append(ls, Leaves[x])
    BY <2>1, LeavesIs, MapType, MapAppend
  <2>5. ParseContent[x] \in Content /\ Leaves[x] \in Seq(Parts)
    BY <2>1, ParseContentIs, LeavesIs
  <2>. HIDE DEF cs, ls
  <2>6. AppendAll(Append(cs, ParseContent[x])) = AppendParsed(AppendAll(cs), ParseContent[x])
    BY <2>3, <2>5, AppendAllAppend
  <2>7. FlattenSeq(Append(ls, Leaves[x])) = FlattenSeq(ls) \o Leaves[x]
    BY <2>4, <2>5, FlattenAppend
  <2>8. AppendAll(cs) \in Content /\ FlattenSeq(ls) \in Seq(Parts)
    BY <2>3, <2>4, AppendAllType, FlattenType
  <2>9. ASSUME AppendParsed(AppendAll(cs), ParseContent[x]).ok
        PROVE  Kept(AppendParsed(AppendAll(cs), ParseContent[x]), FlattenSeq(ls) \o Leaves[x])
    <3>1. ParseContent[x].ok => Kept(ParseContent[x], Leaves[x])
      OBVIOUS
    <3>. QED BY <2>2, <2>5, <2>8, <2>9, <3>1, AppendKept
  <2>10. AppendAll(MapSeq(ParseContent, Append(r, x))).ok =>
           Kept(AppendAll(MapSeq(ParseContent, Append(r, x))), FlattenSeq(MapSeq(Leaves, Append(r, x))))
    BY <2>3, <2>4, <2>6, <2>7, <2>9
  <2>. QED BY <2>1, <2>10
<1>3. G \in SUBSET Seq(T)
  OBVIOUS
<1>. HIDE DEF G
<1>4. G = Seq(T)
  BY <1>1, <1>2, <1>3, SeqInduction
<1>. QED BY <1>4 DEF G

\* And so does every part: the leaves by what parseContent returns for them, the
\* containers by their parts.
LEMMA ContentKeptByParsing ==
  ASSUME NEW p \in Parts, ParseContent[p].ok
  PROVE  Kept(ParseContent[p], Leaves[p])
<1>. DEFINE T == {q \in Parts : ParseContent[q].ok => Kept(ParseContent[q], Leaves[q])}
<1>1. ASSUME NEW q \in Parts,
             q.type = "multipart" => \A i \in DOMAIN q.parts : q.parts[i] \in T
      PROVE  q \in T
  <2>. SUFFICES ASSUME ParseContent[q].ok PROVE Kept(ParseContent[q], Leaves[q])
    OBVIOUS
  <2>1. ParseContent[q] = ParseStep(ParseContent, q) /\ Leaves[q] = LeavesStep(Leaves, q)
    BY ParseContentIs, LeavesIs
  <2>2. CASE q.type = "multipart"
    <3>1. /\ ParseContent[q] = AppendAll(MapSeq(ParseContent, q.parts))
          /\ Leaves[q] = FlattenSeq(MapSeq(Leaves, q.parts))
      BY <2>1, <2>2 DEF ParseStep, LeavesStep, Children, Failed
    <3>2. q.parts \in Seq(T)
      <4>1. q.parts \in Seq(Parts)
        BY <2>2, PartsAssumption
      <4>2. \A i \in 1..Len(q.parts) : q.parts[i] \in T
        BY <1>1, <2>2, <4>1
      <4>. HIDE DEF T
      <4>. QED BY <4>1, <4>2
    <3>3. T \in SUBSET Parts /\ \A r \in T : ParseContent[r].ok => Kept(ParseContent[r], Leaves[r])
      OBVIOUS
    <3>. HIDE DEF T
    <3>. QED BY <3>1, <3>2, <3>3, PartsKept
  <2>3. CASE q.type # "multipart"
    BY <2>1, <2>3, LeafKept DEF ParseStep, LeavesStep
  <2>. QED BY <2>2, <2>3
<1>2. T \in SUBSET Parts
  OBVIOUS
<1>. HIDE DEF T
<1>3. T = Parts
  BY <1>1, <1>2, TreeInduction
<1>. QED BY <1>3 DEF T

-----------------------------------------------------------------------------
(* The messages *)

\* What is known of the messages of an accepted submission.
LEMMA AcceptedMessages ==
  ASSUME StartupInv, Accepted
  PROVE  /\ ValidateServe(cfg)
         /\ submission \in Submissions
         /\ ParseContent[submission.raw.body].ok
         /\ result.messages = [i \in DOMAIN submission.recipients |->
              Message(cfg["MailersendEnableCustomHeaders"],
                      SelectFromAddress(submission.from, submission.raw.from),
                      submission.recipients[i], submission.raw,
                      ParseContent[submission.raw.body])]
<1>1. /\ ValidateServe(cfg) /\ submission \in Submissions
      /\ result = Transform(cfg["MailersendEnableCustomHeaders"],
                            submission.from, submission.recipients, submission.raw)
  BY DEF StartupInv, Accepted, Loaded, Validated
<1>2. result # Refused
  BY DEF Accepted, Refused
<1>. QED BY <1>1, <1>2, TransformResult

\* No queued message has a header that the effective plan does not allow, or one
\* that names the original's recipients.
THEOREM HeadersFollowPlan == Spec => []HeadersAllowed
<1>1. StartupInv => HeadersAllowed
  <2>. SUFFICES ASSUME StartupInv, Accepted, NEW i \in DOMAIN result.messages
                PROVE  /\ result.messages[i].headers # {} => cfg["CustomHeadersSupported"]
                       /\ result.messages[i].headers \cap {"to", "cc", "bcc"} = {}
    BY DEF HeadersAllowed
  <2>1. result.messages[i].headers =
          IF cfg["MailersendEnableCustomHeaders"]
          THEN CollectHeaders(submission.raw.headers) ELSE {}
    <3>1. result.messages[i] =
            Message(cfg["MailersendEnableCustomHeaders"],
                    SelectFromAddress(submission.from, submission.raw.from),
                    submission.recipients[i], submission.raw,
                    ParseContent[submission.raw.body])
      BY AcceptedMessages
    <3>. QED BY <3>1, MessageFields
  <2>2. cfg["MailersendEnableCustomHeaders"] => cfg["CustomHeadersSupported"]
    BY AcceptedMessages DEF ValidateServe
  <2>. QED BY <2>1, <2>2 DEF CollectHeaders
<1>. QED BY <1>1, StartupInvariant, PTL

\* A submission is queued for all its recipients, in order, or for none.
THEOREM AllOrNone == Spec => []AllRecipientsOrNone
<1>1. StartupInv => AllRecipientsOrNone
  <2>. SUFFICES ASSUME StartupInv, submission # None
                PROVE  IF result.ok
                       THEN /\ Len(result.messages) = Len(submission.recipients)
                            /\ \A i \in DOMAIN result.messages :
                                 result.messages[i].to = submission.recipients[i]
                       ELSE result.messages = <<>>
    BY DEF AllRecipientsOrNone
  <2>1. CASE result.ok
    <3>1. /\ submission.recipients \in Seq(Range(submission.recipients))
          /\ DOMAIN result.messages = DOMAIN submission.recipients
      BY <2>1, AcceptedMessages, SubmissionsAssumption DEF Accepted
    <3>2. \A i \in DOMAIN result.messages : result.messages[i].to = submission.recipients[i]
      BY <2>1, AcceptedMessages, MessageFields DEF Accepted
    <3>3. /\ Len(submission.recipients) \in Nat
          /\ DOMAIN result.messages = 1..Len(submission.recipients)
      BY <3>1
    <3>4. Len(result.messages) = Len(submission.recipients)
      BY <3>3
    <3>. QED BY <2>1, <3>2, <3>4
  <2>2. CASE ~result.ok
    <3>1. result = Transform(cfg["MailersendEnableCustomHeaders"],
                             submission.from, submission.recipients, submission.raw)
      BY DEF StartupInv
    <3>2. result = Refused
      BY <2>2, <3>1, TransformResult, Zenon
    <3>. QED BY <2>2, <3>2 DEF Refused
  <2>. QED BY <2>1, <2>2
<1>. QED BY <1>1, StartupInvariant, PTL

\* The From header never changes the mailbox that MAIL checked.
THEOREM SenderKept == Spec => []SenderIsEnvelopes
<1>1. StartupInv => SenderIsEnvelopes
  <2>. SUFFICES ASSUME StartupInv, Accepted, NEW i \in DOMAIN result.messages
                PROVE  result.messages[i].from.box = submission.from.box
    BY DEF SenderIsEnvelopes
  <2>1. result.messages[i].from = SelectFromAddress(submission.from, submission.raw.from)
    BY AcceptedMessages, MessageFields
  <2>. QED BY <2>1 DEF SelectFromAddress
<1>. QED BY <1>1, StartupInvariant, PTL

\* However parts are nested, no attachment and no body is lost, doubled or invented
\* between the message that was submitted and the ones that are queued.
THEOREM ContentIsKept == Spec => []ContentKept
<1>1. StartupInv => ContentKept
  <2>. SUFFICES ASSUME StartupInv, Accepted, NEW i \in DOMAIN result.messages
                PROVE  LET leaves == Leaves[submission.raw.body]
                           made == result.messages[i]
                       IN /\ made.attachments = Attached(leaves)
                          /\ Range(made.text) = Bodies(leaves, "text")
                          /\ Range(made.html) = Bodies(leaves, "html")
    BY DEF ContentKept
  <2>. DEFINE content == ParseContent[submission.raw.body]
  <2>1. /\ result.messages[i].text = content.text
        /\ result.messages[i].html = content.html
        /\ result.messages[i].attachments = content.attachments
    BY AcceptedMessages, MessageFields
  <2>2. submission.raw.body \in Parts /\ content.ok
    BY AcceptedMessages, SubmissionsAssumption
  <2>3. Kept(content, Leaves[submission.raw.body])
    BY <2>2, ContentKeptByParsing
  <2>. QED BY <2>1, <2>3 DEF Kept
<1>. QED BY <1>1, StartupInvariant, PTL
=============================================================================
