# smtp-mailersend-relay: TLA+ models, checks and proofs

The relay accepts mail over SMTP, stores one row per recipient in a SQLite
table, and posts the rows in batches to MailerSend's bulk API. Its promise is
that a recipient whose message was answered with 250 is, in the end, taken by
MailerSend or set aside in a dead-letter queue (DLQ) for an operator. This
directory models the parts of the program that carry that promise, checks them
with TLC on small instances and proves the central facts with TLAPS.

## 1. Inventory

| Component | State | Operations | Interacts with |
|---|---|---|---|
| Job table (`internal/queue`) | one row per recipient: status, attempt_count, next_attempt_at, processing_started_at, last_http_status, created_at, payload | EnqueueTx, ClaimDispatchBatch, MarkSent, MarkRetry, MarkDLQ, RequeueStaleProcessing, RequeueDLQIDs, RetryNow, reads | every other component, through transactions |
| Dispatcher (`internal/dispatch/dispatcher.go`) | per worker: position in the loop, claimed batch, attempt counts as read, status code | workerLoop, processBatch, requeueStaleLoop, queueDepthLoop, Ready | table, sender, limiter, rootCtx |
| Sender (`sender.go`) and MailerSend | requests in flight | Send: accepted, refused, lost | dispatcher |
| Rate limiter (`limiter.go`) | one token | Wait | all workers share it |
| Process lifecycle (`cmd/relay/main.go`) | rootCtx | runServe: migrate, requeue, start, drain, exit | all |
| Operator commands (`main.go`, `internal/dlq`) | files | dlq export, dlq replay, queue retry-now, migrate | table, concurrently with a running relay |
| SMTP admission (`smtpserver.Backend`) | active connections, per IP and in all; token buckets | acquire, release | go-smtp connections |
| SMTP session (`smtpserver.Session`) | authenticated, envelope, recipients | Auth, Mail, Rcpt, Data, Reset, Logout | admission, transformer, table |
| MIME transformer (`internal/mimeparse`) | none | Transform | session |
| Configuration (`internal/config`) | none | load, validate, plan limits | all |
| Health and metrics (`httpops`, `metrics`) | counters | readyz, healthz | dispatcher, table |

What is hard here:

* **Leases.** A claim is a row in `processing` with a start time. Nothing ties
  the row to its claimer: the `Mark*` statements compare only
  `status='processing'`. A worker that outlives its lease (slow API, waits for
  SQLite's write lock, a paused process) overlaps with the worker that claims
  the requeued row, and either may write the other's outcome.
* **Values read before a call and used after it.** `AttemptCount` is read by
  the claim and decides between retry and DLQ after the API call; `now` is read
  before the claim waits for the write lock.
* **Lost answers.** A request the API took may look like a failure.
* **Crashes, failing writes and shutdown** between any two of the steps claim,
  send, MarkRetry, MarkDLQ / MarkSent.
* **Operators** changing the table while the workers run.
* **Limits**: a payload above the batch limit, the last attempt, the end of the
  backoff schedule.
* **Admission** of a connection touches a channel outside the mutex and a table
  inside it, and go-smtp ends and re-creates sessions on STARTTLS.
* **An SMTP dialogue** may order its commands freely, may be cut at any point,
  and its 250 may be lost after the commit.
* **One limiter** paces all workers, idle ones included, and sits between the
  heartbeat and the work it stands for.
* **Files** of the DLQ commands outlive the rows they list.

What makes each component correct:

* table and dispatcher: what is recorded is true (sent only if MailerSend took
  it, DLQ only with a reason); settled rows stay settled; while leases are
  respected, a claim has one owner, duplicates come only from lost answers, and
  attempts are bounded; every row is settled in the end;
* lifecycle: a shutdown ends; a restart recovers what a crash left behind;
* SMTP: a slot that is taken is given back once; 250 only after the commit, and
  then for every recipient;
* readiness: an idle, healthy relay is ready;
* DLQ commands: what the file holds is requeued by a replay, and nothing the relay
  knows to be sent is sent again.

`PROJECT.json` lists the hazards one by one, at their lines, with the
properties that would catch them.

## 2. Modules

| Module | What it is |
|---|---|
| `JobStore` | the table and the statements of `SQLiteStore`, each one committed transaction |
| `Dispatcher` | EXTENDS JobStore: the workers, one action per step of `workerLoop` / `processBatch`, and the requeue loop |
| `Relay` | EXTENDS Dispatcher: the process, SMTP commits, operator commands, the clock; `Spec`, `FairSpec` and the properties |
| `Delivery` | the abstract specification: at-least-once delivery, with no table, workers or processes |
| `StoreProofs` | EXTENDS JobStore, TLAPS: lemmas on what each statement of the table does to one row, and on which rows a claim takes |
| `RelayProofs` | EXTENDS Relay, StoreProofs: what holds of late workers too: types, truth of the table, settled rows, batches, the refinement |
| `LeaseProofs` | EXTENDS RelayProofs: what holds while leases are respected: one owner, duplicates, attempts |
| `SmtpAdmission` | the Backend's tokens, table and limiter per address, against many connections; go-smtp external |
| `SmtpSession` | EXTENDS SmtpAdmission: the session's commands, `EnqueueTx` row by row, the reply, a client that resubmits |
| `Submission` | the abstract specification of a submission: stored for all recipients at once or not at all, acknowledged only when stored |
| `Readiness` | limiter, timing of `workerLoop`, heartbeat and `Ready()`; with its own fairness |
| `DlqCommands` | EXTENDS Relay: export and replay through a file, beside the whole relay |
| `Config` | operators: loading, plan limits, validation of the environment |
| `Mime` | operators: `Transform` and `parseContent` over trees of parts |
| `Startup` | EXTENDS Config, Mime: `runServe` up to the point where it serves, then a submission under that configuration |
| `AdmissionProofs`, `SessionProofs` | EXTEND `SmtpAdmission` and `SmtpSession`; the second builds on the first |
| `ReadinessProofs`, `DlqProofs`, `StartupProofs` | EXTEND `Readiness`, `DlqCommands` (with `LeaseProofs`) and `Startup` |
| `MCRelay`, `MCAdmission`, `MCSession`, `MCReadiness`, `MCDlq`, `MCStartup` | instances for TLC |

### How the state corresponds to the code

*Rows.* `jobs[j]` is the row of job `j`; status `"none"` is a row that has not
been inserted. `Created` fixes `created_at` in advance; the rows of one SMTP
message share it, because `EnqueueTx` uses one `now` for all of them. Messages
may be inserted in any order, as `created_at` is read before the insert waits
for the write lock. Payload, addresses, error text and `bulk_email_id` decide
nothing and are left out; payload sizes (`PayloadBytes`) are kept for the batch
limit.

*Time* is relative: `next_attempt_at` is the number of ticks until the row is
due, `processing_started_at` the age of the claim (NULL is -1). `Tick` ages
every row; ages above `AgeCap` and due times below `-MaxTxLag` are not told
apart, which no statement can notice. So the state space is finite without a
bound on the clock. The comparison of SQLite's time texts is the comparison of
the times (all are UTC).

*The caller's clock.* Every statement compares with a `now` read before its
transaction begins; `lag` in `Lags == 0..MaxTxLag` is how old that reading is
when the statement takes effect. `busy_timeout` makes this at most about 5 s
against a default lease of 30 s, but the configuration only asks for a lease
above zero. So `MaxTxLag <= LeaseTimeout` is no assumption of the modules: it is
part of `Prompt`, the premise of the properties that need leases to be respected.

*Claims.* `Listings` are the results `ORDER BY created_at LIMIT` may give (ties
in any order), `TakeBatch` the prefix the loop with `shouldStop` takes.
`ReadClaimed` is what the second SELECT hands over: `claimedRows.Err()` is not
checked, so a read error (fault `"db"`) leaves rows in processing that the
worker does not know of. The error of the first SELECT's rows is not checked
either; the listing it shortens is that of a claim with a smaller limit, and is
left out.

*Workers.* `pc` is `loop`, `send` (request not yet taken by the API), `taken`
(taken, answer not yet read), `markSent`, `markRetry`, `markDLQ`, or `stopped`.
`batch` is what the worker may still write, `seen` the `AttemptCount`s it read,
`code` the failed Send's status. MarkRetry and MarkDLQ of one batch are two
steps. Once `rootCtx` is cancelled (`proc = "draining"`) every store call with
it fails, so `MarkFails` is the only way out of a `mark*` position.

*The API* (external) takes a whole request (`ApiAccept`) or refuses it with a
status of `RejectCodes`. After taking it the answer may be lost (status 0), cut
off in its body (`AcceptedStatus` with an error), or replaced by a gateway's
5xx. A request the API takes after the client gave up is the same history with
the acceptance moved before the failure.

*History variables.* `accepted[j]` counts how often the API took `j`,
`doubt[j]` how often a worker then failed to record it.

*Faults.* Database failures, crashes, signals, overrunning leases and replays
happen at most `Budget[f]` times, counted in `used`. The theorems hold for every
`Budget`, hence for any finite number of faults.

*Overrun.* `Tick` may take a claim that is still worked on past its lease only
by spending an `"overrun"`. With a budget of 0 the model describes a deployment
in which API time-out and database waits fit into the lease.

*Admission.* `acquire` and `release` are two steps each, split where the code
leaves the channel and takes the mutex. `conn` is where a connection is in the
library's and the Backend's code. `perIPConn = 0` is a missing entry.
`perIPLimiter` counts whole tokens; a tick is the time in which one is earned.
A refused greeting leaves the connection open without a session, and Logout may
come twice; both are how go-smtp behaves. It also lets a client upgrade before any
greeting, when there is no session to drop; that step changes no counter and is
left out.

*Sessions.* The library's own ordering of commands is not relied on: MAIL, RCPT
and DATA come in any order and the session's checks have to hold. What the relay
leaves to the library through its settings is kept (AUTH only over TLS unless
`SMTP_ALLOW_INSECURE_AUTH`, `SMTP_MAX_RECIPIENTS`, a reset after DATA). A
recipient carries the sender and the channel under which it was accepted, as
history. `tx` is an open transaction, `stored` what has been committed.

*Timing.* In `Readiness` a tick is half a second in the instances. Goroutines run
as soon as they can; claims and batches take any time up to `MaxClaim` and
`MaxSend`. All ages are relative and capped one above the largest value anything
compares them with. One due job is watched among any number of others. A claim is
cut by `LIMIT`, `BATCH_MAX_COUNT` and `BATCH_MAX_BYTES`, so it may take older rows
and leave the watched job behind; `before` counts such batches (`TakeRows`).
`PickupBound` is the longest time in which a due job sees no claim of itself or of
older rows: a claim that read the clock too early, then the ticker after it or the
batch it took, whichever is longer, then the limiter and a claim, and a round more
for every claim that failed. `PickupLimit` is that bound times `before + 1`. A read
error that empties the listing of a claim is not modelled here; it would act as a
failing claim whose worker pauses for its ticker instead of 500 ms. `debt` is the history variable from which the pacing is
read: each request adds an interval, each tick removes one.

*DLQ files.* A file is a sequence of lines, the last of which may be cut, because
`bufio.Writer` empties itself at arbitrary bytes. A cut record is taken for an
id that matches no row. The relay beside the commands is all of `Relay`
(`RelayStep`), with its retries, lost answers and exhausted attempts; its replays are
those the commands make, some time after the file was read. The reading of the
file is one step, which may find it in any state of an export. `held` and `intact`
are history: what the file held whole when it was read, and whether an export had
reported it.

*Configuration.* An environment gives each key no value, a malformed one or a
value; keys that are only handed on are left out. Values are as wide as TLC's
integers; nothing modelled adds to them.

*MIME.* A body is an atom and a text a sequence of bodies; two bodies are equal
when the code's trimmed strings are, leaving aside a body that happens to equal
two others joined by a newline. The decoders are external: a part decodes or not.
`parses` of a stored address is whether the form MAIL or RCPT stored parses
again, which a quoted local part does not. Headers are a set, as Go iterates
over the map in any order. `Parts` is the set of parts messages are made of, closed
under nesting; `Depth` bounds the nesting of each, which the finite text of a message
does. `ParseContent` is a recursive function on `Parts`, and `AppendAll` is its loop
over the parts of one container.

## 3. Runs

The runs of `MCRelay` use two workers, `ClaimLimit = BatchMaxCount = 2`, `LeaseTimeout = 1`,
`RetryMaxAttempts = 2`, a backoff of one tick. Two workers are enough for every
pairwise overlap on a row; two attempts give a first, a last and (with a
replay) an excess attempt; a lease of one tick leaves one tick in which a claim
is valid and one in which it has expired.

| Run | Instance | Checks |
|---|---|---|
| `prompt_workers` | two messages of one recipient each, which meet in one batch with different attempt counts; `MaxTxLag = 1`; one database failure, crash, replay; no overrun | `TypeOK`, `ClaimExclusive`, `DuplicatesOnlyOnDoubt`, `AttemptsBounded` |
| `late_workers` | one message with two recipients; one overrun, crash, replay | `SentMeansAccepted`, `DlqJustified`, `LeaseRecorded`, `SettledStaysSettled`, `ImplementsDelivery` |
| `recovery` | `FairSpec`; two messages of one recipient each, the younger's payload above `BatchMaxBytes`; one crash, one database failure | `BatchWithinLimits`, `OldestFirst`, `EventuallySettled` |
| `shutdown` | `FairSpec`; one message with two recipients, one payload above `BatchMaxBytes`; one signal | `DrainTerminates`, `EventuallySettled` |
| `graceful_stop` | one signal, nothing else | violates `DrainFinishesWork` |
| `admission` | four connections, three of one address; limits 3 in all, 2 per address, 3 greetings and one tick | `AdmissionTypeOK`, `TokensExact`, `PerIPExact`, `SessionsWithinLimits`, `RateBounded` |
| `session` | two connections, STARTTLS required and AUTH allowed before it; two allowed senders and a foreign one; two recipients, two submissions of one message, one crash | `SessionTypeOK`, `RowsAuthorized`, `NoCarryOver`, `CopiesOnlyOnLostReply`, `ImplementsSubmission` |
| `pacing` | two workers, 1 s and 4 s between requests, claims and batches up to 1 s each, one failing claim, one batch of older rows before the watched job | `TimingTypeOK`, `RequestsPaced`, `PickupBounded`, `ReadyWhenPaced`, `ReadyAgain` |
| `readyz` | two idle workers, the default 6 s between requests | violates `ReadyOnceStarted` |
| `dlq_commands` | two recipients of one message, one worker, one attempt; exports of one row or of all, two replays, one failing write or statement, a limit on parameters that three ids exceed | `DlqTypeOK`, `ReplayComplete`, `ReplayResendsOnlyDoubts` |
| `dlq_long_lines` | the same with one record above 64 KiB | violates `ExportIsReplayable` |
| `startup` | 537 environments (each key at its edges; all combinations of plan, overrides and header flag, of the TLS settings, of the two batch limits), some 390 submissions (trees of up to three leaves of nine kinds, nested once; senders, headers, recipient lists) | `ServesWithinLimits`, `PanicsOnlyOnWrittenInterval`, `OpenOnlyIfAsked`, `HeadersAllowed`, `ContentKept`, `AllRecipientsOrNone`, `SenderIsEnvelopes` |

What they show:

* While no worker outlives its lease (`Prompt`), a claimed row has one owner, who still
  finds it processing and with the count he read (`ClaimExclusive`), also when
  claims start with an old clock; the API takes a recipient more than once only
  after an answer was lost (`DuplicatesOnlyOnDoubt`), and the attempts recorded
  stay within `RETRY_MAX_ATTEMPTS` plus the replays (`AttemptsBounded`).
* With overrunning workers those three are lost, but the table still tells the
  truth: `SentMeansAccepted`, `DlqJustified`; the status guard of the `Mark*`
  statements keeps settled rows settled (`SettledStaysSettled`), and the relay
  implements `Delivery` with `stage` computed from the status and `taken` being
  `accepted`.
* Every inserted recipient is settled in the end, one that is larger than a
  batch included, and a shutdown ends. The row that is too large goes alone
  (`BatchWithinLimits`), and what the limit leaves behind is never older than what
  was taken (`OldestFirst`), up to the age of the claim's clock.
* `graceful_stop` is a disagreement between `docs/RUNBOOK.md:14` ("waits for
  background workers to finish current work") and the code: the signal cancels
  the context the workers send and record with, so current work is abandoned,
  not finished. Rows stay processing until their lease expires after the
  restart, and those MailerSend had taken are sent again.

* Admission is exact: the channel holds one token per live session and per
  greeting being decided, the table one count per session, in every interleaving
  of the half-steps. So the blocking receive in `acquire`, made with the mutex
  held, never blocks, and the limits hold although they are checked at different
  times. Greetings that will be refused do occupy a token meanwhile, so a
  connection may be turned away while a slot is about to become free.
* A queued row has an allowed sender and, with STARTTLS required, an
  authentication made over TLS. That rests on the upgrade replacing the session:
  RCPT and DATA do not look at TLS. No recipient outlives its mail transaction.
  A resubmitting client makes a second copy only after a 250 was lost, and the
  session implements `Submission`, with `asked` computed from the history.
* The requests respect the configured rate up to the jitter of one claim. Idle
  workers that reserve tokens do not starve a due job: within `PickupBound` a claim
  takes it or older rows. In a backlog its wait grows by that much per batch of older
  rows before it, which throttling makes long (`README.md:240`), and by no more.
  Readiness holds throughout when the slowest round fits in its limit; at any
  rate it comes back for ever (`ReadyAgain`). At the default rate it does not
  hold throughout: `readyz` contradicts `docs/RUNBOOK.md:9` ("`GET /readyz`
  returns 200").
* A replay from any stale, partial or growing file requeues every row the file held
  whole that is still in the DLQ (`ReplayComplete`). It may resend mail: a recipient
  whose requests were taken and whose answers were lost is set aside as exhausted,
  and nothing in its row tells it from one that was never taken. That is the only
  case (`ReplayResendsOnlyDoubts`): the statement's guard compares the status, so
  what is recorded as sent, or on its way to be, is left alone. An export whose last
  write fails reports success with a short file; the rows it lacks stay in the
  DLQ. `dlq_long_lines` contradicts
  `README.md:270`: a record above the scanner's 64 KiB makes the replay of the
  whole export fail.
* Every configuration that serves has positive limits, counts and durations and a
  batch within the plan's limit, which is what the other modules assume of their
  limits and rates (`ServesWithinLimits`). It does not have a lease that outlasts
  the waits for the database: nothing in the code compares the two. A malformed value never opens the relay, and only a written
  interval that is not positive makes it panic. The transformer keeps every
  attachment and body of nested messages against a flat reference, answers for
  all recipients or none, and never changes the mailbox that MAIL checked.

*Bounds of the newer instances.* In `recovery` two rows never fit together, so the
byte limit cuts every batch of two due rows; batches of two rows occur in
`prompt_workers` and `late_workers`, and the theorems below cover any number. Four connections exceed every limit of the
admission at once, from one address and in all. One tick is enough for
`RateBounded`, whose bound moves by one per tick. Two submissions of one message
are a resubmission; two connections let one client's retry overlap with the
failing transaction of the other. In `dlq_commands` a lost answer exhausts the one
attempt, so rows MailerSend took do reach the DLQ; two replays let the second use a
file whose rows the first has requeued and a worker has sent. One batch before the
watched job tells the first `PickupBound` from the later ones. The transformer's loop joins the content of one part to what it has so far, so two
parts, one of them a container, give each pair of contents that can meet; the
reference is evaluated on the same trees.

*Fairness* (`FairSpec`): weak fairness of each worker's steps (goroutines are
scheduled, `http.Client.Timeout` ends every Send), of the requeue loop (its
ticker), of time, of the exit of a drained process and of the restart by a
supervisor. Nothing is assumed about answers, operators, clients or faults.
Strong fairness is not needed: a due row stays due until some worker claims it.
`Readiness!Spec` assumes weak fairness of time and of each worker's steps; jobs
need not come and claims may fail up to their bound.

*Symmetry* is used for workers, connections and rows in runs without liveness
properties. Deadlock is checked everywhere but in `startup`, where a process that
refuses its environment stops.

## 4. Theorems

`RelayProofs` proves, for every set of jobs, finite set of workers, settings
within the named assumptions, and number of faults:

* `TypeCorrect`: `Spec => []TypeOK`;
* `SentOnlyIfAccepted`: `Spec => []SentMeansAccepted`;
* `DlqOnlyIfJustified`: `Spec => []DlqJustified`;
* `LeaseAlwaysRecorded`: `Spec => []LeaseRecorded`;
* `SettledForGood`: `Spec => SettledStaysSettled`;
* `RelayImplementsDelivery`: `Spec => ImplementsDelivery`, the refinement of
  `Delivery`: claims, retries, requeues, restarts and ticks are stutters,
  `EnqueueTx` is Submit, `ApiAccept` Take, `MarkSent` Record, `MarkDLQ` Bury and
  `dlq replay` Replay, of exactly the rows whose status the statement's guard
  lets through;
* `BatchesWithinLimits`: `Spec => []BatchWithinLimits`;
* `OldestRowsFirst`: `Spec => OldestFirst`.

The first invariants and the refinement come from `SafetyInvariant: Spec => []SafetyInv`. Neither
SentMeansAccepted nor DlqJustified is inductive: what a `Mark*` writes was
decided from what its worker knew earlier. `SafetyInv` adds that a worker about
to record success holds only jobs the API took (`SuccessIsReal`), that a worker
about to write to the DLQ has a reason for each job (`DlqDecided`), that the
count it read is never ahead of the table (`SeenBehind`), that it holds only
inserted rows (`HeldInserted`), and that an absent row has no attempts
(`AbsentUnattempted`). The proof rests on lemmas that say what each statement
does to one row (`...Effect`) and on the fact that attempt counts and
acceptances never decrease (`Grows`), so what a worker knows about its batch
stays true while others move (`WorkerUntouched`). That is why these properties
survive overrunning leases.

The last two rest on what the loop of `claimJobs` takes (`StoreProofs`): the batch
is a prefix of the listing, `batchBytes` is at each row the sum over the rows before
it (`RunningIs`), so the prefix fits (`BatchFits`), and the rows outside it come later
in the listing or are not in it at all (`BatchOldest`). A worker's batch is later
only reduced (`BatchChange`): by a read error, or when part of it goes to MarkRetry
and the rest to MarkDLQ; a part of a batch that fits fits too (`FitsSubset`). Sums over
sets of rows are handled by an induction on subsets (`SetInduction`).

`LeaseProofs` proves, under the premise `Prompt` (no worker has outlived its lease
so far, and the lease is at least as long as the database waits) and with every other
fault allowed:

* `OneOwner`: `Spec => []ClaimExclusive`;
* `DuplicatesAreDoubts`: `Spec => []DuplicatesOnlyOnDoubt`;
* `AttemptsAreBounded`: `Spec => []AttemptsBounded`.

They come from `PromptInvariant: Spec => []PromptInv`. Ownership (`Owned`)
carries the other two. It is kept because a claim takes only rows outside
`processing`, its lease is at most `MaxTxLag` old when it commits, which the
premise puts within `LeaseTimeout`, and the requeue spares a row whose age is within the lease whatever
clock it read. `AttemptsLeft` says that a row which may still be tried is below
the limit; the retry decision keeps it there because, the row being owned, the
count it was taken from is still the row's. `Accounted` says that at most one
acceptance of a job is not in doubt, and that this one is being recorded by the
row's owner or is recorded; `StoppedWhenDown` says that a start finds no worker
carrying one.

`AdmissionProofs` proves, for any finite set of connections, any addresses and
any limits, of `AdmissionSpec`: `AdmissionTypes`, `TokensAreExact`,
`PerIPIsExact`, `LimitsHold` (`SessionsWithinLimits`), `RateHolds`
(`RateBounded`) and `RefusalNeverBlocks` (a greeting that is being decided finds
a token in the channel, so the receive with the mutex held does not block).
`AdmissionInv` is `TokensExact` and `PerIPExact`, which say whom the two counters
count, half-done steps included, with three facts that the limits need: an entry
of the table is at most the limit, a limiter has paid for the sessions it granted,
and a live session has not been released (`FlagDown`). The limits then follow by
comparing the set of live sessions with the larger set that is counted.

`SessionProofs` proves, for any connections, senders, recipients, number of
submissions and crashes: `SessionTypes`; `SessionsStayAdmitted`, the admission's
properties once more with the whole dialogue around them; `RowsAreAuthorized`,
`NothingCarriedOver`, `CopiesNeedLostReply`; and `SubmissionImplemented`, the
refinement of `Submission` (an accepted DATA is its Ask, the commit its Store, a
reply that arrives its Acknowledge; single rows, failures, lost replies and
crashes are stutters).
`SessionInv` follows a recipient from RCPT to the table: every recipient of an
envelope was accepted under that envelope's sender and on a channel good enough
(`EnvelopesOK`); a session in DATA still has the envelope it submitted, and its
transaction a beginning of it (`DataOK`); no two sessions work on one submission
(`SubsDistinct`); what was submitted was such an envelope (`SubmittedOK`) and what
is stored is a whole submission (`StoredOK`); only what is stored is acknowledged,
and a stored submission is acknowledged, lost or under way (`RepliesOK`); and a
message is submitted again only after its other submissions ended without a 250
(`OneOpen`), as the client does.

`DlqProofs` proves, for any rows, workers, export limits and faults:
`RelayBesideCommands` (`DlqSpec => Spec`: a step of the commands is a stutter of the
relay or one of its replays, so all theorems above hold beside them), `DlqTypes`, and
the action properties `ReplayIsComplete` and `ReplaysOnlyDoubts`. `FilesOK`
(`FilesInvariant`) has the types of the files, and that the ids a replay works on
contain every row the file held whole. `ReplaysOnlyDoubts` adds `Accounted` and `Owned`
of `LeaseProofs`: a row of the DLQ is nobody's claim and is not recorded as sent, so
every acceptance of it is in doubt.

`ReadinessProofs` proves, for any finite set of workers, intervals, durations and
number of failing claims: `TimingTypes`, `RequestsArePaced`, `PickupIsBounded` and
`ReadyIfPaced`. Everything rests on `QueueOK`: the reservations of the workers that
wait lie an interval apart without a hole, and the first of them is at most an
interval away however many there are (`Cooldown`). `ClaimsSpaced` carries the
spacing from the grants to the claims under way, whatever time each has left, and
`DebtOK` from there to the requests. `PickupOK` and `BeatOK` each say that some
worker is close enough to its claim, or to the top of its loop; a worker that joins
the queue passes that on to the first of the queue. `PickupOK` counts from the last
batch of older rows: a claim that leaves the job behind adds a `PickupBound`, in which
its worker comes round again (`LimitFacts`). The proof corrected the model:
an earlier `PickupBound` took the longest batch for the longest time a worker is
busy, and was too small for a claim that takes longer than a batch.

`StartupProofs` proves, for every environment and every submission:
`LimitsAtServing` (`ServesWithinLimits`), `PanicIsWritten`, `OpenMeansAsked`,
`HeadersFollowPlan`, `AllOrNone`, `SenderKept` and `ContentIsKept` (`ContentKept`).
`StartupInv` says that what each
step of `runServe` checked still holds when the relay serves, and that its answer is
`Transform` under that configuration. `LimitsAtServing` is what justifies the
assumptions below on limits and rates for every environment, not only for the 537 of the
run; of the lease it gives only that it is positive.
`ContentIsKept` is about what a recursion computes. The inductions it needs are stated
for sets and proved from the existence of a least element (`Least`): the set of
counterexamples has none. `TreeRecursion` shows, by induction on `Depth`, that a recursion over the
parts has a solution, so that `ParseContent` and the reference `Leaves` satisfy their
equations however deep a message is nested; `AppendAll...` and `Flatten...` describe
one more turn of the two loops; and `TreeInduction` carries `Kept` (attachments in order,
no body lost or invented) from the parts to their container. The proof corrected the model:
`ParseLeaf` was a CASE whose guards overlapped, and TLA+ leaves open which of them is
taken; it now follows the order of the code's conditions.

Assumptions: `JobsAssumption`, `LimitsAssumption`, `LeaseAssumption`
(`JobStore`); `WorkersAssumption`, `RetryAssumption`, `CodesAssumption`,
`BudgetAssumption` (`Dispatcher`); `ConnsAssumption`, `AdmissionAssumption`
(`SmtpAdmission`); `SessionAssumption` (`SmtpSession`); `DlqAssumption`
(`DlqCommands`); `TimingAssumption` (`Readiness`); `PartsAssumption`,
`DepthAssumption` (`Mime`);
`EnvironmentsAssumption`, `SubmissionsAssumption` (`Startup`). TLC evaluates them in
the runs of the modules that declare them. None limits a number of workers, rows,
connections or faults.

Model-checked only: the liveness properties `EventuallySettled`, `DrainTerminates`
and `ReadyAgain`, because the prover has neither fairness nor ENABLED.

## 5. Plan

1. *Done*: job table, dispatcher, lifecycle, abstract delivery and their proofs;
   admission, session and abstract submission; pacing and readiness; DLQ
   commands; configuration and transformer.
2. *Done*: every invariant and every safety property of the steps that a passing
   run checks is proved, and so are both refinements.
3. Open: proofs of the liveness properties, for which a prover with fairness is
   needed; the hazards of `PROJECT.json` that have a note instead of a property.

Not modelled: logging, the metrics counters, `/healthz`, `CountByStatus` and
`queueDepthLoop` (they only report); `splitBatches`, which nothing calls, and
`ClaimBatch`, which only tests call; the texts of SMTP and HTTP replies, TLS itself, the
JSON of the API and the parsing of flags; the header fields that are copied from
the message unchanged (subject, reply address, references). The sizes of messages
are left out, so the limit on them appears only as a way for DATA to be refused.
