---------------------------- MODULE DlqCommands -----------------------------
(***************************************************************************)
(* `relay dlq export' and `relay dlq replay' (internal/dlq and cmd/relay), *)
(* each in a process of its own, beside the whole of the relay: they meet  *)
(* it only in the job table, and each other in the export file.  That file *)
(* appears piece by piece, whenever the buffered writer empties itself, so *)
(* its last line may be cut; the replay may read it at any moment.         *)
(***************************************************************************)
EXTENDS Relay

CONSTANTS
  LongLines,     \* rows whose exported line exceeds the scanner's 64 KiB
  ExportLimits,  \* what may be given as --limit
  MaxVariables,  \* SQLite's limit on the parameters of one statement
  MaxFaults      \* bound on the failures of the two commands

ASSUME DlqAssumption ==
  /\ LongLines \subseteq Jobs
  /\ ExportLimits \subseteq Nat
  /\ MaxVariables \in Nat /\ MaxFaults \in Nat

VARIABLES
  file,      \* lines of the export file: [id, cut]
  exporter,  \* "idle", "listed", "writing", or "done" once it reported success
  listing,   \* the rows ListDLQ returned
  replayer,  \* "idle", "read", or "failed" until the next one
  ids,       \* the ids the replay has read
  held,      \* history: the rows the file held whole when it was read
  intact,    \* history: the file was then all that an export had reported
  faults     \* failing writes and statements so far

exportVars == <<file, exporter, listing>>
replayVars == <<replayer, ids, held, intact>>
dlqVars == <<vars, exportVars, replayVars, faults>>

DlqInit ==
  /\ Init
  /\ file = <<>>
  /\ exporter = "idle"
  /\ listing = <<>>
  /\ replayer = "idle"
  /\ ids = {}
  /\ held = {}
  /\ intact = FALSE
  /\ faults = 0

Fault == faults < MaxFaults /\ faults' = faults + 1

-----------------------------------------------------------------------------
(* dlq export *)

InDLQ == {j \in Jobs : jobs[j].status = "dlq"}

\* ListDLQ, most recently changed first; the rows beyond the limit are left out
\* silently.
ListDLQ(limit) ==
  LET most == IF limit = 0 THEN 1000 ELSE limit
      n == IF Cardinality(InDLQ) < most THEN Cardinality(InDLQ) ELSE most
  IN {s \in [1..n -> InDLQ] : IsInjective(s)}

\* The first k lines of the listing, and the beginning of the next one if cut.
Written(k, cut) ==
  [i \in 1..(IF cut THEN k + 1 ELSE k) |-> [id |-> listing[i], cut |-> i > k]]

Whole == Written(Len(listing), FALSE)

ExportList ==
  /\ exporter \in {"idle", "done"}
  /\ \E limit \in ExportLimits : \E s \in ListDLQ(limit) : listing' = s
  /\ exporter' = "listed"
  /\ UNCHANGED <<vars, file, replayVars, faults>>

\* os.Create empties the file of an earlier export.
ExportCreate ==
  /\ exporter = "listed"
  /\ file' = <<>>
  /\ exporter' = "writing"
  /\ UNCHANGED <<vars, listing, replayVars, faults>>

\* The buffer is full and goes to the file, at any byte of the listing.
ExportWrites ==
  /\ exporter = "writing"
  /\ \E k \in 0..(Len(listing) - 1), cut \in BOOLEAN :
       /\ Len(Written(k, cut)) > Len(file)
       /\ file' = Written(k, cut)
  /\ UNCHANGED <<vars, exporter, listing, replayVars, faults>>

\* The deferred Flush and the report of len(rows) records.
ExportEnds ==
  /\ exporter = "writing"
  /\ file' = Whole
  /\ exporter' = "done"
  /\ UNCHANGED <<vars, listing, replayVars, faults>>

\* A failing write inside the loop ends the export with an error; the error of
\* the deferred Flush is dropped, and the export reports success.
ExportDiskFault ==
  /\ exporter = "writing"
  /\ Fault
  /\ exporter' \in {"idle", "done"}
  /\ UNCHANGED <<vars, file, listing, replayVars>>

-----------------------------------------------------------------------------
(* dlq replay *)

\* What ReadIDsFromFile makes of a line: a cut record does not unmarshal, and
\* its text is taken for an id, which no row has.
NoSuchRow == "no such row"
LineID(line) == IF line.cut THEN NoSuchRow ELSE line.id

\* Mutant: the last line is taken for unfinished and skipped.
ReadAllButLast(lines) == {LineID(lines[i]) : i \in 1..(Len(lines) - 1)}

ReadIDs(lines) == {LineID(lines[i]) : i \in DOMAIN lines}

\* The scanner gives up on a line longer than 64 KiB, which a cut line may be.
TooLong(lines, cutToo) ==
  \E i \in DOMAIN lines : lines[i].id \in LongLines /\ (lines[i].cut => cutToo)

WholeLines(lines) == {lines[i].id : i \in {k \in DOMAIN lines : ~lines[k].cut}}

\* --ids, --from-file or both; uniqueIDs makes a set of them.  No replay begins
\* beyond the bound on replays.
ReplayReads ==
  /\ replayer # "read"
  /\ used["replay"] < Budget["replay"]
  /\ \E typed \in SUBSET Jobs, fromFile, cutToo \in BOOLEAN :
       LET all == typed \cup (IF fromFile THEN ReadIDs(file) ELSE {})
           ok == all # {} /\ ~(fromFile /\ TooLong(file, cutToo))
       IN /\ replayer' = IF ok THEN "read" ELSE "failed"
          /\ ids' = IF ok THEN all ELSE {}
          /\ held' = IF ok /\ fromFile THEN WholeLines(file) ELSE {}
          /\ intact' = (fromFile /\ exporter = "done" /\ file = Whole /\ file # <<>>)
  /\ UNCHANGED <<vars, exportVars, faults>>

\* One UPDATE for all the ids, some time after they were read.
ReplayRequeues ==
  /\ replayer = "read"
  /\ Cardinality(ids) + 4 <= MaxVariables
  /\ Spend("replay")
  /\ \E lag \in Lags : RequeueDLQIDs(ids, lag)
  /\ replayer' = "idle"
  /\ ids' = {}
  /\ held' = {}
  /\ intact' = FALSE
  /\ UNCHANGED <<proc, worker, history, exportVars, faults>>

\* The UPDATE fails as a whole: the database is busy, or there are more parameters
\* than SQLite allows, four besides the ids.
ReplayFails ==
  /\ replayer = "read"
  /\ IF Cardinality(ids) + 4 > MaxVariables THEN UNCHANGED faults ELSE Fault
  /\ replayer' = "failed"
  /\ ids' = {}
  /\ held' = {}
  /\ UNCHANGED <<vars, exportVars, intact>>

-----------------------------------------------------------------------------
(* The two commands and the relay *)

\* Any step of the relay: its replays are those made here.
RelayStep ==
  /\ Next
  /\ used'["replay"] = used["replay"]
  /\ UNCHANGED <<exportVars, replayVars, faults>>

DlqNext ==
  \/ ExportList \/ ExportCreate \/ ExportWrites \/ ExportEnds \/ ExportDiskFault
  \/ ReplayReads \/ ReplayRequeues \/ ReplayFails
  \/ RelayStep

DlqSpec == DlqInit /\ [][DlqNext]_dlqVars

-----------------------------------------------------------------------------
(* Properties *)

\* Every variable keeps its type, the table among them.
DlqTypeOK ==
  /\ jobs \in [Jobs -> Row]
  /\ file \in Seq([id : Jobs, cut : BOOLEAN])
  /\ exporter \in {"idle", "listed", "writing", "done"}
  /\ listing \in Seq(Jobs)
  /\ replayer \in {"idle", "read", "failed"}
  /\ ids \subseteq Jobs \cup {NoSuchRow}
  /\ held \subseteq Jobs
  /\ intact \in BOOLEAN
  /\ faults \in 0..MaxFaults

\* A replay that succeeds leaves none of the rows in the dead-letter queue whose
\* lines the file held whole when it was read: also of a file that an export was
\* still writing, that a failing write had cut, or that is older than the rows'
\* present states.
ReplayComplete ==
  [][replayer = "read" /\ replayer' = "idle"
       => \A j \in held : jobs'[j].status # "dlq"]_dlqVars

\* Whichever stale, partial or repeated list of ids is replayed, and whatever the
\* workers did with the rows since it was made: while no worker outlives its lease,
\* a replay queues a recipient again only if every acceptance of it by MailerSend
\* is one the relay lost track of -- a recipient that exhausted its attempts on
\* lost answers, say.  Mail the relay knows to be sent is not.
ReplayResendsOnlyDoubts ==
  [][Prompt /\ replayer = "read" /\ replayer' = "idle"
       => \A j \in Jobs : jobs'[j].status # jobs[j].status => accepted[j] <= doubt[j]]_dlqVars

-----------------------------------------------------------------------------
(* README.md: "relay dlq replay --from-file=./dlq-export.jsonl" replays    *)
(* what "relay dlq export --format=jsonl --out=./dlq-export.jsonl" wrote.  *)
ExportIsReplayable == intact /\ faults = 0 => replayer # "failed"
=============================================================================
