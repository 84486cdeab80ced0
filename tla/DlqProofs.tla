----------------------------- MODULE DlqProofs ------------------------------
(***************************************************************************)
(* Proofs about DlqCommands, for any rows, workers, limits and faults, and *)
(* any number of exports and replays.  The two commands touch the relay    *)
(* only through the replay's statement, so that whatever is proved of      *)
(* Relay holds beside them; what a replay may then do to a recipient       *)
(* follows from the invariant of the lease.                                *)
(***************************************************************************)
EXTENDS DlqCommands, LeaseProofs

\* What the commands keep outside the table, and that a replay has read every
\* row the file held whole.
FilesOK ==
  /\ file \in Seq([id : Jobs, cut : BOOLEAN])
  /\ exporter \in {"idle", "listed", "writing", "done"}
  /\ listing \in Seq(Jobs)
  /\ replayer \in {"idle", "read", "failed"}
  /\ ids \subseteq Jobs \cup {NoSuchRow}
  /\ held \subseteq Jobs
  /\ held \subseteq ids
  /\ intact \in BOOLEAN
  /\ faults \in 0..MaxFaults

-----------------------------------------------------------------------------
(* The export file *)

\* What the buffered writer has put into the file is a beginning of the listing.
LEMMA WrittenType ==
  ASSUME listing \in Seq(Jobs), NEW k \in Nat, NEW cut \in BOOLEAN,
         (IF cut THEN k + 1 ELSE k) <= Len(listing)
  PROVE  Written(k, cut) \in Seq([id : Jobs, cut : BOOLEAN])
<1>. DEFINE n == IF cut THEN k + 1 ELSE k
<1>1. n \in Nat /\ n <= Len(listing)
  OBVIOUS
<1>. HIDE DEF n
<1>2. \A i \in 1..n : listing[i] \in Jobs
  BY <1>1
<1>3. [i \in 1..n |-> [id |-> listing[i], cut |-> i > k]] \in Seq([id : Jobs, cut : BOOLEAN])
  BY <1>1, <1>2
<1>. QED BY <1>3 DEF Written, n

\* What the replay reads from any file are ids of rows, or of none, and among
\* them are those of all lines that are there as a whole.
LEMMA ReadIDsType ==
  ASSUME file \in Seq([id : Jobs, cut : BOOLEAN])
  PROVE  /\ ReadIDs(file) \subseteq Jobs \cup {NoSuchRow}
         /\ WholeLines(file) \subseteq Jobs
         /\ WholeLines(file) \subseteq ReadIDs(file)
<1>1. \A i \in DOMAIN file : file[i] \in [id : Jobs, cut : BOOLEAN]
  <2>. DEFINE Line == [id : Jobs, cut : BOOLEAN]
  <2>1. file \in Seq(Line)
    OBVIOUS
  <2>. HIDE DEF Line
  <2>2. \A i \in DOMAIN file : file[i] \in Line
    BY <2>1
  <2>. QED BY <2>2 DEF Line
<1>. QED BY <1>1 DEF ReadIDs, WholeLines, LineID

\* A listing is a sequence of rows of the dead-letter queue.
LEMMA ListDLQType ==
  ASSUME NEW limit \in ExportLimits, NEW s \in ListDLQ(limit)
  PROVE  s \in Seq(Jobs)
<1>1. IsFiniteSet(InDLQ)
  BY JobsAssumption, FS_Subset DEF InDLQ
<1>2. Cardinality(InDLQ) \in Nat
  BY <1>1, FS_CardinalityType
<1>3. PICK n \in Nat : s \in [1..n -> InDLQ]
  BY <1>2, DlqAssumption DEF ListDLQ
<1>4. s \in [1..n -> Jobs]
  BY <1>3 DEF InDLQ
<1>. QED BY <1>4

-----------------------------------------------------------------------------
(* The steps *)

\* The export changes nothing but its own state and the file.
LEMMA ExportStep ==
  ASSUME FilesOK, ExportList \/ ExportCreate \/ ExportWrites \/ ExportEnds \/ ExportDiskFault
  PROVE  FilesOK'
<1>. USE DEF FilesOK
<1>0. UNCHANGED <<replayer, ids, held, intact>>
  BY DEF ExportList, ExportCreate, ExportWrites, ExportEnds, ExportDiskFault, replayVars
<1>1. CASE ExportList
  <2>1. listing' \in Seq(Jobs)
    BY <1>1, ListDLQType DEF ExportList
  <2>. QED BY <1>0, <1>1, <2>1 DEF ExportList
<1>2. CASE ExportCreate
  BY <1>0, <1>2 DEF ExportCreate
<1>3. CASE ExportWrites
  <2>1. file' \in Seq([id : Jobs, cut : BOOLEAN])
    <3>1. PICK k \in 0..(Len(listing) - 1), cut \in BOOLEAN : file' = Written(k, cut)
      BY <1>3 DEF ExportWrites
    <3>2. k \in Nat /\ (IF cut THEN k + 1 ELSE k) <= Len(listing)
      OBVIOUS
    <3>. QED BY <3>1, <3>2, WrittenType
  <2>. QED BY <1>0, <1>3, <2>1 DEF ExportWrites
<1>4. CASE ExportEnds
  <2>1. Whole \in Seq([id : Jobs, cut : BOOLEAN])
    <3>1. Len(listing) \in Nat /\ Len(listing) <= Len(listing)
      OBVIOUS
    <3>. QED BY <3>1, WrittenType DEF Whole
  <2>. QED BY <1>0, <1>4, <2>1 DEF ExportEnds
<1>5. CASE ExportDiskFault
  <2>1. faults' \in 0..MaxFaults
    BY <1>5, DlqAssumption DEF ExportDiskFault, Fault
  <2>. QED BY <1>0, <1>5, <2>1 DEF ExportDiskFault
<1>. QED BY <1>1, <1>2, <1>3, <1>4, <1>5

\* A replay reads whatever the file holds at that moment, and ends with its
\* statement, which succeeds or fails.
LEMMA ReplayStep ==
  ASSUME FilesOK, ReplayReads \/ ReplayRequeues \/ ReplayFails
  PROVE  FilesOK'
<1>. USE DEF FilesOK
<1>0. UNCHANGED <<file, exporter, listing>>
  BY DEF ReplayReads, ReplayRequeues, ReplayFails, exportVars
<1>1. CASE ReplayReads
  <2>1. PICK typed \in SUBSET Jobs, fromFile \in BOOLEAN, ok \in BOOLEAN :
          /\ replayer' = IF ok THEN "read" ELSE "failed"
          /\ ids' = IF ok THEN typed \cup (IF fromFile THEN ReadIDs(file) ELSE {}) ELSE {}
          /\ held' = IF ok /\ fromFile THEN WholeLines(file) ELSE {}
          /\ intact' \in BOOLEAN
    BY <1>1 DEF ReplayReads
  <2>2. ids' \subseteq Jobs \cup {NoSuchRow} /\ held' \subseteq Jobs /\ held' \subseteq ids'
    BY <2>1, ReadIDsType
  <2>3. replayer' \in {"idle", "read", "failed"} /\ intact' \in BOOLEAN
    BY <2>1
  <2>. QED BY <1>0, <1>1, <2>2, <2>3 DEF ReplayReads
<1>2. CASE ReplayRequeues
  BY <1>0, <1>2 DEF ReplayRequeues
<1>3. CASE ReplayFails
  <2>1. faults' \in 0..MaxFaults
    BY <1>3, DlqAssumption DEF ReplayFails, Fault
  <2>. QED BY <1>0, <1>3, <2>1 DEF ReplayFails
<1>. QED BY <1>1, <1>2, <1>3

\* The file and the two commands keep their types; nothing else touches them.
THEOREM FilesInvariant == DlqSpec => []FilesOK
<1>1. DlqInit => FilesOK
  <2>. SUFFICES ASSUME DlqInit PROVE FilesOK
    OBVIOUS
  <2>1. MaxFaults \in Nat
    BY DlqAssumption
  <2>2. faults \in 0..MaxFaults
    BY <2>1 DEF DlqInit
  <2>3. intact \in BOOLEAN
    BY Zenon DEF DlqInit
  <2>. QED BY <2>2, <2>3 DEF DlqInit, FilesOK
<1>2. FilesOK /\ [DlqNext]_dlqVars => FilesOK'
  <2>1. CASE UNCHANGED <<exportVars, replayVars, faults>>
    BY <2>1 DEF FilesOK, exportVars, replayVars
  <2>. QED BY <2>1, ExportStep, ReplayStep DEF DlqNext, RelayStep, dlqVars
<1>. QED BY <1>1, <1>2, PTL DEF DlqSpec

-----------------------------------------------------------------------------
(* The commands beside the relay *)

\* The relay sees of the two commands no more than a replay's statement.
LEMMA RelaySees ==
  ASSUME [DlqNext]_dlqVars
  PROVE  [Next]_vars
<1>1. CASE ReplayRequeues
  <2>1. PICK lag \in Lags : RequeueDLQIDs(ids, lag)
    BY <1>1 DEF ReplayRequeues
  <2>2. RequeueDLQIDs(ids \cap Jobs, lag)
    BY <2>1 DEF RequeueDLQIDs
  <2>3. ids \cap Jobs \in SUBSET Jobs
    OBVIOUS
  <2>4. DlqReplay
    BY <1>1, <2>2, <2>3 DEF ReplayRequeues, DlqReplay
  <2>. QED BY <2>4 DEF Next
<1>2. CASE ~ReplayRequeues
  BY <1>2 DEF DlqNext, ExportList, ExportCreate, ExportWrites, ExportEnds, ExportDiskFault,
              ReplayReads, ReplayFails, RelayStep, dlqVars
<1>. QED BY <1>1, <1>2

\* Exports and replays from files that grow, are cut or are out of date add
\* nothing to what Relay's replay of any set of ids does: every theorem about the
\* relay holds while the two commands run beside it.
THEOREM RelayBesideCommands == DlqSpec => Spec
<1>1. DlqInit => Init
  BY DEF DlqInit
<1>2. [DlqNext]_dlqVars => [Next]_vars
  BY RelaySees
<1>. QED BY <1>1, <1>2, PTL DEF DlqSpec, Spec

\* The table, the file and the ids the commands work on keep their types.
THEOREM DlqTypes == DlqSpec => []DlqTypeOK
<1>1. TypeOK /\ FilesOK => DlqTypeOK
  BY DEF TypeOK, FilesOK, DlqTypeOK
<1>. QED BY <1>1, FilesInvariant, RelayBesideCommands, TypeCorrect, PTL

\* The only step by which a replay succeeds is its statement.
LEMMA SuccessIsRequeue ==
  ASSUME DlqNext, replayer = "read", replayer' = "idle"
  PROVE  ReplayRequeues
BY DEF DlqNext, ExportList, ExportCreate, ExportWrites, ExportEnds, ExportDiskFault,
       ReplayReads, ReplayFails, RelayStep, replayVars

\* A replay that reports success leaves no row in the dead-letter queue whose line
\* the file held whole, the last line and the lines before a cut one included.
THEOREM ReplayIsComplete == DlqSpec => ReplayComplete
<1>1. TypeOK /\ FilesOK /\ [DlqNext]_dlqVars
        => [replayer = "read" /\ replayer' = "idle"
              => \A j \in held : jobs'[j].status # "dlq"]_dlqVars
  <2>. SUFFICES ASSUME TypeOK, FilesOK, DlqNext, replayer = "read", replayer' = "idle",
                       NEW j \in held
                PROVE  jobs'[j].status # "dlq"
    OBVIOUS
  <2>1. PICK lag \in Lags : RequeueDLQIDs(ids, lag)
    BY SuccessIsRequeue DEF ReplayRequeues
  <2>2. j \in Jobs /\ j \in ids /\ jobs \in [Jobs -> Row]
    BY DEF FilesOK, TypeOK
  <2>3. IF jobs[j].status = "dlq"
        THEN Moved(j, "retry", jobs[j].attempt_count, NULL, 0)
        ELSE jobs'[j] = jobs[j]
    BY <2>1, <2>2, ReplayEffect
  <2>. QED BY <2>3 DEF Moved
<1>. QED BY <1>1, FilesInvariant, RelayBesideCommands, TypeCorrect, PTL DEF DlqSpec, ReplayComplete

\* A replay of any stale, partial or repeated list queues a recipient again only if
\* the relay lost track of every acceptance of it: RequeueDLQIDs takes rows of the
\* dead-letter queue only, and such a row is nobody's claim, so that no acceptance
\* of it is still on its way to be recorded.
THEOREM ReplaysOnlyDoubts == DlqSpec => ReplayResendsOnlyDoubts
<1>1. PromptInv /\ [DlqNext]_dlqVars
        => [Prompt /\ replayer = "read" /\ replayer' = "idle"
              => \A j \in Jobs : jobs'[j].status # jobs[j].status
                                   => accepted[j] <= doubt[j]]_dlqVars
  <2>. SUFFICES ASSUME PromptInv, DlqNext, Prompt, replayer = "read", replayer' = "idle",
                       NEW j \in Jobs, jobs'[j].status # jobs[j].status
                PROVE  accepted[j] <= doubt[j]
    OBVIOUS
  <2>1. PICK lag \in Lags : RequeueDLQIDs(ids, lag)
    BY SuccessIsRequeue DEF ReplayRequeues
  <2>2. jobs[j].status = "dlq"
    BY <2>1 DEF RequeueDLQIDs
  <2>3. Owned /\ Accounted(j)
    BY DEF PromptInv
  <2>4. ~Carried(j)
    BY <2>2, <2>3 DEF Carried, Owned, OwnRow
  <2>. QED BY <2>2, <2>3, <2>4 DEF Accounted
<1>. QED BY <1>1, RelayBesideCommands, PromptInvariant, PTL DEF DlqSpec, ReplayResendsOnlyDoubts
=============================================================================
