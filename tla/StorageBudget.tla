--------------------------- MODULE StorageBudget ---------------------------
(* Space on the card and the announced amount of work during an update:     *)
(* storage_preflight.cpp, update_install_readiness.cpp and the copies of    *)
(* update_installer.cpp.                                                    *)
(*                                                                          *)
(* What the files contain is module UpdateInstaller's; here a file is its   *)
(* sizes, and every file and directory occupies whole allocation units.     *)
(* The steps are those of Stage, ArmCandidate, Commit and Rollback that     *)
(* write or free space; power may fail at each of them.                     *)
EXTENDS Integers, Sequences, FiniteSetsExt

CONSTANTS
    Releases,       \* sequences of [policy, size, old, prepared, same]
    Slacks,         \* free bytes before the update, beyond what it is said to need
    Unit,           \* bytes of an allocation unit
    Fixed,          \* kUpdateStorageMetadataLogicalBytes
    Reserve,        \* kMinimumUpdateSafetyReserveBytes
    ZipSize,        \* bytes of the archive
    Directories,    \* directories of the release
    MaxCuts         \* bound on power cuts

Absent == -1       \* the size of a file that is not there
Policies == {"Kernel", "ManagedReplace", "ConfigTemplate", "Preserve", "Metadata"}
Snapshotted == {"Kernel", "ManagedReplace", "ConfigTemplate"}

ASSUME BudgetAssumption ==
    /\ Unit \in Nat \ {0} /\ Fixed \in Nat /\ ZipSize \in Nat /\ MaxCuts \in Nat
    /\ Directories \in Nat /\ Reserve \in Nat

ASSUME ReleasesAssumption ==
    /\ Slacks \subseteq Int
    /\ \A release \in Releases :
         /\ Len(release) \in Nat /\ DOMAIN release = 1..Len(release)
         /\ \A i \in DOMAIN release :
              /\ release[i].size \in Nat /\ release[i].prepared \in Nat
              /\ release[i].old \in Nat \cup {Absent}

VARIABLES
    files,      \* the release, with what the card has at its paths
    capacity,   \* free bytes at the start
    card,       \* what the update occupies, by kind of file
    live,       \* [index -> size of the file at its path]
    durable,    \* completed_steps of the journal: 0, the checkpoint, then each activation
    high,       \* next private step, in memory
    phase,      \* where the running call is
    work,       \* stage_work_completed, the total first announced, and whether the run is clean
    cuts

budgetVars == <<files, capacity, card, live, durable, high, phase, work, cuts>>

-----------------------------------------------------------------------------
(* Sizes *)

\* RoundUpUpdateAllocation
RoundUp(bytes) == ((bytes + Unit - 1) \div Unit) * Unit

Allocated(size) == IF size = Absent THEN 0 ELSE RoundUp(size)
Indices == 1..Len(files)

\* EffectiveSize: a prepared template has the size of what was prepared.
EffectiveSize(i) == IF files[i].policy = "ConfigTemplate" THEN files[i].prepared ELSE files[i].size

\* The sum of one number per file.
Sum(f) ==
    LET upTo[n \in 0..Len(f)] == IF n = 0 THEN 0 ELSE upTo[n - 1] + f[n]
    IN  upTo[Len(f)]

SumAllocated(S, size(_)) ==
    Sum([i \in Indices |-> IF i \in S THEN Allocated(size(i)) ELSE 0])

\* The largest temporary file.
LargestAllocated(S, size(_)) == Max({0} \cup {Allocated(size(i)) : i \in S})

\* CalculateUpdateMetadataAllocationBytes: a fixed part and a unit per entry.
MetadataBytes == RoundUp(Fixed) + (Len(files) + Directories) * Unit

\* The content plan's noop: the file on the card is already the new one. A file
\* that is preserved is never compared.
IsNoop(i) == files[i].same /\ files[i].policy # "Preserve"
Kept(i) == files[i].policy = "Preserve" /\ files[i].old # Absent

Snapshots == {i \in Indices : files[i].policy \in Snapshotted}
Activated == {i \in Indices : files[i].policy \notin {"Metadata", "Kernel"}}

\* EvaluateStoragePreflight for a demand.  The manifest's own peak, which the
\* code takes if it is the larger, is left out: here more is admitted.
RequiredPeak(demand) ==
    demand.zip + demand.staged + demand.snapshot + demand.temporary + MetadataBytes + Reserve

Sufficient(available, demand) == available >= RequiredPeak(demand)

Size(i) == files[i].size
Old(i) == files[i].old

\* BuildPreDownloadStorageDemand: all of the release and of what is on the card.
PreDownloadDemand ==
    [zip |-> RoundUp(ZipSize), staged |-> SumAllocated(Indices, Size),
     snapshot |-> SumAllocated(Snapshots, Old),
     temporary |-> Max({LargestAllocated(Indices, Size), LargestAllocated(Snapshots, Old)})]


-----------------------------------------------------------------------------
(* The card *)

\* What the update has put on the card besides the live files.
EmptyCard == [zip |-> FALSE, prepared |-> FALSE, plan |-> FALSE, dirs |-> 0,
           snapshot |-> {}, evidence |-> {}, staged |-> {}, candidate |-> {},
           part |-> [i \in Indices |-> 0]]

Used ==
    (IF card.zip THEN RoundUp(ZipSize) ELSE 0)
    + (IF card.prepared
       THEN SumAllocated({i \in Indices : files[i].policy = "ConfigTemplate"}, EffectiveSize)
       ELSE 0)
    + (IF card.plan THEN RoundUp(Fixed) ELSE 0)
    + card.dirs * Unit + Cardinality(card.evidence) * Unit
    + SumAllocated(card.snapshot, Old) + SumAllocated(card.staged, EffectiveSize)
    + SumAllocated(card.candidate, EffectiveSize)
    + Sum(card.part)
    + Sum([i \in Indices |-> Allocated(live[i]) - Allocated(files[i].old)])

Free == capacity - Used

\* CopyFileAtomic and the extraction: a part file left by an earlier attempt is
\* removed and written anew, or the card is found full.
Begin(bytes, then) ==
    IF Free + card.part[high] < Allocated(bytes)
    THEN phase' = "full" /\ UNCHANGED card
    ELSE phase' = then /\ card' = [card EXCEPT !.part[high] = Allocated(bytes)]

NoWork == [done |-> 0, announced |-> 0, clean |-> FALSE]

BudgetInit ==
    /\ files \in Releases
    /\ \E slack \in Slacks : capacity = RequiredPeak(PreDownloadDemand) + slack
    /\ card = EmptyCard
    /\ live = [i \in Indices |-> files[i].old]
    /\ durable = 0 /\ high = 1 /\ phase = "probe"
    /\ work = NoWork /\ cuts = 0

-----------------------------------------------------------------------------
(* Before the download *)

ProbeUpdateInstallReadiness ==
    /\ phase = "probe"
    /\ phase' = IF Sufficient(Free, PreDownloadDemand) THEN "download" ELSE "refused"
    /\ UNCHANGED <<files, capacity, card, live, durable, high, work, cuts>>

\* The archive, then the prepared configuration and the directories and plan of
\* the transaction. A card that is full here ends the update before it began.
Download ==
    /\ phase = "download"
    /\ LET next == [EmptyCard EXCEPT !.zip = TRUE, !.prepared = TRUE, !.plan = TRUE]
       IN  IF RoundUp(ZipSize) + RoundUp(Fixed)
              + SumAllocated({i \in Indices : files[i].policy = "ConfigTemplate"}, EffectiveSize)
              > Free
           THEN phase' = "refused" /\ UNCHANGED card
           ELSE phase' = "preflight" /\ card' = next
    /\ UNCHANGED <<files, capacity, live, durable, high, work, cuts>>

-----------------------------------------------------------------------------
(* Stage *)

Checkpoint == 1     \* AdvancePreparedTo: the private outputs are complete

\* PreflightStorage: what is still to be written, by content and journal.
StagePending ==
    {i \in Indices : ~IsNoop(i) /\ ~Kept(i) /\ i \notin card.staged /\ durable = 0}
SnapshotPending ==
    {i \in Snapshots : /\ ~IsNoop(i) /\ files[i].old # Absent
                       /\ i \notin card.snapshot /\ durable = 0}

\* A mutated form: the template counts as in the manifest, not as prepared.
DemandOfManifest ==
    [zip |-> 0, staged |-> SumAllocated(StagePending, Size),
     snapshot |-> SumAllocated(SnapshotPending, Old),
     temporary |-> Max({LargestAllocated(StagePending, Size),
                        LargestAllocated(SnapshotPending, Old)})]

Demand ==
    [zip |-> 0, staged |-> SumAllocated(StagePending, EffectiveSize),
     snapshot |-> SumAllocated(SnapshotPending, Old),
     temporary |-> Max({LargestAllocated(StagePending, EffectiveSize),
                        LargestAllocated(SnapshotPending, Old)})]

\* A mutated form: the check of a template before its snapshot is not counted.
SnapshotWorkUnchecked(i) ==
    IF files[i].policy \notin Snapshotted THEN 0
    ELSE IF i \in card.snapshot THEN Old(i)
    ELSE IF live[i] # Absent THEN 3 * live[i] ELSE 0

\* InitializeStageWork: a snapshot is read, written and read again; a template
\* is compared with the approved one before.
SnapshotWork(i) ==
    IF files[i].policy \notin Snapshotted THEN 0
    ELSE (IF i \in card.snapshot THEN Old(i)
          ELSE IF live[i] # Absent THEN 3 * live[i] ELSE 0)
         + (IF files[i].policy = "ConfigTemplate" /\ live[i] # Absent THEN live[i] ELSE 0)

\* A staged file is written and read back, and read again once it is activated.
StageWork(i) ==
    IF files[i].policy = "Preserve" /\ live[i] # Absent THEN 0
    ELSE (IF i \in card.staged THEN 1 ELSE 2) * EffectiveSize(i)
         + (IF i \in Activated THEN EffectiveSize(i) ELSE 0)

InitializeStageWork ==
    Sum([i \in Indices |-> IF IsNoop(i) THEN 0 ELSE SnapshotWork(i) + StageWork(i)])

\* AddStageWork
Did(bytes) == work' = [work EXCEPT !.done = @ + bytes]

PreflightStorage ==
    /\ phase = "preflight"
    /\ IF Sufficient(Free, Demand)
       THEN /\ phase' = "snapshot" /\ high' = 1
            /\ work' = [done |-> 0, announced |-> InitializeStageWork, clean |-> cuts = 0]
       ELSE phase' = "rollback" /\ high' = Len(files) /\ work' = work
    /\ UNCHANGED <<files, capacity, card, live, durable, cuts>>

\* SnapshotFile: the copy, into a part file and renamed.
SnapshotNeeded == high \in Snapshots /\ ~IsNoop(high) /\ durable = 0

SnapshotFile ==
    /\ phase = "snapshot" /\ high \in Indices
    /\ IF SnapshotNeeded /\ live[high] # Absent /\ high \notin card.snapshot
       THEN Begin(live[high], "snapshot_part") /\ UNCHANGED <<high, work>>
       ELSE /\ high' = high + 1
            /\ IF SnapshotNeeded /\ high \in card.snapshot
               THEN Did(Old(high) * IF files[high].policy = "ConfigTemplate" THEN 2 ELSE 1)
               ELSE UNCHANGED work
            /\ UNCHANGED <<card, phase>>
    /\ UNCHANGED <<files, capacity, live, durable, cuts>>

\* CopyFileAtomic and its evidence.
SnapshotDone ==
    /\ phase = "snapshot_part"
    /\ card' = [card EXCEPT !.snapshot = @ \cup {high}, !.evidence = @ \cup {high}, !.part[high] = 0]
    /\ Did(live[high] * IF files[high].policy = "ConfigTemplate" THEN 4 ELSE 3)
    /\ phase' = "snapshot" /\ high' = high + 1
    /\ UNCHANGED <<files, capacity, live, durable, cuts>>

\* FinalizeContentPlan: the plan takes over the evidence of the snapshots.
FinalizeContentPlan ==
    /\ phase = "snapshot" /\ high > Len(files)
    /\ card' = [card EXCEPT !.evidence = @ \ Snapshots, !.dirs = 2 * Directories]
    /\ phase' = "stage" /\ high' = 1
    /\ UNCHANGED <<files, capacity, live, durable, work, cuts>>

\* StageFile, from the archive or from the prepared file.
StageNeeded == ~IsNoop(high) /\ ~Kept(high) /\ durable = 0

StageFile ==
    /\ phase = "stage" /\ high \in Indices
    /\ IF StageNeeded /\ high \notin card.staged
       THEN Begin(EffectiveSize(high), "stage_part") /\ UNCHANGED <<high, work>>
       ELSE /\ high' = high + 1
            /\ IF StageNeeded THEN Did(EffectiveSize(high)) ELSE UNCHANGED work
            /\ UNCHANGED <<card, phase>>
    /\ UNCHANGED <<files, capacity, live, durable, cuts>>

StageDone ==
    /\ phase = "stage_part"
    /\ card' = [card EXCEPT !.staged = @ \cup {high}, !.part[high] = 0,
                            !.evidence = IF high \in Snapshots THEN @ ELSE @ \cup {high}]
    /\ Did(2 * EffectiveSize(high))
    /\ phase' = "stage" /\ high' = high + 1
    /\ UNCHANGED <<files, capacity, live, durable, cuts>>

\* AdvancePreparedTo and ActivateDirectory.
ActivateDirectories ==
    /\ phase = "stage" /\ high > Len(files)
    /\ durable' = IF durable = 0 THEN Checkpoint ELSE durable
    /\ card' = [card EXCEPT !.dirs = 4 * Directories]
    /\ phase' = "activate" /\ high' = 1
    /\ UNCHANGED <<files, capacity, live, work, cuts>>

\* ActivateFile: the staged file is renamed over the old one.
ActivateFile ==
    /\ phase = "activate" /\ high \in Indices
    /\ IF high \in Activated \ card.staged \/ high \notin Activated
       THEN UNCHANGED <<card, live, work>>
       ELSE /\ live' = [live EXCEPT ![high] = EffectiveSize(high)]
            /\ card' = [card EXCEPT !.staged = @ \ {high}]
            /\ Did(EffectiveSize(high))
    /\ high' = high + 1
    /\ durable' = Max({durable, Checkpoint + high})
    /\ UNCHANGED <<files, capacity, phase, cuts>>

Staged ==
    /\ phase = "activate" /\ high > Len(files)
    /\ phase' = "staged" /\ high' = 1
    /\ UNCHANGED <<files, capacity, card, live, durable, work, cuts>>

-----------------------------------------------------------------------------
(* The candidate, commit and rollback *)

\* ArmCandidate copies the active machine's kernel, if it is a new one, to the
\* candidate's name.
ArmCandidate ==
    /\ phase = "staged"
    /\ \/ phase' = "arming" /\ UNCHANGED card
       \/ \E k \in card.staged :
            /\ files[k].policy = "Kernel" /\ card.candidate \subseteq {k}
            /\ IF Free + SumAllocated(card.candidate, EffectiveSize) < Allocated(EffectiveSize(k))
               THEN phase' = "full" /\ UNCHANGED card
               ELSE phase' = "arming" /\ card' = [card EXCEPT !.candidate = {k}]
    /\ UNCHANGED <<files, capacity, live, durable, high, work, cuts>>

\* The record CANDIDATE_PENDING.
Armed ==
    /\ phase = "arming" /\ phase' = "armed"
    /\ UNCHANGED <<files, capacity, card, live, durable, high, work, cuts>>

\* Commit renames kernel and metadata into place; what was there is kept as a
\* snapshot, or moved aside.
Commit ==
    /\ phase = "armed"
    /\ \E i \in card.staged :
         /\ live' = [live EXCEPT ![i] = EffectiveSize(i)]
         /\ card' = [card EXCEPT !.staged = @ \ {i},
                                 !.snapshot = IF files[i].old = Absent THEN @ ELSE @ \cup {i}]
    /\ UNCHANGED <<files, capacity, durable, high, phase, work, cuts>>

Committed ==
    /\ phase = "armed" /\ card.staged = {}
    /\ phase' = "committed" /\ card' = [card EXCEPT !.candidate = {}]
    /\ UNCHANGED <<files, capacity, live, durable, high, work, cuts>>

\* DisarmCandidate comes first.
Rollback ==
    /\ phase \in {"staged", "armed"}
    /\ phase' = "rollback" /\ high' = Len(files)
    /\ card' = [card EXCEPT !.candidate = {}]
    /\ UNCHANGED <<files, capacity, live, durable, work, cuts>>

\* RestoreFile, in reverse order: a file that was replaced is copied back from
\* its snapshot, metadata is moved back, a new file is removed.
RestoreFile ==
    /\ phase = "rollback" /\ high \in Indices
    /\ IF /\ durable >= Checkpoint /\ ~IsNoop(high) /\ high \notin card.staged
          /\ high \in card.snapshot \cap Snapshots
       THEN Begin(Old(high), "restore_part") /\ UNCHANGED <<high, live>>
       ELSE /\ high' = high - 1
            /\ live' = [live EXCEPT ![high] = Old(high)]
            /\ card' = IF high \in Snapshots THEN card
                       ELSE [card EXCEPT !.snapshot = @ \ {high}]
            /\ phase' = phase
    /\ UNCHANGED <<files, capacity, durable, work, cuts>>

RestoreDone ==
    /\ phase = "restore_part"
    /\ live' = [live EXCEPT ![high] = Old(high)]
    /\ card' = [card EXCEPT !.part[high] = 0]
    /\ phase' = "rollback" /\ high' = high - 1
    /\ UNCHANGED <<files, capacity, durable, work, cuts>>

RolledBack ==
    /\ phase = "rollback" /\ high = 0
    /\ phase' = "rolled_back" /\ card' = EmptyCard
    /\ UNCHANGED <<files, capacity, live, durable, high, work, cuts>>

\* A power cut; the next boot stages or arms again, or rolls back. A part file
\* stays until its copy is made again, and a candidate kernel that was not
\* recorded is not disarmed.
PowerCut ==
    /\ phase \notin {"probe", "download", "refused", "committed", "rolled_back", "full"}
    /\ cuts < MaxCuts /\ cuts' = cuts + 1
    /\ phase' \in IF phase \in {"rollback", "restore_part"} THEN {"rollback"}
               ELSE IF phase \in {"staged", "arming"} THEN {"staged", "rollback"}
               ELSE IF phase = "armed" THEN {"armed"}
               ELSE {"preflight", "rollback"}
    /\ high' = IF phase' = "rollback" THEN Len(files) ELSE 1
    /\ UNCHANGED <<files, capacity, card, live, durable, work>>

Ended ==
    /\ phase \in {"refused", "committed", "rolled_back", "full"}
    /\ UNCHANGED budgetVars

BudgetNext ==
    \/ ProbeUpdateInstallReadiness \/ Download \/ PreflightStorage
    \/ SnapshotFile \/ SnapshotDone \/ FinalizeContentPlan
    \/ StageFile \/ StageDone \/ ActivateDirectories \/ ActivateFile \/ Staged
    \/ ArmCandidate \/ Armed \/ Commit \/ Committed
    \/ Rollback \/ RestoreFile \/ RestoreDone \/ RolledBack
    \/ PowerCut \/ Ended

BudgetSpec == BudgetInit /\ [][BudgetNext]_budgetVars

-----------------------------------------------------------------------------
(* Properties *)

\* One of the counted units of a directory pays for itself; the private ones below
\* the stage and snapshot roots, and the new one on the card, are left to the
\* reserve.  Nothing compares the two: with kMinimumUpdateSafetyReserveBytes and
\* the largest unit they fit up to 85 directories, and a manifest may have 2048.
DirectoriesFit == 3 * Directories * Unit <= Reserve

\* An update that was admitted does not find the card full, as long as its
\* directories fit in the reserve: not for a snapshot, a staged file, the
\* candidate kernel, and above all not for the restores of a rollback, whatever
\* the prepared files grew to (PreflightStorage, CopyFileAtomic). Otherwise only
\* what two power cuts left behind, part files of interrupted restores and a
\* candidate kernel that was not recorded, can fill it, if it is more than the
\* directories leave of the reserve.
NeverFull ==
    phase = "full" =>
      \/ ~DirectoriesFit
      \/ /\ cuts > 1
         /\ SumAllocated(card.candidate, EffectiveSize) + Sum(card.part)
              > Reserve - 3 * Directories * Unit

\* The total announced to the user is exact for a run without interruption, as
\* AddStageWork says, whatever is kept, unchanged, prepared or new.
WorkIsAnnounced == phase = "staged" /\ work.clean => work.done = work.announced
=============================================================================
