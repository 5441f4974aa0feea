--------------------------- MODULE UpdateInstaller ---------------------------
(***************************************************************************)
(* The installer of one update transaction (src/update/update_installer).  *)
(* It snapshots the files it will replace, stages the new ones in private  *)
(* directories, activates them one journaled step at a time, arms a        *)
(* candidate boot, commits it or rolls it back, and retires its private    *)
(* files.  Every operation reads the journal and the disk again when it    *)
(* starts, so that a power cut or a failing call may end it anywhere.      *)
(*                                                                         *)
(* The journal is the atomic register that JournalSlots implements.  A     *)
(* file is its content: Missing, the "old" bytes the transaction found,    *)
(* the "new" bytes of the release, or, for the candidate selector only,    *)
(* "next", the temporary kernel it names while a candidate is armed.  A    *)
(* copy or a fresh file is written under a temporary name, synced and      *)
(* renamed to a name that did not exist, which is one step here; renaming  *)
(* over an existing file is one step or two, see atomic_replace.           *)
(***************************************************************************)
EXTENDS UpdateJournal, Sequences, FiniteSets

CONSTANTS
    Policy,             \* ManifestFilePolicy of every file, in manifest order
    Selector,           \* index of the candidate selector file
    DirectoryCount,     \* directories of the manifest
    ResetRequired,      \* the request's consent to reset configurations
    ReplaceModes,       \* the values of atomic_replace to consider
    Empty,              \* no journal
    NoPlan              \* a content plan file that does not exist

Policies == {"ManagedReplace", "ConfigTemplate", "Kernel", "Preserve",
             "Metadata"}

Files == 1 .. Len(Policy)

Directories == 1 .. DirectoryCount

ASSUME InstallerAssumption ==
    /\ Policy \in Seq(Policies)
    /\ Selector \in Files /\ Policy[Selector] = "ConfigTemplate"
    /\ DirectoryCount \in Nat
    /\ ResetRequired \in BOOLEAN /\ ReplaceModes \subseteq BOOLEAN
    /\ Empty \notin JournalRecords /\ Transactions # {}
    /\ Missing \notin {"old", "new", "next"}

VARIABLES
    \* The disk.
    journal,    \* the newest valid record, or Empty
    request,    \* the saved request: "none", "active", "inert" (active, but its
                \* archive is discarded) or "committed"
    live,       \* the files of the installation
    staged, snapshot, metadata_old,     \* the private trees
    evidence,   \* files whose snapshot-<index> record exists
    marker,     \* file-existed-<index>: "none", "existed" or "absent"
    folder,     \* the directories that exist
    folder_marker,      \* dir-existed-<index>
    prepared_plan, final_plan,
    \* The memory of the running operation.
    pc,         \* where it is; "ready" if none runs
    cursor,     \* its loop index
    high_water, \* prepared_high_water
    \* What the transaction found.  The prepared configurations keep it for
    \* the configuration files; for the others it is history, for properties.
    original, original_folder,
    atomic_replace,     \* crash_safe_replace_with_backup of the file system
    active_selector     \* the stable selector: "published", or "unlinked" by a
                        \* commit that has not renamed its successor yet

private == <<staged, snapshot, metadata_old, evidence, marker, folder_marker,
             prepared_plan, final_plan>>
memory == <<cursor, high_water>>
background == <<original, original_folder, atomic_replace, active_selector>>
vars == <<journal, request, live, private, folder, pc, memory, background>>

\* The journal exists and is in one of the states.
InState(states) == journal # Empty /\ journal.state \in states

Bytes == {Missing, "old", "new", "next"}

Markers == {"none", "existed", "absent"}

Plans == [old : [Files -> Bytes], hashed : SUBSET Files]

ASSUME PlanAssumption == NoPlan \notin Plans

PCs == {"ready", "initialize", "plan", "snapshot", "finalize",
        "drop_prepared", "drop_evidence", "stage", "activate", "arm",
        "armed", "commit", "selector_done", "rollback", "disarm", "restore",
        "restore_rename", "folders", "idle", "retire_files",
        "retire_markers", "retire_evidence", "retire_folders",
        "retire_prepared", "retire_final", "retire_journal", "retired"}

TypeOK ==
    /\ journal \in JournalRecords \cup {Empty}
    /\ request \in {"none", "active", "inert", "committed"}
    /\ live \in [Files -> Bytes]
    /\ staged \in [Files -> Bytes]
    /\ snapshot \in [Files -> Bytes]
    /\ metadata_old \in [Files -> Bytes]
    /\ evidence \subseteq Files
    /\ marker \in [Files -> Markers]
    /\ folder \subseteq Directories
    /\ folder_marker \in [Directories -> Markers]
    /\ prepared_plan \in Plans \cup {NoPlan}
    /\ final_plan \in Plans \cup {NoPlan}
    /\ pc \in PCs
    /\ cursor \in 0 .. Len(Policy) + DirectoryCount + 1
    /\ high_water \in Nat
    /\ original \in [Files -> Bytes]
    /\ original_folder \subseteq Directories
    /\ atomic_replace \in ReplaceModes
    /\ active_selector \in {"published", "unlinked"}

-----------------------------------------------------------------------------
(* BuildStepLayout: the number of every step, in the order of the work. *)

Snapshotted == {"ManagedReplace", "ConfigTemplate", "Kernel"}

ActivatedByStage == {"ManagedReplace", "ConfigTemplate", "Preserve"}

CountOf(policies) == Cardinality({f \in Files : Policy[f] \in policies})

CountBefore(f, policies) ==
    Cardinality({g \in Files : g < f /\ Policy[g] \in policies})

file_stage_begin         == CountOf(Snapshotted)
directory_activate_begin == file_stage_begin + Len(Policy)
file_activate_begin      == directory_activate_begin + DirectoryCount
stage_end                == file_activate_begin + CountOf(ActivatedByStage)
arm_step                 == stage_end
health_step              == arm_step + 1
kernel_begin             == health_step + 1
metadata_begin           == kernel_begin + CountOf({"Kernel"})
\* Mutant: the layout forgets the metadata steps.
SelectorBeforeMetadata == metadata_begin

selector_step            == metadata_begin + CountOf({"Metadata"})
total                    == selector_step + 1

SnapshotStep(f) == CountBefore(f, Snapshotted)

StageStep(f) == file_stage_begin + f - 1

FolderStep(d) == directory_activate_begin + d - 1

ActivationStep(f) ==
    CASE Policy[f] = "Kernel" -> kernel_begin + CountBefore(f, {"Kernel"})
      [] Policy[f] = "Metadata" -> metadata_begin + CountBefore(f, {"Metadata"})
      [] OTHER -> file_activate_begin + CountBefore(f, ActivatedByStage)

-----------------------------------------------------------------------------
(* The content plan and what it says of a file. *)

Plan == IF final_plan # NoPlan THEN final_plan ELSE prepared_plan

LoadContentPlan(require_final) ==
    final_plan # NoPlan \/ (~require_final /\ prepared_plan # NoPlan)

IsNoop(f) == Policy[f] # "Preserve" /\ Plan.old[f] = "new"

SourceExisted(f) == Plan.old[f] # Missing

\* ReadSnapshotEvidence: the digest of the old file is in the plan, or in a
\* record of its own until the plan is final.
DigestKnown(f) ==
    f \in Plan.hashed \/ (final_plan = NoPlan /\ f \in evidence)

-----------------------------------------------------------------------------
Init ==
    /\ journal = Empty
    /\ request = "none"
    /\ live \in [Files -> {Missing, "old", "new"}]
    /\ staged = [f \in Files |-> Missing]
    /\ snapshot = [f \in Files |-> Missing]
    /\ metadata_old = [f \in Files |-> Missing]
    /\ evidence = {}
    /\ marker = [f \in Files |-> "none"]
    /\ folder \in SUBSET Directories
    /\ folder_marker = [d \in Directories |-> "none"]
    /\ prepared_plan = NoPlan
    /\ final_plan = NoPlan
    /\ pc = "ready"
    /\ cursor = 0
    /\ high_water = 0
    /\ original = live
    /\ original_folder = folder
    /\ atomic_replace \in ReplaceModes
    /\ active_selector = "published"

WriteTransition(r) ==
    /\ ValidateJournalTransition(journal, r)
    /\ journal' = r

\* The running operation returns; nothing it kept in memory survives.
Return == pc' = "ready" /\ cursor' = 0 /\ high_water' = 0

\* The end of one turn of a loop over the manifest's files.
NextFile(after, first) ==
    IF cursor = Len(Policy) THEN pc' = after /\ cursor' = first
                            ELSE pc' = pc /\ cursor' = cursor + 1

-----------------------------------------------------------------------------
(* Stage. *)

\* ValidatePreparedConfigs: a configuration is as the user last saw it, or
\* has been replaced by this very transaction.
ConfigsAsConsented ==
    \A f \in Files : Policy[f] = "ConfigTemplate" =>
        \/ live[f] = original[f]
        \/ InState(JournalStates \ {"Idle"}) /\ live[f] = "new"

BeginStage ==
    /\ pc = "ready" /\ request = "active"
    /\ \/ journal = Empty
       \/ InState({"Idle"}) /\ journal.generation = 1
       \/ InState({"Discovered", "Downloaded", "Prepared"})
    /\ ConfigsAsConsented
    /\ pc' = "initialize"
    /\ UNCHANGED <<journal, request, live, private, folder, memory, background>>

InitializeJournal ==
    /\ pc = "initialize"
    /\ \/ journal = Empty /\ journal' = MakeIdleJournalRecord(1) /\ pc' = pc
       \/ /\ InState({"Idle"})
          /\ \E t \in Transactions :
                WriteTransition(Discovered(journal, t, ResetRequired, total))
          /\ pc' = pc
       \/ /\ InState({"Discovered"})
          /\ WriteTransition(Downloaded(journal))
          /\ pc' = pc
       \/ /\ InState({"Downloaded"})
          /\ WriteTransition(Prepared(journal))
          /\ pc' = "plan"
       \/ /\ InState({"Prepared"})
          /\ pc' = "plan"
          /\ UNCHANGED journal
    /\ UNCHANGED <<request, live, private, folder, memory, background>>

\* Files whose old digest the first plan holds: configurations and metadata
\* always, other replaced files when their size is that of the new one.
AlwaysHashed ==
    {f \in Files : \/ live[f] # Missing
                      /\ Policy[f] \in {"ConfigTemplate", "Metadata"}
                   \/ live[f] = "new" /\ Policy[f] # "Preserve"}

MaybeHashed ==
    {f \in Files : live[f] # Missing /\ Policy[f] # "Preserve"}

BuildContentPlan ==
    /\ pc = "plan"
    /\ IF LoadContentPlan(FALSE)
       THEN UNCHANGED prepared_plan
       ELSE \E hashed \in SUBSET MaybeHashed :
               /\ AlwaysHashed \subseteq hashed
               /\ prepared_plan' = [old |-> live, hashed |-> hashed]
    /\ pc' = "snapshot"
    /\ cursor' = 1
    /\ high_water' = journal.completed_steps
    /\ UNCHANGED <<journal, request, live, staged, snapshot, metadata_old,
                   evidence, marker, folder_marker, final_plan, folder,
                   background>>

SnapshotDue(f) == Policy[f] \in Snapshotted /\ high_water = SnapshotStep(f)

\* A configuration that the user changed since the consent is refused.
ConfigUnchanged(f) == Policy[f] = "ConfigTemplate" => live[f] = original[f]

\* Mutant: a known digest is taken for a snapshot.
SnapshotAssumed(f) ==
    IsNoop(f) \/ ~SourceExisted(f) \/ DigestKnown(f)

SnapshotDone(f) ==
    \/ IsNoop(f)
    \/ /\ ConfigUnchanged(f) /\ ~SourceExisted(f)
       /\ live[f] = Missing /\ snapshot[f] = Missing
    \/ /\ ConfigUnchanged(f) /\ SourceExisted(f)
       /\ DigestKnown(f) /\ snapshot[f] = Plan.old[f]

SnapshotMayCopy(f) ==
    /\ ~IsNoop(f) /\ ConfigUnchanged(f) /\ SourceExisted(f)
    /\ snapshot[f] = Missing /\ live[f] = Plan.old[f]

SnapshotMayRecord(f) ==
    /\ ~IsNoop(f) /\ ConfigUnchanged(f) /\ SourceExisted(f)
    /\ ~DigestKnown(f) /\ snapshot[f] # Missing /\ snapshot[f] = live[f]

\* SnapshotFile, one durable effect at a time: the copy, its evidence.
SnapshotFile ==
    /\ pc = "snapshot"
    /\ LET f == cursor IN
       \/ /\ ~SnapshotDue(f)
          /\ Policy[f] \in Snapshotted => high_water > SnapshotStep(f)
          /\ NextFile("finalize", 1)
          /\ UNCHANGED <<snapshot, evidence, high_water>>
       \/ /\ SnapshotDue(f) /\ SnapshotDone(f)
          /\ NextFile("finalize", 1)
          /\ high_water' = high_water + 1
          /\ UNCHANGED <<snapshot, evidence>>
       \/ /\ SnapshotDue(f) /\ SnapshotMayCopy(f)
          /\ snapshot' = [snapshot EXCEPT ![f] = live[f]]
          /\ UNCHANGED <<evidence, pc, cursor, high_water>>
       \/ /\ SnapshotDue(f) /\ SnapshotMayRecord(f)
          /\ evidence' = evidence \cup {f}
          /\ UNCHANGED <<snapshot, pc, cursor, high_water>>
    /\ UNCHANGED <<journal, request, live, staged, metadata_old, marker,
                   folder_marker, prepared_plan, final_plan, folder, background>>

\* The files whose old digest the final plan must hold.
NeedDigest ==
    {f \in Files : Policy[f] \in Snapshotted /\ SourceExisted(f)}

\* FinalizeContentPlan: write the final plan, then drop what it supersedes.
FinalizeContentPlan ==
    /\ \/ /\ pc = "finalize"
          /\ \A f \in NeedDigest : DigestKnown(f)
          /\ final_plan' = [Plan EXCEPT !.hashed = @ \cup NeedDigest]
          /\ pc' = "drop_prepared"
          /\ UNCHANGED <<prepared_plan, evidence, cursor>>
       \/ /\ pc = "drop_prepared"
          /\ prepared_plan' = NoPlan
          /\ pc' = "drop_evidence"
          /\ UNCHANGED <<final_plan, evidence, cursor>>
       \/ /\ pc = "drop_evidence"
          /\ evidence' = {f \in evidence : \E g \in evidence : g < f}
          /\ IF evidence' = {} THEN pc' = "stage" /\ cursor' = 1
                               ELSE UNCHANGED <<pc, cursor>>
          /\ UNCHANGED <<prepared_plan, final_plan>>
    /\ UNCHANGED <<journal, request, live, staged, snapshot, metadata_old,
                   marker, folder_marker, folder, high_water, background>>

Marked == {"Preserve", "Metadata"}

MarkerFor(present) == IF present THEN "existed" ELSE "absent"

MarkerAgrees(f) ==
    Policy[f] \in Marked => marker[f] = MarkerFor(live[f] # Missing)

KeptByPreserve(f) == Policy[f] = "Preserve" /\ live[f] # Missing

StageDone(f) ==
    \/ IsNoop(f)
    \/ /\ MarkerAgrees(f)
       /\ staged[f] = IF KeptByPreserve(f) THEN Missing ELSE "new"

\* StageFile: the existence marker, then the staged file.
StageFile ==
    /\ pc = "stage"
    /\ LET f == cursor IN
       \/ /\ high_water > StageStep(f)
          /\ NextFile("activate", 1)
          /\ UNCHANGED <<marker, staged, high_water>>
       \/ /\ high_water = StageStep(f) /\ StageDone(f)
          /\ NextFile("activate", 1)
          /\ high_water' = high_water + 1
          /\ UNCHANGED <<marker, staged>>
       \/ /\ high_water = StageStep(f) /\ ~IsNoop(f)
          /\ Policy[f] \in Marked /\ marker[f] = "none"
          /\ marker' = [marker EXCEPT ![f] = MarkerFor(live[f] # Missing)]
          /\ UNCHANGED <<staged, pc, cursor, high_water>>
       \/ /\ high_water = StageStep(f) /\ ~IsNoop(f) /\ MarkerAgrees(f)
          /\ ~KeptByPreserve(f) /\ staged[f] = Missing
          /\ staged' = [staged EXCEPT ![f] = "new"]
          /\ UNCHANGED <<marker, pc, cursor, high_water>>
    /\ UNCHANGED <<journal, request, live, snapshot, metadata_old, evidence,
                   folder_marker, prepared_plan, final_plan, folder, background>>

\* The high-water mark becomes durable before the first live mutation.
Checkpoint ==
    /\ pc = "activate"
    /\ journal.completed_steps < directory_activate_begin
    /\ high_water = directory_activate_begin
    /\ WriteTransition(Advanced(journal, high_water - journal.completed_steps))
    /\ UNCHANGED <<request, live, private, folder, pc, memory, background>>

FolderDue(d) == pc = "activate" /\ journal.completed_steps = FolderStep(d)

\* ActivateDirectory, then AdvancePrepared.
ActivateDirectory(d) ==
    /\ FolderDue(d)
    /\ \/ /\ folder_marker[d] = "none"
          /\ folder_marker' = [folder_marker EXCEPT
                                  ![d] = MarkerFor(d \in folder)]
          /\ UNCHANGED <<folder, journal>>
       \/ /\ folder_marker[d] = "absent" /\ d \notin folder
          /\ folder' = folder \cup {d}
          /\ UNCHANGED <<folder_marker, journal>>
       \/ /\ folder_marker[d] # "none" /\ d \in folder
          /\ WriteTransition(Advanced(journal, 1))
          /\ UNCHANGED <<folder, folder_marker>>
    /\ UNCHANGED <<request, live, staged, snapshot, metadata_old, evidence,
                   marker, prepared_plan, final_plan, pc, memory, background>>

\* Mutant: Stage activates the kernels too, at its end.
ActivationDueEarly(f) ==
    /\ pc = "activate" /\ Policy[f] # "Metadata"
    /\ journal.completed_steps = IF Policy[f] = "Kernel" THEN stage_end
                                                        ELSE ActivationStep(f)

\* Stage activates the ordinary files, Commit the kernels.
ActivationDue(f) ==
    /\ \/ pc = "activate" /\ Policy[f] \in ActivatedByStage
       \/ pc = "commit" /\ journal.state = "Committing" /\ Policy[f] = "Kernel"
    /\ journal.completed_steps = ActivationStep(f)

ActivationDone(f) ==
    \/ IsNoop(f)
    \/ IF Policy[f] = "Preserve" /\ marker[f] = "existed"
       THEN live[f] # Missing /\ staged[f] = Missing
       ELSE live[f] = "new" /\ staged[f] = Missing

\* Mutant: only the file that the plan knows is replaced.
MayRenameOld(f) == ~IsNoop(f) /\ staged[f] # Missing /\ live[f] = Plan.old[f]

MayRename(f) ==
    /\ ~IsNoop(f) /\ staged[f] # Missing
    /\ Policy[f] = "Preserve" => live[f] = Missing /\ marker[f] = "absent"

\* ActivateFile: Rename replaces the live file, in one step or in two.
UnlinkReplaced(f) ==
    /\ ActivationDue(f) /\ MayRename(f)
    /\ ~atomic_replace /\ live[f] # Missing
    /\ live' = [live EXCEPT ![f] = Missing]
    /\ UNCHANGED <<journal, request, private, folder, pc, memory, background>>

RenameStaged(f) ==
    /\ ActivationDue(f) /\ MayRename(f)
    /\ atomic_replace \/ live[f] = Missing
    /\ live' = [live EXCEPT ![f] = staged[f]]
    /\ staged' = [staged EXCEPT ![f] = Missing]
    /\ UNCHANGED <<journal, request, snapshot, metadata_old, evidence, marker,
                   folder_marker, prepared_plan, final_plan, folder, pc, memory,
                   background>>

JournalActivation(f) ==
    /\ ActivationDue(f) /\ ActivationDone(f)
    /\ WriteTransition(Advanced(journal, 1))
    /\ UNCHANGED <<request, live, private, folder, pc, memory, background>>

MarkStaged ==
    /\ pc = "activate"
    /\ journal.completed_steps = stage_end
    /\ WriteTransition(Staged(journal))
    /\ Return
    /\ UNCHANGED <<request, live, private, folder, background>>

-----------------------------------------------------------------------------
(* Arm, Healthy and Commit.  CandidateSelector has the steps of the        *)
(* candidate backend's methods; here each one publishes the candidate      *)
(* selector in one step and may be called again after a reset, but for the *)
(* active selector: where replacing is not atomic a commit unlinks it      *)
(* first, and Arm and Disarm fail as long as they cannot read it.          *)

BeginArm ==
    /\ pc = "ready" /\ request = "active"
    /\ InState({"Staged"})
    /\ pc' = "arm"
    /\ UNCHANGED <<journal, request, live, private, folder, memory, background>>

\* ArmCandidate names the temporary kernel if a new one is staged.
ArmedSelector ==
    IF \E f \in Files : Policy[f] = "Kernel" /\ staged[f] # Missing
    THEN "next" ELSE "new"

ArmCandidate ==
    /\ pc = "arm"
    /\ LoadContentPlan(TRUE)
    /\ journal.completed_steps = arm_step
    /\ active_selector = "published"
    /\ live' = [live EXCEPT ![Selector] = ArmedSelector]
    /\ pc' = "armed"
    /\ UNCHANGED <<journal, request, private, folder, memory, background>>

MarkPending ==
    /\ pc = "armed"
    /\ WriteTransition(Pending(journal))
    /\ Return
    /\ UNCHANGED <<request, live, private, folder, background>>

MarkCandidateHealthy ==
    /\ pc = "ready" /\ request = "active"
    /\ InState({"CandidatePending"})
    /\ journal.completed_steps = health_step
    /\ WriteTransition(Healthy(journal))
    /\ UNCHANGED <<request, live, private, folder, pc, memory, background>>

BeginCommit ==
    /\ pc = "ready" /\ request = "active"
    /\ InState({"CandidateHealthy", "Committing"})
    /\ LoadContentPlan(TRUE)
    /\ pc' = "commit"
    /\ UNCHANGED <<journal, request, live, private, folder, memory, background>>

VerifyCandidateFiles ==
    \A f \in Files \ {Selector} :
        IF ~IsNoop(f) /\ Policy[f] \in {"Metadata", "Kernel"}
        THEN staged[f] = "new"
        ELSE IF Policy[f] = "Preserve"
        THEN marker[f] # "none" /\ (marker[f] = "absent" => live[f] = "new")
        ELSE live[f] = "new"

MarkCommitting ==
    /\ pc = "commit"
    /\ journal.state = "CandidateHealthy"
    /\ VerifyCandidateFiles
    /\ WriteTransition(Committing(journal))
    /\ UNCHANGED <<request, live, private, folder, pc, memory, background>>

MetadataDue(f) ==
    /\ pc = "commit" /\ journal.state = "Committing"
    /\ Policy[f] = "Metadata"
    /\ journal.completed_steps = ActivationStep(f)

MarkerMatchesPlan(f) == marker[f] = MarkerFor(SourceExisted(f))

\* CommitMetadata moves the old file aside, then the staged one in.
MayMoveAside(f) ==
    /\ ~IsNoop(f) /\ staged[f] # Missing /\ MarkerMatchesPlan(f)
    /\ live[f] # Missing /\ live[f] = Plan.old[f] /\ metadata_old[f] = Missing

MayMoveIn(f) ==
    /\ ~IsNoop(f) /\ staged[f] # Missing /\ MarkerMatchesPlan(f)
    /\ live[f] = Missing /\ metadata_old[f] = Plan.old[f]

MetadataDone(f) ==
    \/ IsNoop(f)
    \/ /\ staged[f] = Missing /\ MarkerMatchesPlan(f)
       /\ SourceExisted(f) => metadata_old[f] = Plan.old[f]
       /\ live[f] = "new"

CommitMetadata(f) ==
    /\ MetadataDue(f)
    /\ \/ /\ MayMoveAside(f)
          /\ metadata_old' = [metadata_old EXCEPT ![f] = live[f]]
          /\ live' = [live EXCEPT ![f] = Missing]
          /\ UNCHANGED <<journal, staged>>
       \/ /\ MayMoveIn(f)
          /\ live' = [live EXCEPT ![f] = staged[f]]
          /\ staged' = [staged EXCEPT ![f] = Missing]
          /\ UNCHANGED <<journal, metadata_old>>
       \/ /\ MetadataDone(f)
          /\ WriteTransition(Advanced(journal, 1))
          /\ UNCHANGED <<live, staged, metadata_old>>
    /\ UNCHANGED <<request, snapshot, evidence, marker, folder_marker,
                   prepared_plan, final_plan, folder, pc, memory, background>>

SelectorDue ==
    /\ pc = "commit" /\ journal.state = "Committing"
    /\ "SelectorCommitted" \notin journal.flags
    /\ journal.completed_steps = selector_step
    /\ live[Selector] \in {"new", "next"}

\* PublishSelector replaces the active selector, in one step or in two.
UnlinkActive ==
    /\ SelectorDue
    /\ ~atomic_replace /\ active_selector = "published"
    /\ active_selector' = "unlinked"
    /\ UNCHANGED <<journal, request, live, private, folder, pc, memory, original,
                   original_folder, atomic_replace>>

CommitCandidate ==
    /\ SelectorDue
    /\ atomic_replace \/ active_selector = "unlinked"
    /\ active_selector' = "published"
    /\ live' = [live EXCEPT ![Selector] = "new"]
    /\ pc' = "selector_done"
    /\ UNCHANGED <<journal, request, private, folder, memory, original,
                   original_folder, atomic_replace>>

JournalSelector ==
    /\ pc = "selector_done"
    /\ WriteTransition(SelectorDone(journal))
    /\ pc' = "commit"
    /\ UNCHANGED <<request, live, private, folder, memory, background>>

MarkCommitted ==
    /\ pc = "commit" /\ journal.state = "Committing"
    /\ "SelectorCommitted" \in journal.flags
    /\ journal.completed_steps = total
    /\ WriteTransition(Committed(journal))
    /\ Return
    /\ UNCHANGED <<request, live, private, folder, background>>

-----------------------------------------------------------------------------
(* Rollback. *)

RollbackStates ==
    {"Prepared", "Staged", "CandidatePending", "CandidateHealthy",
     "Committing", "Committed", "RollingBack"}

BeginRollback ==
    /\ pc = "ready" /\ request = "active"
    /\ InState(JournalStates \ {"Idle"})
    /\ pc' = "rollback"
    /\ UNCHANGED <<journal, request, live, private, folder, memory, background>>

NothingStarted == journal.state \in {"Discovered", "Downloaded"}

NoPlanYet ==
    /\ journal.state = "Prepared" /\ journal.completed_steps = 0
    /\ prepared_plan = NoPlan /\ final_plan = NoPlan

PlanLoads ==
    LoadContentPlan(journal.completed_steps >= directory_activate_begin)

\* The journal says RollingBack before anything is restored.
MarkRollingBack ==
    /\ pc = "rollback"
    /\ \/ /\ NothingStarted
          /\ WriteTransition(Idle(journal))
          /\ pc' = "ready"
          /\ UNCHANGED cursor
       \/ /\ NoPlanYet
          /\ WriteTransition(RollingBack(journal))
          /\ pc' = "idle"
          /\ UNCHANGED cursor
       \/ /\ journal.state \in RollbackStates /\ ~NoPlanYet /\ PlanLoads
          /\ IF journal.state = "RollingBack" THEN UNCHANGED journal
             ELSE WriteTransition(RollingBack(journal))
          /\ pc' = IF "TrybootArmed" \in journal.flags THEN "disarm"
                                                       ELSE "restore"
          /\ cursor' = Len(Policy)
    /\ UNCHANGED <<request, live, private, folder, high_water, background>>

\* DisarmCandidate reads the active selector and publishes its kernel in the
\* candidate selector.
DisarmCandidate ==
    /\ pc = "disarm"
    /\ active_selector = "published"
    /\ live' = [live EXCEPT ![Selector] = "new"]
    /\ pc' = "restore"
    /\ UNCHANGED <<journal, request, private, folder, memory, background>>

\* Mutant: completed_steps is read as the last step, not as the next one.
UntouchedAtStep(f) ==
    \/ IsNoop(f)
    \/ journal.completed_steps <= ActivationStep(f)
    \/ Policy[f] = "Preserve" /\ marker[f] = "existed"

\* RestoreFile: whether the file may have been touched at all.
Untouched(f) ==
    \/ IsNoop(f)
    \/ journal.completed_steps < ActivationStep(f)
    \/ /\ journal.completed_steps = ActivationStep(f)
       /\ Policy[f] # "Metadata" /\ staged[f] # Missing
    \/ Policy[f] = "Preserve" /\ marker[f] = "existed"

\* The saved copy of a file that existed.
SavedCopy(f) ==
    IF Policy[f] = "Metadata" THEN metadata_old[f] ELSE snapshot[f]

\* RestoreMetadata: the old file has not been moved aside yet.
StillLive(f) ==
    /\ Policy[f] = "Metadata" /\ marker[f] = "existed" /\ SourceExisted(f)
    /\ metadata_old[f] = Missing /\ staged[f] # Missing
    /\ live[f] = Plan.old[f]

HasSavedCopy(f) ==
    /\ Policy[f] \in Snapshotted \cup {"Metadata"} /\ SourceExisted(f)
    /\ Policy[f] = "Metadata" => marker[f] = "existed"
    /\ Policy[f] \in Snapshotted => DigestKnown(f)
    /\ SavedCopy(f) = Plan.old[f]

AddedByUpdate(f) ==
    /\ Policy[f] \in Snapshotted \cup {"Metadata"} => ~SourceExisted(f)
    /\ Policy[f] \in Marked => marker[f] = "absent"
    /\ Policy[f] = "Metadata" => metadata_old[f] = Missing

PreviousFile(after, first) ==
    IF cursor = 1 THEN pc' = after /\ cursor' = first
                  ELSE pc' = "restore" /\ cursor' = cursor - 1

RestoreFile ==
    /\ LET f == cursor IN
       \/ /\ pc = "restore" /\ (Untouched(f) \/ StillLive(f))
          /\ PreviousFile("folders", DirectoryCount)
          /\ UNCHANGED live
       \/ /\ pc = "restore" /\ ~Untouched(f) /\ ~StillLive(f)
          /\ HasSavedCopy(f)
          /\ live' = IF atomic_replace THEN live
                     ELSE [live EXCEPT ![f] = Missing]
          /\ pc' = "restore_rename"
          /\ UNCHANGED cursor
       \/ /\ pc = "restore_rename"
          /\ live' = [live EXCEPT ![f] = SavedCopy(f)]
          /\ PreviousFile("folders", DirectoryCount)
       \/ /\ pc = "restore" /\ ~Untouched(f) /\ AddedByUpdate(f)
          /\ live[f] \in {Missing, "new"}
          /\ live' = [live EXCEPT ![f] = Missing]
          /\ PreviousFile("folders", DirectoryCount)
    /\ UNCHANGED <<journal, request, private, folder, high_water, background>>

\* Mutant: a missing marker is always a conflict.
FolderUntouchedStrict(d) ==
    journal.completed_steps < FolderStep(d) \/ folder_marker[d] = "existed"

FolderUntouched(d) ==
    \/ journal.completed_steps < FolderStep(d)
    \/ journal.completed_steps = FolderStep(d) /\ folder_marker[d] = "none"
    \/ folder_marker[d] = "existed"

\* RemoveCreatedDirectories, last directory first.  A directory that is not
\* empty, or that cannot be removed, is kept and the rollback goes on.
RemoveCreatedDirectories ==
    /\ pc = "folders"
    /\ \/ cursor = 0 /\ pc' = "idle" /\ UNCHANGED <<folder, cursor>>
       \/ /\ cursor > 0 /\ FolderUntouched(cursor)
          /\ cursor' = cursor - 1
          /\ UNCHANGED <<folder, pc>>
       \/ /\ cursor > 0 /\ ~FolderUntouched(cursor)
          /\ folder_marker[cursor] = "absent"
          /\ folder' \in {folder, folder \ {cursor}}
          /\ cursor' = cursor - 1
          /\ UNCHANGED pc
    /\ UNCHANGED <<journal, request, live, private, high_water, background>>

\* Mutant: the generation starts again.
MarkIdleFromOne ==
    /\ pc = "idle"
    /\ journal' = MakeIdleJournalRecord(1)
    /\ Return
    /\ UNCHANGED <<request, live, private, folder, background>>

MarkIdle ==
    /\ pc = "idle"
    /\ WriteTransition(Idle(journal))
    /\ Return
    /\ UNCHANGED <<request, live, private, folder, background>>

-----------------------------------------------------------------------------
(* The life of the transaction root: a request is saved, and discarded only *)
(* after everything the installer put beside it has been retired.          *)

\* The files of the present installation, labelled for the next release.
Relabelled ==
    {bytes \in [Files -> {Missing, "old", "new"}] :
        \A f \in Files : bytes[f] = Missing <=> live[f] = Missing}

BeginTransaction ==
    /\ pc = "ready" /\ request = "none" /\ journal = Empty
    /\ request' = "active"
    /\ live' \in Relabelled
    /\ original' = live'
    /\ original_folder' = folder
    /\ UNCHANGED <<journal, private, folder, pc, memory, atomic_replace,
                   active_selector>>

RetainCommitted ==
    /\ pc = "ready" /\ request = "active"
    /\ InState({"Committed"})
    /\ request' = "committed"
    /\ UNCHANGED <<journal, live, private, folder, pc, memory, background>>

\* CleanupRolledBackTransaction discards the archive and the prepared
\* configurations first: nothing can be staged from this request any more.
DiscardArchive ==
    /\ pc = "ready" /\ request = "active"
    /\ journal # Empty => journal.state = "Idle"
    /\ request' = "inert"
    /\ UNCHANGED <<journal, live, private, folder, pc, memory, background>>

\* RetireRolledBack and RetireCommitted.
MayRetire ==
    \/ request = "inert" /\ (journal # Empty => journal.state = "Idle")
    \/ request = "committed" /\ (journal # Empty => journal.state = "Committed")

BeginRetire ==
    /\ pc = "ready" /\ MayRetire
    /\ pc' = "retire_files"
    /\ cursor' = 1
    /\ UNCHANGED <<journal, request, live, private, folder, high_water, background>>

\* RemoveTransactionArtifacts: the private trees file by file, then what is in
\* the state directory, then the journal, each step durable before the next.
RetireFile ==
    /\ pc = "retire_files"
    /\ LET f == cursor IN
       \/ /\ staged[f] # Missing
          /\ staged' = [staged EXCEPT ![f] = Missing]
          /\ UNCHANGED <<snapshot, metadata_old, pc, cursor>>
       \/ /\ staged[f] = Missing /\ snapshot[f] # Missing
          /\ snapshot' = [snapshot EXCEPT ![f] = Missing]
          /\ UNCHANGED <<staged, metadata_old, pc, cursor>>
       \/ /\ staged[f] = Missing /\ snapshot[f] = Missing
          /\ metadata_old' = [metadata_old EXCEPT ![f] = Missing]
          /\ NextFile("retire_markers", 1)
          /\ UNCHANGED <<staged, snapshot>>
    /\ UNCHANGED <<journal, request, live, evidence, marker, folder_marker,
                   prepared_plan, final_plan, folder, high_water, background>>

RetireMarker ==
    /\ pc = "retire_markers"
    /\ marker' = [marker EXCEPT ![cursor] = "none"]
    /\ NextFile("retire_evidence", 0)
    /\ UNCHANGED <<journal, request, live, staged, snapshot, metadata_old,
                   evidence, folder_marker, prepared_plan, final_plan, folder,
                   high_water, background>>

\* The snapshot records and the directory markers in the order of their
\* indices, then the prepared and the final plan.
RetireState ==
    /\ \/ /\ pc = "retire_evidence"
          /\ evidence' = {f \in evidence : \E g \in evidence : g < f}
          /\ pc' = IF evidence' = {} THEN "retire_folders" ELSE pc
          /\ UNCHANGED <<folder_marker, prepared_plan, final_plan>>
       \/ /\ pc = "retire_folders"
          /\ \/ /\ \A d \in Directories : folder_marker[d] = "none"
                /\ pc' = "retire_prepared"
                /\ UNCHANGED folder_marker
             \/ \E d \in Directories :
                   /\ folder_marker[d] # "none"
                   /\ \A e \in 1 .. (d - 1) : folder_marker[e] = "none"
                   /\ folder_marker' = [folder_marker EXCEPT ![d] = "none"]
                   /\ UNCHANGED pc
          /\ UNCHANGED <<evidence, prepared_plan, final_plan>>
       \/ /\ pc = "retire_prepared"
          /\ prepared_plan' = NoPlan
          /\ pc' = "retire_final"
          /\ UNCHANGED <<evidence, folder_marker, final_plan>>
       \/ /\ pc = "retire_final"
          /\ final_plan' = NoPlan
          /\ pc' = "retire_journal"
          /\ UNCHANGED <<evidence, folder_marker, prepared_plan>>
    /\ UNCHANGED <<journal, request, live, staged, snapshot, metadata_old,
                   marker, folder, memory, background>>

RetireJournal ==
    /\ pc = "retire_journal"
    /\ journal' = Empty
    /\ pc' = "retired"
    /\ UNCHANGED <<request, live, private, folder, memory, background>>

DiscardRequest ==
    /\ pc = "retired"
    /\ request' = "none"
    /\ Return
    /\ UNCHANGED <<journal, live, private, folder, background>>

-----------------------------------------------------------------------------
\* A power cut, a failing call or a refused precondition ends the operation;
\* the disk stays as it is.
Stop ==
    /\ pc # "ready"
    /\ Return
    /\ UNCHANGED <<journal, request, live, private, folder, background>>

\* The steps of the operation that is running.
Step ==
    \/ InitializeJournal
    \/ BuildContentPlan
    \/ SnapshotFile
    \/ FinalizeContentPlan
    \/ StageFile
    \/ Checkpoint
    \/ \E d \in Directories : ActivateDirectory(d)
    \/ \E f \in Files : UnlinkReplaced(f)
    \/ \E f \in Files : RenameStaged(f)
    \/ \E f \in Files : JournalActivation(f)
    \/ MarkStaged
    \/ ArmCandidate
    \/ MarkPending
    \/ MarkCommitting
    \/ \E f \in Files : CommitMetadata(f)
    \/ UnlinkActive
    \/ CommitCandidate
    \/ JournalSelector
    \/ MarkCommitted
    \/ MarkRollingBack
    \/ DisarmCandidate
    \/ RestoreFile
    \/ RemoveCreatedDirectories
    \/ MarkIdle
    \/ RetireFile
    \/ RetireMarker
    \/ RetireState
    \/ RetireJournal
    \/ DiscardRequest

\* The calls of the orchestrator.
Call ==
    \/ BeginTransaction
    \/ BeginStage
    \/ BeginArm
    \/ MarkCandidateHealthy
    \/ BeginCommit
    \/ BeginRollback
    \/ RetainCommitted
    \/ DiscardArchive
    \/ BeginRetire

Next == Step \/ Call \/ Stop

Spec == Init /\ [][Next]_vars

\* A running operation goes on, and a boot that finds an unfinished rollback
\* calls Rollback again.
ResumeRollback ==
    InState({"RollingBack"}) /\ BeginRollback

FairSpec == Spec /\ WF_vars(Step) /\ WF_vars(ResumeRollback)

-----------------------------------------------------------------------------
(* Properties. *)

\* The candidate selector already held the release's bytes and was armed before
\* the journal said so: the rollback neither disarms nor restores it, and it
\* still names the temporary kernel.
LeftArmed(f) == f = Selector /\ original[f] = "new" /\ live[f] = "next"

\* When a rollback reports success (Idle after the first generation) every
\* file of the installation is what it was when the transaction began,
\* whichever step the power cuts fell on, and no directory was lost.
RestoredExactly ==
    InState({"Idle"}) /\ journal.generation > 1 =>
       /\ \A f \in Files : live[f] = original[f] \/ LeftArmed(f)
       /\ original_folder \subseteq folder

\* A file system that replaces files atomically keeps that promise.
RolledBackExactly == atomic_replace => RestoredExactly

\* On a file system whose replace is an unlink and a rename, a rollback that
\* reports success leaves no byte of the release behind, and at most the one
\* file whose activation was cut between the two is missing.
RolledBackButOne ==
    InState({"Idle"}) /\ journal.generation > 1 =>
       LET lost == {f \in Files : live[f] # original[f] /\ ~LeftArmed(f)} IN
       /\ \A f \in lost : live[f] = Missing
       /\ Cardinality(lost) <= 1

\* A committed transaction is complete: every file has the release's bytes
\* except the user's own preserved files, and every directory exists.
Target(f) ==
    IF Policy[f] = "Preserve" /\ original[f] # Missing THEN original[f]
                                                       ELSE "new"

CommittedExactly ==
    InState({"Committed"}) =>
       /\ \A f \in Files : live[f] = Target(f)
       /\ folder = Directories

\* Until the transaction ends, whatever has been touched can be put back from
\* what is on the disk at this moment: the plan knows whether the file
\* existed, and a verified copy of its bytes is kept.
KeepsOld(f) ==
    /\ prepared_plan # NoPlan \/ final_plan # NoPlan
    /\ Plan.old[f] = original[f]
    /\ original[f] # Missing => SavedCopy(f) = original[f]
    /\ Policy[f] \in Snapshotted /\ original[f] # Missing => DigestKnown(f)
    /\ Policy[f] \in Marked => marker[f] = MarkerFor(original[f] # Missing)

Recoverable ==
    InState(JournalStates \ {"Idle"}) /\ request = "active" =>
       \A f \in Files :
          \/ live[f] = original[f]
          \/ KeepsOld(f)
          \/ f = Selector /\ IsNoop(f)

\* The rollback that found no content plan, stopped between its two records.
NoPlanLeft ==
    InState({"RollingBack"}) /\ prepared_plan = NoPlan /\ final_plan = NoPlan

\* The candidate selector was armed but the journal does not say so, and the
\* transaction had created the selector: its bytes are nobody's.
ArmedUnrecorded ==
    /\ InState({"Staged", "RollingBack"}) /\ "TrybootArmed" \notin journal.flags
    /\ original[Selector] = Missing /\ live[Selector] = "next"

\* A commit was cut between the unlink and the rename of the active selector,
\* which DisarmCandidate must read.
ActiveLost == active_selector = "unlinked"

\* Whether a rollback can be finished: the contract's undo.
Undo ==
    IF ArmedUnrecorded \/ ActiveLost \/ (NoPlanLeft /\ pc # "idle") THEN "barred"
    ELSE IF NoPlanLeft THEN "once" ELSE "free"

\* Rollback is refused at every boot.
Stranded == InState({"RollingBack"}) /\ Undo = "barred"

\* No operation ever finds evidence that it must refuse (RollbackEvidence-
\* Missing, JournalConflict, FileHashMismatch...): repeated after any number
\* of power cuts it always has a next step, with the exceptions that Stranded
\* names.
EvidenceSuffices == pc # "ready" /\ ~Stranded => ENABLED Step

\* Kernels and metadata keep their old bytes until the candidate was found
\* healthy: before that the old system can always boot.  (Without atomic
\* replacement a rollback after that may lose the file: RolledBackButOne.)
BootUntilHealthy ==
    \A f \in Files :
       /\ Policy[f] \in {"Kernel", "Metadata"} /\ live[f] # original[f]
       /\ atomic_replace \/ live[f] # Missing
       =>
          \/ journal # Empty /\ "CandidateHealthy" \in journal.flags
          \/ request # "active"

\* JournalSlots keeps the records that JournalRegister allows to be written.
Register == INSTANCE JournalRegister WITH value <- journal

\* What the orchestrator relies on: as far as its state, its owner and the
\* recorded consent go, every record the installer writes, in any order of
\* calls and power cuts, is one that InstallerContract allows, and a rollback
\* is barred only where the contract says that it may become so; and every
\* record is one that the journal's own rules, on which JournalSlots relies,
\* accept.
Projection ==
    IF journal = Empty THEN Empty
    ELSE [state |-> IF journal.state = "Idle" /\ journal.generation = 1
                    THEN "Anchor" ELSE journal.state,
          owner |-> journal.transaction,
          approved |-> "ResetApproved" \in journal.flags]

Contract == INSTANCE InstallerContract WITH
    Requests <- Transactions, NoRequest <- NoTransaction, NoJournal <- Empty,
    Releases <- {"release"}, ReleaseOf <- [t \in Transactions |-> "release"],
    ResetOf <- [t \in Transactions |-> ResetRequired],
    journal <- Projection, undo <- Undo

ASSUME EmptyAssumption == Empty \notin Contract!ContractRecords

ImplementsContract == Contract!ContractSpec /\ Register!Spec

\* An interrupted rollback is finished by a later boot, however many power
\* cuts there were, once there are no more of them: the progress that the
\* orchestrator may expect of the contract's free rollbacks, with atomic
\* replacement or without.  The others are those that Undo names.
RollbackCompletes ==
    \/ []<><<Stop>>_vars
    \/ (InState({"RollingBack"}) /\ Undo = "free") ~> InState({"Idle"})

=============================================================================
