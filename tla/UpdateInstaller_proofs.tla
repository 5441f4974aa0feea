------------------------ MODULE UpdateInstaller_proofs ------------------------
(***************************************************************************)
(* One update transaction ends in exactly the old or exactly the new       *)
(* installation, for every manifest (any number of files of any policy and *)
(* of directories), both kinds of Rename, and power cuts and failing calls *)
(* after any durable effect.                                               *)
(*                                                                         *)
(* The argument counts steps.  completed_steps in the journal says of      *)
(* every file and directory whether its turn has passed, is now, or is     *)
(* still to come; FileInv says what that means for the bytes on the disk,  *)
(* and is true in every record that has a plan, going forward and back.    *)
(***************************************************************************)
EXTENDS UpdateInstaller, FiniteSetTheorems, TLAPS

-----------------------------------------------------------------------------
(* The inductive invariant. *)

NoPlans == prepared_plan = NoPlan /\ final_plan = NoPlan

PrivateClean ==
    /\ \A f \in Files :
          /\ staged[f] = Missing /\ snapshot[f] = Missing
          /\ metadata_old[f] = Missing /\ marker[f] = "none"
    /\ evidence = {}
    /\ \A d \in Directories : folder_marker[d] = "none"
    /\ NoPlans

\* The transaction has a record from which Rollback has something to do.
Working == request = "active" /\ InState(RollbackStates)

\* The rollback has reported success.
RolledBack == InState({"Idle"}) /\ journal.generation > 1

\* The content plan is not written yet.
Fresh ==
    request = "active" /\ ~RolledBack /\ (~InState(RollbackStates) \/ NoPlans)

\* The journal: what every state says of the steps that are done.
StepsInv ==
    journal # Empty =>
       /\ RecordIsValid(journal)
       /\ journal.state # "Idle" => journal.total_steps = total
       /\ journal.state \in {"Discovered", "Downloaded"} =>
             journal.completed_steps = 0
       /\ journal.state = "Prepared" =>
             \/ journal.completed_steps = 0
             \/ journal.completed_steps \in directory_activate_begin .. stage_end
       /\ journal.state = "Staged" => journal.completed_steps = arm_step
       /\ journal.state = "CandidatePending" =>
             journal.completed_steps = health_step
       /\ journal.state = "CandidateHealthy" =>
             journal.completed_steps = kernel_begin
       /\ journal.state = "Committing" =>
             /\ journal.completed_steps >= kernel_begin
             /\ "SelectorCommitted" \in journal.flags =>
                   journal.completed_steps = total
       /\ journal.state = "Committed" => journal.completed_steps = total
       /\ journal.state = "RollingBack" =>
             /\ \/ journal.completed_steps = 0
                \/ journal.completed_steps >= directory_activate_begin
             /\ journal.completed_steps >= kernel_begin =>
                   "CandidateHealthy" \in journal.flags
             /\ "TrybootArmed" \in journal.flags =>
                   journal.completed_steps >= health_step

\* The request, and which records it may stand beside.
RequestInv ==
    /\ request = "none" => pc = "ready" /\ journal = Empty /\ PrivateClean
    /\ request = "inert" /\ journal # Empty => journal.state = "Idle"
    /\ request = "committed" /\ journal # Empty => journal.state = "Committed"

StagePCs ==
    {"plan", "snapshot", "finalize", "drop_prepared", "drop_evidence", "stage",
     "activate"}

RestorePCs == {"disarm", "restore", "restore_rename", "folders"}

RetirePCs ==
    {"retire_files", "retire_markers", "retire_evidence", "retire_folders",
     "retire_prepared", "retire_final", "retire_journal", "retired"}

\* Where an operation can be with which record.
CallInv ==
    /\ pc \in PCs \ ({"ready"} \cup RetirePCs) => request = "active"
    /\ pc \in RetirePCs => request \in {"inert", "committed"}
    /\ pc = "initialize" =>
          /\ ~RolledBack
          /\ \/ journal = Empty
             \/ InState({"Idle", "Discovered", "Downloaded", "Prepared"})
    /\ pc \in StagePCs => InState({"Prepared"})
    /\ pc \in {"arm", "armed"} => InState({"Staged"})
    /\ pc = "commit" => InState({"CandidateHealthy", "Committing"})
    /\ pc = "selector_done" =>
          /\ InState({"Committing"}) /\ live[Selector] = "new"
          /\ journal.completed_steps = selector_step
    /\ pc = "rollback" => InState(JournalStates \ {"Idle"})
    /\ pc \in RestorePCs => InState({"RollingBack"}) /\ ~NoPlans
    /\ pc = "idle" => InState({"RollingBack"})
    /\ pc = "disarm" => "TrybootArmed" \in journal.flags

\* Retirement: what has been removed so far.
RetireInv ==
    /\ pc = "retire_files" =>
          /\ cursor \in Files
          /\ \A f \in 1 .. (cursor - 1) :
                staged[f] = Missing /\ snapshot[f] = Missing
                /\ metadata_old[f] = Missing
    /\ pc \in RetirePCs \ {"retire_files"} =>
          \A f \in Files :
             staged[f] = Missing /\ snapshot[f] = Missing
             /\ metadata_old[f] = Missing
    /\ pc = "retire_markers" =>
          cursor \in Files /\ \A f \in 1 .. (cursor - 1) : marker[f] = "none"
    /\ pc \in RetirePCs \ {"retire_files", "retire_markers"} =>
          \A f \in Files : marker[f] = "none"
    /\ pc \in {"retire_folders", "retire_prepared", "retire_final",
               "retire_journal", "retired"} => evidence = {}
    /\ pc \in {"retire_prepared", "retire_final", "retire_journal", "retired"}
          => \A d \in Directories : folder_marker[d] = "none"
    /\ pc \in {"retire_final", "retire_journal", "retired"} =>
          prepared_plan = NoPlan
    /\ pc \in {"retire_journal", "retired"} => final_plan = NoPlan
    /\ pc = "retired" => journal = Empty

\* Before the plan is written nothing has been done.
FreshInv ==
    Fresh =>
       /\ PrivateClean /\ live = original
       /\ InState(RollbackStates) => journal.completed_steps = 0

\* A file that Commit or Stage replaces has its old bytes in the snapshot.
SnapshotKept(f) ==
    Policy[f] \in Snapshotted /\ original[f] \notin {Missing, "new"} =>
       snapshot[f] = original[f]

\* The plans say what the transaction found, and the final one is complete.
PlanInv ==
    /\ prepared_plan # NoPlan => prepared_plan.old = original
    /\ final_plan # NoPlan => final_plan.old = original
    /\ Working /\ final_plan = NoPlan => journal.completed_steps = 0
    /\ request = "active" /\ final_plan # NoPlan =>
          \A f \in Files :
             /\ SnapshotKept(f)
             /\ Policy[f] \in Snapshotted /\ original[f] # Missing =>
                   f \in final_plan.hashed

\* The file already held the release's bytes.
Same(f) == Policy[f] # "Preserve" /\ original[f] = "new"

\* The marker that StageFile must have written for the file.
HasMarker(f) == Policy[f] \in Marked /\ ~Same(f) => marker[f] # "none"

\* The loops of Stage: how far they are, in steps and in what is durable.
LoopInv ==
    /\ pc \in {"snapshot", "stage"} => cursor \in Files
    /\ pc = "snapshot" =>
          /\ high_water = IF journal.completed_steps = 0
                          THEN SnapshotStep(cursor)
                          ELSE journal.completed_steps
          /\ \A f \in 1 .. (cursor - 1) : SnapshotKept(f)
    /\ pc \in {"snapshot", "finalize"} => ~NoPlans
    /\ pc = "finalize" => \A f \in Files : SnapshotKept(f)
    /\ pc \in {"finalize", "drop_prepared", "drop_evidence"} =>
          high_water = IF journal.completed_steps = 0
                       THEN file_stage_begin ELSE journal.completed_steps
    /\ pc \in {"drop_prepared", "drop_evidence", "stage", "activate"} =>
          final_plan # NoPlan
    /\ pc = "stage" =>
          /\ high_water = IF journal.completed_steps = 0
                          THEN StageStep(cursor) ELSE journal.completed_steps
          /\ journal.completed_steps = 0 =>
                \A f \in 1 .. (cursor - 1) : HasMarker(f)
    /\ pc = "activate" =>
          /\ journal.completed_steps = 0 =>
                \A f \in Files : HasMarker(f)

\* What completed_steps means for a file, going forward and back.
FileInv(f) ==
    /\ staged[f] \in {Missing, "new"}
    /\ marker[f] \in {"none", MarkerFor(original[f] # Missing)}
    /\ journal.completed_steps > 0 => HasMarker(f)
    /\ journal.completed_steps < ActivationStep(f) => live[f] = original[f]
    /\ Same(f) => live[f] = original[f] \/ (f = Selector /\ live[f] = "next")
    /\ Policy[f] = "Preserve" /\ original[f] # Missing => live[f] = original[f]
    /\ /\ journal.completed_steps = ActivationStep(f)
       /\ Policy[f] # "Metadata" /\ staged[f] # Missing
       => live[f] = original[f] \/ (~atomic_replace /\ live[f] = Missing)
    /\ Policy[f] = "Metadata" =>
          live[f] = original[f] \/ metadata_old[f] = original[f]

FilesInv == Working => \A f \in Files : FileInv(f)

\* Going forward, what was activated holds the release's bytes.
Activated(f) ==
    \/ live[f] = "new"
    \/ f = Selector /\ live[f] = "next"
    \/ Policy[f] = "Preserve" /\ original[f] # Missing

ForwardInv ==
    /\ Working /\ journal.state # "RollingBack" =>
          /\ \A f \in Files :
                journal.completed_steps > ActivationStep(f) => Activated(f)
          /\ \A d \in Directories :
                journal.completed_steps > FolderStep(d) => d \in folder
          /\ "SelectorCommitted" \in journal.flags => live[Selector] = "new"
    /\ CommittedExactly

\* The directories the update did not create stay.
FolderInv ==
    /\ original_folder \subseteq folder
    /\ request = "active" =>
          \A d \in Directories :
             /\ folder_marker[d] \in {"none", MarkerFor(d \in original_folder)}
             /\ folder_marker[d] = "none" /\ d \in folder => d \in original_folder

\* The file cut between the unlink and the rename of its activation.
Cut(f) ==
    /\ ~atomic_replace /\ live[f] = Missing
    /\ journal.completed_steps = ActivationStep(f)

\* RestoreFile is done with the file.
Back(f) == live[f] = original[f] \/ LeftArmed(f) \/ Cut(f)

\* Every file is as it was, but possibly for the one that was cut.
Restored ==
    \E g \in Files : \A f \in Files :
       \/ live[f] = original[f]
       \/ LeftArmed(f)
       \/ f = g /\ ~atomic_replace /\ live[f] = Missing

RestoreInv ==
    /\ pc = "disarm" => cursor = Len(Policy)
    /\ pc \in {"restore", "restore_rename"} =>
          cursor \in Files /\ \A f \in Files : f > cursor => Back(f)
    /\ pc = "restore_rename" => SavedCopy(cursor) = original[cursor]
    /\ pc = "folders" => cursor \in 0 .. DirectoryCount
    /\ pc \in {"folders", "idle"} => \A f \in Files : Back(f)
    /\ RolledBack => Restored

InstallerInv ==
    /\ TypeOK /\ StepsInv /\ RequestInv /\ CallInv /\ RetireInv /\ FreshInv
    /\ PlanInv /\ LoopInv /\ FilesInv /\ ForwardInv /\ FolderInv /\ RestoreInv


-----------------------------------------------------------------------------
(* BuildStepLayout: the steps follow one another in the order of the work, *)
(* and no two files share one.                                             *)

LEMMA ManifestFacts ==
    /\ Len(Policy) \in Nat /\ Files = 1 .. Len(Policy) /\ IsFiniteSet(Files)
    /\ \A f \in Files : f \in Nat /\ f >= 1 /\ f <= Len(Policy)
                        /\ Policy[f] \in Policies
    /\ Selector \in Files /\ Policy[Selector] = "ConfigTemplate"
    /\ DirectoryCount \in Nat
    /\ \A d \in Directories : d \in Nat /\ d >= 1 /\ d <= DirectoryCount
  <1>1. Policy \in Seq(Policies) /\ DirectoryCount \in Nat
    BY InstallerAssumption
  <1>2. Len(Policy) \in Nat /\ Files = 1 .. Len(Policy)
    BY <1>1 DEF Files
  <1>3. \A f \in Files : Policy[f] \in Policies
    BY <1>1, <1>2
  <1>4. IsFiniteSet(Files)
    BY <1>2, FS_Interval
  <1> QED
    BY <1>1, <1>2, <1>3, <1>4, InstallerAssumption DEF Directories

\* The files of some policies, and those before a given one, are counted by
\* natural numbers.
LEMMA CountsAreNat ==
    ASSUME NEW P, NEW f \in Files
    PROVE  CountOf(P) \in Nat /\ CountBefore(f, P) \in Nat
  <1>1. {g \in Files : Policy[g] \in P} \in SUBSET Files
    OBVIOUS
  <1>2. {g \in Files : g < f /\ Policy[g] \in P} \in SUBSET Files
    OBVIOUS
  <1>3. /\ IsFiniteSet({g \in Files : Policy[g] \in P})
        /\ IsFiniteSet({g \in Files : g < f /\ Policy[g] \in P})
    BY <1>1, <1>2, ManifestFacts, FS_Subset
  <1> QED
    BY <1>3, FS_CardinalityType DEF CountOf, CountBefore

\* A file is not among those before it.
LEMMA CountBound ==
    ASSUME NEW P, NEW f \in Files
    PROVE  /\ CountBefore(f, P) <= CountOf(P)
           /\ Policy[f] \in P => CountBefore(f, P) < CountOf(P)
  <1> DEFINE S == {g \in Files : Policy[g] \in P}
             T == {g \in Files : g < f /\ Policy[g] \in P}
  <1>1. IsFiniteSet(S) /\ T \in SUBSET S
    BY ManifestFacts, FS_Subset
  <1>2. Cardinality(T) <= Cardinality(S) /\ (Cardinality(S) = Cardinality(T) => S = T)
    BY <1>1, FS_Subset
  <1>3. Policy[f] \in P => f \in S /\ f \notin T
    BY ManifestFacts
  <1>4. Cardinality(S) \in Nat /\ Cardinality(T) \in Nat
    BY CountsAreNat DEF CountOf, CountBefore
  <1> QED
    BY <1>2, <1>3, <1>4 DEF CountOf, CountBefore

\* The count grows with every file that is counted.
LEMMA CountGrows ==
    ASSUME NEW P, NEW f \in Files, NEW g \in Files, f < g, Policy[f] \in P
    PROVE  CountBefore(f, P) < CountBefore(g, P)
  <1> DEFINE S == {h \in Files : h < g /\ Policy[h] \in P}
             T == {h \in Files : h < f /\ Policy[h] \in P}
  <1>1. IsFiniteSet(S) /\ S \in SUBSET Files
    BY ManifestFacts, FS_Subset
  <1>2. T \in SUBSET S
    <2>1. ASSUME NEW h \in T PROVE h < g
      BY <2>1, ManifestFacts
    <2> QED
      BY <2>1
  <1>3. Cardinality(T) <= Cardinality(S) /\ (Cardinality(S) = Cardinality(T) => S = T)
    BY <1>1, <1>2, FS_Subset
  <1>4. f \in S /\ f \notin T
    BY ManifestFacts
  <1>5. Cardinality(S) \in Nat /\ Cardinality(T) \in Nat
    BY CountsAreNat DEF CountBefore
  <1> QED
    BY <1>3, <1>4, <1>5 DEF CountBefore

\* The count before the first file, before the next one and after the last.
LEMMA CountNext ==
    ASSUME NEW P, NEW f \in Files
    PROVE  LET step == IF Policy[f] \in P THEN 1 ELSE 0
           IN  /\ f = 1 => CountBefore(f, P) = 0
               /\ f + 1 \in Files =>
                     CountBefore(f + 1, P) = CountBefore(f, P) + step
               /\ f = Len(Policy) => CountOf(P) = CountBefore(f, P) + step
  <1> DEFINE T == {g \in Files : g < f /\ Policy[g] \in P}
             U == IF Policy[f] \in P THEN T \cup {f} ELSE T
  <1>1. IsFiniteSet(T) /\ f \notin T
    BY ManifestFacts, FS_Subset
  <1>2. Cardinality(U) = Cardinality(T) + (IF Policy[f] \in P THEN 1 ELSE 0)
    <2>1. Cardinality(T) \in Nat
      BY CountsAreNat DEF CountBefore
    <2>2. Cardinality(T \cup {f}) = Cardinality(T) + 1
      BY <1>1, FS_AddElement
    <2> QED
      BY <2>1, <2>2
  <1>3. f = 1 => T = {}
    BY ManifestFacts
  <1>4. f + 1 \in Files => {g \in Files : g < f + 1 /\ Policy[g] \in P} = U
    BY ManifestFacts
  <1>5. f = Len(Policy) => {g \in Files : Policy[g] \in P} = U
    BY ManifestFacts
  <1> QED
    BY <1>2, <1>3, <1>4, <1>5, FS_EmptySet DEF CountBefore, CountOf

\* The parts of the layout, in order.
LEMMA Layout ==
    /\ file_stage_begin \in Nat /\ directory_activate_begin \in Nat
    /\ file_activate_begin \in Nat /\ stage_end \in Nat /\ arm_step \in Nat
    /\ health_step \in Nat /\ kernel_begin \in Nat /\ metadata_begin \in Nat
    /\ selector_step \in Nat /\ total \in Nat
    /\ directory_activate_begin = file_stage_begin + Len(Policy)
    /\ directory_activate_begin >= 1
    /\ file_activate_begin = directory_activate_begin + DirectoryCount
    /\ file_activate_begin >= directory_activate_begin
    /\ stage_end >= file_activate_begin
    /\ arm_step = stage_end /\ health_step = arm_step + 1
    /\ kernel_begin = health_step + 1 /\ metadata_begin >= kernel_begin
    /\ selector_step >= metadata_begin /\ total = selector_step + 1
  <1>1. \A P : CountOf(P) \in Nat
    BY CountsAreNat, ManifestFacts
  <1>2. Len(Policy) \in Nat /\ Len(Policy) >= 1 /\ DirectoryCount \in Nat
    BY ManifestFacts
  <1>3. file_stage_begin \in Nat
    BY <1>1 DEF file_stage_begin
  <1>4. /\ directory_activate_begin = file_stage_begin + Len(Policy)
        /\ directory_activate_begin \in Nat
    BY <1>2, <1>3 DEF directory_activate_begin
  <1>5. /\ file_activate_begin = directory_activate_begin + DirectoryCount
        /\ file_activate_begin \in Nat
    BY <1>2, <1>4 DEF file_activate_begin
  <1>6. stage_end \in Nat /\ stage_end >= file_activate_begin
    BY <1>1, <1>5 DEF stage_end
  <1>7. /\ arm_step = stage_end /\ health_step = arm_step + 1
        /\ kernel_begin = health_step + 1
    BY DEF arm_step, health_step, kernel_begin
  <1>8. metadata_begin \in Nat /\ metadata_begin >= kernel_begin
    BY <1>1, <1>6, <1>7 DEF metadata_begin
  <1>9. /\ selector_step \in Nat /\ selector_step >= metadata_begin
        /\ total = selector_step + 1
    BY <1>1, <1>8 DEF selector_step, total
  <1> QED
    BY <1>2, <1>3, <1>4, <1>5, <1>6, <1>7, <1>8, <1>9

\* The step that activates a file, by its policy.
LEMMA ActivationSteps ==
    ASSUME NEW f \in Files
    PROVE  /\ Policy[f] \in ActivatedByStage \cup {"Kernel", "Metadata"}
           /\ Policy[f] \in ActivatedByStage =>
                 /\ ActivationStep(f) =
                       file_activate_begin + CountBefore(f, ActivatedByStage)
                 /\ CountBefore(f, ActivatedByStage) < CountOf(ActivatedByStage)
           /\ Policy[f] = "Kernel" =>
                 /\ ActivationStep(f) = kernel_begin + CountBefore(f, {"Kernel"})
                 /\ CountBefore(f, {"Kernel"}) < CountOf({"Kernel"})
           /\ Policy[f] = "Metadata" =>
                 /\ ActivationStep(f) = metadata_begin + CountBefore(f, {"Metadata"})
                 /\ CountBefore(f, {"Metadata"}) < CountOf({"Metadata"})
           /\ CountBefore(f, ActivatedByStage) \in Nat
           /\ CountBefore(f, {"Kernel"}) \in Nat
           /\ CountBefore(f, {"Metadata"}) \in Nat
           /\ CountOf(ActivatedByStage) \in Nat
           /\ CountOf({"Kernel"}) \in Nat /\ CountOf({"Metadata"}) \in Nat
  <1>1. Policy[f] \in ActivatedByStage \cup {"Kernel", "Metadata"}
    BY ManifestFacts DEF Policies, ActivatedByStage
  <1>2. /\ Policy[f] \in ActivatedByStage =>
              Policy[f] # "Kernel" /\ Policy[f] # "Metadata"
    BY DEF ActivatedByStage
  <1>3. /\ Policy[f] \in ActivatedByStage =>
              ActivationStep(f) = file_activate_begin + CountBefore(f, ActivatedByStage)
        /\ Policy[f] = "Kernel" =>
              ActivationStep(f) = kernel_begin + CountBefore(f, {"Kernel"})
        /\ Policy[f] = "Metadata" =>
              ActivationStep(f) = metadata_begin + CountBefore(f, {"Metadata"})
    BY <1>2 DEF ActivationStep
  <1> QED
    BY <1>1, <1>3, CountBound, CountsAreNat

\* Where the steps of one file and of one directory are.
LEMMA StepPlaces ==
    /\ \A f \in Files :
          /\ SnapshotStep(f) \in Nat /\ SnapshotStep(f) <= file_stage_begin
          /\ Policy[f] \in Snapshotted => SnapshotStep(f) < file_stage_begin
          /\ StageStep(f) \in Nat /\ StageStep(f) < directory_activate_begin
          /\ StageStep(f) = file_stage_begin + f - 1
          /\ ActivationStep(f) \in Nat
          /\ ActivationStep(f) >= file_activate_begin
          /\ Policy[f] \in ActivatedByStage => ActivationStep(f) < stage_end
          /\ Policy[f] = "Kernel" => /\ ActivationStep(f) >= kernel_begin
                                     /\ ActivationStep(f) < metadata_begin
          /\ Policy[f] = "Metadata" => /\ ActivationStep(f) >= metadata_begin
                                       /\ ActivationStep(f) < selector_step
    /\ \A d \in Directories :
          /\ FolderStep(d) \in Nat
          /\ FolderStep(d) >= directory_activate_begin
          /\ FolderStep(d) < file_activate_begin
  <1>1. ASSUME NEW f \in Files
        PROVE  /\ SnapshotStep(f) \in Nat /\ SnapshotStep(f) <= file_stage_begin
               /\ Policy[f] \in Snapshotted => SnapshotStep(f) < file_stage_begin
    BY CountsAreNat, CountBound, Layout DEF SnapshotStep, file_stage_begin
  <1>2. ASSUME NEW f \in Files
        PROVE  /\ StageStep(f) \in Nat /\ StageStep(f) < directory_activate_begin
               /\ StageStep(f) = file_stage_begin + f - 1
    BY Layout, ManifestFacts DEF StageStep
  <1>3. ASSUME NEW f \in Files, Policy[f] \in ActivatedByStage
        PROVE  /\ ActivationStep(f) \in Nat /\ ActivationStep(f) < stage_end
               /\ ActivationStep(f) >= file_activate_begin
    <2>1. stage_end = file_activate_begin + CountOf(ActivatedByStage)
      BY DEF stage_end
    <2>2. /\ ActivationStep(f) =
                 file_activate_begin + CountBefore(f, ActivatedByStage)
          /\ CountBefore(f, ActivatedByStage) < CountOf(ActivatedByStage)
          /\ CountBefore(f, ActivatedByStage) \in Nat
          /\ CountOf(ActivatedByStage) \in Nat
      BY <1>3, ActivationSteps
    <2>3. ActivationStep(f) < stage_end
      <3>1. file_activate_begin \in Nat /\ stage_end \in Nat
        BY Layout
      <3> QED
        BY <2>1, <2>2, <3>1
    <2>4. ActivationStep(f) \in Nat /\ ActivationStep(f) >= file_activate_begin
      BY <2>2, Layout
    <2> QED
      BY <2>3, <2>4
  <1>4. ASSUME NEW f \in Files, Policy[f] = "Kernel"
        PROVE  /\ ActivationStep(f) \in Nat /\ ActivationStep(f) < metadata_begin
               /\ ActivationStep(f) >= kernel_begin
    BY <1>4, ActivationSteps, Layout, SMTT(30) DEF metadata_begin
  <1>5. ASSUME NEW f \in Files, Policy[f] = "Metadata"
        PROVE  /\ ActivationStep(f) \in Nat /\ ActivationStep(f) < selector_step
               /\ ActivationStep(f) >= metadata_begin
    BY <1>5, ActivationSteps, Layout, SMTT(30) DEF selector_step
  <1>6. \A f \in Files : Policy[f] \in ActivatedByStage \cup {"Kernel", "Metadata"}
    BY ActivationSteps
  <1>7. ASSUME NEW d \in Directories
        PROVE  /\ FolderStep(d) \in Nat
               /\ FolderStep(d) >= directory_activate_begin
               /\ FolderStep(d) < file_activate_begin
    BY Layout, ManifestFacts DEF FolderStep
  <1> QED
    BY <1>1, <1>2, <1>3, <1>4, <1>5, <1>6, <1>7, Layout DEF ActivatedByStage

\* Arming, the health mark and the selector have steps of their own.
LEMMA StepGaps ==
    /\ \A f \in Files :
          /\ ActivationStep(f) < arm_step \/ ActivationStep(f) >= kernel_begin
          /\ ActivationStep(f) < selector_step /\ ActivationStep(f) < total
          /\ ActivationStep(f) >= 1
    /\ \A d \in Directories : FolderStep(d) < arm_step
    /\ ActivationStep(Selector) < arm_step
  <1>1. ASSUME NEW f \in Files, Policy[f] \in ActivatedByStage
        PROVE  ActivationStep(f) < arm_step
    BY <1>1, StepPlaces, Layout
  <1>2. ASSUME NEW f \in Files, Policy[f] = "Kernel"
        PROVE  ActivationStep(f) >= kernel_begin /\ ActivationStep(f) < selector_step
    BY <1>2, StepPlaces, Layout
  <1>3. ASSUME NEW f \in Files, Policy[f] = "Metadata"
        PROVE  ActivationStep(f) >= kernel_begin /\ ActivationStep(f) < selector_step
    BY <1>3, StepPlaces, Layout
  <1>4. \A f \in Files : Policy[f] \in ActivatedByStage \cup {"Kernel", "Metadata"}
    BY ActivationSteps
  <1>5. \A f \in Files : ActivationStep(f) \in Nat /\ ActivationStep(f) >= 1
    BY StepPlaces, Layout
  <1>6. arm_step < selector_step /\ selector_step < total
    BY Layout
  <1>7. \A f \in Files :
           /\ ActivationStep(f) < arm_step \/ ActivationStep(f) >= kernel_begin
           /\ ActivationStep(f) < selector_step /\ ActivationStep(f) < total
    BY <1>1, <1>2, <1>3, <1>4, <1>5, <1>6, Layout
  <1>8. \A d \in Directories : FolderStep(d) < arm_step
    BY StepPlaces, Layout
  <1> QED
    BY <1>1, <1>5, <1>7, <1>8, ManifestFacts DEF ActivatedByStage

\* No two files are activated by the same step, and no two directories.
LEMMA StepsDiffer ==
    /\ \A f, g \in Files : ActivationStep(f) = ActivationStep(g) => f = g
    /\ \A d, e \in Directories : FolderStep(d) = FolderStep(e) => d = e
  <1>1. ASSUME NEW f \in Files, NEW g \in Files, f < g
        PROVE  ActivationStep(f) # ActivationStep(g)
    <2>1. ASSUME NEW P, Policy[f] \in P
          PROVE  CountBefore(f, P) < CountBefore(g, P)
      BY <1>1, <2>1, CountGrows
    <2>2. CASE Policy[f] = "Kernel" /\ Policy[g] = "Kernel"
      <3>1. CountBefore(f, {"Kernel"}) < CountBefore(g, {"Kernel"})
        BY <2>1, <2>2
      <3> QED
        BY <3>1, <2>2, ActivationSteps, Layout, SMTT(30)
    <2>3. CASE Policy[f] = "Metadata" /\ Policy[g] = "Metadata"
      <3>1. CountBefore(f, {"Metadata"}) < CountBefore(g, {"Metadata"})
        BY <2>1, <2>3
      <3> QED
        BY <3>1, <2>3, ActivationSteps, Layout, SMTT(30)
    <2>4. CASE Policy[f] \in ActivatedByStage /\ Policy[g] \in ActivatedByStage
      BY <2>1, <2>4, ActivationSteps, Layout, SMTT(30)
    <2>5. /\ Policy[f] \in ActivatedByStage \cup {"Kernel", "Metadata"}
          /\ Policy[g] \in ActivatedByStage \cup {"Kernel", "Metadata"}
      BY ActivationSteps
    <2>6. CASE Policy[f] \in ActivatedByStage /\ Policy[g] \notin ActivatedByStage
      BY <2>5, <2>6, StepPlaces, Layout
    <2>7. CASE Policy[f] \notin ActivatedByStage /\ Policy[g] \in ActivatedByStage
      BY <2>5, <2>7, StepPlaces, Layout
    <2>8. CASE Policy[f] = "Kernel" /\ Policy[g] = "Metadata"
      BY <2>8, StepPlaces, Layout
    <2>9. CASE Policy[f] = "Metadata" /\ Policy[g] = "Kernel"
      BY <2>9, StepPlaces, Layout
    <2> QED
      BY <2>2, <2>3, <2>4, <2>5, <2>6, <2>7, <2>8, <2>9
  <1>2. \A f, g \in Files : f = g \/ f < g \/ g < f
    BY ManifestFacts
  <1>3. \A d, e \in Directories : FolderStep(d) = FolderStep(e) => d = e
    BY ManifestFacts, Layout, SMTT(30) DEF FolderStep
  <1> QED
    BY <1>1, <1>2, <1>3


-----------------------------------------------------------------------------
(* The records that the installer writes.                                  *)

\* A valid transition to a record of the common form.
LEMMA MovedRecord ==
    ASSUME journal \in JournalRecords,
           NEW s \in JournalStates, NEW F \in SUBSET JournalFlags, NEW n \in Nat,
           WriteTransition(Moved(journal, s, F, n))
    PROVE  /\ RecordIsValid(journal) /\ RecordIsValid(journal')
           /\ journal' \in JournalRecords /\ journal' # Empty
           /\ journal'.state = s /\ journal'.flags = journal.flags \cup F
           /\ journal'.completed_steps = journal.completed_steps + n
           /\ journal'.total_steps = journal.total_steps
           /\ journal'.transaction = journal.transaction
           /\ journal'.generation = journal.generation + 1
           /\ journal.completed_steps \in Nat
  <1>1. /\ journal' = Moved(journal, s, F, n)
        /\ RecordIsValid(journal) /\ RecordIsValid(journal')
    BY DEF WriteTransition, ValidateJournalTransition
  <1>2. journal' \in JournalRecords
    BY <1>1 DEF Moved, JournalRecords
  <1> QED
    BY <1>1, <1>2, InstallerAssumption DEF Moved, JournalRecords

\* A valid transition to Idle is never the first generation.
LEMMA IdleRecord ==
    ASSUME journal \in JournalRecords, WriteTransition(Idle(journal))
    PROVE  /\ RecordIsValid(journal')
           /\ journal' \in JournalRecords /\ journal' # Empty
           /\ journal'.state = "Idle" /\ journal'.generation > 1
           /\ journal'.flags = {}
  <1>1. /\ journal' = Idle(journal) /\ RecordIsValid(journal')
        /\ journal.generation # 0
    BY DEF WriteTransition, ValidateJournalTransition, RecordIsValid
  <1>2. journal' \in JournalRecords
    BY <1>1 DEF Idle, MakeIdleJournalRecord, JournalRecords, JournalStates
  <1> QED
    BY <1>1, <1>2, InstallerAssumption
       DEF Idle, MakeIdleJournalRecord, JournalRecords

-----------------------------------------------------------------------------
(* What a step leaves alone, and which conjuncts speak of one kind of      *)
(* operation only.                                                         *)

LEMMA DiskKept ==
    ASSUME InstallerInv,
           UNCHANGED <<journal, request, live, private, folder, original,
                       original_folder, atomic_replace>>
    PROVE  /\ StepsInv' /\ FreshInv' /\ PlanInv' /\ FilesInv' /\ ForwardInv'
           /\ FolderInv' /\ (RolledBack => Restored)'
           /\ Working' = Working /\ RolledBack' = RolledBack
  <1> USE DEF private
  <1>1. /\ InState({"Idle"})' = InState({"Idle"})
        /\ InState(RollbackStates)' = InState(RollbackStates)
        /\ InState({"Committed"})' = InState({"Committed"})
    BY DEF InState, RollbackStates
  <1>2. StepsInv'
    BY DEF InstallerInv, StepsInv
  <1>3. Working' = Working /\ RolledBack' = RolledBack /\ NoPlans' = NoPlans
    BY <1>1 DEF Working, RolledBack, NoPlans
  <1>4. FreshInv'
    BY <1>1, <1>3 DEF InstallerInv, FreshInv, Fresh, PrivateClean
  <1>5. PlanInv'
    BY <1>3 DEF InstallerInv, PlanInv, SnapshotKept
  <1>6. FilesInv'
    BY <1>3 DEF InstallerInv, FilesInv, FileInv, HasMarker, Same
  <1>7. ForwardInv'
    BY <1>1, <1>3 DEF InstallerInv, ForwardInv, Activated, CommittedExactly, Target
  <1>8. FolderInv'
    BY DEF InstallerInv, FolderInv
  <1>9. (RolledBack => Restored)'
    BY <1>3 DEF InstallerInv, RestoreInv, Restored, LeftArmed
  <1> QED
    BY <1>2, <1>3, <1>4, <1>5, <1>6, <1>7, <1>8, <1>9

LEMMA DiskFrame ==
    ASSUME InstallerInv,
           UNCHANGED <<journal, request, live, private, folder, background>>
    PROVE  /\ StepsInv' /\ FreshInv' /\ PlanInv' /\ FilesInv' /\ ForwardInv'
           /\ FolderInv' /\ (RolledBack => Restored)'
           /\ Working' = Working /\ RolledBack' = RolledBack
  BY DiskKept DEF background

LEMMA RetireFrame ==
    ASSUME pc' \notin RetirePCs PROVE RetireInv'
  BY DEF RetireInv, RetirePCs

LEMMA LoopFrame ==
    ASSUME pc' \notin StagePCs \ {"plan"} PROVE LoopInv'
  BY DEF LoopInv, StagePCs

LEMMA RestoreFrame ==
    ASSUME pc' \notin RestorePCs \cup {"idle"}, (RolledBack => Restored)'
    PROVE  RestoreInv'
  BY DEF RestoreInv, RestorePCs

LEMMA RequestFrame ==
    ASSUME request' = "active" PROVE RequestInv'
  BY DEF RequestInv

LEMMA InstallerInit ==
    ASSUME Init PROVE InstallerInv
  <1> USE DEF Init
  <1>1. TypeOK
    <2>1. live \in [Files -> Bytes]
      BY DEF Bytes
    <2>2. staged \in [Files -> Bytes] /\ snapshot \in [Files -> Bytes]
          /\ metadata_old \in [Files -> Bytes]
      BY DEF Bytes
    <2>3. marker \in [Files -> Markers] /\ folder_marker \in [Directories -> Markers]
      BY DEF Markers
    <2>4. cursor \in 0 .. Len(Policy) + DirectoryCount + 1
      BY ManifestFacts
    <2> QED
      BY <2>1, <2>2, <2>3, <2>4 DEF TypeOK, PCs
  <1>2. ~Working /\ ~RolledBack /\ ~Fresh
    BY DEF Working, RolledBack, Fresh, InState
  <1>3. PrivateClean
    BY DEF PrivateClean, NoPlans
  <1>4. RequestInv
    BY <1>3 DEF RequestInv
  <1>5. CallInv
    BY DEF CallInv, PCs, StagePCs, RestorePCs, RetirePCs
  <1>6. RetireInv /\ LoopInv /\ RestoreInv
    BY <1>2 DEF RetireInv, RetirePCs, LoopInv, RestoreInv
  <1>7. StepsInv /\ FreshInv /\ PlanInv /\ FilesInv /\ FolderInv
    BY <1>2 DEF StepsInv, FreshInv, PlanInv, FilesInv, FolderInv
  <1>8. ForwardInv
    BY <1>2 DEF ForwardInv, CommittedExactly, InState
  <1> QED
    BY <1>1, <1>4, <1>5, <1>6, <1>7, <1>8 DEF InstallerInv


-----------------------------------------------------------------------------
(* Calls that only start an operation, and the end of one.                 *)

LEMMA StopStep ==
    ASSUME InstallerInv, Stop PROVE InstallerInv'
  <1> USE DEF Stop, Return
  <1>1. TypeOK'
    BY ManifestFacts DEF InstallerInv, TypeOK, PCs, private, background
  <1>2. RequestInv'
    BY DEF InstallerInv, RequestInv
  <1>3. CallInv'
    BY DEF CallInv, PCs, StagePCs, RestorePCs, RetirePCs
  <1>4. RetireInv' /\ LoopInv' /\ RestoreInv'
    BY DiskFrame, RetireFrame, LoopFrame, RestoreFrame
       DEF RetirePCs, StagePCs, RestorePCs
  <1> QED
    BY <1>1, <1>2, <1>3, <1>4, DiskFrame DEF InstallerInv

LEMMA BeginStageStep ==
    ASSUME InstallerInv, BeginStage PROVE InstallerInv'
  <1> USE DEF BeginStage
  <1>1. TypeOK'
    BY DEF InstallerInv, TypeOK, PCs, private, memory, background
  <1>2. RequestInv'
    BY RequestFrame
  <1>3. ~RolledBack'
    BY DEF RolledBack, InState
  <1>4. journal = Empty \/ InState({"Idle", "Discovered", "Downloaded", "Prepared"})
    BY DEF InState
  <1>5. CallInv'
    BY <1>3, <1>4 DEF CallInv, InState, StagePCs, RestorePCs, RetirePCs
  <1>6. RetireInv' /\ LoopInv' /\ RestoreInv'
    BY DiskFrame, RetireFrame, LoopFrame, RestoreFrame
       DEF RetirePCs, StagePCs, RestorePCs
  <1> QED
    BY <1>1, <1>2, <1>5, <1>6, DiskFrame DEF InstallerInv

LEMMA BeginArmStep ==
    ASSUME InstallerInv, BeginArm PROVE InstallerInv'
  <1> USE DEF BeginArm
  <1>1. TypeOK'
    BY DEF InstallerInv, TypeOK, PCs, private, memory, background
  <1>2. RequestInv'
    BY RequestFrame
  <1>3. CallInv'
    BY DEF CallInv, InState, StagePCs, RestorePCs, RetirePCs
  <1>4. RetireInv' /\ LoopInv' /\ RestoreInv'
    BY DiskFrame, RetireFrame, LoopFrame, RestoreFrame
       DEF RetirePCs, StagePCs, RestorePCs
  <1> QED
    BY <1>1, <1>2, <1>3, <1>4, DiskFrame DEF InstallerInv

LEMMA BeginCommitStep ==
    ASSUME InstallerInv, BeginCommit PROVE InstallerInv'
  <1> USE DEF BeginCommit
  <1>1. TypeOK'
    BY DEF InstallerInv, TypeOK, PCs, private, memory, background
  <1>2. RequestInv'
    BY RequestFrame
  <1>3. CallInv'
    BY DEF CallInv, InState, StagePCs, RestorePCs, RetirePCs
  <1>4. RetireInv' /\ LoopInv' /\ RestoreInv'
    BY DiskFrame, RetireFrame, LoopFrame, RestoreFrame
       DEF RetirePCs, StagePCs, RestorePCs
  <1> QED
    BY <1>1, <1>2, <1>3, <1>4, DiskFrame DEF InstallerInv

LEMMA BeginRollbackStep ==
    ASSUME InstallerInv, BeginRollback PROVE InstallerInv'
  <1> USE DEF BeginRollback
  <1>1. TypeOK'
    BY DEF InstallerInv, TypeOK, PCs, private, memory, background
  <1>2. RequestInv'
    BY RequestFrame
  <1>3. CallInv'
    BY DEF CallInv, InState, StagePCs, RestorePCs, RetirePCs
  <1>4. RetireInv' /\ LoopInv' /\ RestoreInv'
    BY DiskFrame, RetireFrame, LoopFrame, RestoreFrame
       DEF RetirePCs, StagePCs, RestorePCs
  <1> QED
    BY <1>1, <1>2, <1>3, <1>4, DiskFrame DEF InstallerInv

LEMMA BeginRetireStep ==
    ASSUME InstallerInv, BeginRetire PROVE InstallerInv'
  <1> USE DEF BeginRetire
  <1>1. TypeOK'
    BY ManifestFacts DEF InstallerInv, TypeOK, PCs, private, background
  <1>2. RequestInv'
    BY DEF InstallerInv, RequestInv, MayRetire
  <1>3. CallInv'
    BY DEF CallInv, MayRetire, StagePCs, RestorePCs, RetirePCs
  <1>4. RetireInv'
    BY ManifestFacts DEF RetireInv, RetirePCs
  <1>5. LoopInv' /\ RestoreInv'
    BY DiskFrame, LoopFrame, RestoreFrame DEF StagePCs, RestorePCs
  <1> QED
    BY <1>1, <1>2, <1>3, <1>4, <1>5, DiskFrame DEF InstallerInv

-----------------------------------------------------------------------------
(* The life of the request.                                                *)

LEMMA BeginTransactionStep ==
    ASSUME InstallerInv, BeginTransaction PROVE InstallerInv'
  <1> USE DEF BeginTransaction
  <1>1. TypeOK'
    BY DEF InstallerInv, TypeOK, private, memory, Relabelled, Bytes
  <1>2. ~Working' /\ ~RolledBack' /\ journal' = Empty
    BY DEF Working, RolledBack, InState
  <1>3. PrivateClean' /\ NoPlans'
    BY DEF InstallerInv, RequestInv, PrivateClean, NoPlans, private
  <1>4. FreshInv'
    BY <1>2, <1>3 DEF FreshInv, Fresh, InState
  <1>5. PlanInv' /\ FilesInv'
    BY <1>2, <1>3 DEF PlanInv, FilesInv, NoPlans
  <1>6. FolderInv'
    BY <1>3 DEF FolderInv, PrivateClean
  <1>7. ForwardInv' /\ StepsInv'
    BY <1>2 DEF ForwardInv, CommittedExactly, InState, StepsInv
  <1>8. CallInv'
    BY DEF CallInv, StagePCs, RestorePCs, RetirePCs, PCs
  <1>9. RetireInv' /\ LoopInv' /\ RestoreInv' /\ RequestInv'
    BY <1>2, RetireFrame, LoopFrame, RestoreFrame, RequestFrame
       DEF RetirePCs, StagePCs, RestorePCs
  <1> QED
    BY <1>1, <1>4, <1>5, <1>6, <1>7, <1>8, <1>9 DEF InstallerInv

\* A request that is no longer active, beside a record that did not change.
LEMMA RequestEnds ==
    ASSUME InstallerInv, pc = "ready", request' \in {"inert", "committed"},
           request' = "inert" /\ journal # Empty => journal.state = "Idle",
           request' = "committed" /\ journal # Empty => journal.state = "Committed",
           UNCHANGED <<journal, live, private, folder, pc, memory, background>>
    PROVE  InstallerInv'
  <1> USE DEF private, memory, background
  <1>1. TypeOK'
    BY DEF InstallerInv, TypeOK
  <1>2. /\ ~Working' /\ ~Fresh'
        /\ RolledBack' = RolledBack
        /\ InState({"Committed"})' = InState({"Committed"})
    BY DEF Working, Fresh, RolledBack, InState
  <1>3. StepsInv' /\ RequestInv'
    BY DEF InstallerInv, StepsInv, RequestInv
  <1>4. FreshInv' /\ FilesInv' /\ FolderInv' /\ PlanInv'
    BY <1>2 DEF InstallerInv, FreshInv, FilesInv, FolderInv, PlanInv
  <1>5. ForwardInv'
    BY <1>2 DEF InstallerInv, ForwardInv, CommittedExactly, Target
  <1>6. CallInv'
    BY DEF CallInv, StagePCs, RestorePCs, RetirePCs, PCs
  <1>7. (RolledBack => Restored)'
    BY <1>2 DEF InstallerInv, RestoreInv, Restored, LeftArmed
  <1>8. RetireInv' /\ LoopInv' /\ RestoreInv'
    BY <1>7, RetireFrame, LoopFrame, RestoreFrame
       DEF RetirePCs, StagePCs, RestorePCs
  <1> QED
    BY <1>1, <1>3, <1>4, <1>5, <1>6, <1>8 DEF InstallerInv

LEMMA RetainCommittedStep ==
    ASSUME InstallerInv, RetainCommitted PROVE InstallerInv'
  BY RequestEnds DEF RetainCommitted, InState

LEMMA DiscardArchiveStep ==
    ASSUME InstallerInv, DiscardArchive PROVE InstallerInv'
  BY RequestEnds DEF DiscardArchive

LEMMA DiscardRequestStep ==
    ASSUME InstallerInv, DiscardRequest PROVE InstallerInv'
  <1> USE DEF DiscardRequest, Return
  <1>1. TypeOK'
    BY ManifestFacts DEF InstallerInv, TypeOK, PCs, private, background
  <1>2. ~Working' /\ ~Fresh' /\ ~RolledBack' /\ journal' = Empty
    BY DEF InstallerInv, RetireInv, Working, Fresh, RolledBack, InState
  <1>3. PrivateClean'
    BY DEF InstallerInv, RetireInv, RetirePCs, PrivateClean, NoPlans, private
  <1>4. StepsInv' /\ RequestInv'
    BY <1>2, <1>3 DEF StepsInv, RequestInv
  <1>5. FreshInv' /\ FilesInv' /\ PlanInv'
    BY <1>2, <1>3 DEF FreshInv, FilesInv, PlanInv, PrivateClean, NoPlans
  <1>6. FolderInv'
    BY DEF InstallerInv, FolderInv, background
  <1>7. ForwardInv'
    BY <1>2 DEF ForwardInv, CommittedExactly, InState
  <1>8. CallInv'
    BY DEF CallInv, StagePCs, RestorePCs, RetirePCs, PCs
  <1>9. RetireInv' /\ LoopInv' /\ RestoreInv'
    BY <1>2, RetireFrame, LoopFrame, RestoreFrame
       DEF RetirePCs, StagePCs, RestorePCs
  <1> QED
    BY <1>1, <1>4, <1>5, <1>6, <1>7, <1>8, <1>9 DEF InstallerInv


-----------------------------------------------------------------------------
(* Retirement: it only removes, and none of it belongs to an active request.*)

LEMMA Retiring ==
    ASSUME InstallerInv, pc \in RetirePCs, pc' \in RetirePCs,
           TypeOK', RetireInv', journal' \in {journal, Empty},
           prepared_plan' \in {prepared_plan, NoPlan},
           final_plan' \in {final_plan, NoPlan},
           UNCHANGED <<request, live, folder, background>>
    PROVE  InstallerInv'
  <1> USE DEF background
  <1>1. request \in {"inert", "committed"}
    BY DEF InstallerInv, CallInv
  <1>2. /\ ~Working' /\ ~Fresh'
        /\ RolledBack' => RolledBack
        /\ InState({"Committed"})' => InState({"Committed"})
    BY <1>1 DEF Working, Fresh, RolledBack, InState
  <1>3. StepsInv' /\ RequestInv'
    BY <1>1 DEF InstallerInv, StepsInv, RequestInv
  <1>4. FreshInv' /\ FilesInv' /\ FolderInv' /\ PlanInv'
    BY <1>1, <1>2 DEF InstallerInv, FreshInv, FilesInv, FolderInv, PlanInv
  <1>5. ForwardInv'
    BY <1>2 DEF InstallerInv, ForwardInv, CommittedExactly, Target
  <1>6. CallInv'
    BY <1>1 DEF CallInv, StagePCs, RestorePCs, RetirePCs, PCs
  <1>7. (RolledBack => Restored)'
    BY <1>2 DEF InstallerInv, RestoreInv, Restored, LeftArmed
  <1>8. LoopInv' /\ RestoreInv'
    BY <1>7, LoopFrame, RestoreFrame DEF RetirePCs, StagePCs, RestorePCs
  <1> QED
    BY <1>3, <1>4, <1>5, <1>6, <1>8 DEF InstallerInv

LEMMA RetireFileStep ==
    ASSUME InstallerInv, RetireFile PROVE InstallerInv'
  <1> USE DEF RetireFile, NextFile
  <1>1. pc = "retire_files" /\ cursor \in Files
        /\ pc' \in {"retire_files", "retire_markers"}
    BY DEF InstallerInv, RetireInv
  <1>2. cursor' \in Files
    BY <1>1, ManifestFacts
  <1>3. TypeOK'
    <2>1. /\ staged' \in [Files -> Bytes] /\ snapshot' \in [Files -> Bytes]
          /\ metadata_old' \in [Files -> Bytes]
      BY DEF InstallerInv, TypeOK, Bytes
    <2>2. cursor' \in 0 .. Len(Policy) + DirectoryCount + 1
      BY <1>2, ManifestFacts
    <2> QED
      BY <1>1, <2>1, <2>2 DEF InstallerInv, TypeOK, PCs, background
  <1>4. \A f \in 1 .. (cursor - 1) :
           staged'[f] = Missing /\ snapshot'[f] = Missing /\ metadata_old'[f] = Missing
    BY <1>1, ManifestFacts DEF InstallerInv, RetireInv, TypeOK
  <1>5. CASE staged[cursor] = Missing /\ snapshot[cursor] = Missing
             /\ UNCHANGED <<staged, snapshot>>
             /\ metadata_old' = [metadata_old EXCEPT ![cursor] = Missing]
             /\ NextFile("retire_markers", 1)
    <2>1. \A f \in 1 .. cursor :
             staged'[f] = Missing /\ snapshot'[f] = Missing /\ metadata_old'[f] = Missing
      BY <1>1, <1>4, <1>5, ManifestFacts DEF InstallerInv, TypeOK
    <2>2. CASE cursor = Len(Policy)
      <3>1. \A f \in Files : f \in 1 .. cursor
        BY <2>2, ManifestFacts
      <3>2. pc' = "retire_markers" /\ cursor' = 1
        BY <1>5, <2>2
      <3>3. RetireInv'
        BY <1>2, <2>1, <3>1, <3>2 DEF RetireInv, RetirePCs
      <3> QED
        BY <1>1, <1>3, <3>3, Retiring DEF RetirePCs, TypeOK
    <2>3. CASE cursor # Len(Policy)
      <3>1. pc' = "retire_files" /\ cursor' = cursor + 1
        BY <1>1, <1>5, <2>3
      <3>2. cursor' - 1 = cursor
        BY <1>1, <3>1, ManifestFacts
      <3>3. RetireInv'
        BY <1>2, <2>1, <3>1, <3>2 DEF RetireInv, RetirePCs
      <3> QED
        BY <1>1, <1>3, <3>3, Retiring DEF RetirePCs, TypeOK
    <2> QED
      BY <2>2, <2>3
  <1>6. CASE UNCHANGED <<metadata_old, pc, cursor>>
    <2>1. RetireInv'
      BY <1>1, <1>2, <1>4, <1>6 DEF RetireInv, RetirePCs
    <2> QED
      BY <1>1, <1>3, <2>1, Retiring DEF RetirePCs
  <1> QED
    BY <1>5, <1>6

LEMMA RetireMarkerStep ==
    ASSUME InstallerInv, RetireMarker PROVE InstallerInv'
  <1> USE DEF RetireMarker, NextFile
  <1>1. pc = "retire_markers" /\ cursor \in Files
        /\ pc' \in {"retire_markers", "retire_evidence"}
    BY DEF InstallerInv, RetireInv
  <1>2. cursor' \in Files \cup {0} /\ (pc' = "retire_markers" => cursor' \in Files)
    BY <1>1, ManifestFacts
  <1>3. TypeOK'
    BY <1>1, <1>2, ManifestFacts DEF InstallerInv, TypeOK, PCs, Markers, background
  <1>4. \A f \in 1 .. cursor : marker'[f] = "none"
    BY <1>1, ManifestFacts DEF InstallerInv, RetireInv, TypeOK
  <1>5. ASSUME cursor = Len(Policy) PROVE RetireInv'
    <2>1. pc' = "retire_evidence" /\ \A f \in Files : marker'[f] = "none"
      BY <1>4, <1>5, ManifestFacts
    <2> QED
      BY <1>1, <2>1 DEF InstallerInv, RetireInv, RetirePCs
  <1>6. ASSUME cursor # Len(Policy) PROVE RetireInv'
    <2>1. pc' = "retire_markers" /\ cursor' = cursor + 1
      BY <1>1, <1>6
    <2>2. cursor' \in Files /\ \A f \in 1 .. (cursor' - 1) : marker'[f] = "none"
      BY <1>1, <1>2, <1>4, <2>1, ManifestFacts
    <2> QED
      BY <1>1, <2>1, <2>2 DEF InstallerInv, RetireInv, RetirePCs
  <1>7. RetireInv'
    BY <1>5, <1>6
  <1> QED
    BY <1>1, <1>3, <1>7, Retiring DEF RetirePCs

LEMMA RetireStateStep ==
    ASSUME InstallerInv, RetireState PROVE InstallerInv'
  <1> USE DEF RetireState
  <1>1. pc \in RetirePCs /\ pc' \in RetirePCs
    BY DEF RetirePCs
  <1>2. evidence' \subseteq Files
    BY DEF InstallerInv, TypeOK
  <1>3. folder_marker' \in [Directories -> Markers]
    BY DEF InstallerInv, TypeOK, Markers
  <1>4. /\ prepared_plan' \in {prepared_plan, NoPlan}
        /\ final_plan' \in {final_plan, NoPlan}
    OBVIOUS
  <1>5. TypeOK'
    BY <1>1, <1>2, <1>3, <1>4 DEF InstallerInv, TypeOK, PCs, RetirePCs, memory, background
  <1>6. RetireInv'
    BY DEF InstallerInv, RetireInv, RetirePCs
  <1> QED
    BY <1>1, <1>4, <1>5, <1>6, Retiring

LEMMA RetireJournalStep ==
    ASSUME InstallerInv, RetireJournal PROVE InstallerInv'
  <1> USE DEF RetireJournal, private, memory
  <1>1. TypeOK'
    BY DEF InstallerInv, TypeOK, PCs, background
  <1>2. RetireInv'
    BY DEF InstallerInv, RetireInv, RetirePCs
  <1> QED
    BY <1>1, <1>2, Retiring DEF RetirePCs


-----------------------------------------------------------------------------
(* Stage, up to the content plan.                                          *)

\* What the validity of a record says of its flags.
LEMMA FlagFacts ==
    ASSUME NEW r, RecordIsValid(r)
    PROVE  /\ "SelectorCommitted" \in r.flags =>
                 r.state \in {"Committing", "Committed", "RollingBack"}
           /\ "TrybootArmed" \in r.flags =>
                 r.state \in {"CandidatePending", "CandidateHealthy", "Committing",
                              "Committed", "RollingBack"}
           /\ r.state \in {"CandidatePending", "CandidateHealthy", "Committing",
                           "Committed"} => "TrybootArmed" \in r.flags
           /\ r.state \in {"CandidateHealthy", "Committing", "Committed"} =>
                 "CandidateHealthy" \in r.flags
           /\ r.state = "Committed" => "SelectorCommitted" \in r.flags
  <1>1. r.state = "Idle" => r.flags = {}
    BY DEF RecordIsValid, IdleIsBlank
  <1>2. r.state # "Idle" => /\ RequiredFlagsForState(r.state) \subseteq r.flags
                            /\ r.flags \subseteq AllowedFlagsForState(r.state)
    BY DEF RecordIsValid
  <1>3. /\ "SelectorCommitted" \in AllowedFlagsForState(r.state) =>
              r.state \in {"Committing", "Committed", "RollingBack"}
        /\ "TrybootArmed" \in AllowedFlagsForState(r.state) =>
              r.state \in {"CandidatePending", "CandidateHealthy", "Committing",
                           "Committed", "RollingBack"}
    BY DEF AllowedFlagsForState, RequiredFlagsForState, ConsentFlags,
           DownloadedFlags, StagedFlags
  <1>4. /\ r.state \in {"CandidatePending", "CandidateHealthy", "Committing",
                        "Committed"} =>
              "TrybootArmed" \in RequiredFlagsForState(r.state)
        /\ r.state \in {"CandidateHealthy", "Committing", "Committed"} =>
              "CandidateHealthy" \in RequiredFlagsForState(r.state)
        /\ r.state = "Committed" =>
              "SelectorCommitted" \in RequiredFlagsForState(r.state)
    BY DEF RequiredFlagsForState, DownloadedFlags, StagedFlags
  <1> QED
    BY <1>1, <1>2, <1>3, <1>4

\* The first records of a transaction are written before anything is done.
LEMMA FirstRecords ==
    ASSUME InstallerInv, Fresh, journal' # Empty, RecordIsValid(journal'),
           journal'.state \in {"Idle", "Discovered", "Downloaded", "Prepared"},
           journal'.state = "Idle" => journal'.generation = 1,
           journal'.state # "Idle" => journal'.completed_steps = 0,
           UNCHANGED <<request, live, private, folder, background>>
    PROVE  /\ FreshInv' /\ PlanInv' /\ FilesInv' /\ ForwardInv' /\ FolderInv'
           /\ ~RolledBack'
  <1> USE DEF private, background
  <1>1. ~RolledBack' /\ request' = "active"
    BY DEF RolledBack, InState, Fresh
  <1>2. PrivateClean /\ live = original
    BY DEF InstallerInv, FreshInv
  <1>3. PrivateClean' /\ live' = original' /\ NoPlans'
    BY <1>2 DEF PrivateClean, NoPlans
  <1>4. InState(RollbackStates)' => journal'.completed_steps = 0
    BY DEF InState, RollbackStates
  <1>5. FreshInv'
    BY <1>3, <1>4 DEF FreshInv
  <1>6. PlanInv'
    BY <1>3, <1>4 DEF PlanInv, NoPlans, Working
  <1>7. FilesInv'
    <2> SUFFICES ASSUME Working', NEW f \in Files PROVE FileInv(f)'
      BY DEF FilesInv
    <2>1. journal'.completed_steps = 0
      BY <1>4 DEF Working
    <2>2. ActivationStep(f) >= 1
      BY StepPlaces, Layout
    <2> QED
      BY <1>3, <2>1, <2>2 DEF FileInv, PrivateClean, Same
  <1>8. ForwardInv'
    <2>1. ~InState({"Committed"})'
      BY DEF InState
    <2>2. Working' => journal'.completed_steps = 0 /\ journal'.state = "Prepared"
      BY <1>4 DEF Working, InState, RollbackStates
    <2>3. /\ \A f \in Files : ~(0 > ActivationStep(f))
          /\ \A d \in Directories : ~(0 > FolderStep(d))
      BY StepPlaces, Layout
    <2>4. Working' => "SelectorCommitted" \notin journal'.flags
                      \/ live'[Selector] = "new"
      BY <2>2, FlagFacts
    <2> QED
      BY <2>1, <2>2, <2>3, <2>4 DEF ForwardInv, CommittedExactly
  <1>9. FolderInv'
    BY DEF InstallerInv, FolderInv
  <1> QED
    BY <1>1, <1>5, <1>6, <1>7, <1>8, <1>9

LEMMA InitializeJournalStep ==
    ASSUME InstallerInv, InitializeJournal PROVE InstallerInv'
  <1>1. /\ pc = "initialize" /\ request = "active" /\ ~RolledBack
        /\ \/ journal = Empty
           \/ InState({"Idle", "Discovered", "Downloaded", "Prepared"})
        /\ journal \in JournalRecords \cup {Empty}
    BY DEF InitializeJournal, InstallerInv, CallInv, TypeOK, PCs, RetirePCs
  <1>2. UNCHANGED <<request, live, private, folder, memory, background>>
    BY DEF InitializeJournal
  <1>3. ASSUME journal' \in JournalRecords, journal' # Empty,
               RecordIsValid(journal'),
               journal'.state \in {"Idle", "Discovered", "Downloaded", "Prepared"},
               journal'.state = "Idle" => journal'.generation = 1,
               journal'.state # "Idle" => /\ journal'.total_steps = total
                                          /\ journal'.completed_steps = 0,
               pc' \in {"initialize", "plan"},
               pc' = "plan" => journal'.state = "Prepared",
               Fresh
        PROVE  InstallerInv'
    <2>1. /\ FreshInv' /\ PlanInv' /\ FilesInv' /\ ForwardInv' /\ FolderInv'
          /\ ~RolledBack'
      BY <1>2, <1>3, FirstRecords
    <2>2. TypeOK'
      BY <1>2, <1>3 DEF InstallerInv, TypeOK, PCs, private, memory, background
    <2>3. StepsInv' /\ RequestInv'
      BY <1>1, <1>2, <1>3 DEF StepsInv, RequestInv
    <2>4. CallInv'
      BY <1>1, <1>2, <1>3, <2>1
         DEF CallInv, InState, StagePCs, RestorePCs, RetirePCs
    <2>5. RetireInv' /\ LoopInv' /\ RestoreInv'
      BY <1>3, <2>1, RetireFrame, LoopFrame, RestoreFrame
         DEF RetirePCs, StagePCs, RestorePCs
    <2> QED
      BY <2>1, <2>2, <2>3, <2>4, <2>5 DEF InstallerInv
  <1>4. CASE journal = Empty /\ journal' = MakeIdleJournalRecord(1) /\ pc' = pc
    <2>1. Fresh
      BY <1>1, <1>4 DEF Fresh, InState
    <2>2. journal' \in JournalRecords
      BY <1>4 DEF MakeIdleJournalRecord, JournalRecords, JournalStates
    <2>3. RecordIsValid(journal')
      BY <1>4, JournalAssumption
         DEF MakeIdleJournalRecord, RecordIsValid, IdleIsBlank
    <2> QED
      BY <1>1, <1>3, <1>4, <2>1, <2>2, <2>3, InstallerAssumption
         DEF MakeIdleJournalRecord
  <1>5. ASSUME InState({"Idle"}), NEW t \in Transactions,
               WriteTransition(Discovered(journal, t, ResetRequired, total)),
               pc' = pc
        PROVE  InstallerInv'
    <2>1. Fresh
      BY <1>1, <1>5 DEF Fresh, InState, RollbackStates
    <2>2. journal \in JournalRecords
      BY <1>1, <1>5 DEF InState
    <2>3. /\ journal' = Discovered(journal, t, ResetRequired, total)
          /\ RecordIsValid(journal')
      BY <1>5 DEF WriteTransition, ValidateJournalTransition
    <2>4. journal' \in JournalRecords
      BY <2>2, <2>3, Layout DEF Discovered, JournalRecords, JournalStates, JournalFlags
    <2> QED
      BY <1>1, <1>3, <1>5, <2>1, <2>3, <2>4, InstallerAssumption DEF Discovered
  <1>6. ASSUME InState({"Discovered", "Downloaded"}),
               NEW s \in {"Downloaded", "Prepared"}, NEW F \in SUBSET JournalFlags,
               WriteTransition(Moved(journal, s, F, 0)),
               pc' = pc \/ (pc' = "plan" /\ s = "Prepared")
        PROVE  InstallerInv'
    <2>1. Fresh
      BY <1>1, <1>6 DEF Fresh, InState, RollbackStates
    <2>2. journal \in JournalRecords /\ journal # Empty /\ s \in JournalStates
          /\ journal.state \in {"Discovered", "Downloaded"}
      BY <1>1, <1>6 DEF InState, JournalStates
    <2>3. journal.completed_steps = 0 /\ journal.total_steps = total
      BY <2>2 DEF InstallerInv, StepsInv
    <2> QED
      BY <1>1, <1>3, <1>6, <2>1, <2>2, <2>3, MovedRecord
  <1>7. CASE /\ InState({"Discovered"}) /\ WriteTransition(Downloaded(journal))
             /\ pc' = pc
    <2> DEFINE F == DownloadedFlags \cup
                     (IF "ResetRequired" \in journal.flags THEN {"ResetApproved"} ELSE {})
    <2>1. F \in SUBSET JournalFlags /\ InState({"Discovered", "Downloaded"})
      BY <1>7 DEF DownloadedFlags, JournalFlags, InState
    <2>2. WriteTransition(Moved(journal, "Downloaded", F, 0))
      BY <1>7 DEF Downloaded
    <2> QED
      BY <1>6, <1>7, <2>1, <2>2
  <1>8. CASE /\ InState({"Downloaded"}) /\ WriteTransition(Prepared(journal))
             /\ pc' = "plan"
    <2>1. WriteTransition(Moved(journal, "Prepared", {}, 0))
      BY <1>8 DEF Prepared
    <2>2. InState({"Discovered", "Downloaded"})
      BY <1>8 DEF InState
    <2> QED
      BY <1>6, <1>8, <2>1, <2>2
  <1>9. CASE InState({"Prepared"}) /\ pc' = "plan" /\ UNCHANGED journal
    <2>1. TypeOK'
      BY <1>2, <1>9 DEF InstallerInv, TypeOK, PCs, private, memory, background
    <2>2. RequestInv'
      BY <1>1, <1>2, RequestFrame
    <2>3. CallInv'
      BY <1>1, <1>2, <1>9 DEF CallInv, InState, StagePCs, RestorePCs, RetirePCs
    <2>4. RetireInv' /\ LoopInv' /\ RestoreInv'
      BY <1>2, <1>9, DiskFrame, RetireFrame, LoopFrame, RestoreFrame
         DEF RetirePCs, StagePCs, RestorePCs
    <2> QED
      BY <1>2, <1>9, <2>1, <2>2, <2>3, <2>4, DiskFrame DEF InstallerInv
  <1> QED
    BY <1>4, <1>5, <1>7, <1>8, <1>9 DEF InitializeJournal


-----------------------------------------------------------------------------
(* Stage: the plan, the snapshots and the staged files.                    *)

\* Whichever plan is read, it holds what the transaction found.
LEMMA PlanOld ==
    ASSUME InstallerInv, ~NoPlans
    PROVE  /\ Plan.old = original
           /\ \A f \in Files : IsNoop(f) <=> Same(f)
           /\ \A f \in Files : SourceExisted(f) <=> original[f] # Missing
  <1>1. Plan.old = original
    BY DEF InstallerInv, PlanInv, NoPlans, Plan
  <1> QED
    BY <1>1 DEF IsNoop, Same, SourceExisted

\* Stage before its first live mutation touches only its private files.
LEMMA Staging ==
    ASSUME InstallerInv, pc \in StagePCs, pc' \in StagePCs, ~NoPlans',
           TypeOK', PlanInv', FilesInv', LoopInv',
           UNCHANGED <<journal, request, live, folder, folder_marker, background>>
    PROVE  InstallerInv'
  <1> USE DEF background
  <1>1. request = "active" /\ InState({"Prepared"})
    BY DEF InstallerInv, CallInv, StagePCs, PCs, RetirePCs
  <1>2. ~Fresh' /\ ~RolledBack' /\ InState({"Prepared"})' /\ Working' = Working
    BY <1>1 DEF Fresh, RolledBack, InState, RollbackStates, Working
  <1>3. FreshInv' /\ StepsInv' /\ RequestInv' /\ FolderInv'
    BY <1>1, <1>2 DEF InstallerInv, FreshInv, StepsInv, RequestInv, FolderInv
  <1>4. ForwardInv'
    BY <1>2 DEF InstallerInv, ForwardInv, Activated, CommittedExactly, Target, InState
  <1>5. CallInv'
    BY <1>1, <1>2 DEF CallInv, StagePCs, RestorePCs, RetirePCs
  <1>6. RetireInv' /\ RestoreInv'
    BY <1>2, RetireFrame, RestoreFrame DEF RetirePCs, StagePCs, RestorePCs
  <1> QED
    BY <1>3, <1>4, <1>5, <1>6 DEF InstallerInv

\* What every leaf about Stage needs to know of the journal.
LEMMA StageFacts ==
    ASSUME InstallerInv, pc \in StagePCs
    PROVE  /\ request = "active" /\ InState({"Prepared"}) /\ Working
           /\ journal \in JournalRecords /\ journal # Empty
           /\ journal.state = "Prepared" /\ journal.completed_steps \in Nat
           /\ journal.completed_steps = 0
                 \/ journal.completed_steps \in directory_activate_begin .. stage_end
           /\ journal.total_steps = total
  <1>1. request = "active" /\ InState({"Prepared"})
    BY DEF InstallerInv, CallInv, StagePCs, PCs, RetirePCs
  <1>2. journal \in JournalRecords /\ journal.state = "Prepared" /\ journal # Empty
    BY <1>1 DEF InstallerInv, TypeOK, InState
  <1> QED
    BY <1>1, <1>2 DEF InstallerInv, StepsInv, Working, InState, RollbackStates,
                      JournalRecords

LEMMA BuildContentPlanStep ==
    ASSUME InstallerInv, BuildContentPlan PROVE InstallerInv'
  <1> USE DEF BuildContentPlan
  <1>1. pc = "plan" /\ pc \in StagePCs /\ pc' = "snapshot" /\ pc' \in StagePCs
    BY DEF StagePCs
  <1>2. ASSUME LoadContentPlan(FALSE), UNCHANGED prepared_plan
        PROVE  /\ ~NoPlans' /\ prepared_plan' \in Plans \cup {NoPlan}
               /\ PlanInv' /\ FilesInv'
    <2>1. ~NoPlans' /\ prepared_plan' \in Plans \cup {NoPlan}
      BY <1>2 DEF LoadContentPlan, NoPlans, InstallerInv, TypeOK
    <2>2. PlanInv' /\ FilesInv'
      BY <1>2, DiskFrame DEF private
    <2> QED
      BY <2>1, <2>2
  <1>3. ASSUME ~LoadContentPlan(FALSE), NEW hashed \in SUBSET MaybeHashed,
               prepared_plan' = [old |-> live, hashed |-> hashed]
        PROVE  /\ ~NoPlans' /\ prepared_plan' \in Plans \cup {NoPlan}
               /\ PlanInv' /\ FilesInv'
    <2>1. NoPlans /\ Working
      BY <1>1, <1>3, StageFacts DEF LoadContentPlan, NoPlans
    <2>2. Fresh
      BY <1>1, <2>1, StageFacts DEF Fresh, RolledBack, InState
    <2>3. live = original /\ journal.completed_steps = 0
      BY <2>1, <2>2 DEF InstallerInv, FreshInv, Working
    <2>4. prepared_plan' \in Plans
      BY <1>3 DEF Plans, MaybeHashed, InstallerInv, TypeOK
    <2>5. ~NoPlans' /\ prepared_plan'.old = original'
      BY <1>3, <2>3, <2>4, PlanAssumption DEF NoPlans, background
    <2>6. PlanInv'
      BY <2>1, <2>3, <2>5 DEF PlanInv, NoPlans, background
    <2>7. FilesInv'
      BY <2>1 DEF InstallerInv, FilesInv, FileInv, HasMarker, Same, Working, background,
                  InState
    <2> QED
      BY <2>4, <2>5, <2>6, <2>7
  <1>4. ~NoPlans' /\ prepared_plan' \in Plans \cup {NoPlan} /\ PlanInv' /\ FilesInv'
    BY <1>2, <1>3 DEF InstallerInv, TypeOK
  <1>5. TypeOK'
    BY <1>1, <1>4, StageFacts, ManifestFacts
       DEF InstallerInv, TypeOK, PCs, background
  <1>6. LoopInv'
    <2>1. 1 \in Files /\ SnapshotStep(1) = 0
      BY ManifestFacts, CountNext DEF SnapshotStep
    <2> QED
      BY <1>1, <1>4, <2>1, ManifestFacts DEF LoopInv
  <1> QED
    BY <1>1, <1>4, <1>5, <1>6, Staging

LEMMA SnapshotFileStep ==
    ASSUME InstallerInv, SnapshotFile PROVE InstallerInv'
  <1> USE DEF SnapshotFile
  <1> DEFINE c == journal.completed_steps
  <1>0. cursor \in Files
    BY DEF InstallerInv, LoopInv
  <1> PICK f \in Files : f = cursor
    BY <1>0
  <1>1. /\ pc = "snapshot" /\ pc \in StagePCs /\ f = cursor /\ ~NoPlans
        /\ high_water = (IF c = 0 THEN SnapshotStep(f) ELSE c)
        /\ \A g \in 1 .. (f - 1) : SnapshotKept(g)
    BY DEF StagePCs, InstallerInv, LoopInv
  <1>2. /\ c \in Nat /\ Working /\ (c # 0 => c >= directory_activate_begin)
    BY <1>1, StageFacts, Layout
  <1>3. UNCHANGED <<journal, request, live, staged, metadata_old, marker,
                    folder_marker, prepared_plan, final_plan, folder, background>>
    OBVIOUS
  <1>4. ~NoPlans' /\ Working'
    BY <1>1, <1>2 DEF NoPlans, Working, InState
  <1>5. FilesInv'
    BY <1>2 DEF InstallerInv, FilesInv, FileInv, HasMarker, Same, background
  <1>6. /\ snapshot' \in [Files -> Bytes] /\ evidence' \subseteq Files
        /\ high_water' \in Nat
    <2>1. live[f] \in Bytes /\ snapshot \in [Files -> Bytes] /\ evidence \subseteq Files
          /\ high_water \in Nat
      BY DEF InstallerInv, TypeOK
    <2>2. snapshot' = snapshot \/ snapshot' = [snapshot EXCEPT ![f] = live[f]]
      BY <1>1
    <2>3. evidence' \subseteq Files
      BY <1>1, <2>1
    <2>4. high_water' \in Nat
      BY <2>1
    <2> QED
      BY <2>1, <2>2, <2>3, <2>4
  <1>7. \A g \in Files : SnapshotKept(g) => SnapshotKept(g)'
    <2> SUFFICES ASSUME NEW g \in Files, SnapshotKept(g) PROVE SnapshotKept(g)'
      OBVIOUS
    <2>1. CASE SnapshotMayCopy(f) /\ snapshot' = [snapshot EXCEPT ![f] = live[f]]
      <3>1. live[f] = original[f]
        BY <1>1, <2>1, PlanOld DEF SnapshotMayCopy
      <3> QED
        BY <1>1, <2>1, <3>1 DEF SnapshotKept, InstallerInv, TypeOK, background
    <2>2. CASE UNCHANGED snapshot
      BY <2>2 DEF SnapshotKept, background
    <2> QED
      BY <2>1, <2>2
  <1>8. PlanInv'
    BY <1>2, <1>7 DEF InstallerInv, PlanInv, Working, InState, background
  <1>9. CASE UNCHANGED <<pc, cursor, high_water>>
    <2>1. TypeOK'
      BY <1>6, <1>9 DEF InstallerInv, TypeOK, background
    <2>2. LoopInv'
      BY <1>1, <1>4, <1>7, <1>9, ManifestFacts DEF LoopInv
    <2> QED
      BY <1>1, <1>4, <1>5, <1>8, <1>9, <2>1, <2>2, Staging
  <1>10. CASE /\ NextFile("finalize", 1) /\ UNCHANGED snapshot
              /\ \/ /\ ~SnapshotDue(f) /\ UNCHANGED high_water
                    /\ Policy[f] \in Snapshotted => high_water > SnapshotStep(f)
                 \/ /\ SnapshotDue(f) /\ SnapshotDone(f)
                    /\ high_water' = high_water + 1
    <2>1. SnapshotKept(f)'
      <3>1. CASE c # 0
        <4>1. final_plan # NoPlan /\ request = "active"
          BY <1>2, <3>1 DEF InstallerInv, PlanInv, Working
        <4> QED
          BY <1>1, <1>7, <4>1 DEF InstallerInv, PlanInv
      <3>2. CASE c = 0 /\ Policy[f] \in Snapshotted
        <4>1. SnapshotDue(f)
          BY <1>1, <3>2 DEF SnapshotDue
        <4>2. SnapshotDone(f)
          BY <1>10, <4>1
        <4> QED
          BY <1>1, <1>3, <1>10, <4>2, PlanOld
             DEF SnapshotDone, SnapshotKept, Same, background
      <3>3. CASE Policy[f] \notin Snapshotted
        BY <3>3 DEF SnapshotKept
      <3> QED
        BY <3>1, <3>2, <3>3
    <2>2. \A g \in 1 .. f : SnapshotKept(g)'
      BY <1>1, <1>7, <2>1, ManifestFacts
    <2>3. ~(c # 0 /\ SnapshotDue(f))
      BY <1>1, <1>2, StepPlaces, Layout DEF SnapshotDue
    <2>4. c # 0 => high_water' = c
      BY <1>1, <1>10, <2>3
    <2>5. c = 0 => high_water' = SnapshotStep(f)
                       + (IF Policy[f] \in Snapshotted THEN 1 ELSE 0)
      <3>1. c = 0 => (SnapshotDue(f) <=> Policy[f] \in Snapshotted)
        BY <1>1 DEF SnapshotDue
      <3>2. SnapshotStep(f) \in Nat
        BY <1>1, StepPlaces
      <3> QED
        BY <1>1, <1>10, <3>1, <3>2
    <2>6. CASE f = Len(Policy)
      <3>1. pc' = "finalize" /\ cursor' = 1
        BY <1>10, <2>6 DEF NextFile
      <3>2. c = 0 => high_water' = file_stage_begin
        BY <1>1, <2>5, <2>6, CountNext DEF SnapshotStep, file_stage_begin
      <3>3. \A g \in Files : SnapshotKept(g)'
        BY <2>2, <2>6, ManifestFacts
      <3>4. LoopInv'
        BY <1>3, <1>4, <2>4, <3>1, <3>2, <3>3 DEF LoopInv
      <3>5. TypeOK'
        BY <1>6, <3>1, ManifestFacts DEF InstallerInv, TypeOK, PCs, background
      <3> QED
        BY <1>1, <1>4, <1>5, <1>8, <3>1, <3>4, <3>5, Staging DEF StagePCs
    <2>7. CASE f # Len(Policy)
      <3>1. pc' = "snapshot" /\ cursor' = f + 1 /\ f + 1 \in Files
        BY <1>1, <1>10, <2>7, ManifestFacts DEF NextFile
      <3>2. c = 0 => high_water' = SnapshotStep(f + 1)
        BY <1>1, <2>5, <3>1, CountNext DEF SnapshotStep
      <3>3. \A g \in 1 .. (cursor' - 1) : SnapshotKept(g)'
        BY <1>1, <2>2, <3>1, ManifestFacts
      <3>4. LoopInv'
        BY <1>3, <1>4, <2>4, <3>1, <3>2, <3>3 DEF LoopInv
      <3>5. TypeOK'
        BY <1>6, <3>1, ManifestFacts DEF InstallerInv, TypeOK, PCs, background
      <3> QED
        BY <1>1, <1>4, <1>5, <1>8, <3>1, <3>4, <3>5, Staging
    <2> QED
      BY <2>6, <2>7
  <1> QED
    BY <1>9, <1>10

LEMMA FinalizeContentPlanStep ==
    ASSUME InstallerInv, FinalizeContentPlan PROVE InstallerInv'
  <1> USE DEF FinalizeContentPlan
  <1>1. /\ pc \in {"finalize", "drop_prepared", "drop_evidence"} /\ pc \in StagePCs
        /\ pc' \in {"drop_prepared", "drop_evidence", "stage"} /\ pc' \in StagePCs
    BY DEF StagePCs
  <1>2. Working /\ Working' /\ ~NoPlans
    BY <1>1, StageFacts DEF Working, InState, InstallerInv, LoopInv, NoPlans
  <1>3. FilesInv'
    BY <1>2 DEF InstallerInv, FilesInv, FileInv, HasMarker, Same, background
  <1>4. final_plan' \in Plans /\ final_plan' # NoPlan /\ final_plan'.old = original
        /\ prepared_plan' \in {prepared_plan, NoPlan}
        /\ (final_plan' = final_plan
            \/ \A f \in Files : /\ SnapshotKept(f)
                                /\ f \in NeedDigest => f \in final_plan'.hashed)
    <2>1. CASE /\ pc = "finalize" /\ UNCHANGED prepared_plan
               /\ final_plan' = [Plan EXCEPT !.hashed = @ \cup NeedDigest]
      <3>1. Plan \in Plans
        BY <1>2 DEF Plan, NoPlans, InstallerInv, TypeOK
      <3>2. NeedDigest \subseteq Files
        BY DEF NeedDigest
      <3>3. final_plan' \in Plans /\ final_plan'.old = Plan.old
            /\ NeedDigest \subseteq final_plan'.hashed
        BY <2>1, <3>1, <3>2 DEF Plans
      <3> QED
        BY <1>2, <2>1, <3>3, PlanOld, PlanAssumption DEF InstallerInv, LoopInv
    <2>2. CASE UNCHANGED final_plan /\ prepared_plan' \in {prepared_plan, NoPlan}
               /\ pc \in {"drop_prepared", "drop_evidence"}
      BY <2>2 DEF InstallerInv, LoopInv, PlanInv, TypeOK
    <2> QED
      BY <2>1, <2>2
  <1>5. ~NoPlans'
    BY <1>4 DEF NoPlans
  <1>6. PlanInv'
    <2>1. \A f \in Files : /\ SnapshotKept(f)
                           /\ Policy[f] \in Snapshotted /\ original[f] # Missing =>
                                 f \in final_plan'.hashed
      <3>1. CASE final_plan' = final_plan
        BY <1>2, <1>4, <3>1 DEF InstallerInv, PlanInv, Working
      <3>2. CASE \A f \in Files : /\ SnapshotKept(f)
                                  /\ f \in NeedDigest => f \in final_plan'.hashed
        BY <1>2, <3>2, PlanOld DEF NeedDigest
      <3> QED
        BY <1>4, <3>1, <3>2
    <2> QED
      BY <1>4, <2>1 DEF InstallerInv, PlanInv, SnapshotKept, background
  <1>7. LoopInv'
    <2>1. CASE pc' = "stage"
      <3>1. cursor' = 1 /\ 1 \in Files
        BY <2>1, ManifestFacts
      <3>2. StageStep(1) = file_stage_begin
        BY <3>1, StepPlaces, Layout
      <3>3. high_water' = (IF journal'.completed_steps = 0
                           THEN file_stage_begin ELSE journal'.completed_steps)
        BY <1>1 DEF InstallerInv, LoopInv
      <3> QED
        BY <1>4, <2>1, <3>1, <3>2, <3>3 DEF LoopInv
    <2>2. CASE pc' # "stage"
      BY <1>1, <1>4, <2>2 DEF InstallerInv, LoopInv
    <2> QED
      BY <2>1, <2>2
  <1>8. TypeOK'
    <2>1. cursor' \in 0 .. Len(Policy) + DirectoryCount + 1 /\ evidence' \subseteq Files
      BY ManifestFacts DEF InstallerInv, TypeOK
    <2> QED
      BY <1>1, <1>4, <2>1 DEF InstallerInv, TypeOK, PCs, background
  <1> QED
    BY <1>1, <1>3, <1>5, <1>6, <1>7, <1>8, Staging DEF background


LEMMA StageFileStep ==
    ASSUME InstallerInv, StageFile PROVE InstallerInv'
  <1> USE DEF StageFile
  <1> DEFINE c == journal.completed_steps
  <1>0. cursor \in Files
    BY DEF InstallerInv, LoopInv
  <1> PICK f \in Files : f = cursor
    BY <1>0
  <1>1. /\ pc = "stage" /\ pc \in StagePCs /\ f = cursor /\ final_plan # NoPlan
        /\ high_water = (IF c = 0 THEN StageStep(f) ELSE c)
        /\ c = 0 => \A g \in 1 .. (f - 1) : HasMarker(g)
    BY DEF StagePCs, InstallerInv, LoopInv
  <1>2. /\ c \in Nat /\ Working /\ (c # 0 => c >= directory_activate_begin)
        /\ Working'
    BY <1>1, StageFacts, Layout DEF Working, InState
  <1>3. UNCHANGED <<journal, request, live, snapshot, metadata_old, evidence,
                    folder_marker, prepared_plan, final_plan, folder, background>>
    OBVIOUS
  <1>4. ~NoPlans /\ ~NoPlans'
    BY <1>1 DEF NoPlans
  <1>5. PlanInv'
    BY <1>2 DEF InstallerInv, PlanInv, SnapshotKept, background
  <1>6. high_water = StageStep(f) => c = 0
    BY <1>1, <1>2, StepPlaces, Layout
  <1>7. c = 0 => live = original
    <2>1. \A g \in Files : 0 < ActivationStep(g)
      BY StepPlaces, Layout
    <2>2. c = 0 => \A g \in Files : live[g] = original[g]
      BY <1>2, <2>1 DEF InstallerInv, FilesInv, FileInv
    <2>3. live \in [Files -> Bytes] /\ original \in [Files -> Bytes]
      BY DEF InstallerInv, TypeOK
    <2> QED
      BY <2>2, <2>3
  <1>8. /\ marker' \in [Files -> Markers] /\ staged' \in [Files -> Bytes]
        /\ high_water' \in Nat
    <2>1. MarkerFor(live[f] # Missing) \in Markers
      BY DEF MarkerFor, Markers
    <2> QED
      BY <1>1, <2>1 DEF InstallerInv, TypeOK, Bytes
  <1>9. FilesInv'
    <2> SUFFICES ASSUME NEW g \in Files PROVE FileInv(g)'
      BY DEF FilesInv
    <2>1. FileInv(g)
      BY <1>2 DEF InstallerInv, FilesInv
    <2>2. CASE UNCHANGED <<marker, staged>>
      BY <2>1, <2>2 DEF FileInv, HasMarker, Same, background
    <2>3. CASE /\ high_water = StageStep(f) /\ UNCHANGED staged
               /\ marker' = [marker EXCEPT ![f] = MarkerFor(live[f] # Missing)]
      <3>1. marker'[g] \in {marker[g], MarkerFor(original[g] # Missing)}
        BY <1>6, <1>7, <2>3 DEF InstallerInv, TypeOK
      <3>2. ~(c > 0)
        BY <1>6, <2>3
      <3> QED
        BY <2>1, <2>3, <3>1, <3>2 DEF FileInv, HasMarker, Same, background
    <2>4. CASE /\ high_water = StageStep(f) /\ UNCHANGED marker
               /\ staged' = [staged EXCEPT ![f] = "new"]
      <3>1. staged'[g] \in {Missing, "new"}
        BY <2>1, <2>4 DEF FileInv, InstallerInv, TypeOK
      <3>2. live[g] = original[g]
        BY <1>6, <1>7, <2>4
      <3> QED
        BY <2>1, <2>4, <3>1, <3>2 DEF FileInv, HasMarker, Same, background
    <2> QED
      BY <1>1, <2>2, <2>3, <2>4
  <1>10. \A g \in Files : HasMarker(g) => HasMarker(g)'
    <2>1. \A x : MarkerFor(x) # "none"
      BY DEF MarkerFor
    <2> QED
      BY <1>1, <2>1 DEF HasMarker, Same, InstallerInv, TypeOK, background
  <1>11. CASE UNCHANGED <<pc, cursor, high_water>>
    <2>1. TypeOK'
      BY <1>8, <1>11 DEF InstallerInv, TypeOK, background
    <2>2. LoopInv'
      BY <1>1, <1>4, <1>10, <1>11, ManifestFacts DEF LoopInv
    <2> QED
      BY <1>1, <1>4, <1>5, <1>9, <1>11, <2>1, <2>2, Staging
  <1>12. CASE /\ NextFile("activate", 1) /\ UNCHANGED <<marker, staged>>
              /\ \/ high_water > StageStep(f) /\ UNCHANGED high_water
                 \/ /\ high_water = StageStep(f) /\ StageDone(f)
                    /\ high_water' = high_water + 1
    <2>1. c # 0 => high_water' = c
      BY <1>1, <1>6, <1>12
    <2>2. c = 0 => StageDone(f) /\ high_water' = StageStep(f) + 1
      BY <1>1, <1>12, StepPlaces
    <2>3. c = 0 => HasMarker(f)
      <3>1. \A x : MarkerFor(x) # "none"
        BY DEF MarkerFor
      <3> QED
        BY <1>4, <2>2, <3>1, PlanOld DEF StageDone, MarkerAgrees, HasMarker
    <2>4. c = 0 => \A g \in 1 .. f : HasMarker(g)
      BY <1>1, <2>3, ManifestFacts
    <2>5. \A g \in Files : HasMarker(g)' <=> HasMarker(g)
      BY <1>12 DEF HasMarker, Same, background
    <2>6. CASE f = Len(Policy)
      <3>1. pc' = "activate" /\ cursor' = 1
        BY <1>1, <1>12, <2>6 DEF NextFile
      <3>2. c = 0 => \A g \in Files : HasMarker(g)'
        BY <2>4, <2>5, <2>6, ManifestFacts
      <3>3. LoopInv'
        BY <1>1, <3>1, <3>2 DEF LoopInv
      <3>4. TypeOK'
        BY <1>8, <3>1, ManifestFacts DEF InstallerInv, TypeOK, PCs, background
      <3> QED
        BY <1>1, <1>4, <1>5, <1>9, <3>1, <3>3, <3>4, Staging DEF StagePCs
    <2>7. CASE f # Len(Policy)
      <3>1. pc' = "stage" /\ cursor' = f + 1 /\ f + 1 \in Files
        BY <1>1, <1>12, <2>7, ManifestFacts DEF NextFile
      <3>2. c = 0 => high_water' = StageStep(f + 1)
        BY <2>2, <3>1, StepPlaces, Layout, ManifestFacts
      <3>3. c = 0 => \A g \in 1 .. (cursor' - 1) : HasMarker(g)'
        BY <2>4, <2>5, <3>1, ManifestFacts
      <3>4. LoopInv'
        BY <1>1, <2>1, <3>1, <3>2, <3>3 DEF LoopInv
      <3>5. TypeOK'
        BY <1>8, <3>1, ManifestFacts DEF InstallerInv, TypeOK, PCs, background
      <3> QED
        BY <1>1, <1>4, <1>5, <1>9, <3>1, <3>4, <3>5, Staging DEF StagePCs
    <2> QED
      BY <2>6, <2>7
  <1> QED
    BY <1>1, <1>11, <1>12

-----------------------------------------------------------------------------
(* Writing the next record, going forward or back, with more steps done.   *)

LEMMA RecordStep ==
    ASSUME InstallerInv, Working, NEW s \in RollbackStates,
           NEW F \in SUBSET JournalFlags, NEW n \in Nat,
           WriteTransition(Moved(journal, s, F, n)),
           n > 0 => final_plan # NoPlan /\ \A f \in Files : HasMarker(f),
           n > 1 => journal.completed_steps = 0,
           UNCHANGED <<request, live, private, folder, background>>
    PROVE  /\ FreshInv' /\ PlanInv' /\ FilesInv' /\ FolderInv' /\ RequestInv'
           /\ ~RolledBack' /\ Working'
           /\ RecordIsValid(journal) /\ RecordIsValid(journal')
           /\ journal' \in JournalRecords /\ journal' # Empty
           /\ journal'.state = s /\ journal'.flags = journal.flags \cup F
           /\ journal'.completed_steps = journal.completed_steps + n
           /\ journal'.total_steps = total
           /\ journal'.generation = journal.generation + 1
           /\ journal.completed_steps \in Nat
  <1> USE DEF private, background
  <1>1. /\ journal \in JournalRecords /\ journal # Empty /\ journal.state # "Idle"
        /\ s \in JournalStates /\ s # "Idle" /\ request = "active"
    BY DEF InstallerInv, TypeOK, Working, InState, RollbackStates, JournalStates
  <1>2. /\ RecordIsValid(journal) /\ RecordIsValid(journal')
        /\ journal' \in JournalRecords /\ journal' # Empty
        /\ journal'.state = s /\ journal'.flags = journal.flags \cup F
        /\ journal'.completed_steps = journal.completed_steps + n
        /\ journal'.total_steps = total
        /\ journal'.generation = journal.generation + 1
        /\ journal.completed_steps \in Nat
    BY <1>1, MovedRecord DEF InstallerInv, StepsInv
  <1>3. ~RolledBack' /\ Working' /\ RequestInv'
    BY <1>1, <1>2 DEF RolledBack, Working, InState, RequestInv
  <1>4. FreshInv'
    <2> SUFFICES ASSUME Fresh' PROVE FreshInv'
      BY DEF FreshInv
    <2>1. NoPlans /\ n = 0
      BY <1>3 DEF Fresh, Working, NoPlans
    <2>2. Fresh
      BY <1>1, <2>1 DEF Fresh, RolledBack, InState
    <2> QED
      BY <1>2, <2>1, <2>2 DEF InstallerInv, FreshInv, PrivateClean, NoPlans, Working
  <1>5. PlanInv'
    BY <1>2 DEF InstallerInv, PlanInv, SnapshotKept, Working
  <1>6. FilesInv'
    <2> SUFFICES ASSUME NEW f \in Files PROVE FileInv(f)'
      BY DEF FilesInv
    <2>1. FileInv(f)
      BY DEF InstallerInv, FilesInv
    <2>2. HasMarker(f)' <=> HasMarker(f)
      BY DEF HasMarker, Same
    <2>3. journal'.completed_steps > 0 => HasMarker(f)
      BY <1>2, <2>1 DEF FileInv
    <2>4. ActivationStep(f) \in Nat /\ ActivationStep(f) >= 1
      BY StepPlaces, Layout
    <2>5. journal'.completed_steps < ActivationStep(f) =>
             journal.completed_steps < ActivationStep(f)
      BY <1>2, <2>4
    <2>6. journal'.completed_steps = ActivationStep(f) =>
             \/ journal.completed_steps < ActivationStep(f)
             \/ journal.completed_steps = ActivationStep(f)
      BY <1>2, <2>4
    <2> QED
      BY <2>1, <2>2, <2>3, <2>5, <2>6 DEF FileInv, Same
  <1>7. FolderInv'
    BY DEF InstallerInv, FolderInv
  <1> QED
    BY <1>2, <1>3, <1>4, <1>5, <1>6, <1>7

\* ... and going forward, every file and directory whose turn is over is done.
LEMMA RecordForward ==
    ASSUME InstallerInv, Working, journal.state # "RollingBack",
           NEW s \in RollbackStates \ {"RollingBack"},
           NEW F \in SUBSET JournalFlags, NEW n \in Nat,
           WriteTransition(Moved(journal, s, F, n)),
           n > 0 => final_plan # NoPlan /\ \A f \in Files : HasMarker(f),
           n > 1 => journal.completed_steps = 0,
           UNCHANGED <<request, live, private, folder, background>>,
           \A f \in Files : journal.completed_steps + n > ActivationStep(f) =>
              journal.completed_steps > ActivationStep(f) \/ Activated(f),
           \A d \in Directories : journal.completed_steps + n > FolderStep(d) =>
              journal.completed_steps > FolderStep(d) \/ d \in folder,
           "SelectorCommitted" \in F => live[Selector] = "new",
           s = "Committed" => journal.completed_steps + n = total
    PROVE  ForwardInv'
  <1> USE DEF private, background
  <1>1. /\ Working' /\ RecordIsValid(journal') /\ FilesInv'
        /\ journal' # Empty /\ journal'.state = s
        /\ journal'.flags = journal.flags \cup F
        /\ journal'.completed_steps = journal.completed_steps + n
    BY RecordStep
  <1>2. /\ \A f \in Files : journal'.completed_steps > ActivationStep(f) => Activated(f)
        /\ \A d \in Directories : journal'.completed_steps > FolderStep(d) => d \in folder
        /\ "SelectorCommitted" \in journal'.flags => live[Selector] = "new"
    BY <1>1 DEF InstallerInv, ForwardInv
  <1>3. CommittedExactly'
    <2> SUFFICES ASSUME InState({"Committed"})'
                 PROVE  /\ \A f \in Files : live[f] = Target(f)
                        /\ folder = Directories
      BY DEF CommittedExactly, Target
    <2>1. s = "Committed" /\ journal'.completed_steps = total
      BY <1>1 DEF InState
    <2>2. live[Selector] = "new"
      BY <1>1, <1>2, <2>1, FlagFacts
    <2>3. ASSUME NEW f \in Files PROVE live[f] = Target(f)
      <3>1. total > ActivationStep(f)
        BY StepGaps, Layout
      <3>2. Activated(f)
        BY <1>2, <2>1, <3>1
      <3>3. Policy[f] = "Preserve" /\ original[f] # Missing => live[f] = original[f]
        BY DEF InstallerInv, FilesInv, FileInv
      <3>4. Selector \in Files /\ Policy[Selector] # "Preserve"
        BY ManifestFacts
      <3> QED
        BY <2>2, <3>2, <3>3, <3>4 DEF Activated, Target
    <2>4. \A d \in Directories : total > FolderStep(d)
      BY StepPlaces, Layout
    <2>5. folder = Directories
      BY <1>2, <2>1, <2>4 DEF InstallerInv, TypeOK
    <2> QED
      BY <2>3, <2>5
  <1> QED
    BY <1>1, <1>2, <1>3 DEF ForwardInv, Activated


-----------------------------------------------------------------------------
(* Stage: directories and files become live, one journaled step at a time. *)

\* What is known while Stage activates.
LEMMA ActivateFacts ==
    ASSUME InstallerInv, pc = "activate"
    PROVE  /\ Working /\ journal.state = "Prepared" /\ journal \in JournalRecords
           /\ journal # Empty /\ request = "active" /\ final_plan # NoPlan
           /\ journal.completed_steps \in Nat /\ ~NoPlans
           /\ \A f \in Files : HasMarker(f)
           /\ journal.completed_steps = 0
                 \/ journal.completed_steps \in directory_activate_begin .. stage_end
  <1>1. /\ Working /\ journal.state = "Prepared" /\ journal \in JournalRecords
        /\ journal # Empty /\ request = "active" /\ journal.completed_steps \in Nat
        /\ journal.completed_steps = 0
              \/ journal.completed_steps \in directory_activate_begin .. stage_end
    BY StageFacts DEF StagePCs
  <1>2. final_plan # NoPlan /\ ~NoPlans
    BY DEF InstallerInv, LoopInv, NoPlans
  <1>3. \A f \in Files : HasMarker(f)
    <2>1. CASE journal.completed_steps = 0
      BY <2>1 DEF InstallerInv, LoopInv
    <2>2. CASE journal.completed_steps > 0
      BY <1>1, <2>2 DEF InstallerInv, FilesInv, FileInv
    <2> QED
      BY <1>1, <2>1, <2>2
  <1> QED
    BY <1>1, <1>2, <1>3

\* Stage journals that a step is done.
LEMMA StageAdvances ==
    ASSUME InstallerInv, pc = "activate", NEW n \in Nat, n > 0,
           n > 1 => journal.completed_steps = 0,
           WriteTransition(Advanced(journal, n)),
           journal.completed_steps + n \in directory_activate_begin .. stage_end,
           \A f \in Files : journal.completed_steps + n > ActivationStep(f) =>
              journal.completed_steps > ActivationStep(f) \/ Activated(f),
           \A d \in Directories : journal.completed_steps + n > FolderStep(d) =>
              journal.completed_steps > FolderStep(d) \/ d \in folder,
           UNCHANGED <<request, live, private, folder, pc, memory, background>>
    PROVE  InstallerInv'
  <1>1. /\ Working /\ journal.state = "Prepared" /\ request = "active"
        /\ final_plan # NoPlan /\ \A f \in Files : HasMarker(f)
    BY ActivateFacts
  <1>2. /\ WriteTransition(Moved(journal, "Prepared", {}, n))
        /\ "Prepared" \in RollbackStates \ {"RollingBack"}
        /\ "Prepared" \in RollbackStates /\ {} \in SUBSET JournalFlags
        /\ "SelectorCommitted" \notin {} /\ "Prepared" # "Committed"
    BY <1>1 DEF Advanced, RollbackStates
  <1>3. /\ FreshInv' /\ PlanInv' /\ FilesInv' /\ FolderInv' /\ RequestInv'
        /\ ~RolledBack' /\ Working' /\ RecordIsValid(journal')
        /\ journal' \in JournalRecords /\ journal' # Empty
        /\ journal'.state = "Prepared" /\ journal'.total_steps = total
        /\ journal'.completed_steps = journal.completed_steps + n
        /\ journal.completed_steps \in Nat
    BY <1>1, <1>2, RecordStep
  <1>4. ForwardInv'
    BY <1>1, <1>2, RecordForward
  <1>5. TypeOK'
    BY <1>3 DEF InstallerInv, TypeOK, private, memory, background
  <1>6. StepsInv'
    BY <1>3 DEF StepsInv
  <1>7. CallInv'
    BY <1>1, <1>3 DEF CallInv, InState, StagePCs, RestorePCs, RetirePCs
  <1>8. LoopInv'
    <2>1. pc' = "activate" /\ final_plan' # NoPlan /\ journal'.completed_steps # 0
      BY <1>1, <1>3 DEF private
    <2> QED
      BY <2>1 DEF LoopInv
  <1>9. RetireInv' /\ RestoreInv'
    BY <1>3, RetireFrame, RestoreFrame DEF RetirePCs, RestorePCs
  <1> QED
    BY <1>3, <1>4, <1>5, <1>6, <1>7, <1>8, <1>9 DEF InstallerInv

LEMMA CheckpointStep ==
    ASSUME InstallerInv, Checkpoint PROVE InstallerInv'
  <1> USE DEF Checkpoint
  <1> DEFINE c == journal.completed_steps
             n == high_water - c
  <1>1. pc = "activate" /\ c = 0
    BY ActivateFacts, Layout
  <1>2. n \in Nat /\ n > 0 /\ c + n = directory_activate_begin
    BY <1>1, Layout
  <1>3. c + n \in directory_activate_begin .. stage_end
    BY <1>2, Layout
  <1>4. \A f \in Files : ~(c + n > ActivationStep(f))
    BY <1>2, StepPlaces, Layout
  <1>5. \A d \in Directories : ~(c + n > FolderStep(d))
    BY <1>2, StepPlaces, Layout
  <1>6. WriteTransition(Advanced(journal, n))
    OBVIOUS
  <1> HIDE DEF n
  <1> QED
    BY <1>1, <1>2, <1>3, <1>4, <1>5, <1>6, StageAdvances

LEMMA ActivateDirectoryStep ==
    ASSUME InstallerInv, NEW d \in Directories, ActivateDirectory(d)
    PROVE  InstallerInv'
  <1> USE DEF ActivateDirectory, FolderDue
  <1> DEFINE c == journal.completed_steps
  <1>1. /\ pc = "activate" /\ pc \in StagePCs /\ c = FolderStep(d) /\ ~NoPlans
        /\ Working /\ request = "active" /\ journal.state = "Prepared"
        /\ journal # Empty
    BY ActivateFacts DEF StagePCs
  <1>2. CASE /\ folder_marker[d] # "none" /\ d \in folder
             /\ WriteTransition(Advanced(journal, 1))
             /\ UNCHANGED <<folder, folder_marker>>
    <2>1. /\ c \in Nat /\ c + 1 <= file_activate_begin
          /\ c + 1 \in directory_activate_begin .. stage_end
      BY <1>1, StepPlaces, Layout
    <2>2. \A f \in Files : ~(c + 1 > ActivationStep(f))
      BY <2>1, StepPlaces, Layout
    <2>3. \A e \in Directories : c + 1 > FolderStep(e) =>
             c > FolderStep(e) \/ e \in folder
      BY <1>1, <1>2, <2>1, StepPlaces, StepsDiffer
    <2>4. UNCHANGED <<request, live, private, folder, pc, memory, background>>
      BY <1>2 DEF private
    <2> QED
      BY <1>1, <1>2, <2>1, <2>2, <2>3, <2>4, StageAdvances
  <1>3. CASE /\ UNCHANGED journal
             /\ \/ /\ folder_marker[d] = "none" /\ UNCHANGED folder
                   /\ folder_marker' = [folder_marker EXCEPT
                                           ![d] = MarkerFor(d \in folder)]
                \/ /\ folder_marker[d] = "absent" /\ d \notin folder
                   /\ folder' = folder \cup {d} /\ UNCHANGED folder_marker
    <2> USE DEF memory, background
    <2>1. TypeOK'
      <3>1. MarkerFor(d \in folder) \in Markers
        BY DEF MarkerFor, Markers
      <3>2. folder_marker' \in [Directories -> Markers] /\ folder' \subseteq Directories
        BY <1>3, <3>1 DEF InstallerInv, TypeOK
      <3> QED
        BY <1>3, <3>2 DEF InstallerInv, TypeOK
    <2>2. FolderInv'
      <3>1. \A e \in Directories :
               /\ folder_marker[e] \in {"none", MarkerFor(e \in original_folder)}
               /\ folder_marker[e] = "none" /\ e \in folder => e \in original_folder
        BY <1>1 DEF InstallerInv, FolderInv
      <3>2. original_folder \subseteq folder
        BY DEF InstallerInv, FolderInv
      <3>3. folder_marker[d] = "none" => (d \in folder <=> d \in original_folder)
        BY <3>1, <3>2
      <3>4. original_folder \subseteq folder'
        BY <1>3, <3>2
      <3>5. ASSUME NEW e \in Directories
            PROVE  /\ folder_marker'[e] \in {"none", MarkerFor(e \in original_folder)}
                   /\ folder_marker'[e] = "none" /\ e \in folder' => e \in original_folder
        <4>1. CASE e # d
          BY <1>3, <3>1, <4>1 DEF InstallerInv, TypeOK
        <4>2. CASE e = d
          <5>1. MarkerFor(d \in folder) = MarkerFor(d \in original_folder)
                \/ folder_marker[d] # "none"
            BY <3>3 DEF MarkerFor
          <5>2. MarkerFor(d \in folder) # "none"
            BY DEF MarkerFor
          <5> QED
            BY <1>3, <3>1, <4>2, <5>1, <5>2 DEF InstallerInv, TypeOK
        <4> QED
          BY <4>1, <4>2
      <3> QED
        BY <3>4, <3>5 DEF FolderInv
    <2>3. /\ Working' /\ ~NoPlans' /\ ~Fresh' /\ ~RolledBack'
          /\ InState({"Prepared"})' /\ ~InState({"Committed"})'
      BY <1>1, <1>3 DEF Working, NoPlans, Fresh, RolledBack, InState
    <2>4. FreshInv' /\ StepsInv' /\ RequestInv'
      BY <1>1, <1>3, <2>3 DEF InstallerInv, FreshInv, StepsInv, RequestInv
    <2>5. PlanInv' /\ FilesInv'
      BY <1>1, <1>3 DEF InstallerInv, PlanInv, SnapshotKept, FilesInv, FileInv,
                        HasMarker, Same
    <2>6. ForwardInv'
      <3>1. folder \subseteq folder'
        BY <1>3
      <3> QED
        BY <1>1, <1>3, <2>3, <3>1
           DEF InstallerInv, ForwardInv, Activated, CommittedExactly
    <2>7. CallInv'
      BY <1>1, <2>3 DEF CallInv, StagePCs, RestorePCs, RetirePCs
    <2>8. LoopInv'
      BY <1>1, <1>3 DEF InstallerInv, LoopInv, HasMarker, Same
    <2>9. RetireInv' /\ RestoreInv'
      BY <1>1, <2>3, RetireFrame, RestoreFrame DEF RetirePCs, RestorePCs
    <2> QED
      BY <2>1, <2>2, <2>4, <2>5, <2>6, <2>7, <2>8, <2>9 DEF InstallerInv
  <1> QED
    BY <1>2, <1>3

-----------------------------------------------------------------------------
(* Files: Stage activates the ordinary ones, Commit kernels and metadata.  *)

\* It is the turn of file f, in Stage or in Commit.
Turn(f) ==
    /\ \/ pc = "activate"
       \/ pc = "commit" /\ journal.state = "Committing"
    /\ journal.completed_steps = ActivationStep(f)

LEMMA TurnFacts ==
    ASSUME InstallerInv, NEW f \in Files, Turn(f)
    PROVE  /\ Working /\ journal.state \in {"Prepared", "Committing"}
           /\ journal \in JournalRecords /\ journal # Empty /\ request = "active"
           /\ final_plan # NoPlan /\ ~NoPlans /\ journal.completed_steps \in Nat
           /\ \A g \in Files : HasMarker(g) /\ FileInv(g)
           /\ "SelectorCommitted" \notin journal.flags
           /\ journal.completed_steps >= 1 /\ journal.completed_steps < selector_step
           /\ pc = "activate" => journal.state = "Prepared"
  <1>1. /\ request = "active"
        /\ InState({"Prepared", "CandidateHealthy", "Committing"})
        /\ pc = "activate" => journal.state = "Prepared"
    BY DEF Turn, InstallerInv, CallInv, StagePCs, PCs, RetirePCs, InState
  <1>2. /\ journal # Empty /\ journal.state \in {"Prepared", "Committing"}
        /\ journal \in JournalRecords /\ journal.completed_steps \in Nat
    BY <1>1 DEF Turn, InState, InstallerInv, TypeOK, JournalRecords
  <1>3. Working
    BY <1>1, <1>2 DEF Working, InState, RollbackStates
  <1>4. journal.completed_steps >= 1 /\ journal.completed_steps < selector_step
    BY StepGaps DEF Turn
  <1>5. final_plan # NoPlan /\ ~NoPlans
    BY <1>3, <1>4, <1>2 DEF InstallerInv, PlanInv, NoPlans
  <1>6. \A g \in Files : HasMarker(g) /\ FileInv(g)
    BY <1>2, <1>3, <1>4 DEF InstallerInv, FilesInv, FileInv
  <1>7. "SelectorCommitted" \notin journal.flags
    <2>1. RecordIsValid(journal)
          /\ (journal.state = "Committing" /\ "SelectorCommitted" \in journal.flags
                 => journal.completed_steps = total)
      BY <1>2 DEF InstallerInv, StepsInv
    <2> QED
      BY <1>2, <1>4, <2>1, FlagFacts, Layout
  <1> QED
    BY <1>1, <1>2, <1>3, <1>4, <1>5, <1>6, <1>7

\* One durable effect of an activation: only file f is moved.
LEMMA FileMoves ==
    ASSUME InstallerInv, NEW f \in Files, Turn(f), FileInv(f)',
           NEW b \in Bytes, NEW m \in Bytes, NEW o \in Bytes,
           live' = [live EXCEPT ![f] = b],
           staged' = [staged EXCEPT ![f] = m],
           metadata_old' = [metadata_old EXCEPT ![f] = o],
           UNCHANGED <<journal, request, snapshot, evidence, marker, folder_marker,
                       prepared_plan, final_plan, folder, pc, memory, background>>
    PROVE  InstallerInv'
  <1> USE DEF memory, background
  <1>1. /\ Working /\ journal.state \in {"Prepared", "Committing"}
        /\ journal # Empty /\ request = "active" /\ ~NoPlans
        /\ \A g \in Files : FileInv(g)
        /\ "SelectorCommitted" \notin journal.flags
        /\ journal.completed_steps = ActivationStep(f)
        /\ pc \in {"activate", "commit"} /\ (pc = "activate" => journal.state = "Prepared")
    BY TurnFacts DEF Turn
  <1>2. TypeOK'
    BY DEF InstallerInv, TypeOK
  <1>3. \A g \in Files \ {f} : /\ live'[g] = live[g] /\ staged'[g] = staged[g]
                               /\ metadata_old'[g] = metadata_old[g]
    BY DEF InstallerInv, TypeOK
  <1>4. FilesInv'
    <2>1. ASSUME NEW g \in Files \ {f} PROVE FileInv(g)'
      BY <1>1, <1>3 DEF FileInv, HasMarker, Same
    <2> QED
      BY <2>1 DEF FilesInv
  <1>5. /\ Working' /\ ~NoPlans' /\ ~Fresh' /\ ~RolledBack'
        /\ ~InState({"Committed"})'
    BY <1>1 DEF Working, NoPlans, Fresh, RolledBack, InState
  <1>6. FreshInv' /\ StepsInv' /\ RequestInv' /\ PlanInv' /\ FolderInv'
    BY <1>1, <1>5 DEF InstallerInv, FreshInv, StepsInv, RequestInv, PlanInv,
                      SnapshotKept, FolderInv
  <1>7. ForwardInv'
    <2>1. ASSUME NEW g \in Files, journal.completed_steps > ActivationStep(g)
          PROVE  Activated(g)'
      <3>1. g # f
        BY <1>1, <2>1, StepPlaces
      <3>2. Activated(g)
        BY <1>1, <2>1 DEF InstallerInv, ForwardInv
      <3> QED
        BY <1>3, <3>1, <3>2 DEF Activated
    <2> QED
      BY <1>1, <1>5, <2>1 DEF InstallerInv, ForwardInv, CommittedExactly
  <1>8. CallInv'
    BY <1>1, <1>5 DEF InstallerInv, CallInv, InState, StagePCs, RestorePCs, RetirePCs
  <1>9. LoopInv'
    BY <1>1 DEF InstallerInv, LoopInv, HasMarker, Same
  <1>10. RetireInv' /\ RestoreInv'
    BY <1>1, <1>5, RetireFrame, RestoreFrame DEF RetirePCs, RestorePCs
  <1> QED
    BY <1>2, <1>4, <1>6, <1>7, <1>8, <1>9, <1>10 DEF InstallerInv

LEMMA UnlinkReplacedStep ==
    ASSUME InstallerInv, NEW f \in Files, UnlinkReplaced(f) PROVE InstallerInv'
  <1> USE DEF UnlinkReplaced
  <1>1. Turn(f) /\ Policy[f] # "Metadata" /\ MayRename(f)
    BY DEF ActivationDue, Turn, ActivatedByStage
  <1>2. FileInv(f) /\ HasMarker(f) /\ journal.completed_steps = ActivationStep(f)
        /\ ActivationStep(f) \in Nat /\ ~Same(f)
    BY <1>1, TurnFacts, StepPlaces, PlanOld DEF Turn, MayRename
  <1>3. Policy[f] # "Preserve"
    BY <1>1 DEF MayRename
  <1>4. /\ live' = [live EXCEPT ![f] = Missing]
        /\ staged' = [staged EXCEPT ![f] = staged[f]] /\ staged[f] \in Bytes
        /\ metadata_old' = [metadata_old EXCEPT ![f] = metadata_old[f]]
        /\ metadata_old[f] \in Bytes /\ Missing \in Bytes
    BY DEF private, InstallerInv, TypeOK, Bytes
  <1>5. FileInv(f)'
    <2>1. live'[f] = Missing
      BY <1>4 DEF InstallerInv, TypeOK
    <2> QED
      BY <1>1, <1>2, <1>3, <2>1 DEF FileInv, HasMarker, Same, private, background
  <1>6. UNCHANGED <<journal, request, snapshot, evidence, marker, folder_marker,
                    prepared_plan, final_plan, folder, pc, memory, background>>
    BY DEF private
  <1> QED
    BY <1>1, <1>4, <1>5, <1>6, FileMoves

LEMMA RenameStagedStep ==
    ASSUME InstallerInv, NEW f \in Files, RenameStaged(f) PROVE InstallerInv'
  <1> USE DEF RenameStaged
  <1>1. Turn(f) /\ Policy[f] # "Metadata" /\ MayRename(f)
    BY DEF ActivationDue, Turn, ActivatedByStage
  <1>2. FileInv(f) /\ HasMarker(f) /\ journal.completed_steps = ActivationStep(f)
        /\ ActivationStep(f) \in Nat /\ ~Same(f)
    BY <1>1, TurnFacts, StepPlaces, PlanOld DEF Turn, MayRename
  <1>3. Policy[f] = "Preserve" => original[f] = Missing
    BY <1>1, <1>2 DEF MayRename, FileInv, MarkerFor
  <1>4. /\ live' = [live EXCEPT ![f] = staged[f]]
        /\ staged' = [staged EXCEPT ![f] = Missing] /\ staged[f] \in Bytes
        /\ metadata_old' = [metadata_old EXCEPT ![f] = metadata_old[f]]
        /\ metadata_old[f] \in Bytes /\ Missing \in Bytes
    BY DEF InstallerInv, TypeOK, Bytes
  <1>5. FileInv(f)'
    <2>1. staged'[f] = Missing
      BY <1>4 DEF InstallerInv, TypeOK
    <2> QED
      BY <1>1, <1>2, <1>3, <2>1 DEF FileInv, HasMarker, Same, background
  <1>6. UNCHANGED <<journal, request, snapshot, evidence, marker, folder_marker,
                    prepared_plan, final_plan, folder, pc, memory, background>>
    OBVIOUS
  <1> PICK b \in Bytes : b = staged[f]
    BY <1>4
  <1> PICK o \in Bytes : o = metadata_old[f]
    BY <1>4
  <1> HIDE DEF RenameStaged
  <1> QED
    BY <1>1, <1>4, <1>5, <1>6, FileMoves

\* The turn of a file is over once it is activated.
LEMMA TurnEnds ==
    ASSUME InstallerInv, NEW f \in Files, Turn(f), Activated(f),
           pc = "activate" => Policy[f] \in ActivatedByStage,
           WriteTransition(Advanced(journal, 1)),
           UNCHANGED <<request, live, private, folder, pc, memory, background>>
    PROVE  InstallerInv'
  <1> DEFINE c == journal.completed_steps
  <1>1. /\ Working /\ journal.state \in {"Prepared", "Committing"}
        /\ journal # Empty /\ request = "active" /\ c = ActivationStep(f)
        /\ final_plan # NoPlan /\ \A g \in Files : HasMarker(g)
        /\ "SelectorCommitted" \notin journal.flags
        /\ pc \in {"activate", "commit"}
        /\ (pc = "commit" => journal.state = "Committing")
        /\ c \in Nat /\ (pc = "activate" => journal.state = "Prepared")
    BY TurnFacts DEF Turn
  <1>2. \A g \in Files : c + 1 > ActivationStep(g) => c > ActivationStep(g) \/ Activated(g)
    BY <1>1, StepPlaces, StepsDiffer
  <1>3. \A d \in Directories : c > FolderStep(d)
    BY <1>1, StepPlaces, Layout
  <1>4. CASE pc = "activate"
    <2>1. c + 1 \in directory_activate_begin .. stage_end
      BY <1>1, <1>4, StepPlaces, Layout
    <2> QED
      BY <1>2, <1>3, <1>4, <2>1, StageAdvances
  <1>5. CASE pc = "commit"
    <2> PICK n \in Nat : n = 1
      OBVIOUS
    <2>1. /\ WriteTransition(Moved(journal, "Committing", {}, n))
          /\ n > 0 /\ ~(n > 1)
          /\ "Committing" \in RollbackStates \ {"RollingBack"}
          /\ "Committing" \in RollbackStates /\ {} \in SUBSET JournalFlags
          /\ "SelectorCommitted" \notin {} /\ "Committing" # "Committed"
          /\ journal.state # "RollingBack"
      BY <1>1, <1>5 DEF Advanced, RollbackStates
    <2>2. /\ FreshInv' /\ PlanInv' /\ FilesInv' /\ FolderInv' /\ RequestInv'
          /\ ~RolledBack' /\ Working' /\ RecordIsValid(journal')
          /\ journal' \in JournalRecords /\ journal' # Empty
          /\ journal'.state = "Committing" /\ journal'.total_steps = total
          /\ journal'.completed_steps = c + n
          /\ journal'.flags = journal.flags \cup {}
      BY <1>1, <2>1, RecordStep
    <2>3. ForwardInv'
      BY <1>1, <1>2, <1>3, <2>1, RecordForward
    <2>4. TypeOK'
      BY <2>2 DEF InstallerInv, TypeOK, private, memory, background
    <2>5. StepsInv'
      <3>1. c >= kernel_begin
        BY <1>1, <1>5 DEF InstallerInv, StepsInv
      <3>2. c + 1 >= kernel_begin /\ "SelectorCommitted" \notin journal'.flags
        BY <1>1, <2>2, <3>1, Layout
      <3> QED
        BY <2>2, <3>2 DEF StepsInv
    <2>6. CallInv'
      BY <1>1, <1>5, <2>2 DEF CallInv, InState, StagePCs, RestorePCs, RetirePCs
    <2>7. RetireInv' /\ LoopInv' /\ RestoreInv'
      BY <1>5, <2>2, RetireFrame, LoopFrame, RestoreFrame
         DEF RetirePCs, StagePCs, RestorePCs
    <2> QED
      BY <2>2, <2>3, <2>4, <2>5, <2>6, <2>7 DEF InstallerInv
  <1> QED
    BY <1>1, <1>4, <1>5

LEMMA JournalActivationStep ==
    ASSUME InstallerInv, NEW f \in Files, JournalActivation(f) PROVE InstallerInv'
  <1> USE DEF JournalActivation
  <1>1. Turn(f) /\ (pc = "activate" => Policy[f] \in ActivatedByStage)
    BY DEF ActivationDue, Turn
  <1>2. FileInv(f) /\ ~NoPlans
    BY <1>1, TurnFacts
  <1>3. Activated(f)
    <2>1. CASE IsNoop(f)
      BY <1>2, <2>1, PlanOld DEF FileInv, Same, Activated
    <2>2. CASE Policy[f] = "Preserve" /\ marker[f] = "existed"
      BY <1>2, <2>2 DEF FileInv, MarkerFor, Activated
    <2>3. CASE live[f] = "new"
      BY <2>3 DEF Activated
    <2> QED
      BY <2>1, <2>2, <2>3 DEF ActivationDone
  <1> QED
    BY <1>1, <1>3, TurnEnds

LEMMA CommitMetadataStep ==
    ASSUME InstallerInv, NEW f \in Files, CommitMetadata(f) PROVE InstallerInv'
  <1> USE DEF CommitMetadata
  <1>1. /\ Turn(f) /\ Policy[f] = "Metadata" /\ pc = "commit"
    BY DEF MetadataDue, Turn
  <1>2. /\ FileInv(f) /\ HasMarker(f) /\ ~NoPlans
        /\ journal.completed_steps = ActivationStep(f)
        /\ ActivationStep(f) \in Nat
    BY <1>1, TurnFacts, StepPlaces DEF Turn
  <1>3. live[f] \in Bytes /\ staged[f] \in Bytes /\ metadata_old[f] \in Bytes
        /\ Missing \in Bytes
    BY DEF InstallerInv, TypeOK, Bytes
  <1>4. CASE /\ MayMoveAside(f) /\ UNCHANGED <<journal, staged>>
             /\ metadata_old' = [metadata_old EXCEPT ![f] = live[f]]
             /\ live' = [live EXCEPT ![f] = Missing]
    <2>1. staged' = [staged EXCEPT ![f] = staged[f]]
      BY <1>4 DEF InstallerInv, TypeOK
    <2>2. metadata_old'[f] = original[f] /\ ~Same(f) /\ live'[f] = Missing
      BY <1>2, <1>4, PlanOld DEF MayMoveAside, InstallerInv, TypeOK
    <2>3. FileInv(f)'
      BY <1>1, <1>2, <1>4, <2>2 DEF FileInv, HasMarker, Same, background
    <2> QED
      BY <1>1, <1>3, <1>4, <2>1, <2>3, FileMoves
  <1>5. CASE /\ MayMoveIn(f) /\ UNCHANGED <<journal, metadata_old>>
             /\ live' = [live EXCEPT ![f] = staged[f]]
             /\ staged' = [staged EXCEPT ![f] = Missing]
    <2>1. metadata_old' = [metadata_old EXCEPT ![f] = metadata_old[f]]
      BY <1>5 DEF InstallerInv, TypeOK
    <2>2. metadata_old'[f] = original[f] /\ ~Same(f) /\ staged'[f] = Missing
      BY <1>2, <1>5, PlanOld DEF MayMoveIn, InstallerInv, TypeOK
    <2>3. FileInv(f)'
      BY <1>1, <1>2, <1>5, <2>2 DEF FileInv, HasMarker, Same, background
    <2> QED
      BY <1>1, <1>3, <1>5, <2>1, <2>3, FileMoves
  <1>6. CASE /\ MetadataDone(f) /\ WriteTransition(Advanced(journal, 1))
             /\ UNCHANGED <<live, staged, metadata_old>>
    <2>1. Activated(f)
      BY <1>2, <1>6, PlanOld DEF MetadataDone, FileInv, Same, Activated
    <2>2. UNCHANGED <<request, live, private, folder, pc, memory, background>>
      BY <1>6 DEF private
    <2> QED
      BY <1>1, <1>6, <2>1, <2>2, TurnEnds
  <1> QED
    BY <1>4, <1>5, <1>6

-----------------------------------------------------------------------------
(* Arm, Healthy and Commit: the records between the turns of the files.    *)

\* Past the last turn of Stage the final plan and every marker are there.
LEMMA StagedFacts ==
    ASSUME InstallerInv, Working, journal.completed_steps >= arm_step
    PROVE  /\ journal \in JournalRecords /\ journal # Empty /\ request = "active"
           /\ journal.completed_steps \in Nat /\ journal.completed_steps >= 1
           /\ final_plan # NoPlan /\ ~NoPlans
           /\ \A f \in Files : FileInv(f) /\ HasMarker(f)
           /\ \A d \in Directories : journal.completed_steps > FolderStep(d)
           /\ ActivationStep(Selector) < journal.completed_steps
           /\ ActivationStep(Selector) \in Nat
           /\ RecordIsValid(journal) /\ journal.total_steps = total
  <1>1. /\ journal \in JournalRecords /\ journal # Empty /\ request = "active"
        /\ journal.completed_steps \in Nat /\ journal.state # "Idle"
    BY DEF InstallerInv, TypeOK, Working, InState, RollbackStates, JournalRecords
  <1>2. arm_step \in Nat /\ arm_step >= 1
    BY Layout
  <1>3. journal.completed_steps >= 1
    BY <1>1, <1>2
  <1>4. final_plan # NoPlan /\ ~NoPlans
    BY <1>3 DEF InstallerInv, PlanInv, NoPlans
  <1>5. \A f \in Files : FileInv(f) /\ HasMarker(f)
    BY <1>1, <1>3 DEF InstallerInv, FilesInv, FileInv
  <1>6. \A d \in Directories : journal.completed_steps > FolderStep(d)
    BY <1>1, <1>2, StepGaps, StepPlaces
  <1>7. ActivationStep(Selector) < journal.completed_steps
        /\ ActivationStep(Selector) \in Nat
    BY <1>1, <1>2, StepGaps, StepPlaces, ManifestFacts
  <1>8. RecordIsValid(journal) /\ journal.total_steps = total
    BY <1>1 DEF InstallerInv, StepsInv
  <1> QED
    BY <1>1, <1>3, <1>4, <1>5, <1>6, <1>7, <1>8

\* A record that reports a milestone which is not the turn of a file.
LEMMA Milestone ==
    ASSUME InstallerInv, Working, journal.completed_steps >= arm_step,
           journal.state # "RollingBack",
           NEW s \in RollbackStates \ {"RollingBack"},
           NEW F \in SUBSET JournalFlags, NEW n \in {0, 1},
           WriteTransition(Moved(journal, s, F, n)),
           n = 1 => \A f \in Files : journal.completed_steps # ActivationStep(f),
           "SelectorCommitted" \in F => live[Selector] = "new",
           \/ s = "Staged" /\ journal.completed_steps + n = arm_step
           \/ s = "CandidatePending" /\ journal.completed_steps + n = health_step
           \/ s = "CandidateHealthy" /\ journal.completed_steps + n = kernel_begin
           \/ /\ s = "Committing" /\ journal.completed_steps + n >= kernel_begin
              /\ "SelectorCommitted" \in journal.flags \cup F =>
                    journal.completed_steps + n = total
           \/ s = "Committed" /\ journal.completed_steps + n = total,
           pc' = "ready" \/ (pc' = "commit" /\ s = "Committing"),
           cursor' \in {0, cursor}, high_water' \in {0, high_water},
           UNCHANGED <<request, live, private, folder, background>>
    PROVE  InstallerInv'
  <1> DEFINE c == journal.completed_steps
  <1>1. /\ final_plan # NoPlan /\ c \in Nat /\ n \in Nat /\ ~(n > 1)
        /\ \A f \in Files : HasMarker(f) /\ \A d \in Directories : c > FolderStep(d)
    BY StagedFacts
  <1>2. s \in RollbackStates
    OBVIOUS
  <1>3. /\ FreshInv' /\ PlanInv' /\ FilesInv' /\ FolderInv' /\ RequestInv'
        /\ ~RolledBack' /\ Working' /\ RecordIsValid(journal')
        /\ journal' \in JournalRecords /\ journal' # Empty
        /\ journal'.state = s /\ journal'.total_steps = total
        /\ journal'.completed_steps = c + n
        /\ journal'.flags = journal.flags \cup F
    BY <1>1, <1>2, RecordStep
  <1>4. \A f \in Files : c + n > ActivationStep(f) => c > ActivationStep(f)
    BY <1>1, StepPlaces
  <1>5. \A d \in Directories : c > FolderStep(d)
    BY StagedFacts
  <1>6. s = "Committed" => c + n = total
    OBVIOUS
  <1>7. ForwardInv'
    BY <1>1, <1>4, <1>5, <1>6, RecordForward
  <1>8. TypeOK'
    <2>1. cursor' \in 0 .. Len(Policy) + DirectoryCount + 1 /\ high_water' \in Nat
      BY ManifestFacts DEF InstallerInv, TypeOK
    <2> QED
      BY <1>3, <2>1 DEF InstallerInv, TypeOK, PCs, private, background
  <1>9. StepsInv'
    BY <1>3 DEF StepsInv
  <1>10. CallInv'
    BY <1>3 DEF CallInv, InState, Working, PCs, StagePCs, RestorePCs, RetirePCs
  <1>11. RetireInv' /\ LoopInv' /\ RestoreInv'
    BY <1>3, RetireFrame, LoopFrame, RestoreFrame
       DEF RetirePCs, StagePCs, RestorePCs
  <1> QED
    BY <1>3, <1>7, <1>8, <1>9, <1>10, <1>11 DEF InstallerInv

LEMMA MarkStagedStep ==
    ASSUME InstallerInv, MarkStaged PROVE InstallerInv'
  <1> USE DEF MarkStaged, Return
  <1> DEFINE F == {"SnapshotComplete", "StagingComplete"}
  <1>1. /\ Working /\ journal.state = "Prepared" /\ journal.completed_steps \in Nat
        /\ journal.completed_steps = arm_step
    BY ActivateFacts, Layout
  <1>2. /\ "Staged" \in RollbackStates \ {"RollingBack"} /\ F \in SUBSET JournalFlags
        /\ WriteTransition(Moved(journal, "Staged", F, 0))
        /\ "SelectorCommitted" \notin F /\ 0 \in {0, 1}
    BY DEF Staged, RollbackStates, JournalFlags
  <1>3. /\ journal.completed_steps >= arm_step
        /\ journal.completed_steps + 0 = arm_step
    BY <1>1, Layout
  <1> HIDE DEF F
  <1> QED
    BY <1>1, <1>2, <1>3, Milestone

LEMMA MarkPendingStep ==
    ASSUME InstallerInv, MarkPending PROVE InstallerInv'
  <1> USE DEF MarkPending, Return
  <1> DEFINE F == {"TrybootArmed"}
  <1>1. /\ Working /\ journal.state = "Staged" /\ journal.completed_steps = arm_step
    BY DEF InstallerInv, CallInv, StepsInv, InState, Working, RollbackStates, PCs,
           RetirePCs
  <1>2. /\ "CandidatePending" \in RollbackStates \ {"RollingBack"}
        /\ F \in SUBSET JournalFlags
        /\ WriteTransition(Moved(journal, "CandidatePending", F, 1))
        /\ "SelectorCommitted" \notin F /\ 1 \in {0, 1}
    BY DEF Pending, RollbackStates, JournalFlags
  <1>3. /\ journal.completed_steps >= arm_step
        /\ journal.completed_steps + 1 = health_step
    BY <1>1, Layout
  <1>4. \A f \in Files : journal.completed_steps # ActivationStep(f)
    BY <1>1, StepGaps, StepPlaces, Layout
  <1> HIDE DEF F
  <1> QED
    BY <1>1, <1>2, <1>3, <1>4, Milestone

LEMMA MarkCandidateHealthyStep ==
    ASSUME InstallerInv, MarkCandidateHealthy PROVE InstallerInv'
  <1> USE DEF MarkCandidateHealthy
  <1> DEFINE F == {"CandidateHealthy"}
  <1>1. /\ Working /\ journal.state = "CandidatePending"
        /\ journal.completed_steps = health_step
    BY DEF InState, Working, RollbackStates
  <1>2. /\ "CandidateHealthy" \in RollbackStates \ {"RollingBack"}
        /\ F \in SUBSET JournalFlags
        /\ WriteTransition(Moved(journal, "CandidateHealthy", F, 1))
        /\ "SelectorCommitted" \notin F /\ 1 \in {0, 1}
    BY DEF Healthy, RollbackStates, JournalFlags
  <1>3. /\ journal.completed_steps >= arm_step
        /\ journal.completed_steps + 1 = kernel_begin
    BY <1>1, Layout
  <1>4. \A f \in Files : journal.completed_steps # ActivationStep(f)
    BY <1>1, StepGaps, StepPlaces, Layout
  <1>5. pc' = "ready" /\ cursor' \in {0, cursor} /\ high_water' \in {0, high_water}
    BY DEF memory
  <1> HIDE DEF F
  <1> QED
    BY <1>1, <1>2, <1>3, <1>4, <1>5, Milestone

LEMMA MarkCommittingStep ==
    ASSUME InstallerInv, MarkCommitting PROVE InstallerInv'
  <1> USE DEF MarkCommitting
  <1>1. /\ Working /\ journal.state = "CandidateHealthy"
        /\ journal.completed_steps = kernel_begin
        /\ RecordIsValid(journal)
    BY DEF InstallerInv, CallInv, StepsInv, InState, Working, RollbackStates, PCs,
           RetirePCs
  <1>2. /\ "Committing" \in RollbackStates \ {"RollingBack"}
        /\ {} \in SUBSET JournalFlags
        /\ WriteTransition(Moved(journal, "Committing", {}, 0))
        /\ "SelectorCommitted" \notin {} /\ 0 \in {0, 1}
    BY DEF Committing, RollbackStates
  <1>3. /\ journal.completed_steps >= arm_step
        /\ journal.completed_steps + 0 >= kernel_begin
    BY <1>1, Layout
  <1>4. "SelectorCommitted" \notin journal.flags \cup {}
    BY <1>1, FlagFacts
  <1>5. pc' = "commit" /\ cursor' \in {0, cursor} /\ high_water' \in {0, high_water}
    BY DEF memory
  <1> QED
    BY <1>1, <1>2, <1>3, <1>4, <1>5, Milestone

LEMMA JournalSelectorStep ==
    ASSUME InstallerInv, JournalSelector PROVE InstallerInv'
  <1> USE DEF JournalSelector
  <1> DEFINE F == {"SelectorCommitted"}
  <1>1. /\ Working /\ journal.state = "Committing" /\ live[Selector] = "new"
        /\ journal.completed_steps = selector_step
    BY DEF InstallerInv, CallInv, InState, Working, RollbackStates, PCs, RetirePCs
  <1>2. /\ "Committing" \in RollbackStates \ {"RollingBack"}
        /\ F \in SUBSET JournalFlags
        /\ WriteTransition(Moved(journal, "Committing", F, 1)) /\ 1 \in {0, 1}
    BY DEF SelectorDone, RollbackStates, JournalFlags
  <1>3. /\ journal.completed_steps >= arm_step
        /\ journal.completed_steps + 1 >= kernel_begin
        /\ journal.completed_steps + 1 = total
    BY <1>1, Layout
  <1>4. \A f \in Files : journal.completed_steps # ActivationStep(f)
    BY <1>1, StepGaps, StepPlaces, Layout
  <1>5. pc' = "commit" /\ cursor' \in {0, cursor} /\ high_water' \in {0, high_water}
    BY DEF memory
  <1> HIDE DEF F
  <1> QED
    BY <1>1, <1>2, <1>3, <1>4, <1>5, Milestone

LEMMA MarkCommittedStep ==
    ASSUME InstallerInv, MarkCommitted PROVE InstallerInv'
  <1> USE DEF MarkCommitted, Return
  <1>1. /\ Working /\ journal.state = "Committing"
        /\ journal.completed_steps = total
    BY DEF InstallerInv, CallInv, InState, Working, RollbackStates, PCs, RetirePCs
  <1>2. /\ "Committed" \in RollbackStates \ {"RollingBack"}
        /\ {} \in SUBSET JournalFlags
        /\ WriteTransition(Moved(journal, "Committed", {}, 0))
        /\ "SelectorCommitted" \notin {} /\ 0 \in {0, 1}
    BY DEF Committed, RollbackStates
  <1>3. /\ journal.completed_steps >= arm_step
        /\ journal.completed_steps + 0 = total
    BY <1>1, Layout
  <1> QED
    BY <1>1, <1>2, <1>3, Milestone

\* The backend rewrites the candidate selector after its turn.
LEMMA SelectorMoves ==
    ASSUME InstallerInv, Working, journal.completed_steps >= arm_step,
           journal.state \in {"Staged", "Committing", "RollingBack"},
           NEW b \in {"new", "next"}, journal.state = "Committing" => b = "new",
           live' = [live EXCEPT ![Selector] = b],
           UNCHANGED <<journal, request, private, folder, original,
                       original_folder, atomic_replace>>
    PROVE  /\ live' \in [Files -> Bytes] /\ live'[Selector] = b
           /\ \A f \in Files : f # Selector => live'[f] = live[f]
           /\ StepsInv' /\ FreshInv' /\ PlanInv' /\ FilesInv' /\ ForwardInv'
           /\ FolderInv' /\ RequestInv' /\ ~RolledBack' /\ Working' /\ ~NoPlans'
  <1> USE DEF private
  <1> DEFINE c == journal.completed_steps
  <1>1. /\ journal # Empty /\ request = "active" /\ c \in Nat /\ ~NoPlans
        /\ \A f \in Files : FileInv(f) /\ HasMarker(f)
        /\ ActivationStep(Selector) < c /\ ActivationStep(Selector) \in Nat
        /\ RecordIsValid(journal)
    BY StagedFacts
  <1>2. Selector \in Files /\ Policy[Selector] = "ConfigTemplate"
    BY ManifestFacts
  <1>3. /\ live' \in [Files -> Bytes] /\ live'[Selector] = b
        /\ \A f \in Files : f # Selector => live'[f] = live[f]
    BY <1>2 DEF InstallerInv, TypeOK, Bytes
  <1>4. FilesInv'
    <2>1. ASSUME NEW f \in Files, f # Selector PROVE FileInv(f)'
      BY <1>1, <1>3, <2>1 DEF FileInv, HasMarker, Same
    <2>2. FileInv(Selector)'
      <3>1. FileInv(Selector)
        BY <1>1, <1>2
      <3> QED
        BY <1>1, <1>2, <1>3, <3>1 DEF FileInv, HasMarker, Same
    <2> QED
      BY <2>1, <2>2 DEF FilesInv
  <1>5. /\ Working' /\ ~NoPlans' /\ ~Fresh' /\ ~RolledBack'
        /\ ~InState({"Committed"})'
    BY <1>1 DEF Working, NoPlans, Fresh, RolledBack, InState
  <1>6. FreshInv' /\ StepsInv' /\ RequestInv' /\ PlanInv' /\ FolderInv'
    BY <1>1, <1>5 DEF InstallerInv, FreshInv, StepsInv, RequestInv, PlanInv,
                      SnapshotKept, FolderInv
  <1>7. ForwardInv'
    <2>1. "SelectorCommitted" \in journal.flags =>
             journal.state \in {"Committing", "RollingBack"}
      BY <1>1, FlagFacts
    <2>2. \A f \in Files : Activated(f) => Activated(f)'
      BY <1>3 DEF Activated
    <2> QED
      BY <1>3, <1>5, <2>1, <2>2 DEF InstallerInv, ForwardInv, CommittedExactly
  <1> QED
    BY <1>1, <1>3, <1>4, <1>5, <1>6, <1>7

LEMMA ArmCandidateStep ==
    ASSUME InstallerInv, ArmCandidate PROVE InstallerInv'
  <1> USE DEF ArmCandidate
  <1>1. /\ Working /\ journal.state = "Staged" /\ request = "active"
        /\ journal # Empty
    BY DEF InstallerInv, CallInv, InState, Working, RollbackStates, PCs, RetirePCs
  <1>2. journal.completed_steps >= arm_step
    BY Layout
  <1>3. ArmedSelector \in {"new", "next"}
    BY DEF ArmedSelector
  <1>4. /\ live' \in [Files -> Bytes]
        /\ StepsInv' /\ FreshInv' /\ PlanInv' /\ FilesInv' /\ ForwardInv'
        /\ FolderInv' /\ RequestInv' /\ ~RolledBack' /\ Working'
    BY <1>1, <1>2, <1>3, SelectorMoves DEF background
  <1>5. TypeOK'
    BY <1>4 DEF InstallerInv, TypeOK, PCs, private, memory, background
  <1>6. CallInv'
    BY <1>1 DEF CallInv, InState, StagePCs, RestorePCs, RetirePCs
  <1>7. RetireInv' /\ LoopInv' /\ RestoreInv'
    BY <1>4, RetireFrame, LoopFrame, RestoreFrame
       DEF RetirePCs, StagePCs, RestorePCs
  <1> QED
    BY <1>4, <1>5, <1>6, <1>7 DEF InstallerInv

\* Nothing in the invariant but its type speaks of the active selector.
LEMMA ActiveFrame ==
    ASSUME InstallerInv, active_selector' \in {"published", "unlinked"},
           UNCHANGED <<journal, request, live, private, folder, pc, memory,
                       original, original_folder, atomic_replace>>
    PROVE  InstallerInv'
  <1> USE DEF private, memory
  <1>1. TypeOK' /\ RequestInv'
    BY DEF InstallerInv, TypeOK, RequestInv, PrivateClean, NoPlans
  <1>2. CallInv' /\ RetireInv'
    BY DEF InstallerInv, CallInv, InState, RolledBack, NoPlans, RetireInv
  <1>3. LoopInv'
    BY DEF InstallerInv, LoopInv, SnapshotKept, HasMarker, Same, NoPlans
  <1>4. RestoreInv'
    <2>1. (RolledBack => Restored)'
      BY DiskKept
    <2>2. SavedCopy(cursor)' = SavedCopy(cursor)
      BY DEF SavedCopy
    <2> QED
      BY <2>1, <2>2 DEF InstallerInv, RestoreInv, Back, LeftArmed, Cut
  <1> QED
    BY <1>1, <1>2, <1>3, <1>4, DiskKept DEF InstallerInv

LEMMA UnlinkActiveStep ==
    ASSUME InstallerInv, UnlinkActive PROVE InstallerInv'
  BY ActiveFrame DEF UnlinkActive

LEMMA CommitCandidateStep ==
    ASSUME InstallerInv, CommitCandidate PROVE InstallerInv'
  <1> USE DEF CommitCandidate, SelectorDue
  <1>1. /\ Working /\ journal.state = "Committing" /\ request = "active"
        /\ journal # Empty
    BY DEF InstallerInv, CallInv, InState, Working, RollbackStates, PCs, RetirePCs
  <1>2. journal.completed_steps >= arm_step
    BY Layout
  <1>3. /\ live' \in [Files -> Bytes] /\ live'[Selector] = "new"
        /\ StepsInv' /\ FreshInv' /\ PlanInv' /\ FilesInv' /\ ForwardInv'
        /\ FolderInv' /\ RequestInv' /\ ~RolledBack' /\ Working'
    BY <1>1, <1>2, SelectorMoves
  <1>4. TypeOK'
    BY <1>3 DEF InstallerInv, TypeOK, PCs, private, memory
  <1>5. CallInv'
    BY <1>1, <1>3 DEF CallInv, InState, StagePCs, RestorePCs, RetirePCs
  <1>6. RetireInv' /\ LoopInv' /\ RestoreInv'
    BY <1>3, RetireFrame, LoopFrame, RestoreFrame
       DEF RetirePCs, StagePCs, RestorePCs
  <1> QED
    BY <1>3, <1>4, <1>5, <1>6 DEF InstallerInv

-----------------------------------------------------------------------------
(* Rollback. *)

\* The record that ends a rollback, written when every file is back.
LEMMA BecomesIdle ==
    ASSUME InstallerInv, journal \in JournalRecords, request = "active",
           WriteTransition(Idle(journal)), Restored', pc' = "ready",
           cursor' \in {0, cursor}, high_water' \in {0, high_water},
           UNCHANGED <<request, live, private, folder, background>>
    PROVE  InstallerInv'
  <1> USE DEF private, background
  <1>1. /\ RecordIsValid(journal') /\ journal' \in JournalRecords
        /\ journal' # Empty /\ journal'.state = "Idle" /\ journal'.generation > 1
    BY IdleRecord
  <1>2. RolledBack' /\ ~Working' /\ ~Fresh' /\ ~InState({"Committed"})'
    BY <1>1 DEF RolledBack, Working, Fresh, InState, RollbackStates
  <1>3. TypeOK'
    <2>1. cursor' \in 0 .. Len(Policy) + DirectoryCount + 1 /\ high_water' \in Nat
      BY ManifestFacts DEF InstallerInv, TypeOK
    <2> QED
      BY <1>1, <2>1 DEF InstallerInv, TypeOK, PCs
  <1>4. StepsInv' /\ RequestInv' /\ FreshInv' /\ FilesInv'
    BY <1>1, <1>2 DEF StepsInv, RequestInv, FreshInv, FilesInv
  <1>5. CallInv'
    BY DEF CallInv, StagePCs, RestorePCs, RetirePCs
  <1>6. PlanInv' /\ FolderInv'
    BY <1>2 DEF InstallerInv, PlanInv, SnapshotKept, FolderInv
  <1>7. ForwardInv'
    BY <1>2 DEF ForwardInv, CommittedExactly
  <1>8. RetireInv' /\ LoopInv' /\ RestoreInv'
    BY RetireFrame, LoopFrame, RestoreFrame DEF RetirePCs, StagePCs, RestorePCs
  <1> QED
    BY <1>3, <1>4, <1>5, <1>6, <1>7, <1>8 DEF InstallerInv

\* The record that begins a rollback keeps what the steps say.
LEMMA RollingBackSteps ==
    ASSUME InstallerInv, Working, journal.state # "RollingBack"
    PROVE  LET c == journal.completed_steps IN
           /\ c = 0 \/ c >= directory_activate_begin
           /\ c >= kernel_begin => "CandidateHealthy" \in journal.flags
           /\ "TrybootArmed" \in journal.flags => c >= health_step
  <1> DEFINE c == journal.completed_steps
  <1>1. /\ journal # Empty /\ journal.state \in RollbackStates \ {"RollingBack"}
        /\ c \in Nat /\ RecordIsValid(journal)
    BY DEF Working, InState, InstallerInv, TypeOK, StepsInv, JournalRecords
  <1>2. CASE journal.state = "Prepared"
    <2>1. c = 0 \/ c \in directory_activate_begin .. stage_end
      BY <1>1, <1>2 DEF InstallerInv, StepsInv
    <2>2. "TrybootArmed" \notin journal.flags
      BY <1>1, <1>2, FlagFacts
    <2> QED
      BY <1>1, <2>1, <2>2, Layout
  <1>3. CASE journal.state = "Staged"
    <2>1. c = arm_step
      BY <1>1, <1>3 DEF InstallerInv, StepsInv
    <2>2. "TrybootArmed" \notin journal.flags
      BY <1>1, <1>3, FlagFacts
    <2> QED
      BY <1>1, <2>1, <2>2, Layout
  <1>4. CASE journal.state = "CandidatePending"
    <2>1. c = health_step
      BY <1>1, <1>4 DEF InstallerInv, StepsInv
    <2> QED
      BY <1>1, <2>1, Layout
  <1>5. CASE journal.state \in {"CandidateHealthy", "Committing", "Committed"}
    <2>1. c >= kernel_begin
      BY <1>1, <1>5, Layout DEF InstallerInv, StepsInv
    <2>2. "CandidateHealthy" \in journal.flags
      BY <1>1, <1>5, FlagFacts
    <2> QED
      BY <1>1, <2>1, <2>2, Layout
  <1> QED
    BY <1>1, <1>2, <1>3, <1>4, <1>5 DEF RollbackStates

LEMMA MarkRollingBackStep ==
    ASSUME InstallerInv, MarkRollingBack PROVE InstallerInv'
  <1> USE DEF MarkRollingBack
  <1> DEFINE c == journal.completed_steps
  <1>1. /\ pc = "rollback" /\ request = "active" /\ journal # Empty
        /\ journal \in JournalRecords /\ journal.state # "Idle" /\ c \in Nat
    BY DEF InstallerInv, CallInv, InState, PCs, RetirePCs, TypeOK, JournalRecords
  <1>2. UNCHANGED <<request, live, private, folder, high_water, background>>
    OBVIOUS
  <1>3. CASE /\ NothingStarted /\ WriteTransition(Idle(journal))
             /\ pc' = "ready" /\ UNCHANGED cursor
    <2>1. Fresh
      BY <1>1, <1>3 DEF NothingStarted, Fresh, RolledBack, InState, RollbackStates
    <2>2. live = original
      BY <2>1 DEF InstallerInv, FreshInv
    <2>3. Restored'
      BY <1>2, <2>2, ManifestFacts DEF Restored, background
    <2> QED
      BY <1>1, <1>2, <1>3, <2>3, BecomesIdle
  <1>4. ASSUME Working, WriteTransition(RollingBack(journal)),
               journal.state # "RollingBack"
        PROVE  /\ FreshInv' /\ PlanInv' /\ FilesInv' /\ FolderInv' /\ RequestInv'
               /\ ~RolledBack' /\ Working' /\ InState({"RollingBack"})'
               /\ journal' \in JournalRecords /\ StepsInv' /\ ForwardInv'
               /\ journal'.completed_steps = c /\ journal.flags \subseteq journal'.flags
    <2> DEFINE F == {"RollbackRequested"}
    <2> PICK n \in Nat : n = 0
      OBVIOUS
    <2>1. /\ "RollingBack" \in RollbackStates /\ F \in SUBSET JournalFlags
          /\ WriteTransition(Moved(journal, "RollingBack", F, n))
          /\ ~(n > 0) /\ ~(n > 1)
      BY <1>4 DEF RollbackStates, JournalFlags, RollingBack
    <2>2. UNCHANGED <<request, live, private, folder, background>>
      OBVIOUS
    <2>3. "TrybootArmed" \notin F
      OBVIOUS
    <2> HIDE DEF F, MarkRollingBack
    <2>4. /\ FreshInv' /\ PlanInv' /\ FilesInv' /\ FolderInv' /\ RequestInv'
          /\ ~RolledBack' /\ Working' /\ RecordIsValid(journal')
          /\ journal' \in JournalRecords /\ journal' # Empty
          /\ journal'.state = "RollingBack" /\ journal'.total_steps = total
          /\ journal'.completed_steps = c + n
          /\ journal'.flags = journal.flags \cup F
      BY <1>4, <2>1, <2>2, RecordStep
    <2>5. journal'.completed_steps = c
      BY <1>1, <2>4
    <2>6. StepsInv'
      BY <1>4, <2>3, <2>4, <2>5, RollingBackSteps DEF StepsInv
    <2>7. ForwardInv' /\ InState({"RollingBack"})'
      BY <2>4 DEF ForwardInv, CommittedExactly, InState
    <2> QED
      BY <2>4, <2>5, <2>6, <2>7
  <1>5. CASE /\ NoPlanYet /\ WriteTransition(RollingBack(journal))
             /\ pc' = "idle" /\ UNCHANGED cursor
    <2>1. Working /\ journal.state # "RollingBack"
      BY <1>1, <1>5 DEF Working, InState, NoPlanYet, RollbackStates
    <2>2. /\ FreshInv' /\ PlanInv' /\ FilesInv' /\ FolderInv' /\ RequestInv'
          /\ ~RolledBack' /\ Working' /\ InState({"RollingBack"})'
          /\ journal' \in JournalRecords /\ StepsInv' /\ ForwardInv'
          /\ journal'.completed_steps = c
      BY <1>4, <1>5, <2>1
    <2>3. \A f \in Files : Back(f)'
      <3>1. \A f \in Files : 0 < ActivationStep(f)
        BY StepPlaces, Layout, SMTT(30)
      <3> QED
        BY <1>5, <2>2, <3>1 DEF FilesInv, FileInv, NoPlanYet, Back
    <2>4. TypeOK'
      BY <1>2, <1>5, <2>2 DEF InstallerInv, TypeOK, PCs, private, background
    <2>5. CallInv'
      BY <1>1, <1>2, <1>5, <2>2 DEF CallInv, StagePCs, RestorePCs, RetirePCs
    <2>6. RetireInv' /\ LoopInv'
      BY <1>5, RetireFrame, LoopFrame DEF RetirePCs, StagePCs
    <2>7. RestoreInv'
      BY <1>5, <2>2, <2>3 DEF RestoreInv
    <2> QED
      BY <2>2, <2>4, <2>5, <2>6, <2>7 DEF InstallerInv
  <1>6. CASE /\ journal.state \in RollbackStates /\ ~NoPlanYet /\ PlanLoads
             /\ IF journal.state = "RollingBack" THEN UNCHANGED journal
                ELSE WriteTransition(RollingBack(journal))
             /\ pc' = IF "TrybootArmed" \in journal.flags THEN "disarm"
                                                          ELSE "restore"
             /\ cursor' = Len(Policy)
    <2>1. Working /\ ~NoPlans /\ ~NoPlans'
      BY <1>1, <1>2, <1>6
         DEF Working, InState, PlanLoads, LoadContentPlan, NoPlans, private
    <2>2. /\ FreshInv' /\ PlanInv' /\ FilesInv' /\ FolderInv' /\ RequestInv'
          /\ ~RolledBack' /\ Working' /\ InState({"RollingBack"})'
          /\ journal' \in JournalRecords /\ StepsInv' /\ ForwardInv'
          /\ journal.flags \subseteq journal'.flags
      <3>1. CASE journal.state = "RollingBack" /\ UNCHANGED journal
        <4>1. InState({"RollingBack"})' /\ ~RolledBack /\ RequestInv'
          BY <1>1, <1>2, <3>1 DEF InState, RolledBack, RequestInv
        <4> QED
          BY <1>1, <1>2, <2>1, <3>1, <4>1, DiskFrame
      <3>2. CASE journal.state # "RollingBack" /\ WriteTransition(RollingBack(journal))
        BY <1>4, <2>1, <3>2
      <3> QED
        BY <1>6, <3>1, <3>2
    <2>3. /\ cursor' \in Files /\ cursor' \in 0 .. Len(Policy) + DirectoryCount + 1
          /\ \A f \in Files : ~(f > cursor')
      BY <1>6, ManifestFacts
    <2>4. TypeOK'
      BY <1>2, <1>6, <2>2, <2>3 DEF InstallerInv, TypeOK, PCs, private, background
    <2>5. CallInv'
      BY <1>1, <1>2, <1>6, <2>1, <2>2 DEF CallInv, StagePCs, RestorePCs, RetirePCs
    <2>6. RetireInv' /\ LoopInv'
      BY <1>6, RetireFrame, LoopFrame DEF RetirePCs, StagePCs
    <2>7. RestoreInv'
      BY <1>6, <2>2, <2>3 DEF RestoreInv
    <2> QED
      BY <2>2, <2>4, <2>5, <2>6, <2>7 DEF InstallerInv
  <1> QED
    BY <1>3, <1>5, <1>6

LEMMA DisarmCandidateStep ==
    ASSUME InstallerInv, DisarmCandidate PROVE InstallerInv'
  <1> USE DEF DisarmCandidate
  <1>1. /\ Working /\ journal.state = "RollingBack" /\ request = "active"
        /\ journal # Empty /\ "TrybootArmed" \in journal.flags
    BY DEF InstallerInv, CallInv, RestorePCs, InState, Working, RollbackStates, PCs,
           RetirePCs
  <1>2. journal.completed_steps >= health_step
        /\ journal.completed_steps \in Nat
    BY <1>1 DEF InstallerInv, StepsInv, TypeOK, JournalRecords
  <1>3. journal.completed_steps >= arm_step
    BY <1>2, Layout
  <1>4. /\ live' \in [Files -> Bytes]
        /\ StepsInv' /\ FreshInv' /\ PlanInv' /\ FilesInv' /\ ForwardInv'
        /\ FolderInv' /\ RequestInv' /\ ~RolledBack' /\ Working' /\ ~NoPlans'
    BY <1>1, <1>3, SelectorMoves DEF background
  <1>5. TypeOK'
    BY <1>4 DEF InstallerInv, TypeOK, PCs, private, memory, background
  <1>6. CallInv'
    BY <1>1, <1>4 DEF CallInv, InState, StagePCs, RestorePCs, RetirePCs
  <1>7. RetireInv' /\ LoopInv'
    BY RetireFrame, LoopFrame DEF RetirePCs, StagePCs
  <1>8. RestoreInv'
    <2>1. cursor' = Len(Policy)
      BY DEF InstallerInv, RestoreInv, memory
    <2>2. cursor' \in Files /\ \A f \in Files : ~(f > cursor')
      BY <2>1, ManifestFacts
    <2> QED
      BY <1>4, <2>2 DEF RestoreInv
  <1> QED
    BY <1>4, <1>5, <1>6, <1>7, <1>8 DEF InstallerInv

\* What every leaf about the restore loops needs to know.
LEMMA RestoreFacts ==
    ASSUME InstallerInv, pc \in RestorePCs \cup {"idle"}
    PROVE  /\ Working /\ journal.state = "RollingBack" /\ request = "active"
           /\ journal # Empty /\ journal \in JournalRecords
           /\ journal.completed_steps \in Nat
           /\ pc # "idle" => ~NoPlans
           /\ \A f \in Files : FileInv(f)
  <1>1. InState({"RollingBack"}) /\ request = "active" /\ (pc # "idle" => ~NoPlans)
    BY DEF InstallerInv, CallInv, RestorePCs, PCs, RetirePCs
  <1>2. Working /\ journal # Empty /\ journal \in JournalRecords
        /\ journal.state = "RollingBack" /\ journal.completed_steps \in Nat
    BY <1>1 DEF Working, InState, RollbackStates, InstallerInv, TypeOK, JournalRecords
  <1> QED
    BY <1>1, <1>2 DEF InstallerInv, FilesInv

\* A restore step changes live files and directories, and nothing it reads.
LEMMA Restoring ==
    ASSUME InstallerInv, pc \in RestorePCs, \A f \in Files : FileInv(f)',
           folder' \subseteq folder, original_folder \subseteq folder',
           UNCHANGED <<journal, request, private, background>>
    PROVE  /\ StepsInv' /\ FreshInv' /\ PlanInv' /\ FilesInv' /\ ForwardInv'
           /\ FolderInv' /\ RequestInv' /\ ~RolledBack' /\ ~NoPlans'
           /\ InState({"RollingBack"})' /\ request' = "active"
  <1> USE DEF private, background
  <1>1. /\ Working /\ journal.state = "RollingBack" /\ request = "active"
        /\ journal # Empty /\ ~NoPlans
    BY RestoreFacts DEF RestorePCs
  <1>2. /\ Working' /\ ~NoPlans' /\ ~Fresh' /\ ~RolledBack'
        /\ ~InState({"Committed"})' /\ InState({"RollingBack"})'
    BY <1>1 DEF Working, NoPlans, Fresh, RolledBack, InState
  <1>3. FreshInv' /\ StepsInv' /\ RequestInv' /\ PlanInv' /\ FilesInv'
    BY <1>1, <1>2 DEF InstallerInv, FreshInv, StepsInv, RequestInv, PlanInv,
                      SnapshotKept, FilesInv
  <1>4. ForwardInv'
    BY <1>1, <1>2 DEF ForwardInv, CommittedExactly
  <1>5. FolderInv'
    BY <1>1 DEF InstallerInv, FolderInv
  <1> QED
    BY <1>1, <1>2, <1>3, <1>4, <1>5

LEMMA RestoreFileStep ==
    ASSUME InstallerInv, RestoreFile PROVE InstallerInv'
  <1> USE DEF RestoreFile
  <1> DEFINE c == journal.completed_steps
  <1>0. pc \in {"restore", "restore_rename"} /\ pc \in RestorePCs /\ cursor \in Files
    BY DEF InstallerInv, RestoreInv, RestorePCs
  <1> PICK f \in Files : f = cursor
    BY <1>0
  <1>1. /\ Working /\ journal.state = "RollingBack" /\ request = "active"
        /\ c \in Nat /\ ~NoPlans /\ f \in Nat
        /\ \A g \in Files : FileInv(g) /\ (g > f => Back(g))
    BY <1>0, RestoreFacts, ManifestFacts DEF InstallerInv, RestoreInv, RestorePCs
  <1>2. /\ UNCHANGED <<journal, request, private, folder, high_water, background>>
        /\ folder' \subseteq folder /\ original_folder \subseteq folder'
    BY DEF InstallerInv, FolderInv
  <1>3. ActivationStep(f) \in Nat
    BY StepPlaces
  \* The bytes of the file, before and after, and what FileInv needs of them.
  <1>4. ASSUME NEW b \in Bytes, live' = [live EXCEPT ![f] = b],
               b = original[f]
               \/ /\ b = Missing /\ ~Same(f) /\ c >= ActivationStep(f)
                  /\ Policy[f] # "Preserve"
                  /\ ~(/\ c = ActivationStep(f)
                       /\ Policy[f] # "Metadata" /\ staged[f] # Missing)
                  /\ Policy[f] = "Metadata" => metadata_old[f] = original[f]
        PROVE  /\ live' \in [Files -> Bytes] /\ live'[f] = b
               /\ \A g \in Files : FileInv(g)'
               /\ \A g \in Files : g > f => Back(g)'
    <2>1. /\ live' \in [Files -> Bytes] /\ live'[f] = b
          /\ \A g \in Files : g # f => live'[g] = live[g]
      BY <1>4 DEF InstallerInv, TypeOK
    <2>2. ASSUME NEW g \in Files, g # f PROVE FileInv(g)'
      BY <1>1, <1>2, <2>1, <2>2 DEF FileInv, HasMarker, Same, private, background
    <2>3. FileInv(f)'
      <3>1. FileInv(f)
        BY <1>1
      <3> QED
        BY <1>1, <1>2, <1>3, <1>4, <2>1, <3>1
           DEF FileInv, HasMarker, Same, private, background
    <2>4. ASSUME NEW g \in Files, g > f PROVE Back(g)'
      <3>1. g # f
        BY <1>1, <2>4
      <3> QED
        BY <1>1, <1>2, <2>1, <2>4, <3>1 DEF Back, LeftArmed, Cut, background
    <2> QED
      BY <2>1, <2>2, <2>3, <2>4
  \* The end of the turn of the file.
  <1>5. ASSUME PreviousFile("folders", DirectoryCount), live' \in [Files -> Bytes],
               \A g \in Files : FileInv(g)', Back(f)',
               \A g \in Files : g > f => Back(g)'
        PROVE  InstallerInv'
    <2>1. /\ StepsInv' /\ FreshInv' /\ PlanInv' /\ FilesInv' /\ ForwardInv'
          /\ FolderInv' /\ RequestInv' /\ ~RolledBack' /\ ~NoPlans'
          /\ InState({"RollingBack"})' /\ request' = "active"
      BY <1>0, <1>2, <1>5, Restoring
    <2>2. \/ f = 1 /\ pc' = "folders" /\ cursor' = DirectoryCount
          \/ f # 1 /\ pc' = "restore" /\ cursor' = f - 1 /\ f - 1 \in Files
      BY <1>5, ManifestFacts DEF PreviousFile
    <2>3. TypeOK'
      <3>1. cursor' \in 0 .. Len(Policy) + DirectoryCount + 1
        BY <2>2, ManifestFacts
      <3>2. journal' \in JournalRecords \cup {Empty} /\ pc' \in PCs
        BY <1>2, <2>2 DEF InstallerInv, TypeOK, PCs
      <3> QED
        BY <1>2, <1>5, <3>1, <3>2 DEF InstallerInv, TypeOK, private, background
    <2>4. CallInv'
      BY <2>1, <2>2 DEF CallInv, StagePCs, RestorePCs, RetirePCs
    <2>5. RetireInv' /\ LoopInv'
      BY <2>2, RetireFrame, LoopFrame DEF RetirePCs, StagePCs
    <2>6. RestoreInv'
      <3>1. CASE f = 1 /\ pc' = "folders" /\ cursor' = DirectoryCount
        <4>1. \A g \in Files : Back(g)'
          BY <1>5, <3>1, ManifestFacts
        <4> QED
          BY <2>1, <3>1, <4>1, ManifestFacts DEF RestoreInv
      <3>2. CASE f # 1 /\ pc' = "restore" /\ cursor' = f - 1 /\ f - 1 \in Files
        <4>1. \A g \in Files : g > cursor' => Back(g)'
          BY <1>1, <1>5, <3>2, ManifestFacts
        <4> QED
          BY <2>1, <3>2, <4>1 DEF RestoreInv
      <3> QED
        BY <2>2, <3>1, <3>2
    <2> QED
      BY <2>1, <2>3, <2>4, <2>5, <2>6 DEF InstallerInv
  <1>6. original[f] \in Bytes /\ Missing \in Bytes /\ live[f] \in Bytes
    BY DEF InstallerInv, TypeOK, Bytes
  <1>7. CASE /\ pc = "restore" /\ (Untouched(f) \/ StillLive(f))
             /\ PreviousFile("folders", DirectoryCount) /\ UNCHANGED live
    <2>1. Back(f)
      <3>1. FileInv(f)
        BY <1>1
      <3>2. CASE IsNoop(f)
        BY <1>1, <3>1, <3>2, PlanOld DEF FileInv, Same, Back, LeftArmed
      <3>3. CASE c < ActivationStep(f)
        BY <3>1, <3>3 DEF FileInv, Back
      <3>4. CASE /\ c = ActivationStep(f)
                 /\ Policy[f] # "Metadata" /\ staged[f] # Missing
        BY <3>1, <3>4 DEF FileInv, Back, Cut
      <3>5. CASE Policy[f] = "Preserve" /\ marker[f] = "existed"
        BY <3>1, <3>5 DEF FileInv, MarkerFor, Back
      <3>6. CASE StillLive(f)
        BY <1>1, <3>6, PlanOld DEF StillLive, Back
      <3> QED
        BY <1>7, <3>2, <3>3, <3>4, <3>5, <3>6 DEF Untouched
    <2>2. \A g \in Files : /\ FileInv(g)'
                           /\ Back(g) => Back(g)'
      BY <1>1, <1>2, <1>7
         DEF FileInv, HasMarker, Same, Back, LeftArmed, Cut, private, background
    <2>3. live' \in [Files -> Bytes]
      BY <1>7 DEF InstallerInv, TypeOK
    <2> QED
      BY <1>1, <1>5, <1>7, <2>1, <2>2, <2>3
  <1>8. CASE /\ pc = "restore" /\ ~Untouched(f) /\ ~StillLive(f)
             /\ HasSavedCopy(f)
             /\ live' = IF atomic_replace THEN live
                        ELSE [live EXCEPT ![f] = Missing]
             /\ pc' = "restore_rename" /\ UNCHANGED cursor
    <2>1. SavedCopy(f) = original[f]
      BY <1>1, <1>8, PlanOld DEF HasSavedCopy
    <2>2. /\ ~Same(f) /\ c >= ActivationStep(f) /\ Policy[f] # "Preserve"
          /\ ~(/\ c = ActivationStep(f)
               /\ Policy[f] # "Metadata" /\ staged[f] # Missing)
          /\ Policy[f] = "Metadata" => metadata_old[f] = original[f]
      <3>1. ~Same(f) /\ ~(c < ActivationStep(f))
            /\ ~(/\ c = ActivationStep(f)
                 /\ Policy[f] # "Metadata" /\ staged[f] # Missing)
        BY <1>1, <1>8, PlanOld DEF Untouched
      <3>2. Policy[f] # "Preserve"
        BY <1>8 DEF HasSavedCopy, Snapshotted
      <3>3. Policy[f] = "Metadata" => metadata_old[f] = original[f]
        BY <2>1 DEF SavedCopy
      <3> QED
        BY <1>1, <1>3, <3>1, <3>2, <3>3
    <2>3. /\ live' \in [Files -> Bytes] /\ \A g \in Files : FileInv(g)'
          /\ \A g \in Files : g > f => Back(g)'
      <3>1. CASE atomic_replace
        <4>1. \A g \in Files : FileInv(g)' /\ (Back(g) => Back(g)')
          BY <1>1, <1>2, <1>8, <3>1
             DEF FileInv, HasMarker, Same, Back, LeftArmed, Cut, private, background
        <4> QED
          BY <1>1, <1>8, <3>1, <4>1 DEF InstallerInv, TypeOK
      <3>2. CASE ~atomic_replace
        BY <1>4, <1>6, <1>8, <2>2, <3>2
      <3> QED
        BY <3>1, <3>2
    <2>4. /\ StepsInv' /\ FreshInv' /\ PlanInv' /\ FilesInv' /\ ForwardInv'
          /\ FolderInv' /\ RequestInv' /\ ~RolledBack' /\ ~NoPlans'
          /\ InState({"RollingBack"})' /\ request' = "active"
      BY <1>0, <1>2, <2>3, Restoring
    <2>5. TypeOK'
      <3>1. journal' \in JournalRecords \cup {Empty} /\ pc' \in PCs
            /\ cursor' \in 0 .. Len(Policy) + DirectoryCount + 1
        BY <1>2, <1>8 DEF InstallerInv, TypeOK, PCs
      <3> QED
        BY <1>2, <2>3, <3>1 DEF InstallerInv, TypeOK, private, background
    <2>6. CallInv'
      BY <1>8, <2>4 DEF CallInv, StagePCs, RestorePCs, RetirePCs
    <2>7. RetireInv' /\ LoopInv'
      BY <1>8, RetireFrame, LoopFrame DEF RetirePCs, StagePCs
    <2>8. RestoreInv'
      <3>1. SavedCopy(cursor)' = original'[cursor'] /\ cursor' = f /\ f \in Files
        BY <1>2, <1>8, <2>1 DEF SavedCopy, private, background
      <3> QED
        BY <1>8, <2>3, <2>4, <3>1 DEF RestoreInv
    <2> QED
      BY <2>4, <2>5, <2>6, <2>7, <2>8 DEF InstallerInv
  <1>9. ASSUME live' = [live EXCEPT ![f] = original[f]],
               PreviousFile("folders", DirectoryCount)
        PROVE  InstallerInv'
    <2>1. /\ live' \in [Files -> Bytes] /\ live'[f] = original[f]
          /\ \A g \in Files : FileInv(g)'
          /\ \A g \in Files : g > f => Back(g)'
      BY <1>4, <1>6, <1>9
    <2>2. Back(f)'
      BY <1>2, <2>1 DEF Back, background
    <2> QED
      BY <1>5, <1>9, <2>1, <2>2
  <1>10. CASE /\ pc = "restore_rename" /\ live' = [live EXCEPT ![f] = SavedCopy(f)]
              /\ PreviousFile("folders", DirectoryCount)
    <2>1. SavedCopy(f) = original[f]
      BY <1>10 DEF InstallerInv, RestoreInv
    <2> QED
      BY <1>9, <1>10, <2>1
  <1>11. CASE /\ pc = "restore" /\ ~Untouched(f) /\ AddedByUpdate(f)
              /\ live' = [live EXCEPT ![f] = Missing]
              /\ PreviousFile("folders", DirectoryCount)
    <2>1. original[f] = Missing
      <3>1. CASE Policy[f] \in Snapshotted \cup {"Metadata"}
        BY <1>1, <1>11, <3>1, PlanOld DEF AddedByUpdate
      <3>2. CASE Policy[f] = "Preserve"
        <4>1. marker[f] = "absent" /\ FileInv(f)
          BY <1>1, <1>11, <3>2 DEF AddedByUpdate, Marked
        <4> QED
          BY <4>1 DEF FileInv, MarkerFor
      <3> QED
        BY <3>1, <3>2, ManifestFacts DEF Policies, Snapshotted
    <2> QED
      BY <1>9, <1>11, <2>1
  <1> QED
    BY <1>7, <1>8, <1>10, <1>11

LEMMA RemoveCreatedDirectoriesStep ==
    ASSUME InstallerInv, RemoveCreatedDirectories PROVE InstallerInv'
  <1> USE DEF RemoveCreatedDirectories
  <1>1. /\ pc = "folders" /\ pc \in RestorePCs /\ cursor \in 0 .. DirectoryCount
        /\ \A f \in Files : Back(f)
    BY DEF InstallerInv, RestoreInv, RestorePCs
  <1>2. \A f \in Files : FileInv(f)' /\ Back(f)'
    <2>1. \A f \in Files : FileInv(f)
      BY <1>1, RestoreFacts
    <2> QED
      BY <1>1, <2>1
         DEF FileInv, HasMarker, Same, Back, LeftArmed, Cut, private, background
  <1>3. folder' \subseteq folder /\ original_folder \subseteq folder'
    <2>1. original_folder \subseteq folder /\ request = "active"
      BY <1>1, RestoreFacts DEF InstallerInv, FolderInv
    <2>2. CASE UNCHANGED folder
      BY <2>1, <2>2
    <2>3. CASE /\ cursor > 0 /\ folder_marker[cursor] = "absent"
               /\ folder' \in {folder, folder \ {cursor}}
      <3>1. cursor \in Directories
        BY <1>1, <2>3, ManifestFacts DEF Directories
      <3>2. cursor \notin original_folder
        BY <2>1, <2>3, <3>1 DEF InstallerInv, FolderInv, MarkerFor
      <3> QED
        BY <2>1, <2>3, <3>2
    <2> QED
      BY <2>2, <2>3
  <1>4. /\ StepsInv' /\ FreshInv' /\ PlanInv' /\ FilesInv' /\ ForwardInv'
        /\ FolderInv' /\ RequestInv' /\ ~RolledBack' /\ ~NoPlans'
        /\ InState({"RollingBack"})' /\ request' = "active"
    BY <1>1, <1>2, <1>3, Restoring
  <1>5. pc' \in {"folders", "idle"} /\ cursor' \in 0 .. DirectoryCount
    BY <1>1, ManifestFacts
  <1>6. TypeOK'
    <2>1. cursor' \in 0 .. Len(Policy) + DirectoryCount + 1
      BY <1>5, ManifestFacts
    <2>2. folder' \subseteq Directories /\ pc' \in PCs
      BY <1>3, <1>5 DEF InstallerInv, TypeOK, PCs
    <2> QED
      BY <2>1, <2>2 DEF InstallerInv, TypeOK, private, background
  <1>7. CallInv'
    BY <1>4, <1>5 DEF CallInv, StagePCs, RestorePCs, RetirePCs
  <1>8. RetireInv' /\ LoopInv'
    BY <1>5, RetireFrame, LoopFrame DEF RetirePCs, StagePCs
  <1>9. RestoreInv'
    BY <1>2, <1>4, <1>5 DEF RestoreInv
  <1> QED
    BY <1>4, <1>6, <1>7, <1>8, <1>9 DEF InstallerInv

LEMMA MarkIdleStep ==
    ASSUME InstallerInv, MarkIdle PROVE InstallerInv'
  <1> USE DEF MarkIdle, Return
  <1>1. /\ pc = "idle" /\ request = "active" /\ journal \in JournalRecords
        /\ journal.completed_steps \in Nat
    BY RestoreFacts
  <1>2. \A f \in Files : Back(f)
    BY <1>1 DEF InstallerInv, RestoreInv
  <1>3. Restored
    <2>1. PICK g \in Files : \A f \in Files :
             journal.completed_steps = ActivationStep(f) => f = g
      <3>1. CASE \E g \in Files : journal.completed_steps = ActivationStep(g)
        BY <3>1, StepsDiffer
      <3>2. CASE ~\E g \in Files : journal.completed_steps = ActivationStep(g)
        BY <3>2, ManifestFacts
      <3> QED
        BY <3>1, <3>2
    <2>2. \A f \in Files : \/ live[f] = original[f]
                           \/ LeftArmed(f)
                           \/ f = g /\ ~atomic_replace /\ live[f] = Missing
      BY <1>2, <2>1 DEF Back, Cut
    <2> QED
      BY <2>2 DEF Restored
  <1>4. Restored'
    BY <1>3 DEF Restored, LeftArmed, background
  <1> QED
    BY <1>1, <1>4, BecomesIdle

-----------------------------------------------------------------------------
(* Every step keeps the invariant. *)

LEMMA NextStep ==
    ASSUME InstallerInv, [Next]_vars PROVE InstallerInv'
  <1>1. CASE Step
    BY <1>1, InitializeJournalStep, BuildContentPlanStep, SnapshotFileStep,
       FinalizeContentPlanStep, StageFileStep, CheckpointStep,
       ActivateDirectoryStep, UnlinkReplacedStep, RenameStagedStep,
       JournalActivationStep, MarkStagedStep, ArmCandidateStep, MarkPendingStep,
       MarkCommittingStep, CommitMetadataStep, UnlinkActiveStep, CommitCandidateStep,
       JournalSelectorStep, MarkCommittedStep, MarkRollingBackStep,
       DisarmCandidateStep, RestoreFileStep, RemoveCreatedDirectoriesStep,
       MarkIdleStep, RetireFileStep, RetireMarkerStep, RetireStateStep,
       RetireJournalStep, DiscardRequestStep DEF Step
  <1>2. CASE Call
    BY <1>2, BeginTransactionStep, BeginStageStep, BeginArmStep,
       MarkCandidateHealthyStep, BeginCommitStep, BeginRollbackStep,
       RetainCommittedStep, DiscardArchiveStep, BeginRetireStep DEF Call
  <1>3. CASE Stop
    BY <1>3, StopStep
  <1>4. CASE UNCHANGED vars
    <2>1. active_selector \in {"published", "unlinked"}
      BY DEF InstallerInv, TypeOK
    <2> QED
      BY <1>4, <2>1, ActiveFrame DEF vars, background
  <1> QED
    BY <1>1, <1>2, <1>3, <1>4 DEF Next

\* The inductive invariant of one transaction: what the journal's step count
\* says of every file and directory, for every operation that may be running
\* and after every durable effect at which it may be cut off.
THEOREM InstallerInvariant == Spec => []InstallerInv
  <1>1. Init => InstallerInv
    BY InstallerInit
  <1>2. InstallerInv /\ [Next]_vars => InstallerInv'
    BY NextStep
  <1> QED
    BY <1>1, <1>2, PTL DEF Spec

\* The variables keep their types: the installer writes only records of the
\* journal's format and never leaves a file with bytes of its own making.
THEOREM TypeCorrect == Spec => []TypeOK
  <1>1. InstallerInv => TypeOK
    BY DEF InstallerInv
  <1> QED
    BY <1>1, InstallerInvariant, PTL

-----------------------------------------------------------------------------
(* The two ways a transaction may end. *)

LEMMA RestoredFacts ==
    ASSUME InstallerInv, RolledBack
    PROVE  Restored /\ original_folder \subseteq folder
  BY DEF InstallerInv, RestoreInv, FolderInv

\* With an atomic replace, a rollback that reports success has put back every
\* file of the manifest (Rollback and RestoreFile), wherever the cuts fell.
THEOREM RollbackIsExact == Spec => []RolledBackExactly
  <1>1. InstallerInv => RolledBackExactly
    BY RestoredFacts
       DEF RolledBackExactly, RestoredExactly, RolledBack, Restored
  <1> QED
    BY <1>1, InstallerInvariant, PTL

\* With a replace that is an unlink and a rename (the FAT file system's), the
\* only file a successful rollback can miss is the one file whose activation
\* was cut between the two, and that one is absent rather than wrong.
THEOREM RollbackLosesOneAtMost == Spec => []RolledBackButOne
  <1>1. ASSUME InstallerInv, RolledBack
        PROVE  LET lost == {f \in Files : live[f] # original[f] /\ ~LeftArmed(f)} IN
               /\ \A f \in lost : live[f] = Missing
               /\ Cardinality(lost) <= 1
    <2> DEFINE lost == {f \in Files : live[f] # original[f] /\ ~LeftArmed(f)}
    <2>1. PICK g \in Files : \A f \in Files :
             \/ live[f] = original[f]
             \/ LeftArmed(f)
             \/ f = g /\ ~atomic_replace /\ live[f] = Missing
      BY <1>1, RestoredFacts DEF Restored
    <2>2. lost \in SUBSET {g} /\ \A f \in lost : live[f] = Missing
      BY <2>1
    <2>3. IsFiniteSet({g}) /\ Cardinality({g}) = 1
      BY FS_Singleton
    <2>4. Cardinality(lost) <= 1
      BY <2>2, <2>3, FS_Subset
    <2> QED
      BY <2>2, <2>4
  <1>2. InstallerInv => RolledBackButOne
    BY <1>1 DEF RolledBackButOne, RolledBack
  <1> QED
    BY <1>2, InstallerInvariant, PTL

\* A transaction whose journal says Committed has installed every file of the
\* manifest and every directory (Commit, after Stage and Arm).
THEOREM CommitIsExact == Spec => []CommittedExactly
  <1>1. InstallerInv => CommittedExactly
    BY DEF InstallerInv, ForwardInv
  <1> QED
    BY <1>1, InstallerInvariant, PTL

-----------------------------------------------------------------------------
(* Until it ends. *)

\* A record that is not Idle is one that Rollback works on, or the first ones.
LEMMA NotIdle ==
    ASSUME InstallerInv, request = "active", ~RolledBack
    PROVE  Working \/ (Fresh /\ live = original)
  BY DEF Working, Fresh, InstallerInv, FreshInv

\* At every moment of a transaction, a cut included, the disk holds what
\* Rollback needs to put back each file that was touched: the plan, the
\* marker, and a copy of the old bytes with a known digest.
THEOREM AlwaysRecoverable == Spec => []Recoverable
  <1>1. ASSUME InstallerInv, InState(JournalStates \ {"Idle"}), request = "active",
               NEW f \in Files, live[f] # original[f]
        PROVE  KeepsOld(f) \/ (f = Selector /\ IsNoop(f))
    <2> DEFINE c == journal.completed_steps
    <2>1. Working
      BY <1>1, NotIdle DEF RolledBack, InState
    <2>2. FileInv(f) /\ c \in Nat
      BY <1>1, <2>1 DEF InstallerInv, FilesInv, TypeOK, Working, InState, JournalRecords
    <2>3. c >= 1
      BY <1>1, <2>2, StepGaps, StepPlaces DEF FileInv
    <2>4. /\ final_plan # NoPlan /\ ~NoPlans /\ HasMarker(f) /\ SnapshotKept(f)
          /\ Policy[f] \in Snapshotted /\ original[f] # Missing =>
                f \in final_plan.hashed
      BY <1>1, <2>1, <2>2, <2>3 DEF InstallerInv, PlanInv, FileInv, NoPlans
    <2>5. CASE Same(f)
      BY <1>1, <2>2, <2>4, <2>5, PlanOld DEF FileInv
    <2>6. CASE ~Same(f)
      <3>1. Plan = final_plan /\ Plan.old[f] = original[f]
        BY <1>1, <2>4, PlanOld DEF Plan
      <3>2. original[f] # Missing => Policy[f] # "Preserve"
        BY <1>1, <2>2 DEF FileInv
      <3>3. original[f] # Missing => SavedCopy(f) = original[f]
        <4>1. CASE Policy[f] = "Metadata"
          BY <1>1, <2>2, <4>1 DEF FileInv, SavedCopy
        <4>2. CASE Policy[f] \in Snapshotted
          BY <2>4, <2>6, <4>2 DEF SnapshotKept, Same, SavedCopy, Snapshotted
        <4> QED
          BY <3>2, <4>1, <4>2, ManifestFacts DEF Policies, Snapshotted
      <3>4. Policy[f] \in Marked => marker[f] = MarkerFor(original[f] # Missing)
        BY <2>2, <2>4, <2>6 DEF FileInv, HasMarker
      <3> QED
        BY <2>4, <3>1, <3>3, <3>4 DEF KeepsOld, DigestKnown
    <2> QED
      BY <2>5, <2>6
  <1>2. InstallerInv => Recoverable
    BY <1>1 DEF Recoverable
  <1> QED
    BY <1>2, InstallerInvariant, PTL

\* No kernel and no metadata file of the old installation is replaced before
\* the candidate has booted and reported healthy (Commit).
THEOREM OldSystemBoots == Spec => []BootUntilHealthy
  <1>1. ASSUME InstallerInv, NEW f \in Files, request = "active",
               Policy[f] \in {"Kernel", "Metadata"}, live[f] # original[f],
               atomic_replace \/ live[f] # Missing
        PROVE  journal # Empty /\ "CandidateHealthy" \in journal.flags
    <2>1. f # Selector
      BY <1>1, ManifestFacts
    <2>2. ~RolledBack
      BY <1>1, <2>1, RestoredFacts DEF Restored, LeftArmed
    <2>3. Working
      BY <1>1, <2>2, NotIdle
    <2>4. FileInv(f) /\ journal.completed_steps \in Nat /\ journal # Empty
      BY <1>1, <2>3
         DEF InstallerInv, FilesInv, TypeOK, Working, InState, JournalRecords
    <2>5. journal.completed_steps >= kernel_begin
      <3>1. journal.completed_steps >= ActivationStep(f)
        BY <1>1, <2>4, StepPlaces DEF FileInv
      <3>2. ActivationStep(f) >= kernel_begin /\ ActivationStep(f) \in Nat
        BY <1>1, StepPlaces, Layout
      <3> QED
        BY <2>4, <3>1, <3>2, Layout
    <2>6. CASE journal.state = "RollingBack"
      BY <1>1, <2>4, <2>5, <2>6 DEF InstallerInv, StepsInv
    <2>7. CASE journal.state # "RollingBack"
      BY <1>1, <2>3, <2>4, <2>5, <2>7, RollingBackSteps
    <2> QED
      BY <2>4, <2>6, <2>7
  <1>2. InstallerInv => BootUntilHealthy
    <2> SUFFICES ASSUME InstallerInv, NEW f \in Files,
                        Policy[f] \in {"Kernel", "Metadata"}, live[f] # original[f],
                        atomic_replace \/ live[f] # Missing
                 PROVE  \/ journal # Empty /\ "CandidateHealthy" \in journal.flags
                        \/ request # "active"
      BY DEF BootUntilHealthy
    <2> QED
      BY <1>1
  <1> QED
    BY <1>2, InstallerInvariant, PTL

-----------------------------------------------------------------------------
(* The records: what the orchestrator and the journal rely on. *)

\* The consent that Stage puts in the journal is the request's.
ConsentInv ==
    InState({"Discovered"}) => ("ResetRequired" \in journal.flags <=> ResetRequired)

\* The next record of the journal, as its handlers write it.
StateMoves ==
    {<<"Downloaded", "Prepared">>, <<"Prepared", "Staged">>,
     <<"Staged", "CandidatePending">>, <<"CandidatePending", "CandidateHealthy">>,
     <<"CandidateHealthy", "Committing">>, <<"Committing", "Committed">>}
       \cup {<<s, s>> : s \in {"Prepared", "Committing"}}
       \cup {<<s, "RollingBack">> : s \in RollbackStates \ {"RollingBack"}}

WritesMoved ==
    \E s \in JournalStates, F \in SUBSET (JournalFlags \ {"ResetApproved"}), n \in Nat :
       /\ journal # Empty /\ <<journal.state, s>> \in StateMoves
       /\ WriteTransition(Moved(journal, s, F, n))

JournalWrite ==
    \/ journal = Empty /\ journal' = MakeIdleJournalRecord(1)
    \/ /\ InState({"Idle"}) /\ journal.generation = 1
       /\ \E t \in Transactions :
             WriteTransition(Discovered(journal, t, ResetRequired, total))
    \/ InState({"Discovered"}) /\ WriteTransition(Downloaded(journal))
    \/ WritesMoved
    \/ /\ InState({"Discovered", "Downloaded", "RollingBack"})
       /\ WriteTransition(Idle(journal))
    \/ InState({"Idle", "Committed"}) /\ journal' = Empty

\* One of the common writes, by its states, flags and steps.
LEMMA Writes ==
    ASSUME journal # Empty, NEW s \in JournalStates,
           NEW F \in SUBSET (JournalFlags \ {"ResetApproved"}), NEW n \in Nat,
           <<journal.state, s>> \in StateMoves,
           WriteTransition(Moved(journal, s, F, n))
    PROVE  JournalWrite
  BY DEF JournalWrite, WritesMoved

\* Every step leaves the journal alone or writes one of these records.
LEMMA NextWrites ==
    ASSUME InstallerInv, [Next]_vars PROVE UNCHANGED journal \/ JournalWrite
  <1> USE DEF StateMoves, JournalStates, JournalFlags, RollbackStates
  <1>1. CASE InitializeJournal
    <2>1. pc = "initialize" /\ ~RolledBack
      BY <1>1 DEF InitializeJournal, InstallerInv, CallInv
    <2>2. InState({"Idle"}) => journal.generation = 1
      <3>1. InState({"Idle"}) =>
               journal.generation \in Nat /\ journal.generation # 0
        BY DEF InState, InstallerInv, TypeOK, StepsInv, RecordIsValid, JournalRecords
      <3> QED
        BY <2>1, <3>1 DEF RolledBack
    <2>3. ASSUME InState({"Downloaded"}), WriteTransition(Prepared(journal))
          PROVE  JournalWrite
      <3>1. /\ journal # Empty /\ <<journal.state, "Prepared">> \in StateMoves
            /\ WriteTransition(Moved(journal, "Prepared", {}, 0))
        BY <2>3 DEF InState, Prepared
      <3> QED
        BY <3>1, Writes
    <2> QED
      BY <1>1, <2>2, <2>3 DEF InitializeJournal, JournalWrite
  <1>2. ASSUME NEW n \in Nat, InState({"Prepared", "Committing"}),
               WriteTransition(Advanced(journal, n))
        PROVE  JournalWrite
    <2>1. /\ journal # Empty /\ <<journal.state, journal.state>> \in StateMoves
          /\ journal.state \in JournalStates
          /\ WriteTransition(Moved(journal, journal.state, {}, n))
      BY <1>2 DEF InState, Advanced
    <2> QED
      BY <2>1, Writes
  <1>3. CASE Checkpoint
    <2>1. InState({"Prepared", "Committing"}) /\ journal.completed_steps \in Nat
      BY <1>3, ActivateFacts DEF Checkpoint, InState
    <2>2. high_water - journal.completed_steps \in Nat
      BY <1>3, <2>1, Layout DEF Checkpoint
    <2> QED
      BY <1>2, <1>3, <2>1, <2>2 DEF Checkpoint
  <1>4. ASSUME NEW d \in Directories, ActivateDirectory(d)
        PROVE  UNCHANGED journal \/ JournalWrite
    <2>1. InState({"Prepared", "Committing"})
      BY <1>4, ActivateFacts DEF ActivateDirectory, FolderDue, InState
    <2> QED
      BY <1>2, <1>4, <2>1 DEF ActivateDirectory
  <1>5. ASSUME NEW f \in Files, JournalActivation(f) \/ CommitMetadata(f)
        PROVE  UNCHANGED journal \/ JournalWrite
    <2>1. Turn(f)
      BY <1>5 DEF JournalActivation, ActivationDue, CommitMetadata, MetadataDue, Turn
    <2>2. InState({"Prepared", "Committing"})
      BY <2>1, TurnFacts DEF InState
    <2> QED
      BY <1>2, <1>5, <2>2 DEF JournalActivation, CommitMetadata
  <1>6. ASSUME NEW s \in JournalStates,
               NEW F \in SUBSET (JournalFlags \ {"ResetApproved"}), NEW n \in Nat,
               journal # Empty, <<journal.state, s>> \in StateMoves,
               WriteTransition(Moved(journal, s, F, n))
        PROVE  JournalWrite
    BY <1>6, Writes
  <1>7. CASE MarkStaged
    <2>1. journal # Empty /\ journal.state = "Prepared"
      BY <1>7, ActivateFacts DEF MarkStaged
    <2>2. WriteTransition(Moved(journal, "Staged",
                                {"SnapshotComplete", "StagingComplete"}, 0))
      BY <1>7 DEF MarkStaged, Staged
    <2> QED
      BY <1>6, <2>1, <2>2
  <1>8. CASE MarkPending
    <2>1. journal # Empty /\ journal.state = "Staged"
      BY <1>8 DEF MarkPending, InstallerInv, CallInv, InState
    <2>2. WriteTransition(Moved(journal, "CandidatePending", {"TrybootArmed"}, 1))
      BY <1>8 DEF MarkPending, Pending
    <2> QED
      BY <1>6, <2>1, <2>2
  <1>9. CASE MarkCandidateHealthy
    <2>1. journal # Empty /\ journal.state = "CandidatePending"
      BY <1>9 DEF MarkCandidateHealthy, InState
    <2>2. WriteTransition(Moved(journal, "CandidateHealthy", {"CandidateHealthy"}, 1))
      BY <1>9 DEF MarkCandidateHealthy, Healthy
    <2> QED
      BY <1>6, <2>1, <2>2
  <1>10. CASE MarkCommitting \/ JournalSelector \/ MarkCommitted
    <2>1. journal # Empty
      BY <1>10 DEF MarkCommitting, JournalSelector, MarkCommitted, InstallerInv,
                   CallInv, InState
    <2>2. CASE MarkCommitting
      <3>1. WriteTransition(Moved(journal, "Committing", {}, 0))
            /\ journal.state = "CandidateHealthy"
        BY <2>2 DEF MarkCommitting, Committing
      <3> QED
        BY <1>6, <2>1, <3>1
    <2>3. CASE JournalSelector
      <3>1. WriteTransition(Moved(journal, "Committing", {"SelectorCommitted"}, 1))
            /\ journal.state = "Committing"
        BY <2>3 DEF JournalSelector, SelectorDone, InstallerInv, CallInv, InState
      <3> QED
        BY <1>6, <2>1, <3>1
    <2>4. CASE MarkCommitted
      <3>1. WriteTransition(Moved(journal, "Committed", {}, 0))
            /\ journal.state = "Committing"
        BY <2>4 DEF MarkCommitted, Committed
      <3> QED
        BY <1>6, <2>1, <3>1
    <2> QED
      BY <1>10, <2>2, <2>3, <2>4
  <1>11. CASE MarkRollingBack
    <2>1. journal # Empty
      BY <1>11 DEF MarkRollingBack, InstallerInv, CallInv, InState
    <2>2. ASSUME journal.state \in RollbackStates \ {"RollingBack"},
                 WriteTransition(RollingBack(journal))
          PROVE  JournalWrite
      <3>1. WriteTransition(Moved(journal, "RollingBack", {"RollbackRequested"}, 0))
        BY <2>2 DEF RollingBack
      <3> QED
        BY <1>6, <2>1, <2>2, <3>1
    <2>3. ASSUME NothingStarted, WriteTransition(Idle(journal))
          PROVE  JournalWrite
      BY <2>1, <2>3 DEF NothingStarted, JournalWrite, InState
    <2>4. NoPlanYet => journal.state \in RollbackStates \ {"RollingBack"}
      BY DEF NoPlanYet
    <2> QED
      BY <1>11, <2>2, <2>3, <2>4 DEF MarkRollingBack
  <1>12. CASE MarkIdle
    <2>1. InState({"Discovered", "Downloaded", "RollingBack"})
      BY <1>12 DEF MarkIdle, InstallerInv, CallInv, InState
    <2> QED
      BY <1>12, <2>1 DEF MarkIdle, JournalWrite
  <1>13. CASE RetireJournal
    <2>1. request \in {"inert", "committed"}
      BY <1>13 DEF RetireJournal, InstallerInv, CallInv, RetirePCs
    <2>2. journal = Empty \/ InState({"Idle", "Committed"})
      BY <2>1 DEF InstallerInv, RequestInv, InState
    <2> QED
      BY <1>13, <2>2 DEF RetireJournal, JournalWrite
  <1>14. CASE UNCHANGED vars
    BY <1>14 DEF vars
  <1>15. CASE Stop \/ (Call /\ ~MarkCandidateHealthy)
    BY <1>15 DEF Stop, Call, BeginTransaction, BeginStage, BeginArm, BeginCommit,
                 BeginRollback, RetainCommitted, DiscardArchive, BeginRetire
  <1>16. CASE BuildContentPlan \/ SnapshotFile \/ FinalizeContentPlan \/ StageFile
              \/ ArmCandidate \/ UnlinkActive \/ CommitCandidate
              \/ DisarmCandidate \/ RestoreFile
              \/ RemoveCreatedDirectories \/ RetireFile \/ RetireMarker
              \/ RetireState \/ DiscardRequest
    BY <1>16 DEF BuildContentPlan, SnapshotFile, FinalizeContentPlan, StageFile,
                 ArmCandidate, UnlinkActive, CommitCandidate, DisarmCandidate,
                 RestoreFile,
                 RemoveCreatedDirectories, RetireFile, RetireMarker, RetireState,
                 DiscardRequest
  <1>17. ASSUME NEW f \in Files, UnlinkReplaced(f) \/ RenameStaged(f)
         PROVE  UNCHANGED journal
    BY <1>17 DEF UnlinkReplaced, RenameStaged
  <1> QED
    BY <1>1, <1>3, <1>4, <1>5, <1>7, <1>8, <1>9, <1>10, <1>11, <1>12, <1>13, <1>14,
       <1>15, <1>16, <1>17 DEF Next, Step, Call

\* What a record is to the journal's rules, which JournalRegister states over.
LEMMA WriteKeepsType ==
    ASSUME InstallerInv, JournalWrite
    PROVE  \/ journal' \in JournalRecords
           \/ InState({"Idle", "Committed"}) /\ journal' = Empty
  <1> USE DEF JournalWrite
  <1>1. CASE journal = Empty /\ journal' = MakeIdleJournalRecord(1)
    BY <1>1 DEF MakeIdleJournalRecord, JournalRecords, JournalStates
  <1>2. ASSUME NEW t \in Transactions, InState({"Idle"}),
               WriteTransition(Discovered(journal, t, ResetRequired, total))
        PROVE  journal' \in JournalRecords
    <2>1. journal.generation \in Nat /\ total \in Nat
      BY <1>2, Layout DEF InState, InstallerInv, TypeOK, JournalRecords
    <2> QED
      BY <1>2, <2>1
         DEF WriteTransition, Discovered, JournalRecords, JournalStates, JournalFlags
  <1>3. ASSUME InState({"Discovered"}), WriteTransition(Downloaded(journal))
        PROVE  journal' \in JournalRecords
    <2> DEFINE F == DownloadedFlags \cup
                     (IF "ResetRequired" \in journal.flags THEN {"ResetApproved"} ELSE {})
    <2>1. /\ F \in SUBSET JournalFlags /\ "Downloaded" \in JournalStates
          /\ WriteTransition(Moved(journal, "Downloaded", F, 0))
          /\ journal \in JournalRecords
      BY <1>3 DEF DownloadedFlags, JournalFlags, JournalStates, Downloaded, InState,
                  InstallerInv, TypeOK
    <2> HIDE DEF F
    <2> QED
      BY <2>1, MovedRecord
  <1>4. CASE WritesMoved
    BY <1>4, MovedRecord DEF WritesMoved, InstallerInv, TypeOK
  <1>5. ASSUME InState({"Discovered", "Downloaded", "RollingBack"}),
               WriteTransition(Idle(journal))
        PROVE  journal' \in JournalRecords
    BY <1>5, IdleRecord DEF InState, InstallerInv, TypeOK
  <1> QED
    BY <1>1, <1>2, <1>3, <1>4, <1>5

LEMMA RegisterStep ==
    ASSUME InstallerInv, [Next]_vars PROVE [Register!Next]_journal
  <1>1. CASE UNCHANGED journal
    BY <1>1
  <1>2. CASE JournalWrite
    <2>1. CASE journal = Empty /\ journal' = MakeIdleJournalRecord(1)
      BY <2>1 DEF MakeIdleJournalRecord, Register!MakeIdleJournalRecord,
                  Register!Create, Register!Next
    <2>2. CASE InState({"Idle", "Committed"}) /\ journal' = Empty
      BY <2>2 DEF InState, Register!Retire, Register!Next
    <2>3. CASE ~(journal = Empty /\ journal' = MakeIdleJournalRecord(1))
               /\ ~(InState({"Idle", "Committed"}) /\ journal' = Empty)
      <3>1. journal # Empty /\ ValidateJournalTransition(journal, journal')
        BY <1>2, <2>3 DEF JournalWrite, WritesMoved, WriteTransition, InState
      <3>2. journal' \in JournalRecords
        BY <1>2, <2>3, WriteKeepsType
      <3>3. journal' \in Register!JournalRecords
        BY <3>2
           DEF JournalRecords, JournalStates, JournalFlags, Register!JournalRecords,
               Register!JournalStates, Register!JournalFlags
      <3>4. Register!ValidateJournalTransition(journal, journal')
        BY <3>1
           DEF ValidateJournalTransition, RecordIsValid, IdleIsBlank,
               RequiredFlagsForState, AllowedFlagsForState, ResetConsentGiven,
               StateEdgeAllowed, ForwardEdges, StagedFlags, DownloadedFlags,
               ConsentFlags, JournalFlags,
               Register!ValidateJournalTransition, Register!RecordIsValid,
               Register!IdleIsBlank, Register!RequiredFlagsForState,
               Register!AllowedFlagsForState, Register!ResetConsentGiven,
               Register!StateEdgeAllowed, Register!ForwardEdges,
               Register!StagedFlags, Register!DownloadedFlags,
               Register!ConsentFlags, Register!JournalFlags
      <3> QED
        BY <3>1, <3>3, <3>4 DEF Register!Transition, Register!Next
    <2> QED
      BY <2>1, <2>2, <2>3
  <1> QED
    BY <1>1, <1>2, NextWrites

-----------------------------------------------------------------------------
(* The two selectors, and whether a rollback can be finished. *)

\* The active selector is missing only while a commit is replacing it, or when
\* the rollback of that commit is about to ask for it.
ActiveInv ==
    active_selector = "unlinked" =>
       /\ InState({"Committing", "RollingBack"})
       /\ "TrybootArmed" \in journal.flags
       /\ InState({"Committing"}) => "SelectorCommitted" \notin journal.flags
       /\ pc \in {"ready", "commit", "rollback", "disarm"}

\* The candidate selector is armed by ArmCandidate and by nothing else.
SelectorInv ==
    /\ original[Selector] # "next"
    /\ InState({"Prepared"}) => live[Selector] # "next"
    /\ pc = "restore_rename" => original[cursor] # Missing
    /\ ActiveInv

\* The steps that write a record.
Recording ==
    \/ InitializeJournal \/ Checkpoint \/ MarkStaged \/ MarkPending
    \/ MarkCandidateHealthy \/ MarkCommitting \/ JournalSelector
    \/ MarkCommitted \/ MarkRollingBack \/ MarkIdle \/ RetireJournal
    \/ \E d \in Directories : ActivateDirectory(d)
    \/ \E f \in Files : JournalActivation(f) \/ CommitMetadata(f)

LEMMA Recorded ==
    ASSUME [Next]_vars, journal' # journal PROVE Recording
  <1>1. ASSUME NEW f \in Files, UnlinkReplaced(f) \/ RenameStaged(f) PROVE FALSE
    BY <1>1 DEF UnlinkReplaced, RenameStaged
  <1>2. CASE BuildContentPlan \/ SnapshotFile \/ FinalizeContentPlan \/ StageFile
             \/ ArmCandidate \/ UnlinkActive \/ CommitCandidate
             \/ DisarmCandidate \/ RestoreFile
             \/ RemoveCreatedDirectories \/ RetireFile \/ RetireMarker
             \/ RetireState \/ DiscardRequest
    BY <1>2 DEF BuildContentPlan, SnapshotFile, FinalizeContentPlan, StageFile,
                ArmCandidate, UnlinkActive, CommitCandidate, DisarmCandidate,
                RestoreFile, RemoveCreatedDirectories, RetireFile, RetireMarker,
                RetireState, DiscardRequest
  <1>3. CASE Stop \/ (Call /\ ~MarkCandidateHealthy) \/ UNCHANGED vars
    BY <1>3 DEF Stop, Call, BeginTransaction, BeginStage, BeginArm, BeginCommit,
                BeginRollback, RetainCommitted, DiscardArchive, BeginRetire, vars
  <1> QED
    BY <1>1, <1>2, <1>3 DEF Next, Step, Call, Recording

\* Records after Downloaded are written in the common form.
LEMMA LaterRecord ==
    ASSUME JournalWrite, journal' # Empty,
           journal'.state \notin {"Idle", "Discovered", "Downloaded"}
    PROVE  WritesMoved
  <1>1. CASE journal' = MakeIdleJournalRecord(1)
    BY <1>1 DEF MakeIdleJournalRecord
  <1>2. ASSUME NEW t \in Transactions,
               WriteTransition(Discovered(journal, t, ResetRequired, total))
        PROVE  FALSE
    BY <1>2 DEF WriteTransition, Discovered
  <1>3. CASE WriteTransition(Downloaded(journal))
    BY <1>3 DEF WriteTransition, Downloaded, Moved
  <1>4. CASE WriteTransition(Idle(journal))
    BY <1>4 DEF WriteTransition, Idle, MakeIdleJournalRecord
  <1> QED
    BY <1>1, <1>2, <1>3, <1>4 DEF JournalWrite

\* A step that writes the journal touches nothing that Undo depends on.
LEMMA WriteFrame ==
    ASSUME [Next]_vars, journal' # journal
    PROVE  UNCHANGED <<live, original, active_selector, prepared_plan, final_plan>>
  <1> USE DEF private, background
  <1>1. CASE InitializeJournal \/ Checkpoint \/ MarkStaged \/ MarkPending
             \/ MarkCommitting \/ JournalSelector \/ MarkCommitted
    BY <1>1 DEF InitializeJournal, Checkpoint, MarkStaged, MarkPending,
                MarkCommitting, JournalSelector, MarkCommitted
  <1>2. CASE MarkRollingBack \/ MarkIdle \/ RetireJournal \/ MarkCandidateHealthy
    BY <1>2 DEF MarkRollingBack, MarkIdle, RetireJournal, MarkCandidateHealthy
  <1>3. ASSUME NEW d \in Directories, ActivateDirectory(d)
        PROVE  UNCHANGED <<live, original, active_selector, prepared_plan, final_plan>>
    BY <1>3 DEF ActivateDirectory
  <1>4. ASSUME NEW f \in Files, JournalActivation(f) \/ CommitMetadata(f)
        PROVE  UNCHANGED <<live, original, active_selector, prepared_plan, final_plan>>
    BY <1>4 DEF JournalActivation, CommitMetadata
  <1> QED
    BY <1>1, <1>2, <1>3, <1>4, Recorded DEF Recording

\* Only Rollback writes RollingBack, and only its last step the record after.
LEMMA RollingBackOnly ==
    ASSUME InstallerInv, [Next]_vars, journal # Empty, journal' # Empty,
           journal.state # "RollingBack", journal'.state = "RollingBack"
    PROVE  MarkRollingBack
  <1> USE DEF WriteTransition, Moved
  <1>1. Recording
    BY Recorded
  <1>2. CASE InitializeJournal
    <2>1. CASE journal' = MakeIdleJournalRecord(1)
      BY <2>1 DEF MakeIdleJournalRecord
    <2>2. ASSUME NEW t, NEW reset, NEW n, WriteTransition(Discovered(journal, t, reset, n))
          PROVE  FALSE
      BY <2>2 DEF Discovered
    <2>3. CASE WriteTransition(Downloaded(journal))
      BY <2>3 DEF Downloaded
    <2>4. CASE WriteTransition(Prepared(journal))
      BY <2>4 DEF Prepared
    <2> QED
      BY <1>2, <2>1, <2>2, <2>3, <2>4 DEF InitializeJournal
  <1>3. CASE MarkStaged \/ MarkPending \/ MarkCandidateHealthy \/ MarkCommitting
             \/ JournalSelector \/ MarkCommitted
    BY <1>3 DEF MarkStaged, MarkPending, MarkCandidateHealthy, MarkCommitting,
           JournalSelector, MarkCommitted, Staged, Pending, Healthy, Committing,
           SelectorDone, Committed
  <1>4. CASE Checkpoint
    BY <1>4 DEF Checkpoint, Advanced
  <1>5. ASSUME NEW d \in Directories, ActivateDirectory(d) PROVE FALSE
    BY <1>5 DEF ActivateDirectory, Advanced
  <1>6. ASSUME NEW f \in Files, JournalActivation(f) \/ CommitMetadata(f)
        PROVE  FALSE
    BY <1>6 DEF JournalActivation, CommitMetadata, Advanced
  <1>7. CASE MarkIdle \/ RetireJournal
    BY <1>7 DEF MarkIdle, Idle, MakeIdleJournalRecord, RetireJournal
  <1> QED
    BY <1>1, <1>2, <1>3, <1>4, <1>5, <1>6, <1>7 DEF Recording

LEMMA RollingBackEnds ==
    ASSUME InstallerInv, [Next]_vars, journal' # journal, InState({"RollingBack"})
    PROVE  pc = "idle"
  <1>1. journal # Empty /\ journal.state = "RollingBack" /\ request = "active"
    BY DEF InState, InstallerInv, RequestInv, TypeOK
  <1>2. CASE InitializeJournal \/ Checkpoint \/ MarkStaged \/ MarkPending
             \/ MarkCandidateHealthy \/ MarkCommitting \/ JournalSelector
             \/ MarkCommitted
    BY <1>1, <1>2 DEF InitializeJournal, Checkpoint, MarkStaged, MarkPending,
           MarkCandidateHealthy, MarkCommitting, JournalSelector, MarkCommitted,
           InstallerInv, CallInv, InState, StagePCs
  <1>3. CASE MarkRollingBack
    BY <1>1, <1>3 DEF MarkRollingBack, NothingStarted, NoPlanYet
  <1>4. ASSUME NEW d \in Directories, ActivateDirectory(d) PROVE FALSE
    BY <1>1, <1>4, ActivateFacts DEF ActivateDirectory, FolderDue
  <1>5. ASSUME NEW f \in Files, JournalActivation(f) \/ CommitMetadata(f)
        PROVE  FALSE
    <2>1. Turn(f)
      BY <1>5 DEF JournalActivation, ActivationDue, CommitMetadata, MetadataDue, Turn
    <2> QED
      BY <1>1, <2>1, TurnFacts
  <1>6. CASE RetireJournal
    BY <1>1, <1>6 DEF RetireJournal, InstallerInv, CallInv, RetirePCs
  <1>7. CASE MarkIdle
    BY <1>7 DEF MarkIdle
  <1> QED
    BY <1>2, <1>3, <1>4, <1>5, <1>6, <1>7, Recorded DEF Recording

LEMMA ActiveStep ==
    ASSUME InstallerInv, ActiveInv, [Next]_vars PROVE ActiveInv'
  <1> USE DEF background
  <1> SUFFICES ASSUME active_selector' = "unlinked" PROVE ActiveInv'
    BY DEF ActiveInv
  <1>1. CASE UnlinkActive
    <2>1. /\ InState({"Committing"}) /\ pc = "commit" /\ pc' = pc
          /\ "SelectorCommitted" \notin journal.flags /\ UNCHANGED journal
      BY <1>1 DEF UnlinkActive, SelectorDue, InstallerInv, CallInv, InState
    <2>2. "TrybootArmed" \in journal.flags
      BY <2>1, FlagFacts DEF InState, InstallerInv, StepsInv
    <2> QED
      BY <2>1, <2>2 DEF ActiveInv, InState
  <1>2. CASE CommitCandidate
    BY <1>2 DEF CommitCandidate
  <1>3. ASSUME active_selector = "unlinked", ~UnlinkActive, ~CommitCandidate
        PROVE  ActiveInv'
    <2>1. /\ journal # Empty /\ journal.state \in {"Committing", "RollingBack"}
          /\ "TrybootArmed" \in journal.flags
          /\ journal.state = "Committing" => "SelectorCommitted" \notin journal.flags
          /\ pc \in {"ready", "commit", "rollback", "disarm"}
          /\ journal \in JournalRecords
      BY <1>3 DEF ActiveInv, InState, InstallerInv, TypeOK
    <2>2. ASSUME UNCHANGED journal, pc' \in {"ready", "commit", "rollback", "disarm"}
          PROVE  ActiveInv'
      BY <2>1, <2>2 DEF ActiveInv, InState
    <2>3. ASSUME NEW f \in Files, JournalActivation(f) \/ CommitMetadata(f)
          PROVE  ActiveInv'
      <3>1. pc = "commit" /\ pc' = pc /\ journal.state = "Committing"
        BY <2>1, <2>3 DEF JournalActivation, ActivationDue, CommitMetadata, MetadataDue
      <3>2. CASE UNCHANGED journal
        BY <2>2, <3>1, <3>2
      <3>3. CASE WriteTransition(Advanced(journal, 1))
        <4>1. /\ journal' # Empty /\ journal'.state = "Committing"
              /\ journal'.flags = journal.flags \cup {}
          <5>1. WriteTransition(Moved(journal, "Committing", {}, 1))
            BY <3>1, <3>3 DEF Advanced
          <5> QED
            BY <2>1, <5>1, MovedRecord DEF JournalStates
        <4> QED
          BY <2>1, <3>1, <4>1 DEF ActiveInv, InState
      <3> QED
        BY <2>3, <3>2, <3>3 DEF JournalActivation, CommitMetadata
    <2>4. CASE MarkRollingBack
      <3>1. pc' = "disarm"
            /\ (UNCHANGED journal \/ WriteTransition(RollingBack(journal)))
        BY <2>1, <2>4 DEF MarkRollingBack, NothingStarted, NoPlanYet
      <3>2. CASE WriteTransition(RollingBack(journal))
        <4>1. /\ journal' # Empty /\ journal'.state = "RollingBack"
              /\ journal'.flags = journal.flags \cup {"RollbackRequested"}
          <5>1. WriteTransition(Moved(journal, "RollingBack", {"RollbackRequested"}, 0))
            BY <3>2 DEF RollingBack
          <5> QED
            BY <2>1, <5>1, MovedRecord DEF JournalStates, JournalFlags
        <4> QED
          BY <2>1, <3>1, <4>1 DEF ActiveInv, InState
      <3> QED
        BY <2>2, <3>1, <3>2
    <2>5. CASE MarkCommitting \/ MarkCommitted \/ MarkCandidateHealthy
               \/ DisarmCandidate
      BY <1>3, <2>1, <2>5 DEF MarkCommitting, MarkCommitted, MarkCandidateHealthy,
                              DisarmCandidate, InState
    <2>6. ASSUME NEW f \in Files, UnlinkReplaced(f) \/ RenameStaged(f)
          PROVE  ActiveInv'
      BY <2>1, <2>2, <2>6 DEF UnlinkReplaced, RenameStaged
    <2>7. ASSUME NEW d \in Directories, ActivateDirectory(d) PROVE FALSE
      BY <2>1, <2>7 DEF ActivateDirectory, FolderDue
    <2>8. CASE Stop \/ BeginCommit \/ BeginRollback
      BY <2>2, <2>8 DEF Stop, Return, BeginCommit, BeginRollback
    <2>9. CASE BeginTransaction \/ BeginStage \/ BeginArm \/ RetainCommitted
               \/ DiscardArchive \/ BeginRetire
      BY <2>1, <2>9 DEF BeginTransaction, BeginStage, BeginArm, RetainCommitted,
                        DiscardArchive, BeginRetire, MayRetire, InState
    <2>10. CASE InitializeJournal \/ BuildContentPlan \/ SnapshotFile
                \/ FinalizeContentPlan \/ StageFile \/ Checkpoint \/ MarkStaged
                \/ ArmCandidate \/ MarkPending \/ JournalSelector
      BY <2>1, <2>10 DEF InitializeJournal, BuildContentPlan, SnapshotFile,
                FinalizeContentPlan, StageFile, Checkpoint, MarkStaged,
                ArmCandidate, MarkPending, JournalSelector
    <2>11. CASE RestoreFile \/ RemoveCreatedDirectories \/ MarkIdle \/ RetireFile
                \/ RetireMarker \/ RetireState \/ RetireJournal \/ DiscardRequest
      BY <2>1, <2>11 DEF RestoreFile, RemoveCreatedDirectories, MarkIdle, RetireFile,
                RetireMarker, RetireState, RetireJournal, DiscardRequest
    <2>12. CASE UNCHANGED vars
      BY <2>1, <2>2, <2>12 DEF vars
    <2> QED
      BY <1>3, <2>3, <2>4, <2>5, <2>6, <2>7, <2>8, <2>9, <2>10, <2>11, <2>12
         DEF Next, Step, Call
  <1>4. ~UnlinkActive /\ ~CommitCandidate => active_selector' = active_selector
    <2>1. CASE Step
      BY <2>1 DEF Step, InitializeJournal, BuildContentPlan, SnapshotFile,
             FinalizeContentPlan, StageFile, Checkpoint, ActivateDirectory,
             UnlinkReplaced, RenameStaged, JournalActivation, MarkStaged,
             ArmCandidate, MarkPending, MarkCommitting, CommitMetadata,
             JournalSelector, MarkCommitted, MarkRollingBack, DisarmCandidate,
             RestoreFile, RemoveCreatedDirectories, MarkIdle, RetireFile,
             RetireMarker, RetireState, RetireJournal, DiscardRequest
    <2>2. CASE Call \/ Stop \/ UNCHANGED vars
      BY <2>2 DEF Call, Stop, BeginTransaction, BeginStage, BeginArm,
             MarkCandidateHealthy, BeginCommit, BeginRollback, RetainCommitted,
             DiscardArchive, BeginRetire, vars
    <2> QED
      BY <2>1, <2>2 DEF Next
  <1> QED
    BY <1>1, <1>2, <1>3, <1>4

\* What the transaction found never names the temporary kernel.
LEMMA OriginalStep ==
    ASSUME [Next]_vars
    PROVE  \/ UNCHANGED original
           \/ /\ journal = Empty /\ journal' = Empty /\ pc' = "ready"
              /\ original'[Selector] # "next"
  <1> USE DEF background
  <1>1. CASE Step
    BY <1>1 DEF Step, InitializeJournal, BuildContentPlan, SnapshotFile,
           FinalizeContentPlan, StageFile, Checkpoint, ActivateDirectory,
           UnlinkReplaced, RenameStaged, JournalActivation, MarkStaged,
           ArmCandidate, MarkPending, MarkCommitting, CommitMetadata,
           UnlinkActive, CommitCandidate,
           JournalSelector, MarkCommitted, MarkRollingBack, DisarmCandidate,
           RestoreFile, RemoveCreatedDirectories, MarkIdle, RetireFile,
           RetireMarker, RetireState, RetireJournal, DiscardRequest
  <1>2. CASE BeginTransaction
    <2>1. live' \in Relabelled /\ original' = live'
      BY <1>2 DEF BeginTransaction
    <2>2. live'[Selector] \in {Missing, "old", "new"}
      BY <2>1, ManifestFacts DEF Relabelled
    <2> QED
      BY <1>2, <2>1, <2>2, InstallerAssumption DEF BeginTransaction
  <1>3. CASE (Call /\ ~BeginTransaction) \/ Stop \/ UNCHANGED vars
    BY <1>3 DEF Call, Stop, BeginStage, BeginArm,
           MarkCandidateHealthy, BeginCommit, BeginRollback, RetainCommitted,
           DiscardArchive, BeginRetire, vars
  <1> QED
    BY <1>1, <1>2, <1>3 DEF Next

LEMMA SelectorStep ==
    ASSUME InstallerInv, SelectorInv, [Next]_vars PROVE SelectorInv'
  <1>1. original'[Selector] # "next"
    BY OriginalStep DEF SelectorInv
  <1>2. InState({"Prepared"})' => live'[Selector] # "next"
    <2> SUFFICES ASSUME InState({"Prepared"})' PROVE live'[Selector] # "next"
      OBVIOUS
    <2>1. CASE journal' # journal
      <3>1. UNCHANGED live
        BY <2>1, WriteFrame
      <3>2. InState({"Downloaded", "Prepared"})
        <4>1. JournalWrite
          BY <2>1, NextWrites
        <4>2. journal'.state = "Prepared" /\ journal' # Empty
          BY DEF InState
        <4>3. CASE WritesMoved
          BY <4>2, <4>3 DEF WritesMoved, WriteTransition, Moved, StateMoves,
                            RollbackStates, InState
        <4> QED
          BY <4>1, <4>2, <4>3, LaterRecord
      <3>3. CASE InState({"Prepared"})
        BY <3>1, <3>3 DEF SelectorInv
      <3>4. CASE InState({"Downloaded"})
        <4>1. Fresh
          BY <3>4 DEF InState, Fresh, RolledBack, RollbackStates, InstallerInv,
                      RequestInv, TypeOK
        <4> QED
          BY <3>1, <4>1 DEF InstallerInv, FreshInv, SelectorInv
      <3> QED
        BY <3>2, <3>3, <3>4 DEF InState
    <2>2. CASE UNCHANGED journal
      <3>1. /\ journal # Empty /\ journal.state = "Prepared"
            /\ live[Selector] # "next" /\ Selector \in Files
            /\ live \in [Files -> Bytes] /\ Missing # "next"
        BY <2>2, ManifestFacts, InstallerAssumption
           DEF InState, SelectorInv, InstallerInv, TypeOK
      <3>2. ASSUME NEW f \in Files, UnlinkReplaced(f)
            PROVE  live'[Selector] # "next"
        BY <3>1, <3>2 DEF UnlinkReplaced
      <3>3. ASSUME NEW f \in Files, RenameStaged(f)
            PROVE  live'[Selector] # "next"
        <4>1. Turn(f)
          BY <3>3 DEF RenameStaged, ActivationDue, Turn
        <4>2. staged[f] # "next"
          BY <3>1, <4>1, TurnFacts DEF FileInv
        <4> QED
          BY <3>1, <3>3, <4>2 DEF RenameStaged
      <3>4. CASE ArmCandidate \/ CommitCandidate \/ DisarmCandidate \/ RestoreFile
        BY <3>1, <3>4 DEF ArmCandidate, CommitCandidate, SelectorDue, DisarmCandidate,
               RestoreFile, InstallerInv, CallInv, InState, RestorePCs
      <3>5. ASSUME NEW f \in Files, CommitMetadata(f)
            PROVE  live'[Selector] # "next"
        BY <3>1, <3>5 DEF CommitMetadata, MetadataDue
      <3>6. CASE BeginTransaction
        BY <3>1, <3>6 DEF BeginTransaction
      <3>7. ASSUME ~(ArmCandidate \/ CommitCandidate \/ DisarmCandidate \/ RestoreFile),
                   ~BeginTransaction,
                   \A f \in Files : ~UnlinkReplaced(f) /\ ~RenameStaged(f)
                                    /\ ~CommitMetadata(f)
            PROVE  UNCHANGED live
        <4>1. CASE Step
          BY <3>7, <4>1 DEF Step, InitializeJournal, BuildContentPlan, SnapshotFile,
             FinalizeContentPlan, StageFile, Checkpoint, ActivateDirectory,
             JournalActivation, MarkStaged, MarkPending, MarkCommitting,
             UnlinkActive, JournalSelector, MarkCommitted, MarkRollingBack,
             RemoveCreatedDirectories, MarkIdle, RetireFile,
             RetireMarker, RetireState, RetireJournal, DiscardRequest
        <4>2. CASE Call \/ Stop \/ UNCHANGED vars
          BY <3>7, <4>2 DEF Call, Stop, BeginStage, BeginArm,
             MarkCandidateHealthy, BeginCommit, BeginRollback, RetainCommitted,
             DiscardArchive, BeginRetire, vars
        <4> QED
          BY <4>1, <4>2 DEF Next
      <3> QED
        BY <3>1, <3>2, <3>3, <3>4, <3>5, <3>6, <3>7
    <2> QED
      BY <2>1, <2>2
  <1>3. pc' = "restore_rename" => original'[cursor'] # Missing
    <2> SUFFICES ASSUME pc' = "restore_rename" PROVE original'[cursor'] # Missing
      OBVIOUS
    <2>1. UNCHANGED original
      BY OriginalStep
    <2>2. RestoreFile \/ UNCHANGED <<pc, cursor>>
      <3>1. CASE Step
        BY <3>1 DEF Step, InitializeJournal, BuildContentPlan, SnapshotFile,
           FinalizeContentPlan, StageFile, Checkpoint, ActivateDirectory,
           UnlinkReplaced, RenameStaged, JournalActivation, MarkStaged,
           ArmCandidate, MarkPending, MarkCommitting, CommitMetadata,
           UnlinkActive, CommitCandidate, NextFile, Return, memory,
           JournalSelector, MarkCommitted, MarkRollingBack, DisarmCandidate,
           RemoveCreatedDirectories, MarkIdle, RetireFile,
           RetireMarker, RetireState, RetireJournal, DiscardRequest
      <3>2. CASE Call \/ Stop \/ UNCHANGED vars
        BY <3>2 DEF Call, Stop, Return, BeginTransaction, BeginStage, BeginArm,
           MarkCandidateHealthy, BeginCommit, BeginRollback, RetainCommitted,
           DiscardArchive, BeginRetire, vars, memory
      <3> QED
        BY <3>1, <3>2 DEF Next
    <2>3. CASE UNCHANGED <<pc, cursor>>
      BY <2>1, <2>3 DEF SelectorInv
    <2>4. CASE RestoreFile
      <3>1. pc = "restore" /\ HasSavedCopy(cursor) /\ cursor' = cursor
        BY <2>4 DEF RestoreFile, PreviousFile
      <3>2. ~NoPlans /\ cursor \in Files
        BY <3>1, RestoreFacts DEF RestorePCs, InstallerInv, RestoreInv
      <3> QED
        BY <2>1, <3>1, <3>2, PlanOld DEF HasSavedCopy
    <2> QED
      BY <2>2, <2>3, <2>4
  <1> QED
    BY <1>1, <1>2, <1>3, ActiveStep DEF SelectorInv

\* Where no window is open the rollback is free.
LEMMA UndoFree ==
    ASSUME SelectorInv, ~InState({"Staged", "Committing", "RollingBack"})
    PROVE  Undo = "free"
  BY DEF SelectorInv, ActiveInv, Undo, ArmedUnrecorded, ActiveLost, NoPlanLeft, InState

\* Rolling back, only the end of the call can change what Undo says.
LEMMA UndoRollingBack ==
    ASSUME InstallerInv, SelectorInv, [Next]_vars, UNCHANGED journal,
           InState({"RollingBack"})
    PROVE  Undo' = Undo \/ (Undo = "once" /\ Undo' = "barred")
  <1> USE DEF private, background
  <1>1. /\ journal # Empty /\ journal.state = "RollingBack" /\ Selector \in Files
        /\ live \in [Files -> Bytes] /\ Missing # "next" /\ Missing # "new"
        /\ request = "active" /\ journal' = journal
    BY ManifestFacts, InstallerAssumption
       DEF InState, InstallerInv, TypeOK, RequestInv
  <1>2. /\ UNCHANGED <<original, active_selector, prepared_plan, final_plan>>
        /\ pc' = "idle" => pc \in {"idle", "folders"}
        /\ UNCHANGED live \/ DisarmCandidate \/ RestoreFile
    <2>1. ASSUME NEW f \in Files, UnlinkReplaced(f) \/ RenameStaged(f)
                                  \/ JournalActivation(f) \/ CommitMetadata(f)
          PROVE  FALSE
      <3>1. Turn(f)
        BY <2>1 DEF UnlinkReplaced, RenameStaged, JournalActivation, ActivationDue,
                    CommitMetadata, MetadataDue, Turn
      <3> QED
        BY <1>1, <3>1, TurnFacts
    <2>2. ASSUME NEW d \in Directories, ActivateDirectory(d) PROVE FALSE
      BY <1>1, <2>2, ActivateFacts DEF ActivateDirectory, FolderDue
    <2>3. CASE InitializeJournal \/ BuildContentPlan \/ SnapshotFile
               \/ FinalizeContentPlan \/ StageFile \/ Checkpoint \/ MarkStaged
      BY <1>1, <2>3 DEF InitializeJournal, BuildContentPlan, SnapshotFile,
             FinalizeContentPlan, StageFile, Checkpoint, MarkStaged, InstallerInv,
             CallInv, InState, StagePCs
    <2>4. CASE ArmCandidate \/ MarkPending \/ MarkCommitting \/ UnlinkActive
               \/ CommitCandidate \/ JournalSelector \/ MarkCommitted
               \/ MarkCandidateHealthy
      BY <1>1, <2>4 DEF ArmCandidate, MarkPending, MarkCommitting, UnlinkActive,
             CommitCandidate, SelectorDue, JournalSelector, MarkCommitted,
             MarkCandidateHealthy, InstallerInv, CallInv, InState
    <2>5. CASE MarkRollingBack
      BY <1>1, <2>5 DEF MarkRollingBack, NothingStarted, NoPlanYet
    <2>6. CASE DisarmCandidate \/ RestoreFile \/ RemoveCreatedDirectories \/ MarkIdle
      BY <2>6 DEF DisarmCandidate, RestoreFile, PreviousFile,
             RemoveCreatedDirectories, MarkIdle, Return
    <2>7. CASE RetireFile \/ RetireMarker \/ RetireState \/ RetireJournal
               \/ DiscardRequest
      BY <1>1, <2>7 DEF RetireFile, RetireMarker, RetireState, RetireJournal,
             DiscardRequest, InstallerInv, CallInv, RetirePCs
    <2>8. CASE Stop \/ (Call /\ ~MarkCandidateHealthy) \/ UNCHANGED vars
      BY <1>1, <2>8 DEF Stop, Return, Call, BeginTransaction, BeginStage, BeginArm,
             BeginCommit, BeginRollback, RetainCommitted, DiscardArchive,
             BeginRetire, vars
    <2> QED
      BY <2>1, <2>2, <2>3, <2>4, <2>5, <2>6, <2>7, <2>8 DEF Next, Step, Call
  <1>3. pc = "folders" => ~NoPlanLeft
    BY RestoreFacts DEF RestorePCs, NoPlanLeft, NoPlans
  <1>4. NoPlanLeft' = NoPlanLeft
    BY <1>1, <1>2 DEF NoPlanLeft, InState
  <1>5. ArmedUnrecorded' = ArmedUnrecorded
    <2>1. CASE UNCHANGED live
      BY <1>1, <1>2, <2>1 DEF ArmedUnrecorded, InState
    <2>2. CASE DisarmCandidate
      <3>1. "TrybootArmed" \in journal.flags
        BY <2>2 DEF DisarmCandidate, InstallerInv, CallInv
      <3> QED
        BY <1>1, <3>1 DEF ArmedUnrecorded, InState
    <2>3. CASE RestoreFile
      <3>1. pc \in {"restore", "restore_rename"} /\ cursor \in Files /\ ~NoPlans
            /\ (pc = "restore_rename" => SavedCopy(cursor) = original[cursor]
                                         /\ original[cursor] # Missing)
        <4>1. pc \in {"restore", "restore_rename"}
          BY <2>3 DEF RestoreFile
        <4> QED
          BY <4>1, RestoreFacts DEF RestorePCs, InstallerInv, RestoreInv, SelectorInv
      <3>2. CASE original[Selector] # Missing
        BY <1>1, <1>2, <3>2 DEF ArmedUnrecorded
      <3>3. CASE original[Selector] = Missing
        <4>1. ~HasSavedCopy(Selector)
          BY <1>1, <3>1, <3>3, PlanOld DEF HasSavedCopy, Marked, Snapshotted
        <4>2. ASSUME cursor = Selector
              PROVE  live'[Selector] = "next" <=> live[Selector] = "next"
          <5>1. pc = "restore"
            BY <3>1, <3>3, <4>2
          <5> QED
            BY <1>1, <2>3, <4>1, <4>2, <5>1 DEF RestoreFile
        <4>3. ASSUME cursor # Selector
              PROVE  live'[Selector] = live[Selector]
          BY <1>1, <2>3, <3>1, <4>3 DEF RestoreFile
        <4> QED
          BY <1>1, <1>2, <4>2, <4>3 DEF ArmedUnrecorded, InState
      <3> QED
        BY <3>2, <3>3
    <2> QED
      BY <1>2, <2>1, <2>2, <2>3
  <1> QED
    BY <1>2, <1>3, <1>4, <1>5 DEF Undo, ActiveLost

\* The record a step writes and what it means for the rollback.
LEMMA UndoWrites ==
    ASSUME InstallerInv, SelectorInv, SelectorInv', [Next]_vars, journal' # journal
    PROVE  /\ InState({"Prepared"}) /\ InState({"Staged"})' => Undo' = "free"
           /\ InState({"CandidateHealthy"}) /\ InState({"Committing"})' =>
                 Undo' = "free"
           /\ InState({"Committing"}) /\ InState({"Committing"})' => Undo' = Undo
           /\ ~InState({"RollingBack"}) /\ InState({"RollingBack"})' =>
                 Undo' = Undo \/ (InState({"Prepared"}) /\ Undo' = "once")
           /\ InState({"RollingBack"}) => Undo # "barred"
  <1>1. UNCHANGED <<live, original, active_selector, prepared_plan, final_plan>>
    BY WriteFrame
  <1>2. InState({"Prepared"}) /\ InState({"Staged"})' => Undo' = "free"
    BY <1>1 DEF SelectorInv, ActiveInv, InState, Undo, ArmedUnrecorded, ActiveLost,
                NoPlanLeft
  <1>3. InState({"CandidateHealthy"}) /\ InState({"Committing"})' => Undo' = "free"
    BY <1>1 DEF SelectorInv, ActiveInv, InState, Undo, ArmedUnrecorded, ActiveLost,
                NoPlanLeft
  <1>4. InState({"Committing"}) /\ InState({"Committing"})' => Undo' = Undo
    BY <1>1 DEF InState, Undo, ArmedUnrecorded, ActiveLost, NoPlanLeft
  <1>5. ASSUME ~InState({"RollingBack"}), InState({"RollingBack"})'
        PROVE  Undo' = Undo \/ (InState({"Prepared"}) /\ Undo' = "once")
    <2>1. /\ JournalWrite /\ journal' # Empty /\ journal'.state = "RollingBack"
      BY <1>5, NextWrites DEF InState
    <2>2. WritesMoved
      BY <2>1, LaterRecord
    <2>3. PICK F \in SUBSET JournalFlags, n \in Nat :
             /\ journal # Empty
             /\ journal.state \in RollbackStates \ {"RollingBack"}
             /\ WriteTransition(Moved(journal, "RollingBack", F, n))
      <3>1. PICK s \in JournalStates,
                 F \in SUBSET (JournalFlags \ {"ResetApproved"}), n \in Nat :
               /\ journal # Empty /\ <<journal.state, s>> \in StateMoves
               /\ WriteTransition(Moved(journal, s, F, n))
        BY <2>2 DEF WritesMoved
      <3>2. s = "RollingBack"
        BY <2>1, <3>1 DEF WriteTransition, Moved
      <3> QED
        BY <1>5, <3>1, <3>2 DEF StateMoves, InState
    <2>4. /\ MarkRollingBack /\ journal.state # "RollingBack"
          /\ journal.state # "Idle"
      BY <1>1, <1>5, <2>1, <2>3, RollingBackOnly DEF InState, RollbackStates
    <2>5. /\ RecordIsValid(journal) /\ journal \in JournalRecords
          /\ RecordIsValid(journal')
          /\ ~NothingStarted
      BY <2>3, MovedRecord DEF InstallerInv, TypeOK, NothingStarted, JournalStates,
                               RollbackStates
    <2>6. CASE NoPlanYet
      <3>1. journal.state = "Prepared" /\ NoPlanLeft' /\ pc' = "idle"
        BY <1>1, <1>5, <2>4, <2>5, <2>6
           DEF MarkRollingBack, NoPlanYet, NoPlanLeft
      <3>2. ~ArmedUnrecorded' /\ ~ActiveLost'
        BY <1>1, <2>3, <3>1 DEF SelectorInv, ActiveInv, InState, ArmedUnrecorded,
                                ActiveLost
      <3> QED
        BY <2>3, <3>1, <3>2 DEF Undo, InState
    <2>7. CASE ~NoPlanYet
      <3>1. PlanLoads
        BY <2>4, <2>5, <2>7 DEF MarkRollingBack
      <3>2. ~NoPlanLeft' /\ ~NoPlanLeft
        BY <1>1, <1>5, <3>1 DEF PlanLoads, LoadContentPlan, NoPlanLeft
      <3>3. ArmedUnrecorded' = ArmedUnrecorded
        <4>1. "TrybootArmed" \in journal'.flags <=> "TrybootArmed" \in journal.flags
          <5>1. WriteTransition(Moved(journal, "RollingBack", {"RollbackRequested"}, 0))
            BY <2>4, <2>5, <2>7 DEF MarkRollingBack, RollingBack
          <5>2. journal'.flags = journal.flags \cup {"RollbackRequested"}
            BY <2>5, <5>1, MovedRecord DEF JournalStates, JournalFlags
          <5> QED
            BY <5>2
        <4>2. "TrybootArmed" \notin journal.flags =>
                 journal.state \in {"Prepared", "Staged"}
          BY <2>3, <2>5, FlagFacts DEF RollbackStates
        <4>3. CASE "TrybootArmed" \in journal.flags
          BY <4>1, <4>3 DEF ArmedUnrecorded
        <4>4. CASE journal.state = "Prepared"
          BY <1>1, <2>3, <4>4 DEF ArmedUnrecorded, SelectorInv, InState
        <4>5. CASE journal.state = "Staged"
          BY <1>1, <1>5, <2>3, <4>1, <4>5 DEF ArmedUnrecorded, InState
        <4> QED
          BY <4>2, <4>3, <4>4, <4>5
      <3> QED
        BY <1>1, <3>2, <3>3 DEF Undo, ActiveLost
    <2> QED
      BY <2>6, <2>7
  <1>6. ASSUME InState({"RollingBack"}) PROVE Undo # "barred"
    <2>1. pc = "idle"
      BY <1>6, RollingBackEnds
    <2>2. ~ActiveLost
      BY <2>1 DEF ActiveLost, SelectorInv, ActiveInv
    <2>3. Back(Selector) /\ Missing \notin {"next", "new"}
      BY <2>1, ManifestFacts, InstallerAssumption DEF InstallerInv, RestoreInv
    <2>4. ~ArmedUnrecorded
      BY <2>3 DEF ArmedUnrecorded, Back, LeftArmed, Cut
    <2> QED
      BY <2>1, <2>2, <2>4 DEF Undo
  <1> QED
    BY <1>2, <1>3, <1>4, <1>5, <1>6

-----------------------------------------------------------------------------
\* A write of the common form, as the contract sees it.
LEMMA ProjectMoved ==
    ASSUME InstallerInv, journal # Empty, journal.state # "Idle",
           NEW s \in JournalStates \ {"Idle"}, NEW F \in SUBSET JournalFlags,
           NEW n \in Nat, WriteTransition(Moved(journal, s, F, n))
    PROVE  /\ journal.transaction \in Transactions
           /\ Projection = [state |-> journal.state, owner |-> journal.transaction,
                            approved |-> "ResetApproved" \in journal.flags]
           /\ Projection' = [state |-> s, owner |-> journal.transaction,
                             approved |-> "ResetApproved" \in journal.flags \cup F]
           /\ Projection # Empty
  <1>1. /\ journal \in JournalRecords /\ RecordIsValid(journal)
        /\ journal' # Empty /\ journal'.state = s
        /\ journal'.flags = journal.flags \cup F
        /\ journal'.transaction = journal.transaction
    BY MovedRecord DEF InstallerInv, TypeOK
  <1>2. journal.transaction \in Transactions
    BY <1>1 DEF RecordIsValid, JournalRecords
  <1>3. Projection = [state |-> journal.state, owner |-> journal.transaction,
                      approved |-> "ResetApproved" \in journal.flags]
    BY DEF Projection
  <1>4. Projection' = [state |-> s, owner |-> journal.transaction,
                       approved |-> "ResetApproved" \in journal.flags \cup F]
    BY <1>1 DEF Projection
  <1>5. Projection \in Contract!ContractRecords
    <2>1. journal.state \in Contract!OwnedStates
      BY <1>1 DEF JournalRecords, JournalStates, Contract!OwnedStates
    <2>2. ("ResetApproved" \in journal.flags) \in BOOLEAN
      OBVIOUS
    <2> QED
      BY <1>2, <1>3, <2>1, <2>2 DEF Contract!ContractRecords
  <1> QED
    BY <1>2, <1>3, <1>4, <1>5, EmptyAssumption

\* The record of a rolled-back transaction, as the contract sees it.
LEMMA ProjectIdle ==
    ASSUME InstallerInv, InState({"Idle"})
    PROVE  /\ Projection = Contract!Blank(IF journal.generation = 1
                                          THEN "Anchor" ELSE "Idle")
           /\ Projection # Empty
  <1>1. IdleIsBlank(journal) /\ journal # Empty /\ journal.state = "Idle"
    BY DEF InState, InstallerInv, StepsInv, RecordIsValid
  <1>2. Projection = Contract!Blank(IF journal.generation = 1
                                    THEN "Anchor" ELSE "Idle")
    <2>1. ("ResetApproved" \in journal.flags) = FALSE
      BY <1>1 DEF IdleIsBlank
    <2> QED
      BY <1>1, <2>1 DEF Projection, IdleIsBlank, Contract!Blank
  <1>3. Projection \in Contract!ContractRecords
    BY <1>2 DEF Contract!Blank, Contract!ContractRecords
  <1> QED
    BY <1>2, <1>3, EmptyAssumption

LEMMA ContractStep ==
    ASSUME InstallerInv, ConsentInv, SelectorInv, [Next]_vars
    PROVE  [Contract!ContractNext]_<<Projection, Undo>> /\ ConsentInv'
  <1> USE DEF Contract!At, Contract!Owns, Contract!MoveTo, Contract!OwnedStates
  <1>0. SelectorInv'
    BY SelectorStep
  <1>1. CASE UNCHANGED journal
    <2>1. UNCHANGED Projection /\ ConsentInv'
      BY <1>1 DEF Projection, ConsentInv, InState
    <2>2. CASE InState({"RollingBack"})
      <3>1. Undo' = Undo \/ (Undo = "once" /\ Undo' = "barred")
        BY <1>1, <2>2, UndoRollingBack
      <3> QED
        BY <2>1, <3>1 DEF Contract!ContractNext, Contract!InterruptJournal,
                          Contract!Interrupted
    <2>3. CASE InState({"Staged", "Committing"})
      <3>1. Undo \in {"free", "barred"} /\ Undo' \in {"free", "barred"}
        BY <1>1, <2>3 DEF Undo, NoPlanLeft, InState
      <3>2. /\ journal.transaction \in Transactions /\ Projection # Empty
            /\ Projection = [state |-> journal.state, owner |-> journal.transaction,
                             approved |-> "ResetApproved" \in journal.flags]
            /\ journal.state \in {"Staged", "Committing"}
        <4>1. /\ journal \in JournalRecords /\ journal # Empty
              /\ RecordIsValid(journal) /\ journal.state \in {"Staged", "Committing"}
          BY <2>3 DEF InState, InstallerInv, TypeOK, StepsInv
        <4>2. journal.transaction \in Transactions
          BY <4>1 DEF RecordIsValid, JournalRecords
        <4>3. Projection = [state |-> journal.state, owner |-> journal.transaction,
                            approved |-> "ResetApproved" \in journal.flags]
          BY <4>1 DEF Projection
        <4>4. Projection \in Contract!ContractRecords
          <5>1. ("ResetApproved" \in journal.flags) \in BOOLEAN
            OBVIOUS
          <5> QED
            BY <4>1, <4>2, <4>3, <5>1 DEF Contract!ContractRecords
        <4> QED
          BY <4>1, <4>2, <4>3, <4>4, EmptyAssumption
      <3>3. CASE Undo = "free" /\ Undo' = "barred"
        <4>1. \/ Contract!ArmJournal(journal.transaction)
              \/ Contract!CommitJournal(journal.transaction)
          BY <2>1, <3>2, <3>3 DEF Contract!ArmJournal, Contract!CommitJournal
        <4> QED
          BY <2>1, <3>2, <4>1 DEF Contract!ContractNext
      <3>4. CASE Undo = "barred" /\ Undo' = "free"
        <4>1. Contract!RepairJournal(journal.transaction)
          BY <2>1, <3>2, <3>4 DEF Contract!RepairJournal
        <4> QED
          BY <2>1, <3>2, <4>1 DEF Contract!ContractNext
      <3> QED
        BY <2>1, <3>1, <3>3, <3>4
    <2>4. CASE ~InState({"Staged", "Committing", "RollingBack"})
      <3>1. ~InState({"Staged", "Committing", "RollingBack"})'
        BY <1>1, <2>4 DEF InState
      <3>2. Undo = "free"
        BY <2>4, UndoFree
      <3>3. Undo' = "free"
        BY <1>0, <3>1 DEF SelectorInv, ActiveInv, Undo, ArmedUnrecorded, ActiveLost,
                          NoPlanLeft, InState
      <3> QED
        BY <2>1, <3>2, <3>3
    <2> QED
      BY <2>2, <2>3, <2>4 DEF InState
  <1>9. ASSUME ~InState({"Staged", "Committing", "RollingBack"}) PROVE Undo = "free"
    BY <1>9, UndoFree
  <1>10. ASSUME ~InState({"Staged", "Committing", "RollingBack"})' PROVE Undo' = "free"
    BY <1>0, <1>10 DEF SelectorInv, ActiveInv, Undo, ArmedUnrecorded, ActiveLost,
                       NoPlanLeft, InState
  <1>2. PICK r \in Transactions : TRUE
    BY InstallerAssumption
  <1>3. CASE journal = Empty /\ journal' = MakeIdleJournalRecord(1)
    <2>1. journal' # Empty /\ journal'.state = "Idle" /\ journal'.generation = 1
          /\ journal'.flags = {} /\ journal'.transaction = NoTransaction
      <3>1. journal' \in JournalRecords
        BY <1>3 DEF MakeIdleJournalRecord, JournalRecords, JournalStates
      <3> QED
        BY <1>3, <3>1, InstallerAssumption DEF MakeIdleJournalRecord
    <2>2. Projection = Empty /\ Projection' = Contract!Blank("Anchor")
      <3>1. ("ResetApproved" \in journal'.flags) = FALSE
        BY <2>1
      <3> QED
        BY <1>3, <2>1, <3>1 DEF Projection, Contract!Blank
    <2>3. Contract!StageJournal(r)
      BY <1>3, <1>9, <1>10, <2>1, <2>2 DEF Contract!StageJournal, InState
    <2> QED
      BY <1>2, <2>1, <2>3 DEF Contract!ContractNext, ConsentInv, InState
  <1>4. ASSUME InState({"Idle"}), journal.generation = 1, NEW t \in Transactions,
               WriteTransition(Discovered(journal, t, ResetRequired, total))
        PROVE  Contract!ContractNext /\ ConsentInv'
    <2>1. /\ journal' # Empty /\ journal'.state = "Discovered"
          /\ journal'.flags = (IF ResetRequired THEN {"ResetRequired"} ELSE {})
          /\ journal'.transaction = t
      <3>1. journal.generation \in Nat /\ total \in Nat
        BY <1>4, Layout DEF InState, InstallerInv, TypeOK, JournalRecords
      <3>2. journal' \in JournalRecords
        BY <1>4, <3>1 DEF WriteTransition, Discovered, JournalRecords,
                          JournalStates, JournalFlags
      <3> QED
        BY <1>4, <3>2, InstallerAssumption DEF WriteTransition, Discovered
    <2>2. Projection # Empty /\ Projection.state = "Anchor"
      BY <1>4, ProjectIdle DEF Contract!Blank
    <2>3. Projection' = [state |-> "Discovered", owner |-> t, approved |-> FALSE]
      <3>1. ("ResetApproved" \in journal'.flags) = FALSE
        BY <2>1
      <3> QED
        BY <2>1, <3>1 DEF Projection
    <2>4. Contract!StageJournal(t)
      BY <1>4, <1>9, <1>10, <2>1, <2>2, <2>3 DEF Contract!StageJournal, InState
    <2> QED
      BY <2>1, <2>4 DEF Contract!ContractNext, ConsentInv, InState
  <1>5. ASSUME InState({"Discovered"}), WriteTransition(Downloaded(journal))
        PROVE  Contract!ContractNext /\ ConsentInv'
    <2> DEFINE F == DownloadedFlags \cup
                     (IF "ResetRequired" \in journal.flags THEN {"ResetApproved"} ELSE {})
    <2>1. /\ F \in SUBSET JournalFlags /\ "Downloaded" \in JournalStates \ {"Idle"}
          /\ WriteTransition(Moved(journal, "Downloaded", F, 0))
          /\ journal # Empty /\ journal.state = "Discovered"
          /\ "ResetApproved" \in F <=> ResetRequired
      BY <1>5 DEF DownloadedFlags, JournalFlags, JournalStates, Downloaded, InState,
                  ConsentInv
    <2>2. "ResetApproved" \notin journal.flags
      BY <2>1 DEF InstallerInv, StepsInv, RecordIsValid, AllowedFlagsForState
    <2> HIDE DEF F
    <2>3. /\ journal.transaction \in Transactions /\ Projection # Empty
          /\ Projection = [state |-> "Discovered", owner |-> journal.transaction,
                           approved |-> "ResetApproved" \in journal.flags]
          /\ Projection' = [state |-> "Downloaded", owner |-> journal.transaction,
                            approved |-> "ResetApproved" \in journal.flags \cup F]
      BY <2>1, ProjectMoved
    <2>4. ("ResetApproved" \in journal.flags \cup F) = ResetRequired
      BY <2>1, <2>2, InstallerAssumption
    <2>5. Contract!StageJournal(journal.transaction)
      <3>1. Projection' = [Projection EXCEPT
                              !.state = "Downloaded",
                              !.approved = [t \in Transactions |-> ResetRequired]
                                              [journal.transaction]]
        <4>1. [t \in Transactions |-> ResetRequired][journal.transaction]
                 = ResetRequired
          BY <2>3
        <4>2. Projection' = [state |-> "Downloaded", owner |-> journal.transaction,
                             approved |-> ResetRequired]
          BY <2>3, <2>4
        <4>3. [Projection EXCEPT !.state = "Downloaded", !.approved = ResetRequired]
                 = [state |-> "Downloaded", owner |-> journal.transaction,
                    approved |-> ResetRequired]
          <5> DEFINE q == [Projection EXCEPT !.state = "Downloaded"]
          <5>1. PICK s, z, x, y :
                   /\ s = "Discovered" /\ z = "Downloaded" /\ y = ResetRequired
                   /\ x = ("ResetApproved" \in journal.flags)
            OBVIOUS
          <5>2. Projection = [state |-> s, owner |-> journal.transaction,
                              approved |-> x]
            BY <2>3, <5>1
          <5>3. [Projection EXCEPT !.state = z]
                   = [state |-> z, owner |-> journal.transaction, approved |-> x]
            BY <5>2
          <5>4. q = [state |-> z, owner |-> journal.transaction, approved |-> x]
            BY <5>1, <5>3
          <5>5. [Projection EXCEPT !.state = "Downloaded", !.approved = ResetRequired]
                   = [q EXCEPT !.approved = ResetRequired]
            OBVIOUS
          <5> HIDE DEF q
          <5>6. [q EXCEPT !.approved = y]
                   = [state |-> z, owner |-> journal.transaction, approved |-> y]
            BY <5>4
          <5> QED
            BY <5>1, <5>5, <5>6
        <4> QED
          BY <4>1, <4>2, <4>3
      <3>2. Contract!Owns(journal.transaction, {"Discovered"})
        BY <2>3
      <3>3. UNCHANGED Undo
        <4>1. journal'.state = "Downloaded"
          BY <1>5 DEF WriteTransition, Downloaded, Moved
        <4> QED
          BY <1>5, <1>9, <1>10, <4>1 DEF InState
      <3> QED
        BY <3>1, <3>2, <3>3 DEF Contract!StageJournal
    <2>6. journal'.state = "Downloaded"
      BY <1>5 DEF WriteTransition, Downloaded, Moved
    <2> QED
      BY <2>3, <2>5, <2>6 DEF Contract!ContractNext, ConsentInv, InState
  <1>6. ASSUME NEW s \in JournalStates,
               NEW F \in SUBSET (JournalFlags \ {"ResetApproved"}), NEW n \in Nat,
               journal # Empty, <<journal.state, s>> \in StateMoves,
               WriteTransition(Moved(journal, s, F, n)), journal' # journal
        PROVE  [Contract!ContractNext]_<<Projection, Undo>> /\ ConsentInv'
    <2>1. /\ journal.state # "Idle" /\ s \in JournalStates \ {"Idle"}
          /\ F \in SUBSET JournalFlags /\ s # "Discovered"
      BY <1>6 DEF StateMoves, RollbackStates, JournalStates
    <2>2. /\ journal.transaction \in Transactions /\ Projection # Empty
          /\ Projection = [state |-> journal.state, owner |-> journal.transaction,
                           approved |-> "ResetApproved" \in journal.flags]
          /\ Projection' = [state |-> s, owner |-> journal.transaction,
                            approved |-> "ResetApproved" \in journal.flags \cup F]
      BY <1>6, <2>1, ProjectMoved
    <2>3. Projection' = [Projection EXCEPT !.state = s]
      <3>1. ("ResetApproved" \in journal.flags \cup F)
               = ("ResetApproved" \in journal.flags)
        BY <1>6
      <3> QED
        BY <2>2, <3>1
    <2>7. /\ journal' # Empty /\ journal'.state = s
          /\ journal # Empty /\ journal.state # "RollingBack"
      <3>1. journal \in JournalRecords
        BY <1>6 DEF InstallerInv, TypeOK
      <3> QED
        BY <1>6, <3>1, MovedRecord DEF StateMoves, RollbackStates
    <2>8. /\ journal.state \notin {"Staged", "Committing"} => Undo = "free"
          /\ s \notin {"Staged", "Committing", "RollingBack"} => Undo' = "free"
          /\ journal.state = "Prepared" /\ s = "Staged" => Undo' = "free"
          /\ journal.state = "CandidateHealthy" /\ s = "Committing" => Undo' = "free"
          /\ journal.state = "Committing" /\ s = "Committing" => Undo' = Undo
          /\ s = "RollingBack" =>
                Undo' = Undo \/ (journal.state = "Prepared" /\ Undo' = "once")
      <3>1. \A S : InState(S) <=> journal.state \in S
        BY <2>7 DEF InState
      <3>2. \A S : (journal' # Empty /\ journal'.state \in S) <=> s \in S
        BY <2>7
      <3>3. /\ InState({"Prepared"}) /\ InState({"Staged"})' => Undo' = "free"
            /\ InState({"CandidateHealthy"}) /\ InState({"Committing"})' =>
                  Undo' = "free"
            /\ InState({"Committing"}) /\ InState({"Committing"})' => Undo' = Undo
            /\ ~InState({"RollingBack"}) /\ InState({"RollingBack"})' =>
                  Undo' = Undo \/ (InState({"Prepared"}) /\ Undo' = "once")
        BY <1>0, <1>6, UndoWrites
      <3> QED
        BY <1>9, <1>10, <2>7, <3>3 DEF InState
    <2>4. [Contract!ContractNext]_<<Projection, Undo>>
      <3>1. CASE s = journal.state
        <4>1. Undo' = Undo
          BY <1>6, <2>8, <3>1 DEF StateMoves, RollbackStates
        <4> QED
          BY <2>2, <2>3, <3>1, <4>1
      <3>2. CASE s # journal.state
        <4>1. \/ Contract!StageJournal(journal.transaction)
              \/ Contract!ArmJournal(journal.transaction)
              \/ Contract!HealthyJournal(journal.transaction)
              \/ Contract!CommitJournal(journal.transaction)
              \/ Contract!RollbackJournal(journal.transaction)
          <5>1. CASE s = "RollingBack"
            BY <1>6, <2>2, <2>3, <2>8, <3>2, <5>1
               DEF StateMoves, RollbackStates, Contract!RollbackJournal
          <5>2. CASE s # "RollingBack"
            BY <1>6, <2>2, <2>3, <2>8, <3>2, <5>2
               DEF StateMoves, RollbackStates, Contract!StageJournal,
                   Contract!ArmJournal, Contract!HealthyJournal,
                   Contract!CommitJournal
          <5> QED
            BY <5>1, <5>2
        <4> QED
          BY <2>2, <4>1 DEF Contract!ContractNext
      <3> QED
        BY <3>1, <3>2
    <2>5. journal'.state = s
      BY <1>6 DEF WriteTransition, Moved
    <2> QED
      BY <2>1, <2>4, <2>5 DEF ConsentInv, InState
  <1>7. ASSUME InState({"Discovered", "Downloaded", "RollingBack"}),
               WriteTransition(Idle(journal)), journal' # journal
        PROVE  Contract!ContractNext /\ ConsentInv'
    <2>1. /\ journal \in JournalRecords /\ journal # Empty
          /\ RecordIsValid(journal)
          /\ journal.state \in {"Discovered", "Downloaded", "RollingBack"}
      BY <1>7 DEF InState, InstallerInv, TypeOK, StepsInv
    <2>2. journal.transaction \in Transactions
      BY <2>1 DEF RecordIsValid, JournalRecords
    <2>3. /\ journal' # Empty /\ journal'.state = "Idle" /\ journal'.generation > 1
          /\ journal'.flags = {} /\ journal'.transaction = NoTransaction
          /\ journal' \in JournalRecords
      BY <1>7, <2>1, IdleRecord
         DEF WriteTransition, Idle, MakeIdleJournalRecord
    <2>4. journal'.generation # 1
      BY <2>3 DEF JournalRecords
    <2>5. Projection' = Contract!Blank("Idle")
      <3>1. ("ResetApproved" \in journal'.flags) = FALSE
        BY <2>3
      <3> QED
        BY <2>3, <2>4, <3>1 DEF Projection, Contract!Blank
    <2>6. /\ Projection = [state |-> journal.state, owner |-> journal.transaction,
                           approved |-> "ResetApproved" \in journal.flags]
          /\ Projection # Empty
      <3>1. Projection = [state |-> journal.state, owner |-> journal.transaction,
                          approved |-> "ResetApproved" \in journal.flags]
        BY <2>1 DEF Projection
      <3>2. Projection \in Contract!ContractRecords
        <4>1. ("ResetApproved" \in journal.flags) \in BOOLEAN
          OBVIOUS
        <4> QED
          BY <2>1, <2>2, <3>1, <4>1 DEF Contract!ContractRecords
      <3> QED
        BY <3>1, <3>2, EmptyAssumption
    <2>7. Contract!RollbackJournal(journal.transaction)
      <3>1. InState({"RollingBack"}) => Undo # "barred"
        BY <1>0, <1>7, UndoWrites
      <3>2. Undo' = "free"
        BY <1>10, <2>3 DEF InState
      <3> QED
        BY <2>1, <2>5, <2>6, <3>1, <3>2 DEF Contract!RollbackJournal, InState
    <2> QED
      BY <2>2, <2>3, <2>7 DEF Contract!ContractNext, ConsentInv, InState
  <1>8. CASE InState({"Idle", "Committed"}) /\ journal' = Empty
    <2>1. Projection' = Empty /\ ConsentInv' /\ UNCHANGED Undo
      BY <1>8, <1>9, <1>10 DEF Projection, ConsentInv, InState
    <2>2. CASE InState({"Idle"})
      <3>1. Projection # Empty /\ Projection.state \in {"Anchor", "Idle"}
        BY <2>2, ProjectIdle DEF Contract!Blank
      <3>2. Contract!RetireJournal(r)
        BY <2>1, <3>1 DEF Contract!RetireJournal
      <3> QED
        BY <1>2, <2>1, <3>2 DEF Contract!ContractNext
    <2>3. CASE InState({"Committed"})
      <3>1. /\ journal # Empty /\ journal.state = "Committed"
            /\ journal \in JournalRecords /\ RecordIsValid(journal)
        BY <2>3 DEF InState, InstallerInv, TypeOK, StepsInv
      <3>2. journal.transaction \in Transactions
        BY <3>1 DEF RecordIsValid, JournalRecords
      <3>3. Projection = [state |-> "Committed", owner |-> journal.transaction,
                          approved |-> "ResetApproved" \in journal.flags]
        BY <3>1 DEF Projection
      <3>4. Projection \in Contract!ContractRecords
        BY <3>2, <3>3 DEF Contract!ContractRecords
      <3>5. Contract!RetireJournal(journal.transaction)
        BY <2>1, <3>3, <3>4, EmptyAssumption DEF Contract!RetireJournal
      <3> QED
        BY <2>1, <3>2, <3>5 DEF Contract!ContractNext
    <2> QED
      BY <1>8, <2>2, <2>3 DEF InState
  <1> QED
    BY <1>1, <1>3, <1>4, <1>5, <1>6, <1>7, <1>8, NextWrites
       DEF JournalWrite, WritesMoved

\* Whatever operations are called, cut off and called again, the records the
\* installer writes are those InstallerContract allows, on which the
\* orchestrator relies, and those JournalRegister allows, which the two files
\* of JournalSlots implement.
THEOREM ContractImplemented == Spec => ImplementsContract
  <1>1. Init => /\ Projection = Empty /\ Undo = "free" /\ Register!Init
                /\ ConsentInv /\ SelectorInv
    <2> SUFFICES ASSUME Init
                 PROVE  /\ Projection = Empty /\ Undo = "free" /\ Register!Init
                        /\ ConsentInv /\ SelectorInv
      OBVIOUS
    <2>1. original[Selector] # "next"
      BY ManifestFacts, InstallerAssumption DEF Init
    <2>2. Projection = Empty /\ Register!Init /\ ConsentInv
      BY DEF Init, Projection, Register!Init, ConsentInv, InState
    <2>3. SelectorInv
      BY <2>1 DEF Init, SelectorInv, ActiveInv, InState
    <2>4. Undo = "free"
      BY <2>3, UndoFree DEF Init, InState
    <2> QED
      BY <2>2, <2>3, <2>4
  <1>2. InstallerInv /\ ConsentInv /\ SelectorInv /\ [Next]_vars =>
           [Contract!ContractNext]_<<Projection, Undo>> /\ ConsentInv' /\ SelectorInv'
    BY ContractStep, SelectorStep
  <1>3. InstallerInv /\ [Next]_vars => [Register!Next]_journal
    BY RegisterStep
  <1> QED
    BY <1>1, <1>2, <1>3, InstallerInvariant, PTL
    DEF Spec, ImplementsContract, Contract!ContractSpec, Register!Spec

=============================================================================
