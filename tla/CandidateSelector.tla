-------------------------- MODULE CandidateSelector --------------------------
(***************************************************************************)
(* The two kernel selectors of SelectorCandidateBackend.  The firmware     *)
(* boots the kernel that the active selector names, or, for one boot, the  *)
(* kernel that the candidate selector names.  ArmCandidate copies the new  *)
(* kernel to a temporary name (.bmx-next) and points the candidate         *)
(* selector at it; CommitCandidate points both selectors at the stable     *)
(* name, which holds the new kernel by then; DisarmCandidate takes the     *)
(* candidate back.  PublishSelector writes a selector: a temporary file,   *)
(* synced and renamed over the old one, which on FAT is an unlink and a    *)
(* rename.                                                                 *)
(*                                                                         *)
(* UpdateInstaller uses these operations as single steps.  Here they are   *)
(* taken apart, and the installer around them is reduced to the journal    *)
(* state and to what it does to the one kernel that the selectors name.    *)
(* The machine the selectors name never changes within a transaction.      *)
(***************************************************************************)
CONSTANTS
    Missing,            \* a file that does not exist
    ReplaceModes        \* the values of atomic_replace to consider

ASSUME SelectorAssumption ==
    /\ ReplaceModes \subseteq BOOLEAN
    /\ Missing \notin {"stable", "next", "torn", "old", "new", "stale"}

VARIABLES
    selector,           \* what the active and the candidate selector name
    next_file,          \* <selector>.next, the temporary file of each
    stable_kernel,      \* the kernel under its stable name
    staged_kernel,      \* the new kernel in the staging tree
    candidate_kernel,   \* the kernel under the name .bmx-next
    journal,            \* the state of the installer's journal
    armed,              \* kJournalFlagTrybootArmed
    pc,                 \* next step of the running operation
    op,                 \* the operation that called PublishSelector
    target,             \* the selector being published
    temporary,          \* whether the kernel has a temporary copy
    original,           \* history: candidate selector and kernel at the start
    atomic_replace      \* crash_safe_replace_with_backup of the file system

disk   == <<selector, next_file, stable_kernel, staged_kernel, candidate_kernel>>
record == <<journal, armed>>
memory == <<op, target, temporary>>
context == <<original, atomic_replace>>
vars   == <<disk, record, pc, memory, context>>

Paths == {"active", "candidate"}

\* A parsed selector: the stable kernel or its temporary copy.
Selectors == {"stable", "next"}

Originals ==
    [selector : Selectors \cup {Missing}, noop : BOOLEAN, kernel : {"old", "new"}]

PublishSteps == {"clear", "create", "write", "unlink", "rename", "sync"}

PCs == {"ready", "drop_stale", "copy", "verify", "armed", "kernel", "read",
        "drop_kernel", "committed", "disarm", "restore", "idle"} \cup PublishSteps

TypeOK ==
    /\ selector \in [Paths -> Selectors \cup {Missing}]
    /\ next_file \in [Paths -> Selectors \cup {Missing, "torn"}]
    /\ stable_kernel \in {"old", "new"}
    /\ staged_kernel \in {Missing, "new"}
    /\ candidate_kernel \in {Missing, "torn", "new", "stale"}
    /\ journal \in {"Staged", "CandidatePending", "Committing", "Committed",
                    "RollingBack", "Idle"}
    /\ armed \in BOOLEAN
    /\ pc \in PCs
    /\ op \in {"arm", "commit", "disarm"}
    /\ target \in Paths
    /\ temporary \in BOOLEAN
    /\ original \in Originals
    /\ atomic_replace \in BOOLEAN

\* What the firmware would load through a selector.
Boots(p) ==
    CASE selector[p] = "stable" -> stable_kernel
      [] selector[p] = "next"   -> candidate_kernel
      [] OTHER                  -> Missing

Init ==
    /\ original \in [selector : {"stable", Missing}, noop : BOOLEAN,
                     kernel : {"old", "new"}]
    /\ original.noop => original.selector = "stable"
    /\ selector = [p \in Paths |-> "stable"]
    /\ next_file = [p \in Paths |-> Missing]
    /\ stable_kernel = original.kernel
    /\ staged_kernel = IF original.kernel = "new" THEN Missing ELSE "new"
    /\ candidate_kernel = Missing
    /\ journal = "Staged"
    /\ armed = FALSE
    /\ pc = "ready"
    /\ op = "arm"
    /\ target = "candidate"
    /\ temporary = FALSE
    /\ atomic_replace \in ReplaceModes

-----------------------------------------------------------------------------
(* PublishSelector, for whichever operation called it. *)

\* Mutant: the commit publishes the kernel's temporary name.
CandidatePath == IF op # "disarm" /\ temporary THEN "next" ELSE "stable"

\* The kernel name to publish: manifest_kernel_path except when arming.
Content == IF op = "arm" /\ temporary THEN "next" ELSE "stable"

ClearNext ==
    /\ pc = "clear"
    /\ next_file' = [next_file EXCEPT ![target] = Missing]
    /\ pc' = "create"
    /\ UNCHANGED <<selector, stable_kernel, staged_kernel, candidate_kernel,
                   record, memory, context>>

\* Mutant: the file is renamed before it is written.
RenameUnwritten ==
    /\ pc = "create"
    /\ next_file' = [next_file EXCEPT ![target] = "torn"]
    /\ pc' = "rename"
    /\ UNCHANGED <<selector, stable_kernel, staged_kernel, candidate_kernel,
                   record, memory, context>>

CreateNext ==
    /\ pc = "create"
    /\ next_file' = [next_file EXCEPT ![target] = "torn"]
    /\ pc' = "write"
    /\ UNCHANGED <<selector, stable_kernel, staged_kernel, candidate_kernel,
                   record, memory, context>>

WriteNext ==
    /\ pc = "write"
    /\ next_file' = [next_file EXCEPT ![target] = Content]
    /\ pc' = IF atomic_replace THEN "rename" ELSE "unlink"
    /\ UNCHANGED <<selector, stable_kernel, staged_kernel, candidate_kernel,
                   record, memory, context>>

UnlinkSelector ==
    /\ pc = "unlink"
    /\ selector' = [selector EXCEPT ![target] = Missing]
    /\ pc' = "rename"
    /\ UNCHANGED <<next_file, stable_kernel, staged_kernel, candidate_kernel,
                   record, memory, context>>

RenameNext ==
    /\ pc = "rename"
    /\ selector' = [selector EXCEPT ![target] = next_file[target]]
    /\ next_file' = [next_file EXCEPT ![target] = Missing]
    /\ pc' = "sync"
    /\ UNCHANGED <<stable_kernel, staged_kernel, candidate_kernel,
                   record, memory, context>>

\* The containing directory is synced and the caller goes on; CommitCandidate
\* publishes the active selector first and then the candidate.
SyncDirectory ==
    /\ pc = "sync"
    /\ target' = "candidate"
    /\ pc' = CASE op = "arm" -> "armed"
               [] op = "commit" /\ target = "active" -> "clear"
               [] op = "commit" /\ target = "candidate" -> "drop_kernel"
               [] op = "disarm" -> "restore"
    /\ UNCHANGED <<disk, record, op, temporary, context>>

\* A failing call: the temporary file goes, and ArmCandidate removes its copy
\* of the kernel.
PublishFails ==
    /\ pc \in PublishSteps
    /\ next_file' = IF pc = "clear" THEN next_file
                    ELSE [next_file EXCEPT ![target] = Missing]
    /\ candidate_kernel' = IF op = "arm" /\ temporary THEN Missing
                                                      ELSE candidate_kernel
    /\ pc' = "ready"
    /\ UNCHANGED <<selector, stable_kernel, staged_kernel, record, memory, context>>

-----------------------------------------------------------------------------
(* ArmCandidate, called by Engine::Arm. *)

\* A kernel that the update does not change is not staged: the candidate
\* selector then names the stable kernel, which must already verify.
BeginArm ==
    /\ pc = "ready" /\ journal = "Staged"
    /\ selector["active"] = "stable"
    /\ op' = "arm"
    /\ target' = "candidate"
    /\ \/ /\ staged_kernel = Missing /\ stable_kernel = "new"
          /\ temporary' = FALSE
          /\ pc' = "clear"
       \/ /\ staged_kernel # Missing
          /\ temporary' = TRUE
          /\ pc' = "drop_stale"
    /\ UNCHANGED <<disk, record, context>>

\* Mutant: the copy is neither verified nor finished before it is named.
CopyUnverified ==
    /\ \/ pc = "drop_stale" /\ candidate_kernel' = Missing /\ pc' = "copy"
       \/ pc = "copy" /\ candidate_kernel' = "torn" /\ pc' = "clear"
    /\ UNCHANGED <<selector, next_file, stable_kernel, staged_kernel,
                   record, memory, context>>

\* CopyAndVerify: an old copy is removed, a fresh file is created and filled,
\* and it counts only when its digest matches and it is synced.
CopyKernel ==
    /\ \/ pc = "drop_stale" /\ candidate_kernel' = Missing /\ pc' = "copy"
       \/ pc = "copy" /\ candidate_kernel' = "torn" /\ pc' = "verify"
       \/ pc = "verify" /\ candidate_kernel' = "new" /\ pc' = "clear"
       \/ pc = "verify" /\ candidate_kernel' = Missing /\ pc' = "ready"
    /\ UNCHANGED <<selector, next_file, stable_kernel, staged_kernel,
                   record, memory, context>>

MarkPending ==
    /\ pc = "armed"
    /\ selector["candidate"] \in Selectors
    /\ journal' = "CandidatePending"
    /\ armed' = TRUE
    /\ pc' = "ready"
    /\ UNCHANGED <<disk, memory, context>>

-----------------------------------------------------------------------------
(* CommitCandidate, called by Engine::Commit after the kernels. *)

\* The record CandidateHealthy, which comes between, changes nothing here.
BeginCommit ==
    /\ pc = "ready" /\ journal \in {"CandidatePending", "Committing"}
    /\ journal = "CandidatePending" => selector["active"] = "stable"
    /\ journal' = "Committing"
    /\ pc' = "kernel"
    /\ UNCHANGED <<disk, armed, memory, context>>

ActivateKernel ==
    /\ pc = "kernel"
    /\ staged_kernel # Missing \/ stable_kernel = "new"
    /\ stable_kernel' = "new"
    /\ staged_kernel' = Missing
    /\ pc' = "read"
    /\ UNCHANGED <<selector, next_file, candidate_kernel, record, memory,
                   context>>

\* Mutant: the temporary kernel goes first.
CommitRemovesFirst ==
    /\ pc = "read"
    /\ selector["candidate"] \in Selectors
    /\ candidate_kernel' = Missing
    /\ op' = "commit"
    /\ target' = "active"
    /\ temporary' = FALSE
    /\ pc' = "clear"
    /\ UNCHANGED <<selector, next_file, stable_kernel, staged_kernel,
                   record, context>>

CommitCandidate ==
    /\ pc = "read"
    /\ selector["candidate"] \in Selectors
    /\ op' = "commit"
    /\ target' = "active"
    /\ temporary' = (selector["candidate"] = "next")
    /\ pc' = "clear"
    /\ UNCHANGED <<disk, record, context>>

RemoveCandidateKernel ==
    /\ pc = "drop_kernel"
    /\ candidate_kernel' = IF temporary THEN Missing ELSE candidate_kernel
    /\ pc' = "committed"
    /\ UNCHANGED <<selector, next_file, stable_kernel, staged_kernel,
                   record, memory, context>>

MarkCommitted ==
    /\ pc = "committed"
    /\ selector["active"] = "stable"
    /\ journal' = "Committed"
    /\ pc' = "ready"
    /\ UNCHANGED <<disk, armed, memory, context>>

-----------------------------------------------------------------------------
(* DisarmCandidate, called by Engine::Rollback before it restores files. *)

BeginRollback ==
    /\ pc = "ready" /\ journal # "Idle"
    /\ journal' = "RollingBack"
    /\ pc' = IF armed THEN "disarm" ELSE "restore"
    /\ UNCHANGED <<disk, armed, memory, context>>

DisarmCandidate ==
    /\ pc = "disarm"
    /\ selector["active"] = "stable"
    /\ candidate_kernel' = IF selector["candidate"] = "next" THEN Missing
                                                             ELSE candidate_kernel
    /\ op' = "disarm"
    /\ target' = "candidate"
    /\ pc' = "clear"
    /\ UNCHANGED <<selector, next_file, stable_kernel, staged_kernel,
                   record, temporary, context>>

\* RestoreFile for the kernel and for the candidate selector: a selector the
\* update added must be missing or still hold the release's bytes, one it did
\* not change is left alone, any other gets its old bytes back.
Restore ==
    /\ pc = "restore"
    /\ stable_kernel' = IF staged_kernel # Missing THEN stable_kernel
                                                   ELSE original.kernel
    /\ \/ original.noop /\ UNCHANGED selector
       \/ /\ ~original.noop
          /\ original.selector = Missing =>
                selector["candidate"] \in {Missing, "stable"}
          /\ selector' = [selector EXCEPT !["candidate"] = original.selector]
    /\ pc' = "idle"
    /\ UNCHANGED <<next_file, staged_kernel, candidate_kernel, record, memory,
                   context>>

MarkIdle ==
    /\ pc = "idle"
    /\ journal' = "Idle"
    /\ armed' = FALSE
    /\ pc' = "ready"
    /\ UNCHANGED <<disk, memory, context>>

-----------------------------------------------------------------------------
\* The next transaction, staged: the kernel present now is old or is already
\* the one of the release, and the candidate selector has its stable bytes.
NextTransaction ==
    /\ pc = "ready" /\ journal \in {"Idle", "Committed"}
    /\ selector["active"] = "stable"
    /\ original' \in [selector : {selector["candidate"]}, noop : BOOLEAN,
                      kernel : {"old", "new"}]
    /\ original'.noop => original'.selector = "stable"
    /\ selector' = [selector EXCEPT !["candidate"] = "stable"]
    /\ stable_kernel' = original'.kernel
    /\ staged_kernel' = IF original'.kernel = "new" THEN Missing ELSE "new"
    /\ candidate_kernel' = IF candidate_kernel = Missing THEN Missing ELSE "stale"
    /\ journal' = "Staged"
    /\ armed' = FALSE
    /\ UNCHANGED <<next_file, pc, memory, atomic_replace>>

\* A power cut or an early return between two steps.
Stop ==
    /\ pc # "ready"
    /\ pc' = "ready"
    /\ UNCHANGED <<disk, record, memory, context>>

Step ==
    \/ ClearNext \/ CreateNext \/ WriteNext \/ UnlinkSelector \/ RenameNext
    \/ SyncDirectory
    \/ CopyKernel \/ MarkPending
    \/ ActivateKernel \/ CommitCandidate \/ RemoveCandidateKernel
    \/ MarkCommitted
    \/ DisarmCandidate \/ Restore \/ MarkIdle

Next ==
    \/ Step
    \/ PublishFails
    \/ BeginArm \/ BeginCommit \/ BeginRollback \/ NextTransaction
    \/ Stop

Spec == Init /\ [][Next]_vars

-----------------------------------------------------------------------------
(* Properties. *)

\* On a file system that replaces atomically the active selector always names
\* the stable kernel: whatever the update does, an ordinary boot never depends
\* on the temporary one.
ActiveStable == atomic_replace => selector["active"] = "stable"

\* From the record CandidatePending to the end of the commit the candidate
\* selector boots the new kernel, whole.  The one exception is FAT, while
\* the commit replaces it, and then the active selector boots the same kernel.
CandidateStands ==
    journal \in {"CandidatePending", "Committing"} =>
       \/ Boots("candidate") = "new"
       \/ selector["candidate"] = Missing /\ Boots("active") = "new"

\* The active selector is missing only in the commit's own window on FAT, and
\* then the candidate selector still names a whole kernel.
OneSelectorStands ==
    selector["active"] = Missing =>
       /\ journal \in {"Committing", "RollingBack"} /\ armed
       /\ Boots("candidate") = "new"

\* Why the three hold: what each step of an operation may rely on.
ArmExact ==
    /\ pc \in {"drop_stale", "copy", "verify"} =>
          /\ op = "arm" /\ temporary
          /\ journal = "Staged" /\ target = "candidate"
    /\ pc \in PublishSteps \cup {"armed"} /\ op = "arm" =>
          /\ journal = "Staged" /\ target = "candidate"
          /\ temporary => candidate_kernel = "new"
          /\ ~temporary => stable_kernel = "new"

CommitExact ==
    /\ pc \in {"kernel", "read"} => journal = "Committing"
    /\ pc = "read" => stable_kernel = "new"
    /\ pc \in PublishSteps /\ op = "commit" =>
          /\ journal = "Committing" /\ stable_kernel = "new"
          /\ IF target = "active" THEN selector["candidate"] # Missing
                                  ELSE selector["active"] = "stable"
    /\ pc \in {"drop_kernel", "committed"} =>
          /\ journal = "Committing" /\ stable_kernel = "new"
          /\ selector = [p \in Paths |-> "stable"]

DisarmExact ==
    /\ pc \in {"disarm", "restore", "idle"} => journal = "RollingBack"
    /\ pc = "disarm" => armed
    /\ pc \in {"restore", "idle"} => selector["active"] = "stable"
    /\ pc \in PublishSteps /\ op = "disarm" =>
          /\ journal = "RollingBack" /\ target = "candidate"
          /\ selector["active"] = "stable"

PublishExact ==
    /\ pc \in {"unlink", "rename"} => next_file[target] = Content
    /\ pc = "sync" => selector[target] = Content
    /\ pc = "armed" => op = "arm" /\ selector["candidate"] = Content
    /\ pc = "unlink" => ~atomic_replace

SelectorInv ==
    /\ selector["active"] # "next"
    /\ journal \in {"CandidatePending", "Committing"} => armed
    /\ ArmExact /\ CommitExact /\ DisarmExact /\ PublishExact
    /\ ActiveStable /\ CandidateStands /\ OneSelectorStands

=============================================================================
