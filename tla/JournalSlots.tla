---------------------------- MODULE JournalSlots ----------------------------
(***************************************************************************)
(* The journal on disk: two slots, journal.a and journal.b, and a          *)
(* temporary file.  A write goes to the temporary file, which is synced    *)
(* and then renamed over the slot that does not hold the newest record     *)
(* (Engine::WriteJournalBytes).  FatFs has no atomic replace: Rename       *)
(* unlinks the destination first and renames after that, and power may     *)
(* fail at every point.                                                    *)
(*                                                                         *)
(* disk is what survives a power cut; everything else is the memory of the *)
(* installer's Engine object, which lives for one operation and starts by  *)
(* loading the journal.                                                    *)
(***************************************************************************)
EXTENDS UpdateJournal

CONSTANTS
    AtomicReplace,      \* crash_safe_replace_with_backup of the file system
    TotalSteps,         \* layout.total of the one transaction shape
    Empty               \* the value of a journal that does not exist

ASSUME SlotsAssumption ==
    /\ AtomicReplace \in BOOLEAN
    /\ TotalSteps \in Nat \ {0}
    /\ TotalSteps <= MaximumSteps
    /\ Empty \notin JournalRecords

VARIABLES
    disk,       \* the files: a, b and tmp
    pc,         \* next step of the Engine
    record,     \* record_: the journal as the Engine knows it, or Empty
    slot,       \* slot_: the slot that holds record
    next,       \* the record being written
    dest        \* the slot it is written to

vars == <<disk, pc, record, slot, next, dest>>

memory == <<record, slot, next, dest>>

Slots == {"A", "B"}

Files == Slots \cup {"tmp"}

Contents == JournalRecords \cup NotARecord

PCs == {"unloaded", "ready", "remove_tmp", "create", "write", "replace",
        "rename", "readback", "retire_tmp", "retire_older", "retire_newer"}

TypeOK ==
    /\ disk \in [Files -> Contents]
    /\ pc \in PCs
    /\ record \in JournalRecords \cup {Empty}
    /\ slot \in Slots
    /\ next \in JournalRecords
    /\ dest \in Slots

\* Mutant: the newest record is the one overwritten.
SameSlot(s) == s

OtherSlot(s) == IF s = "A" THEN "B" ELSE "A"

Init ==
    /\ disk = [f \in Files |-> Missing]
    /\ pc = "unloaded"
    /\ record = Empty
    /\ slot = "A"
    /\ next = MakeIdleJournalRecord(1)
    /\ dest = "A"

-----------------------------------------------------------------------------
(* Loading: the start of every operation of the installer. *)

LoadJournal ==
    LET selection == SelectJournalCopy(disk["A"], disk["B"]) IN
    /\ pc = "unloaded"
    /\ \/ /\ selection = "NoJournal"
          /\ record' = Empty
          /\ slot' = "A"            \* None; WriteInitialJournal uses slot A
       \/ /\ selection \in Slots
          /\ record' = disk[selection]
          /\ slot' = selection
    /\ pc' = "ready"
    /\ UNCHANGED <<disk, next, dest>>

-----------------------------------------------------------------------------
(* Writing: the callers' records, then the steps of WriteJournalBytes. *)

\* Every record some handler of the installer may write after r.
Proposals(r) ==
    CASE r.state = "Idle" ->
            {Discovered(r, t, reset, TotalSteps) :
                t \in Transactions, reset \in BOOLEAN}
      [] r.state = "Discovered" -> {Downloaded(r), Idle(r)}
      [] r.state = "Downloaded" -> {Prepared(r), Idle(r)}
      [] r.state = "Prepared" ->
            {Advanced(r, n) : n \in 1 .. (TotalSteps - r.completed_steps)}
               \cup {Staged(r), RollingBack(r)}
      [] r.state = "Staged" -> {Pending(r), RollingBack(r)}
      [] r.state = "CandidatePending" -> {Healthy(r), RollingBack(r)}
      [] r.state = "CandidateHealthy" -> {Committing(r), RollingBack(r)}
      [] r.state = "Committing" ->
            {Advanced(r, 1), SelectorDone(r), Committed(r), RollingBack(r)}
      [] r.state = "Committed" -> {RollingBack(r)}
      [] r.state = "RollingBack" -> {Idle(r)}

WriteInitialJournal ==
    /\ pc = "ready"
    /\ record = Empty
    /\ next' = MakeIdleJournalRecord(1)
    /\ dest' = "A"
    /\ pc' = "remove_tmp"
    /\ UNCHANGED <<disk, record, slot>>

WriteTransition(r) ==
    /\ pc = "ready"
    /\ record # Empty
    /\ ValidateJournalTransition(record, r)
    /\ next' = r
    /\ dest' = OtherSlot(slot)
    /\ pc' = "remove_tmp"
    /\ UNCHANGED <<disk, record, slot>>

RemoveTemporary ==
    /\ pc = "remove_tmp"
    /\ disk' = [disk EXCEPT !["tmp"] = Missing]
    /\ pc' = "create"
    /\ UNCHANGED memory

\* Mutant: the temporary file is renamed before it is written.
RenameUnwritten ==
    /\ pc = "create"
    /\ disk' = [disk EXCEPT !["tmp"] = Torn]
    /\ pc' = "rename"
    /\ UNCHANGED memory

CreateTemporary ==
    /\ pc = "create"
    /\ disk' = [disk EXCEPT !["tmp"] = Torn]
    /\ pc' = "write"
    /\ UNCHANGED memory

WriteAndSync ==
    /\ pc = "write"
    /\ disk' = [disk EXCEPT !["tmp"] = next]
    /\ pc' = IF AtomicReplace THEN "rename" ELSE "replace"
    /\ UNCHANGED memory

\* FatFsUpdateFileSystem::Rename unlinks an existing destination first.
UnlinkDestination ==
    /\ pc = "replace"
    /\ disk' = [disk EXCEPT ![dest] = Missing]
    /\ pc' = "rename"
    /\ UNCHANGED memory

Publish ==
    /\ pc = "rename"
    /\ disk' = [disk EXCEPT ![dest] = disk["tmp"], !["tmp"] = Missing]
    /\ pc' = "readback"
    /\ UNCHANGED memory

\* The readback compares equal, record_ and slot_ follow the disk, and the
\* caller goes on; or Progress fails and the whole operation returns.
Readback ==
    /\ pc = "readback"
    /\ disk[dest] = next
    /\ record' = next
    /\ slot' = dest
    /\ pc' \in {"ready", "unloaded"}
    /\ UNCHANGED <<disk, next, dest>>

\* A file system call fails: the operation returns an error.  Once the
\* temporary file exists, the handler removes it on its way out.
WriteFails ==
    /\ pc \in {"remove_tmp", "create", "write", "replace", "rename", "readback"}
    /\ disk' = IF pc \in {"write", "replace", "rename"}
               THEN [disk EXCEPT !["tmp"] = Missing] ELSE disk
    /\ pc' = "unloaded"
    /\ UNCHANGED memory

-----------------------------------------------------------------------------
(* Retirement: the journals are the last files of a transaction to go, the *)
(* newest record the very last (the end of RemoveTransactionArtifacts).    *)

BeginRetirement ==
    /\ pc = "ready"
    /\ record # Empty
    /\ record.state \in {"Idle", "Committed"}
    /\ pc' = "retire_tmp"
    /\ UNCHANGED <<disk, memory>>

RetireTemporary ==
    /\ pc = "retire_tmp"
    /\ disk' = [disk EXCEPT !["tmp"] = Missing]
    /\ pc' = "retire_older"
    /\ UNCHANGED memory

\* Mutant: the newest record is removed while the older one is still there.
RetireNewestFirst ==
    /\ pc = "retire_older"
    /\ disk' = [disk EXCEPT ![slot] = Missing]
    /\ pc' = "retire_newer"
    /\ UNCHANGED memory

RetireOlder ==
    /\ pc = "retire_older"
    /\ disk' = [disk EXCEPT ![OtherSlot(slot)] = Missing]
    /\ pc' = "retire_newer"
    /\ UNCHANGED memory

RetireNewer ==
    /\ pc = "retire_newer"
    /\ disk' = [disk EXCEPT ![slot] = Missing]
    /\ record' = Empty
    /\ pc' = "unloaded"
    /\ UNCHANGED <<slot, next, dest>>

-----------------------------------------------------------------------------
\* The operation in memory ends: a power cut at any point, or a failed
\* removal, or the handler has nothing more to write.
Stop ==
    /\ pc # "unloaded"
    /\ pc' = "unloaded"
    /\ UNCHANGED <<disk, memory>>

Next ==
    \/ LoadJournal
    \/ WriteInitialJournal
    \/ \E r \in (IF record = Empty THEN {} ELSE Proposals(record)) :
          WriteTransition(r)
    \/ RemoveTemporary
    \/ CreateTemporary
    \/ WriteAndSync
    \/ UnlinkDestination
    \/ Publish
    \/ Readback
    \/ WriteFails
    \/ BeginRetirement
    \/ RetireTemporary
    \/ RetireOlder
    \/ RetireNewer
    \/ Stop

Spec == Init /\ [][Next]_vars

-----------------------------------------------------------------------------
(* Properties. *)

\* The journal a boot would find in the present state of the disk.
Journal ==
    LET selection == SelectJournalCopy(disk["A"], disk["B"]) IN
    IF selection \in Slots THEN disk[selection] ELSE Empty

\* Whenever power fails, LoadJournal of the next boot finds no journal or one
\* newest valid record: never JournalCorrupt (both copies unreadable) and
\* never JournalConflict (two different records of one generation).
AlwaysSelectable ==
    SelectJournalCopy(disk["A"], disk["B"]) \in Slots \cup {"NoJournal"}

\* What a running operation believes the journal to be is what a boot would
\* find: record_ is never ahead of the disk, and falls behind it only between
\* the rename of a new record and its readback.
MemoryFollowsDisk ==
    pc \notin {"unloaded", "readback"} => record = Journal

-----------------------------------------------------------------------------
(* The inductive invariant behind the three. *)

\* A slot is empty or holds a valid record: nothing torn is ever renamed.
CellOK(cell) ==
    cell = Missing \/ (cell \in JournalRecords /\ RecordIsValid(cell))

\* The first cell holds a record and the second none that could outrank it.
Newer(cell, other) ==
    /\ cell # Missing
    /\ other # Missing => other.generation < cell.generation

Holds(s, r) == disk[s] = r /\ Newer(disk[s], disk[OtherSlot(s)])

BothMissing == disk["A"] = Missing /\ disk["B"] = Missing

Writing == {"remove_tmp", "create", "write", "replace", "rename"}

Retiring == {"retire_tmp", "retire_older", "retire_newer"}

\* The two slots are never out of order, whoever is running.
SlotsOrdered ==
    /\ CellOK(disk["A"]) /\ CellOK(disk["B"])
    /\ \/ BothMissing
       \/ Newer(disk["A"], disk["B"])
       \/ Newer(disk["B"], disk["A"])

\* A running operation knows which slot holds the newest record.
MemoryExact ==
    pc \in {"ready"} \cup Writing \cup Retiring =>
       IF record = Empty THEN BothMissing ELSE Holds(slot, record)

\* A pending write succeeds the newest record and aims at the other slot.
WriteExact ==
    pc \in Writing =>
       /\ RecordIsValid(next)
       /\ IF record = Empty
          THEN next = MakeIdleJournalRecord(1) /\ dest = "A"
          ELSE ValidateJournalTransition(record, next) /\ dest = OtherSlot(slot)
       /\ pc \in {"replace", "rename"} => disk["tmp"] = next

\* A published record is the newest one before it is read back.
ReadbackExact ==
    pc = "readback" => Holds(dest, next)

\* Only a finished transaction is being retired, and its older record is gone
\* before its newest one goes.
RetireExact ==
    pc \in Retiring =>
       /\ record # Empty /\ record.state \in {"Idle", "Committed"}
       /\ pc = "retire_newer" => disk[OtherSlot(slot)] = Missing

\* The conjunction of the five is preserved by every step of the Engine, by a
\* failing file system call and by a power cut.
SlotsInv ==
    /\ SlotsOrdered
    /\ MemoryExact
    /\ WriteExact
    /\ ReadbackExact
    /\ RetireExact

-----------------------------------------------------------------------------
\* Removing and replacing files one by one, with failures and power cuts
\* between any two of them, is to the rest of the updater a single cell that
\* changes atomically along validated transitions.
Register == INSTANCE JournalRegister WITH value <- Journal

ImplementsRegister == Register!Spec

=============================================================================
