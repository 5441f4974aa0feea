------------------------ MODULE JournalSlots_proofs ------------------------
(***************************************************************************)
(* The two-slot journal is crash safe, for every set of transactions,      *)
(* every number of steps and both kinds of Rename.                         *)
(***************************************************************************)
EXTENDS JournalSlots, TLAPS

-----------------------------------------------------------------------------
(* Selection.  Both copies are well-formed in the states that matter, so   *)
(* SelectJournalCopy reduces to: the one that is newer.                    *)

\* Two missing files are no journal.
LEMMA SelectNone ==
    SelectJournalCopy(Missing, Missing) = "NoJournal"
  BY DEF SelectJournalCopy

\* A newer copy in slot A is selected.
LEMMA SelectA ==
    ASSUME NEW a, NEW b, CellOK(a), CellOK(b), Newer(a, b)
    PROVE  SelectJournalCopy(a, b) = "A"
  <1>1. CopyIsValid(a) /\ a \in JournalRecords /\ a # Missing
    BY JournalAssumption DEF CellOK, Newer, CopyIsValid, NotARecord
  <1>2. CASE b = Missing
    <2>1. ~CopyIsValid(b)
      BY <1>2 DEF CopyIsValid, NotARecord
    <2> QED
      BY <1>1, <1>2, <2>1 DEF SelectJournalCopy
  <1>3. CASE b # Missing
    <2>1. b \in JournalRecords /\ CopyIsValid(b)
      BY <1>3, JournalAssumption DEF CellOK, CopyIsValid, NotARecord
    <2>2. b.generation < a.generation
      BY <1>3 DEF Newer
    <2>3. a.generation \in Nat /\ b.generation \in Nat
      BY <1>1, <2>1 DEF JournalRecords
    <2>4. a.generation > b.generation /\ ~(b.generation > a.generation)
      BY <2>2, <2>3
    <2> QED
      BY <1>1, <1>3, <2>1, <2>4 DEF SelectJournalCopy
  <1> QED
    BY <1>2, <1>3

\* A newer copy in slot B is selected.
LEMMA SelectB ==
    ASSUME NEW a, NEW b, CellOK(a), CellOK(b), Newer(b, a)
    PROVE  SelectJournalCopy(a, b) = "B"
  <1>1. CopyIsValid(b) /\ b \in JournalRecords /\ b # Missing
    BY JournalAssumption DEF CellOK, Newer, CopyIsValid, NotARecord
  <1>2. CASE a = Missing
    <2>1. ~CopyIsValid(a)
      BY <1>2 DEF CopyIsValid, NotARecord
    <2> QED
      BY <1>1, <1>2, <2>1 DEF SelectJournalCopy
  <1>3. CASE a # Missing
    <2>1. a \in JournalRecords /\ CopyIsValid(a)
      BY <1>3, JournalAssumption DEF CellOK, CopyIsValid, NotARecord
    <2>2. a.generation < b.generation
      BY <1>3 DEF Newer
    <2>3. a.generation \in Nat /\ b.generation \in Nat
      BY <1>1, <2>1 DEF JournalRecords
    <2>4. b.generation > a.generation /\ ~(a.generation > b.generation) /\ a # b
      BY <2>2, <2>3
    <2> QED
      BY <1>1, <1>3, <2>1, <2>4 DEF SelectJournalCopy
  <1> QED
    BY <1>2, <1>3

\* Only a valid copy is ever selected.
LEMMA SelectedIsValid ==
    ASSUME NEW a, NEW b
    PROVE  /\ SelectJournalCopy(a, b) = "A" => CopyIsValid(a)
           /\ SelectJournalCopy(a, b) = "B" => CopyIsValid(b)
  BY DEF SelectJournalCopy

\* The journal of an ordered disk is the content of its newer slot.
LEMMA JournalIsNewest ==
    ASSUME TypeOK, SlotsOrdered
    PROVE  /\ BothMissing => Journal = Empty
           /\ \A s \in Slots : Newer(disk[s], disk[OtherSlot(s)]) =>
                                  Journal = disk[s]
           /\ AlwaysSelectable
  <1>1. BothMissing => /\ Journal = Empty
                       /\ SelectJournalCopy(disk["A"], disk["B"]) = "NoJournal"
    BY SelectNone DEF BothMissing, Journal, Slots
  <1>2. Newer(disk["A"], disk["B"]) =>
           /\ Journal = disk["A"]
           /\ SelectJournalCopy(disk["A"], disk["B"]) = "A"
    BY SelectA DEF SlotsOrdered, Journal, Slots
  <1>3. Newer(disk["B"], disk["A"]) =>
           /\ Journal = disk["B"]
           /\ SelectJournalCopy(disk["A"], disk["B"]) = "B"
    BY SelectB DEF SlotsOrdered, Journal, Slots
  <1> QED
    BY <1>1, <1>2, <1>3 DEF AlwaysSelectable, SlotsOrdered, Slots, OtherSlot

\* The same, of the state after a step.
LEMMA JournalIsNewestNext ==
    ASSUME TypeOK', SlotsOrdered'
    PROVE  \A s \in Slots : Newer(disk'[s], disk'[OtherSlot(s)]) =>
                                Journal' = disk'[s]
  <1>1. Newer(disk'["A"], disk'["B"]) => Journal' = disk'["A"]
    BY SelectA DEF SlotsOrdered, Journal, Slots
  <1>2. Newer(disk'["B"], disk'["A"]) => Journal' = disk'["B"]
    BY SelectB DEF SlotsOrdered, Journal, Slots
  <1> QED
    BY <1>1, <1>2 DEF Slots, OtherSlot

-----------------------------------------------------------------------------
(* The installer's records are records. *)

\* MakeIdleJournalRecord(1) is a valid record.
LEMMA IdleOne ==
    /\ MakeIdleJournalRecord(1) \in JournalRecords
    /\ RecordIsValid(MakeIdleJournalRecord(1))
  BY JournalAssumption
  DEF MakeIdleJournalRecord, JournalRecords, JournalStates, JournalFlags,
      RecordIsValid, IdleIsBlank

\* Moving a record to a known state with known flags leaves a record.
LEMMA MovedType ==
    ASSUME NEW r \in JournalRecords, NEW state \in JournalStates,
           NEW flags \in SUBSET JournalFlags, NEW steps \in Nat
    PROVE  Moved(r, state, flags, steps) \in JournalRecords
  BY DEF Moved, JournalRecords

\* Whatever a handler proposes to write is a record.
LEMMA ProposalsType ==
    ASSUME NEW r \in JournalRecords
    PROVE  Proposals(r) \subseteq JournalRecords
  <1>1. ASSUME NEW t \in Transactions, NEW reset \in BOOLEAN
        PROVE  Discovered(r, t, reset, TotalSteps) \in JournalRecords
    BY SlotsAssumption DEF Discovered, JournalRecords, JournalStates, JournalFlags
  <1>2. Idle(r) \in JournalRecords
    BY DEF Idle, MakeIdleJournalRecord, JournalRecords, JournalStates,
           JournalFlags
  <1>3. /\ Downloaded(r) \in JournalRecords
        /\ Prepared(r) \in JournalRecords
        /\ Staged(r) \in JournalRecords
        /\ Pending(r) \in JournalRecords
        /\ Healthy(r) \in JournalRecords
        /\ Committing(r) \in JournalRecords
        /\ SelectorDone(r) \in JournalRecords
        /\ Committed(r) \in JournalRecords
        /\ RollingBack(r) \in JournalRecords
    BY MovedType
    DEF Downloaded, Prepared, Staged, Pending, Healthy, Committing,
        SelectorDone, Committed, RollingBack, DownloadedFlags,
        JournalStates, JournalFlags
  <1>4. ASSUME NEW n \in Nat
        PROVE  Advanced(r, n) \in JournalRecords
    <2>1. r.state \in JournalStates
      BY DEF JournalRecords
    <2> QED
      BY <2>1, MovedType DEF Advanced
  <1>5. 1 .. (TotalSteps - r.completed_steps) \subseteq Nat
    BY SlotsAssumption DEF JournalRecords
  <1>6. r.state \in JournalStates
    BY DEF JournalRecords
  <1> QED
    BY <1>1, <1>2, <1>3, <1>4, <1>5, <1>6 DEF Proposals, JournalStates

-----------------------------------------------------------------------------
(* Type correctness. *)

\* Every variable keeps its type; in particular the slots only ever receive
\* records, Missing or a torn file.
LEMMA TypeStep ==
    ASSUME TypeOK, [Next]_vars
    PROVE  TypeOK'
  <1> USE DEF TypeOK, Files, Slots, Contents, NotARecord, PCs, memory
  <1>1. CASE LoadJournal
    <2> DEFINE selection == SelectJournalCopy(disk["A"], disk["B"])
    <2>1. CASE selection = "NoJournal"
      BY <1>1, <2>1 DEF LoadJournal
    <2>2. CASE selection \in Slots
      <3>1. CopyIsValid(disk[selection])
        BY <2>2, SelectedIsValid
      <3>2. disk[selection] \in JournalRecords
        BY <2>2, <3>1 DEF CopyIsValid
      <3> QED
        BY <1>1, <2>2, <3>2 DEF LoadJournal
    <2> QED
      BY <1>1, <2>1, <2>2 DEF LoadJournal
  <1>2. CASE WriteInitialJournal
    BY <1>2, IdleOne DEF WriteInitialJournal
  <1>3. ASSUME NEW r \in (IF record = Empty THEN {} ELSE Proposals(record)),
               WriteTransition(r)
        PROVE  TypeOK'
    <2>1. r \in JournalRecords
      BY <1>3, ProposalsType DEF WriteTransition
    <2> QED
      BY <1>3, <2>1 DEF WriteTransition, OtherSlot
  <1>4. CASE RemoveTemporary
    BY <1>4 DEF RemoveTemporary
  <1>5. CASE CreateTemporary
    BY <1>5 DEF CreateTemporary
  <1>6. CASE WriteAndSync
    BY <1>6 DEF WriteAndSync
  <1>7. CASE UnlinkDestination
    BY <1>7 DEF UnlinkDestination
  <1>8. CASE Publish
    BY <1>8 DEF Publish
  <1>9. CASE Readback
    BY <1>9 DEF Readback
  <1>10. CASE WriteFails
    BY <1>10 DEF WriteFails
  <1>11. CASE BeginRetirement
    BY <1>11 DEF BeginRetirement
  <1>12. CASE RetireTemporary
    BY <1>12 DEF RetireTemporary
  <1>13. CASE RetireOlder
    BY <1>13 DEF RetireOlder
  <1>14. CASE RetireNewer
    BY <1>14 DEF RetireNewer
  <1>15. CASE Stop
    BY <1>15 DEF Stop
  <1>16. CASE UNCHANGED vars
    BY <1>16 DEF vars
  <1> QED
    BY <1>1, <1>2, <1>3, <1>4, <1>5, <1>6, <1>7, <1>8, <1>9, <1>10, <1>11,
       <1>12, <1>13, <1>14, <1>15, <1>16 DEF Next

\* Type correctness of the journal on disk and of the Engine's memory.
THEOREM TypeCorrect == Spec => []TypeOK
  <1>1. Init => TypeOK
    BY IdleOne DEF Init, TypeOK, Files, Slots, Contents, NotARecord, PCs
  <1>2. TypeOK /\ [Next]_vars => TypeOK'
    BY TypeStep
  <1> QED
    BY <1>1, <1>2, PTL DEF Spec

-----------------------------------------------------------------------------
(* The order of the slots.  One step per action; only the actions that     *)
(* change a slot or the Engine's memory need more than their definition.   *)

\* Loading an ordered disk finds the slot that holds the newest record.
LEMMA LoadKeepsInv ==
    ASSUME TypeOK, SlotsInv, LoadJournal
    PROVE  SlotsInv'
  <1> USE DEF SlotsInv, SlotsOrdered, MemoryExact, WriteExact, ReadbackExact,
              RetireExact, Writing, Retiring, Holds, BothMissing
  <1>1. CASE BothMissing
    <2>1. SelectJournalCopy(disk["A"], disk["B"]) = "NoJournal"
      BY <1>1, SelectNone
    <2> QED
      BY <1>1, <2>1 DEF LoadJournal, Slots
  <1>2. CASE Newer(disk["A"], disk["B"])
    <2>1. SelectJournalCopy(disk["A"], disk["B"]) = "A"
      BY <1>2, SelectA
    <2>2. disk["A"] # Empty
      BY <1>2, SlotsAssumption DEF CellOK, Newer
    <2> QED
      BY <1>2, <2>1, <2>2 DEF LoadJournal, Slots, OtherSlot
  <1>3. CASE Newer(disk["B"], disk["A"])
    <2>1. SelectJournalCopy(disk["A"], disk["B"]) = "B"
      BY <1>3, SelectB
    <2>2. disk["B"] # Empty
      BY <1>3, SlotsAssumption DEF CellOK, Newer
    <2> QED
      BY <1>3, <2>1, <2>2 DEF LoadJournal, Slots, OtherSlot
  <1> QED
    BY <1>1, <1>2, <1>3

\* The new record outranks what remains when it is renamed into its slot.
LEMMA PublishKeepsInv ==
    ASSUME TypeOK, SlotsInv, Publish
    PROVE  SlotsInv' /\ Holds(dest, next)'
  <1> USE DEF TypeOK, Files, Slots
  <1>1. /\ pc = "rename" /\ pc' = "readback"
        /\ next' = next /\ dest' = dest
        /\ disk' = [disk EXCEPT ![dest] = next, !["tmp"] = Missing]
    BY DEF SlotsInv, WriteExact, Writing, Publish, memory
  <1>2. next # Missing /\ CellOK(next)
    BY <1>1, JournalAssumption DEF SlotsInv, WriteExact, Writing, CellOK
  <1>3. disk'[dest] = next /\ disk'[OtherSlot(dest)] = disk[OtherSlot(dest)]
    BY <1>1 DEF OtherSlot
  <1>4. Newer(next, disk[OtherSlot(dest)])
    <2>1. CASE record = Empty
      BY <1>1, <1>2, <2>1
      DEF SlotsInv, MemoryExact, Writing, BothMissing, Newer, OtherSlot
    <2>2. CASE record # Empty
      <3>1. /\ dest = OtherSlot(slot) /\ disk[slot] = record
            /\ next.generation = record.generation + 1
        BY <1>1, <2>2
        DEF SlotsInv, MemoryExact, WriteExact, Writing, Holds,
            ValidateJournalTransition
      <3>2. record.generation \in Nat
        BY <2>2 DEF JournalRecords
      <3>3. OtherSlot(dest) = slot
        BY <3>1 DEF OtherSlot
      <3> QED
        BY <1>2, <3>1, <3>2, <3>3 DEF Newer
    <2> QED
      BY <2>1, <2>2
  <1>5. SlotsOrdered'
    BY <1>2, <1>3, <1>4 DEF SlotsInv, SlotsOrdered, OtherSlot
  <1>6. Holds(dest, next)'
    BY <1>1, <1>3, <1>4 DEF Holds
  <1> QED
    BY <1>1, <1>5, <1>6
    DEF SlotsInv, MemoryExact, WriteExact, ReadbackExact, RetireExact,
        Writing, Retiring

\* Emptying the slot that does not hold the newest record changes nothing
\* that a boot could see.
LEMMA ClearOlder ==
    ASSUME TypeOK, SlotsOrdered, NEW s \in Slots,
           Newer(disk[s], disk[OtherSlot(s)]),
           disk' = [disk EXCEPT ![OtherSlot(s)] = Missing]
    PROVE  /\ SlotsOrdered'
           /\ disk'[s] = disk[s]
           /\ Newer(disk'[s], disk'[OtherSlot(s)])
  BY DEF TypeOK, Files, Slots, OtherSlot, SlotsOrdered, Newer, CellOK

\* Every step of the Engine, a failing file system call and a power cut
\* preserve the inductive invariant.
LEMMA InvStep ==
    ASSUME TypeOK, SlotsInv, [Next]_vars
    PROVE  SlotsInv'
  <1> USE DEF memory
  <1>0. disk \in [Files -> Contents] /\ slot \in Slots /\ dest \in Slots
    BY DEF TypeOK
  <1>a. ASSUME disk'["A"] = disk["A"], disk'["B"] = disk["B"]
        PROVE  SlotsOrdered' /\ (BothMissing' <=> BothMissing)
               /\ \A s \in Slots : \A r : Holds(s, r) =>
                      disk'[s] = r /\ Newer(disk'[s], disk'[OtherSlot(s)])
    BY <1>a DEF SlotsInv, SlotsOrdered, BothMissing, Holds, Slots, OtherSlot
  <1>b. ASSUME NEW x, disk' = [disk EXCEPT !["tmp"] = x]
        PROVE  disk'["A"] = disk["A"] /\ disk'["B"] = disk["B"]
               /\ disk'["tmp"] = x
    BY <1>0, <1>b DEF Files, Slots
  <1> USE DEF SlotsInv, MemoryExact, WriteExact, ReadbackExact, RetireExact,
              Writing, Retiring
  <1>1. CASE LoadJournal
    BY <1>1, LoadKeepsInv
  <1>2. CASE WriteInitialJournal
    BY <1>2, <1>a, IdleOne DEF WriteInitialJournal, Holds
  <1>3. ASSUME NEW r \in (IF record = Empty THEN {} ELSE Proposals(record)),
               WriteTransition(r)
        PROVE  SlotsInv'
    <2>1. RecordIsValid(r)
      BY <1>3 DEF WriteTransition, ValidateJournalTransition
    <2> QED
      BY <1>3, <2>1, <1>a DEF WriteTransition, Holds
  <1>4. CASE RemoveTemporary
    BY <1>4, <1>0, <1>a, <1>b DEF RemoveTemporary, Holds
  <1>5. CASE CreateTemporary
    BY <1>5, <1>0, <1>a, <1>b DEF CreateTemporary, Holds
  <1>6. CASE WriteAndSync
    BY <1>6, <1>0, <1>a, <1>b, ZenonT(40) DEF WriteAndSync, Holds
  <1>7. CASE UnlinkDestination
    <2>1. disk'["tmp"] = disk["tmp"]
      BY <1>7, <1>0 DEF UnlinkDestination, Files, Slots
    <2>2. CASE record = Empty
      <3>1. disk'["A"] = disk["A"] /\ disk'["B"] = disk["B"]
        BY <1>7, <1>0, <2>2 DEF UnlinkDestination, BothMissing, Files, Slots
      <3> QED
        BY <1>7, <1>a, <2>1, <2>2, <3>1 DEF UnlinkDestination
    <2>3. CASE record # Empty
      <3>1. Holds(slot, record) /\ dest = OtherSlot(slot)
        BY <1>7, <2>3 DEF UnlinkDestination
      <3>2. SlotsOrdered' /\ Holds(slot, record)'
        BY <1>7, <1>0, <3>1, ClearOlder DEF UnlinkDestination, Holds
      <3> QED
        BY <1>7, <2>1, <2>3, <3>1, <3>2 DEF UnlinkDestination
    <2> QED
      BY <2>2, <2>3
  <1>8. CASE Publish
    BY <1>8, PublishKeepsInv
  <1>9. CASE Readback
    <2>1. next # Empty
      BY SlotsAssumption DEF TypeOK
    <2> QED
      BY <1>9, <1>0, <1>a, <2>1 DEF Readback, Holds
  <1>10. CASE WriteFails
    <2>1. disk'["A"] = disk["A"] /\ disk'["B"] = disk["B"]
      BY <1>10, <1>b DEF WriteFails
    <2> QED
      BY <1>10, <1>a, <2>1 DEF WriteFails
  <1>11. CASE BeginRetirement
    BY <1>11, <1>a DEF BeginRetirement, Holds
  <1>12. CASE RetireTemporary
    BY <1>12, <1>0, <1>a, <1>b DEF RetireTemporary, Holds
  <1>13. CASE RetireOlder
    <2>1. Holds(slot, record) /\ record # Empty
      BY <1>13 DEF RetireOlder
    <2>2. SlotsOrdered' /\ Holds(slot, record)'
      BY <1>13, <1>0, <2>1, ClearOlder DEF RetireOlder, Holds
    <2>3. disk'[OtherSlot(slot)] = Missing
      BY <1>13, <1>0 DEF RetireOlder, OtherSlot, Files, Slots
    <2> QED
      BY <1>13, <2>1, <2>2, <2>3 DEF RetireOlder
  <1>14. CASE RetireNewer
    <2>1. SlotsOrdered'
      BY <1>14, <1>0
      DEF RetireNewer, SlotsOrdered, CellOK, Newer, BothMissing, Files, Slots
    <2> QED
      BY <1>14, <2>1 DEF RetireNewer
  <1>15. CASE Stop
    BY <1>15, <1>a DEF Stop
  <1>16. CASE UNCHANGED vars
    BY <1>16, <1>a DEF vars, Holds
  <1> QED
    BY <1>1, <1>2, <1>3, <1>4, <1>5, <1>6, <1>7, <1>8, <1>9, <1>10, <1>11,
       <1>12, <1>13, <1>14, <1>15, <1>16 DEF Next

\* The invariant holds in every reachable state.
THEOREM SlotsInvariant == Spec => []SlotsInv
  <1>1. Init => SlotsInv
    BY DEF Init, SlotsInv, SlotsOrdered, MemoryExact, WriteExact,
           ReadbackExact, RetireExact, Writing, Retiring, CellOK,
           BothMissing, Files, Slots
  <1>2. TypeOK /\ SlotsInv /\ [Next]_vars => SlotsInv'
    BY InvStep
  <1> QED
    BY <1>1, <1>2, TypeCorrect, PTL DEF Spec

\* Whenever power fails, the next boot's LoadJournal finds no journal or one
\* newest valid record, never a corrupt or an ambiguous journal.
THEOREM JournalAlwaysSelectable == Spec => []AlwaysSelectable
  <1>1. TypeOK /\ SlotsInv => AlwaysSelectable
    BY JournalIsNewest DEF SlotsInv
  <1> QED
    BY <1>1, TypeCorrect, SlotsInvariant, PTL

\* A running operation's record_ is what a boot would find, except between
\* the rename of a new record and its readback.
LEMMA MemoryIsJournal ==
    ASSUME TypeOK, SlotsInv
    PROVE  MemoryFollowsDisk
  <1> SUFFICES ASSUME pc \notin {"unloaded", "readback"}
               PROVE  record = Journal
    BY DEF MemoryFollowsDisk
  <1>1. IF record = Empty THEN BothMissing ELSE Holds(slot, record)
    BY DEF TypeOK, PCs, SlotsInv, MemoryExact, Writing, Retiring
  <1> QED
    BY <1>1, JournalIsNewest DEF TypeOK, SlotsInv, Holds

\* The record_ of a running operation is the journal a boot would find, for
\* any number of operations, failures and power cuts before it.
THEOREM MemoryIsDisk == Spec => []MemoryFollowsDisk
  BY MemoryIsJournal, TypeCorrect, SlotsInvariant, PTL

-----------------------------------------------------------------------------
(* Refinement.  Publish is the step at which the register is created or    *)
(* moves, RetireNewer the one at which it is emptied; every other step     *)
(* leaves what a boot would find as it is.                                 *)

\* If neither slot changes, neither does the journal.
LEMMA SameSlotsSameJournal ==
    ASSUME disk'["A"] = disk["A"], disk'["B"] = disk["B"]
    PROVE  Journal' = Journal
  BY DEF Journal, Slots

\* Emptying the older slot does not change the journal.
LEMMA ClearOlderSameJournal ==
    ASSUME TypeOK, TypeOK', SlotsOrdered, NEW s \in Slots,
           Newer(disk[s], disk[OtherSlot(s)]),
           disk' = [disk EXCEPT ![OtherSlot(s)] = Missing]
    PROVE  Journal' = Journal
  <1>1. Journal = disk[s]
    BY JournalIsNewest
  <1>2. /\ SlotsOrdered' /\ disk'[s] = disk[s]
        /\ Newer(disk'[s], disk'[OtherSlot(s)])
    BY ClearOlder
  <1>3. Journal' = disk'[s]
    BY <1>2, JournalIsNewestNext
  <1> QED
    BY <1>1, <1>2, <1>3

\* Publishing a record creates the register or moves it to that record.
LEMMA PublishIsTransition ==
    ASSUME TypeOK, TypeOK', SlotsInv, Publish
    PROVE  Register!Create \/ Register!Transition
  <1>1. SlotsInv' /\ disk'[dest] = next /\ dest \in Slots
        /\ Newer(disk'[dest], disk'[OtherSlot(dest)])
    BY PublishKeepsInv DEF Holds, Publish, memory, TypeOK
  <1>2. Journal' = next
    BY <1>1, JournalIsNewestNext DEF SlotsInv
  <1>3. Journal = record
    BY MemoryIsJournal DEF MemoryFollowsDisk, Publish
  <1>4. next \in JournalRecords
    BY DEF TypeOK
  <1>5. CASE record = Empty
    <2>1. next = MakeIdleJournalRecord(1)
      BY <1>5 DEF SlotsInv, WriteExact, Writing, Publish
    <2> QED
      BY <1>2, <1>3, <1>5, <2>1 
      DEF Register!Create, Register!MakeIdleJournalRecord, MakeIdleJournalRecord
  <1>6. CASE record # Empty
    <2>1. ValidateJournalTransition(record, next)
      BY <1>6 DEF SlotsInv, WriteExact, Writing, Publish
    <2>2. next \in Register!JournalRecords
      BY <1>4 DEF JournalRecords, JournalStates, JournalFlags,
                  Register!JournalRecords, Register!JournalStates,
                  Register!JournalFlags
    <2>3. Register!ValidateJournalTransition(record, next)
      BY <2>1 DEF ValidateJournalTransition, RecordIsValid, IdleIsBlank,
                  RequiredFlagsForState, AllowedFlagsForState,
                  ResetConsentGiven, StateEdgeAllowed, ForwardEdges,
                  StagedFlags, DownloadedFlags, ConsentFlags, JournalFlags,
                  Register!ValidateJournalTransition, Register!RecordIsValid,
                  Register!IdleIsBlank, Register!RequiredFlagsForState,
                  Register!AllowedFlagsForState, Register!ResetConsentGiven,
                  Register!StateEdgeAllowed, Register!ForwardEdges,
                  Register!StagedFlags, Register!DownloadedFlags,
                  Register!ConsentFlags, Register!JournalFlags
    <2> QED
      BY <1>2, <1>3, <1>6, <2>2, <2>3 DEF Register!Transition
  <1> QED
    BY <1>5, <1>6

\* Removing the newest record empties the register.
LEMMA RetireNewerIsRetire ==
    ASSUME TypeOK, TypeOK', SlotsInv, RetireNewer
    PROVE  Register!Retire
  <1>1. Journal = record
    BY MemoryIsJournal DEF MemoryFollowsDisk, RetireNewer
  <1>2. record # Empty /\ record.state \in {"Idle", "Committed"}
        /\ disk[OtherSlot(slot)] = Missing
    BY DEF SlotsInv, RetireExact, Retiring, RetireNewer
  <1>3. disk'["A"] = Missing /\ disk'["B"] = Missing
    BY <1>2 DEF RetireNewer, TypeOK, Files, Slots, OtherSlot
  <1>4. Journal' = Empty
    BY <1>3, SelectNone DEF Journal, Slots
  <1> QED
    BY <1>1, <1>2, <1>4 DEF Register!Retire

\* Every step of the two-slot journal is a step of the register or leaves it
\* as it is.
LEMMA StepRefines ==
    ASSUME TypeOK, TypeOK', SlotsInv, [Next]_vars
    PROVE  [Register!Next]_Journal
  <1> USE DEF memory
  <1>1. CASE Publish
    BY <1>1, PublishIsTransition DEF Register!Next
  <1>2. CASE RetireNewer
    BY <1>2, RetireNewerIsRetire DEF Register!Next
  <1>3. CASE RetireOlder
    <2>1. Newer(disk[slot], disk[OtherSlot(slot)]) /\ slot \in Slots
      BY <1>3 DEF RetireOlder, SlotsInv, MemoryExact, RetireExact, Retiring,
                  Holds, TypeOK
    <2> QED
      BY <1>3, <2>1, ClearOlderSameJournal DEF RetireOlder, SlotsInv
  <1>4. CASE UnlinkDestination
    <2>1. CASE record = Empty
      <3>1. disk'["A"] = disk["A"] /\ disk'["B"] = disk["B"]
        BY <1>4, <2>1 DEF UnlinkDestination, SlotsInv, MemoryExact, Writing,
                          BothMissing, TypeOK, Files, Slots
      <3> QED
        BY <3>1, SameSlotsSameJournal
    <2>2. CASE record # Empty
      <3>1. Newer(disk[slot], disk[OtherSlot(slot)]) /\ slot \in Slots
            /\ dest = OtherSlot(slot)
        BY <1>4, <2>2 DEF UnlinkDestination, SlotsInv, MemoryExact, WriteExact,
                          Writing, Holds, TypeOK
      <3> QED
        BY <1>4, <3>1, ClearOlderSameJournal DEF UnlinkDestination, SlotsInv
    <2> QED
      BY <2>1, <2>2
  <1>5. CASE ~(Publish \/ RetireNewer \/ RetireOlder \/ UnlinkDestination)
    <2>1. disk'["A"] = disk["A"] /\ disk'["B"] = disk["B"]
      BY <1>5 DEF Next, vars, TypeOK, Files, Slots, LoadJournal,
                  WriteInitialJournal, WriteTransition, RemoveTemporary,
                  CreateTemporary, WriteAndSync, Readback, WriteFails,
                  BeginRetirement, RetireTemporary, Stop
    <2> QED
      BY <2>1, SameSlotsSameJournal
  <1> QED
    BY <1>1, <1>2, <1>3, <1>4, <1>5

\* Files removed and replaced one by one, with failures and power cuts between
\* any two of them, implement a single cell that changes atomically.
THEOREM RegisterImplemented == Spec => ImplementsRegister
  <1>1. Init => Register!Init
    BY SelectNone DEF Init, Register!Init, Journal, Files, Slots
  <1>2. TypeOK /\ TypeOK' /\ SlotsInv /\ [Next]_vars => [Register!Next]_Journal
    BY StepRefines
  <1> QED
    BY <1>1, <1>2, TypeCorrect, SlotsInvariant, PTL
    DEF Spec, ImplementsRegister, Register!Spec

=============================================================================
