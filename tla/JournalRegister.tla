-------------------------- MODULE JournalRegister --------------------------
(***************************************************************************)
(* What the rest of the updater may assume about its journal: one cell     *)
(* that holds nothing or one valid record and changes in one step.  The    *)
(* cell is created with the Idle record of generation one, moves only      *)
(* along validated transitions, and is emptied only when the transaction   *)
(* is over (Idle or Committed).  A power cut is not a step of this         *)
(* specification: it leaves the cell as it is.                             *)
(***************************************************************************)
EXTENDS UpdateJournal

CONSTANT Empty      \* the value of a journal that does not exist

VARIABLE value

Init == value = Empty

Create ==
    /\ value = Empty
    /\ value' = MakeIdleJournalRecord(1)

Transition ==
    /\ value # Empty
    /\ value' \in JournalRecords
    /\ ValidateJournalTransition(value, value')

Retire ==
    /\ value # Empty
    /\ value.state \in {"Idle", "Committed"}
    /\ value' = Empty

Next == Create \/ Transition \/ Retire

Spec == Init /\ [][Next]_value

=============================================================================
