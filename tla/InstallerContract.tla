-------------------------- MODULE InstallerContract --------------------------
(***************************************************************************)
(* What the orchestrator relies on of the installer: the journal, as far   *)
(* as its state, its owner and the recorded consent go, the step that each *)
(* operation may take on it, and whether a rollback can still be finished: *)
(* undo is                                                                 *)
(*   "free"    every boot may repeat the rollback until it succeeds,       *)
(*   "once"    only the call that runs may finish it, and                  *)
(*   "barred"  Rollback is refused (or will be, once it is asked for).     *)
(* UpdateInstaller implements it, and shows that a free rollback ends.     *)
(***************************************************************************)
EXTENDS UpdateRequests

CONSTANT NoJournal

VARIABLES journal, undo

OwnedStates ==
    {"Discovered", "Downloaded", "Prepared", "Staged", "CandidatePending",
     "CandidateHealthy", "Committing", "Committed", "RollingBack"}

\* "Anchor" is the Idle record of generation one, "Idle" any later one.
ContractRecords ==
    [state : {"Anchor", "Idle"}, owner : {NoRequest}, approved : {FALSE}]
       \cup [state : OwnedStates, owner : Requests, approved : BOOLEAN]

ASSUME JournalAssumption == NoJournal \notin ContractRecords

Blank(state) == [state |-> state, owner |-> NoRequest, approved |-> FALSE]

Undos == {"free", "once", "barred"}

ContractTypeOK ==
    journal \in ContractRecords \cup {NoJournal} /\ undo \in Undos

At(states) == journal # NoJournal /\ journal.state \in states

Owns(r, states) == At(states) /\ journal.owner = r

MoveTo(state) == journal' = [journal EXCEPT !.state = state]

\* The consent to a reset is recorded only with Downloaded.
StageJournal(r) ==
    /\ \/ journal = NoJournal /\ journal' = Blank("Anchor")
       \/ /\ At({"Anchor"})
          /\ journal' = [state |-> "Discovered", owner |-> r, approved |-> FALSE]
       \/ /\ Owns(r, {"Discovered"})
          /\ journal' = [journal EXCEPT !.state = "Downloaded",
                                        !.approved = ResetOf[r]]
       \/ Owns(r, {"Downloaded"}) /\ MoveTo("Prepared")
       \/ Owns(r, {"Prepared"}) /\ MoveTo("Staged")
    /\ UNCHANGED undo

\* Between the arming of the candidate selector and the record of it no
\* rollback may know whose the selector is.
ArmJournal(r) ==
    /\ Owns(r, {"Staged"})
    /\ \/ undo = "free" /\ undo' = "barred" /\ UNCHANGED journal
       \/ MoveTo("CandidatePending") /\ undo' = "free"

HealthyJournal(r) ==
    /\ Owns(r, {"CandidatePending"})
    /\ MoveTo("CandidateHealthy")
    /\ UNCHANGED undo

\* Between the unlink of the active selector and the rename that puts it back
\* a rollback cannot disarm the candidate.
CommitJournal(r) ==
    \/ Owns(r, {"CandidateHealthy"}) /\ MoveTo("Committing") /\ UNCHANGED undo
    \/ /\ Owns(r, {"Committing"}) /\ undo = "free"
       /\ undo' = "barred" /\ UNCHANGED journal
    \/ Owns(r, {"Committing"}) /\ MoveTo("Committed") /\ undo' = "free"

\* A rollback that finds no content plan has to write its two records in one
\* call.  A barred one is refused, whichever boot asks for it.
RollbackJournal(r) ==
    \/ /\ \/ Owns(r, {"Discovered", "Downloaded"})
          \/ Owns(r, {"RollingBack"}) /\ undo # "barred"
       /\ journal' = Blank("Idle")
       /\ undo' = "free"
    \/ /\ Owns(r, OwnedStates \ {"Discovered", "Downloaded", "RollingBack"})
       /\ MoveTo("RollingBack")
       /\ \/ UNCHANGED undo
          \/ journal.state = "Prepared" /\ undo' = "once"

RetireJournal(r) ==
    /\ At({"Anchor", "Idle"}) \/ Owns(r, {"Committed"})
    /\ journal' = NoJournal
    /\ UNCHANGED undo

\* A call ends early: a power cut, a failing call, a refusal.
Interrupted == undo' = IF undo = "once" THEN "barred" ELSE undo

InterruptJournal == UNCHANGED journal /\ Interrupted

\* Before the rollback is asked for, the call that had barred it may go on, or
\* be repeated, and put the selector right again.
RepairJournal(r) ==
    /\ Owns(r, {"Staged", "Committing"}) /\ undo = "barred"
    /\ undo' = "free" /\ UNCHANGED journal

ContractNext ==
    \/ \E r \in Requests :
          \/ StageJournal(r) \/ ArmJournal(r) \/ HealthyJournal(r)
          \/ CommitJournal(r) \/ RollbackJournal(r) \/ RetireJournal(r)
          \/ RepairJournal(r)
    \/ InterruptJournal

ContractSpec ==
    /\ journal = NoJournal /\ undo = "free"
    /\ [][ContractNext]_<<journal, undo>>

=============================================================================
