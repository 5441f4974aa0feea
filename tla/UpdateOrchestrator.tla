------------------------- MODULE UpdateOrchestrator -------------------------
(***************************************************************************)
(* An update from the menu to its end, over any number of boots            *)
(* (src/update/update_orchestrator, update_recovery_executor, the boot and *)
(* install paths of update_service, the reboot control and the watchdog).  *)
(*                                                                         *)
(* The orchestrator is a list of things to do: Start, ResumeAfterBoot and  *)
(* RetireCommitted each begin with one, every step takes its head off, and *)
(* a step that fails puts the clean-up the code performs in its place.     *)
(* Power may be lost and calls may fail between any two effects on the     *)
(* disk; the user may cancel where the code asks the progress owner.       *)
(***************************************************************************)
EXTENDS RequestStore, InstallerContract, ArchiveStorage, CandidateHealth,
        Sequences

CONSTANT MaxFaults      \* failing calls in one behaviour

ASSUME FaultAssumption == MaxFaults \in Nat

VARIABLES
    prepared,   \* the prepared configuration: "none", "partial" or "ready"
    tryboot,    \* the firmware's one-shot flag
    boot,       \* what the running system was started as
    watchdog,   \* the candidate watchdog
    pc,         \* what runs
    todo,       \* the steps left of it
    self,       \* the request it works for
    used,       \* transaction identities already generated
    faults      \* calls that failed so far

machine == <<tryboot, boot, watchdog>>
control == <<pc, todo, self>>
vars == <<storeVars, journal, undo, archiveVars, prepared, machine, control, used,
          faults>>

\* Start, in the order of the code; retirement comes first.
RetirePlan(kind) ==
    CASE kind = "committed" -> <<"retire_committed", "discard_committed">>
      [] kind = "retiring"  -> <<"discard_committed">>
      [] OTHER -> <<>>

StartPlan ==
    <<"begin", "persist", "fetch", "finish", "open", "rehash", "prepare",
      "stage", "close_checked", "arm", "reboot_candidate">>

CleanupTransaction == <<"discard_archive", "discard_prepared", "discard_request">>

\* Mutant: the request goes before the installer's own files.
CleanupRequestFirst ==
    <<"discard_archive", "discard_prepared", "discard_request",
      "retire_rolled_back">>

CleanupRolledBackTransaction ==
    <<"discard_archive", "discard_prepared", "retire_rolled_back",
      "discard_request">>

\* The caller of a recovery that committed stops the watchdog.
RetainCommittedTransaction ==
    <<"discard_archive", "discard_prepared", "retain", "stop_watchdog">>

DiscardDownloadedRequest == <<"discard_archive", "discard_request">>

AbortDownloadAndDiscardRequest == <<"abort", "discard_request">>

RequestPreviousFailSafe == <<"deactivate", "reboot_previous">>

RollBackAndClean == <<"rollback">> \o CleanupRolledBackTransaction

RollBackAndReboot == RollBackAndClean \o <<"deactivate", "reboot_previous">>

StoreOperation ==
    [persist |-> "Save", discard_request |-> "Discard",
     deactivate |-> "Deactivate", retain |-> "RetainCommitted",
     discard_committed |-> "DiscardCommitted"]

Steps ==
    DOMAIN StoreOperation \cup
    {"retire_committed", "identify", "begin", "fetch", "finish", "open", "rehash",
     "prepare", "stage", "close", "close_checked", "arm", "reboot_candidate",
     "abort", "discard_archive", "discard_prepared", "retire_rolled_back",
     "rollback", "reboot_previous", "mark_healthy", "commit", "stop_watchdog"}

TypeOK ==
    /\ StoreTypeOK /\ ContractTypeOK /\ ArchiveTypeOK
    /\ prepared \in [Requests -> {"none", "partial", "ready"}]
    /\ tryboot \in BOOLEAN
    /\ boot \in {"normal", "tryboot"}
    /\ watchdog \in {"off", "owned", "stopped"}
    /\ pc \in {"off", "guard", "recover", "menu", "start", "resume"}
    /\ todo \in Seq(Steps)
    /\ self \in Requests \cup {NoRequest}
    /\ used \subseteq Requests
    /\ faults \in 0 .. MaxFaults

Init ==
    /\ StoreInit /\ ArchiveInit
    /\ journal = NoJournal /\ undo = "free"
    /\ prepared = [r \in Requests |-> "none"]
    /\ tryboot = FALSE /\ boot = "normal" /\ watchdog = "off"
    /\ pc = "menu" /\ todo = <<>> /\ self = NoRequest
    /\ used = {} /\ faults = 0

-----------------------------------------------------------------------------
(* The list of things to do. *)

Do(step) ==
    pc \in {"start", "resume"} /\ todo # <<>> /\ Head(todo) = step

Succeed == todo' = Tail(todo) /\ UNCHANGED <<pc, self>>

Become(plan) == todo' = plan /\ UNCHANGED <<pc, self>>

\* What still happens when a clean-up step fails: the callers that reboot
\* deactivate the request all the same, the others return.
AfterFailedCleanup ==
    IF \E i \in DOMAIN todo : todo[i] = "deactivate"
    THEN RequestPreviousFailSafe ELSE <<>>

CleanupSteps ==
    {"discard_archive", "discard_prepared", "retire_rolled_back",
     "discard_request"}

\* Rollback is attempted only if the journal left Idle.
RollbackIfStarted ==
    IF journal # NoJournal /\ journal.state \notin {"Anchor", "Idle"}
    THEN RollBackAndClean ELSE CleanupRolledBackTransaction

\* Mutant: a candidate whose commit was interrupted is tried once more.
RecoveryRetries(step, outcome) ==
    IF step \in {"mark_healthy", "commit"} THEN RetainCommittedTransaction
    ELSE <<>>

\* The clean-up that a failing step is replaced by.  A refused watchdog
\* report ends boot recovery at once.
Recovery(step, outcome) ==
    IF pc = "resume" /\ outcome = "progress" THEN <<>> ELSE
    CASE step \in {"persist", "fetch", "finish"} -> AbortDownloadAndDiscardRequest
      [] step = "open" -> DiscardDownloadedRequest
      [] step = "rehash" -> <<"close">> \o DiscardDownloadedRequest
      [] step = "prepare" -> <<"close">> \o CleanupTransaction
      [] step = "stage" -> <<"close">> \o RollbackIfStarted
      [] step = "close_checked" -> RollBackAndClean
      [] step \in {"arm", "reboot_candidate"} -> RollBackAndReboot
      [] step \in {"mark_healthy", "commit"} -> RollBackAndReboot
      [] step \in CleanupSteps -> AfterFailedCleanup
      [] OTHER -> <<>>

Fault == faults < MaxFaults /\ faults' = faults + 1

NoFault == UNCHANGED faults

DiskUnchanged == UNCHANGED <<storeVars, journal, undo, archiveVars, prepared>>

-----------------------------------------------------------------------------
(* The menu. *)

\* InstallCheckedUpdateFromMenu: a live activation is never displaced, and a
\* retained transaction is retired first.
InstallCheckedUpdate ==
    /\ pc = "menu" /\ used # Requests
    /\ ~Present("active") /\ ~(Present("committed") /\ Present("retiring"))
    /\ Present("committed") => Loads("committed")
    /\ todo' = RetirePlan(IF Present("retiring") THEN "retiring"
                          ELSE IF Present("committed") THEN "committed"
                          ELSE "none") \o <<"identify">> \o StartPlan
    /\ pc' = "start"
    /\ NoFault
    /\ DiskUnchanged /\ UNCHANGED <<machine, self, used>>

\* GenerateTransactionId: never one that was used before.
Identify ==
    /\ Do("identify")
    /\ \E r \in Requests \ used : self' = r /\ used' = used \cup {r}
    /\ todo' = Tail(todo) /\ UNCHANGED pc
    /\ NoFault
    /\ DiskUnchanged /\ UNCHANGED machine

\* The call returns and its objects are destroyed.
Return ==
    /\ pc \in {"start", "resume"} /\ todo = <<>>
    /\ pc' = "menu" /\ self' = NoRequest /\ UNCHANGED todo
    /\ ArchiveDestroy
    /\ NoFault
    /\ UNCHANGED <<storeVars, journal, undo, prepared, machine, used>>

-----------------------------------------------------------------------------
(* The request store: its operations run one file system call at a time. *)

CallStore(step) ==
    /\ Do(step) /\ result = "none"
    /\ Invoke(StoreOperation[step],
              IF step = "persist" THEN self ELSE NoRequest)
    /\ NoFault
    /\ UNCHANGED <<journal, undo, archiveVars, prepared, machine, control, used>>

RunStore ==
    /\ StoreStep
    /\ NoFault
    /\ UNCHANGED <<journal, undo, archiveVars, prepared, machine, control, used>>

\* Reports can be refused only by the watchdog of a candidate boot: the
\* operations of the store are mandatory and cannot be cancelled.
FailStore ==
    /\ \/ StoreCallFails("failed")
       \/ boot = "tryboot" /\ StoreCallFails("progress")
    /\ Fault
    /\ UNCHANGED <<journal, undo, archiveVars, prepared, machine, control, used>>

StoreReturns(step) ==
    /\ Do(step) /\ call = NoCall /\ result # "none"
    /\ result' = "none"
    /\ IF result = "ok" THEN Succeed ELSE Become(Recovery(step, result))
    /\ NoFault
    /\ UNCHANGED <<record, payload, part, call, journal, undo, archiveVars,
                   prepared, machine, used>>

-----------------------------------------------------------------------------
(* The archive and the prepared configuration. *)

ArchiveStep ==
    /\ \/ Do("begin") /\ ArchiveBegin(self) /\ Succeed
       \/ /\ Do("fetch") /\ Succeed
          /\ ArchiveWrite("whole")
       \/ /\ Do("finish")
          /\ \/ ArchivePublish /\ UNCHANGED control
             \/ ArchiveFinished /\ Succeed
       \/ Do("open") /\ ArchiveOpenRead(self) /\ Succeed
       \/ /\ Do("rehash") /\ archiveFinal[self] = "whole" /\ Succeed
          /\ UNCHANGED archiveVars
       \/ /\ Do("close") \/ Do("close_checked")
          /\ ArchiveCloseRead /\ Succeed
       \/ Do("abort") /\ ArchiveAbort /\ Succeed
       \/ /\ Do("discard_archive")
          /\ \/ ArchiveDiscardPart(self) /\ UNCHANGED control
             \/ ArchiveDiscardFinal(self) /\ Succeed
    /\ NoFault
    /\ UNCHANGED <<storeVars, journal, undo, prepared, machine, used>>

\* The server sends other bytes than the signed ones, or none at all.
BadDownload ==
    /\ Do("fetch")
    /\ ArchiveWrite("wrong")
    /\ Become(Recovery("fetch", "failed"))
    /\ NoFault
    /\ UNCHANGED <<storeVars, journal, undo, prepared, machine, used>>

ArchiveFails ==
    /\ \/ /\ \E s \in {"begin", "fetch", "open", "rehash"} :
                Do(s) /\ Become(Recovery(s, "failed"))
          /\ UNCHANGED archiveVars
       \/ /\ Do("finish") /\ ArchiveFinishFails
          /\ Become(Recovery("finish", "failed"))
       \/ /\ Do("close_checked") /\ ArchiveCloseRead
          /\ Become(Recovery("close_checked", "failed"))
       \/ Do("abort") /\ ArchiveAbortFails /\ Succeed
       \/ /\ Do("discard_archive") /\ ArchiveDiscardFails(self)
          /\ \/ Become(Recovery("discard_archive", "failed"))
             \/ /\ boot = "tryboot"
                /\ Become(Recovery("discard_archive", "progress"))
    /\ Fault
    /\ UNCHANGED <<storeVars, journal, undo, prepared, machine, used>>

\* PrepareForStage writes the evidence after every item, Discard removes it
\* before any of them.
PreparedStep ==
    /\ \/ /\ Do("prepare") /\ prepared[self] = "none"
          /\ prepared' = [prepared EXCEPT ![self] = "partial"]
          /\ UNCHANGED control
       \/ /\ Do("prepare") /\ prepared[self] = "partial"
          /\ prepared' = [prepared EXCEPT ![self] = "ready"]
          /\ Succeed
       \/ /\ Do("discard_prepared") /\ prepared[self] = "ready"
          /\ prepared' = [prepared EXCEPT ![self] = "partial"]
          /\ UNCHANGED control
       \/ /\ Do("discard_prepared") /\ prepared[self] # "ready"
          /\ prepared' = [prepared EXCEPT ![self] = "none"]
          /\ Succeed
    /\ NoFault
    /\ UNCHANGED <<storeVars, journal, undo, archiveVars, machine, used>>

PreparedFails ==
    /\ \/ Do("prepare") /\ Become(Recovery("prepare", "failed"))
       \/ /\ Do("discard_prepared")
          /\ \E outcome \in {"failed"} \cup
                            (IF boot = "tryboot" THEN {"progress"} ELSE {}) :
                Become(Recovery("discard_prepared", outcome))
    /\ Fault
    /\ UNCHANGED <<storeVars, journal, undo, archiveVars, prepared, machine, used>>

-----------------------------------------------------------------------------
(* The installer, through its contract.  RepairJournal is left out: what a *)
(* repeated call repairs and then breaks again is the state it repaired.   *)

InstallerAccepts(step) ==
    CASE step = "stage"  -> Owns(self, {"Staged"})
      [] step = "arm"    -> Owns(self, {"CandidatePending"})
      [] step = "mark_healthy" -> Owns(self, {"CandidateHealthy"})
      [] step = "commit" -> Owns(self, {"Committed"})
      [] step = "rollback" -> At({"Anchor", "Idle"})
      [] OTHER -> journal = NoJournal

InstallerMoves(step) ==
    CASE step = "stage"  -> StageJournal(self)
      [] step = "arm"    -> ArmJournal(self)
      [] step = "mark_healthy" -> HealthyJournal(self)
      [] step = "commit" -> CommitJournal(self)
      [] step = "rollback" -> RollbackJournal(self)
      [] step = "retire_rolled_back" -> At({"Anchor", "Idle"})
                                        /\ RetireJournal(self)
      [] OTHER -> Owns(record["committed"], {"Committed"})
                  /\ RetireJournal(record["committed"])

\* The rollback can no longer be finished: every boot asks for it in vain.
Refused == At({"RollingBack"}) /\ undo = "barred"

\* The journals from which an operation has a step to take.
InstallerMay(step) ==
    CASE step = "stage"  -> \/ journal = NoJournal \/ At({"Anchor"})
                            \/ Owns(self, {"Discovered", "Downloaded", "Prepared"})
      [] step = "arm"    -> Owns(self, {"Staged"})
      [] step = "mark_healthy" -> Owns(self, {"CandidatePending"})
      [] step = "commit" -> Owns(self, {"CandidateHealthy", "Committing"})
      [] step = "rollback" -> Owns(self, OwnedStates) /\ ~Refused
      [] step = "retire_rolled_back" -> At({"Anchor", "Idle"})
      [] OTHER -> Owns(record["committed"], {"Committed"})

InstallerSteps ==
    {"stage", "arm", "mark_healthy", "commit", "rollback",
     "retire_rolled_back", "retire_committed"}

InstallerStep(step) ==
    /\ Do(step)
    /\ \/ ~InstallerAccepts(step) /\ InstallerMoves(step) /\ UNCHANGED control
       \/ InstallerAccepts(step) /\ Succeed /\ UNCHANGED <<journal, undo>>
    /\ NoFault
    /\ UNCHANGED <<storeVars, archiveVars, prepared, machine, used>>

\* The journal is not one this operation may work on: a foreign transaction,
\* the Idle record of an older one, a state it does not accept, a rollback
\* that cannot be finished.
InstallerRefuses(step) ==
    /\ Do(step) /\ ~InstallerAccepts(step) /\ ~InstallerMay(step)
    /\ Become(Recovery(step, "failed"))
    /\ NoFault
    /\ DiskUnchanged /\ UNCHANGED <<machine, used>>

InstallerFails(step) ==
    /\ Do(step)
    /\ \/ Become(Recovery(step, "failed"))
       \/ boot = "tryboot" /\ Become(Recovery(step, "progress"))
    /\ Fault
    /\ Interrupted
    /\ UNCHANGED <<storeVars, journal, archiveVars, prepared, machine, used>>

-----------------------------------------------------------------------------
\* The user cancels: the next report of a step that is not mandatory fails.
\* Arm reports before it touches the candidate selector and after its record.
Cancel ==
    /\ pc = "start"
    /\ \E step \in {"retire_committed", "begin", "fetch", "rehash", "prepare",
                    "stage", "arm", "reboot_candidate"} :
          /\ Do(step) /\ Become(Recovery(step, "progress"))
          /\ step = "arm" => undo # "barred"
    /\ NoFault
    /\ DiskUnchanged /\ UNCHANGED <<machine, used>>

-----------------------------------------------------------------------------
(* Reboots and power. *)

\* Everything in memory is lost.
Down ==
    /\ pc' = "off" /\ todo' = <<>> /\ self' = NoRequest
    /\ watchdog' = "off"
    /\ StoreLosesPower /\ ArchiveLosesPower
    /\ Interrupted
    /\ UNCHANGED <<journal, prepared, boot, used>>

\* RequestReboot: the flag is set or cleared and read back, then the reset.
RequestReboot ==
    /\ \/ Do("reboot_candidate") /\ tryboot' = TRUE
       \/ Do("reboot_previous") /\ tryboot' = FALSE
    /\ NoFault
    /\ Down

\* Shutdown preparation, the flag or its read-back fails; nothing is undone.
RebootFails ==
    /\ \E step \in {"reboot_candidate", "reboot_previous"} :
          /\ Do(step) /\ Become(Recovery(step, "failed"))
          /\ tryboot' \in {tryboot, step = "reboot_candidate"}
    /\ Fault
    /\ DiskUnchanged /\ UNCHANGED <<boot, watchdog, used>>

\* The one-shot flag may or may not survive.
PowerCut ==
    /\ pc # "off"
    /\ tryboot' \in {tryboot, FALSE}
    /\ NoFault
    /\ Down

\* Nobody feeds the watchdog once recovery has returned.
WatchdogFires ==
    /\ pc = "menu" /\ watchdog = "owned"
    /\ tryboot' = tryboot
    /\ NoFault
    /\ Down

\* StopAfterCommit.
StopWatchdog ==
    /\ Do("stop_watchdog")
    /\ watchdog' = IF watchdog = "owned" THEN "stopped" ELSE watchdog
    /\ Succeed
    /\ NoFault
    /\ DiskUnchanged /\ UNCHANGED <<tryboot, boot, used>>

\* The hardware goes on running; its reset is one into a committed update.
StopWatchdogFails ==
    /\ Do("stop_watchdog")
    /\ Succeed
    /\ Fault
    /\ DiskUnchanged /\ UNCHANGED <<machine, used>>

\* The firmware clears the flag as it honours it.
PowerOn ==
    /\ pc = "off"
    /\ boot' = IF tryboot THEN "tryboot" ELSE "normal"
    /\ tryboot' = FALSE
    /\ pc' = "guard"
    /\ NoFault
    /\ DiskUnchanged /\ UNCHANGED <<watchdog, todo, self, used>>

\* ArmCandidateUpdateWatchdogBeforeRuntime.
ArmWatchdog ==
    /\ pc = "guard"
    /\ watchdog' = IF boot = "tryboot" THEN "owned" ELSE "off"
    /\ pc' = "recover"
    /\ NoFault
    /\ DiskUnchanged /\ UNCHANGED <<tryboot, boot, todo, self, used>>

\* Mutant: a watchdog that does not start is left to the check of recovery.
WatchdogIgnored ==
    /\ pc = "guard" /\ boot = "tryboot"
    /\ Fault
    /\ pc' = "recover"
    /\ DiskUnchanged /\ UNCHANGED <<machine, todo, self, used>>

\* The watchdog does not start: clear the flag and reboot; if that fails too
\* the boot goes on to the check in RecoverPendingUpdateAfterBoot.
WatchdogFails ==
    /\ pc = "guard" /\ boot = "tryboot"
    /\ \/ tryboot' = FALSE /\ Fault /\ Down
       \/ /\ faults + 2 \in 0 .. MaxFaults /\ faults' = faults + 2
          /\ pc' = "recover"
          /\ DiskUnchanged /\ UNCHANGED <<machine, todo, self, used>>

-----------------------------------------------------------------------------
(* RecoverPendingUpdateAfterBoot, UpdateRecoveryExecutor::Run and the      *)
(* decisions of ResumeAfterBoot.                                           *)

Recover(plan) == pc' = "resume" /\ todo' = plan /\ self' = record["active"]

NothingPending ==
    /\ IF boot = "tryboot" THEN Recover(<<"reboot_previous">>)
       ELSE pc' = "menu" /\ UNCHANGED <<todo, self>>

\* JournalBoundToTransaction: the consent flag is compared too.
JournalBound ==
    /\ journal.owner = record["active"]
    /\ journal.approved = ResetOf[record["active"]]

\* CandidateJournalValid: besides being bound to the request, the journal
\* stands where arming left it.
CandidateJournalValid == At({"CandidatePending"}) /\ JournalBound

\* Mutant: the watchdog is not part of the evidence.
HealthyUnguarded(found) ==
    EvaluateCandidateHealth(Collect(found, TRUE, TRUE, CandidateJournalValid))

\* The probe and its verdict for the system that is running.
CandidateHealthy(found) ==
    EvaluateCandidateHealth(
        Collect(found, boot = "tryboot", watchdog = "owned", CandidateJournalValid))

\* RestoreForResume succeeds and PreparedSetValid: what was prepared for this
\* request is there, for every template of the manifest.
PreparedSetValid == prepared[record["active"]] = "ready"

ResumePlan(found) ==
    IF journal = NoJournal \/ At({"Anchor", "Idle"})
    THEN CleanupRolledBackTransaction
    ELSE IF ~JournalBound THEN RequestPreviousFailSafe
    ELSE IF At({"Committed"}) THEN RetainCommittedTransaction
    ELSE IF ~PreparedSetValid THEN RequestPreviousFailSafe
    ELSE IF At({"Discovered", "Downloaded"}) THEN RollBackAndClean
    ELSE IF CandidateHealthy(found)
         THEN <<"mark_healthy", "commit">> \o RetainCommittedTransaction
    ELSE RollBackAndReboot

WatchdogMissing == boot = "tryboot" /\ watchdog # "owned"

RecoverPendingUpdate ==
    /\ pc = "recover"
    /\ \/ WatchdogMissing /\ Recover(<<"reboot_previous">>)
       \/ ~WatchdogMissing /\ ~Present("active") /\ NothingPending
       \/ /\ ~WatchdogMissing /\ Loads("active")
          /\ \E found \in Findings : Recover(ResumePlan(found))
    /\ NoFault
    /\ DiskUnchanged /\ UNCHANGED <<machine, used>>

\* A read of recovery fails: a request that cannot be loaded is discarded, one
\* whose journal or prepared configuration cannot be read is deactivated, and
\* an activation record that cannot be looked up is left for another boot.
RecoveryReadFails ==
    /\ pc = "recover" /\ ~WatchdogMissing
    /\ \/ NothingPending
       \/ /\ Present("active")
          /\ \/ Recover(<<"discard_request">> \o
                        IF boot = "tryboot" THEN <<"reboot_previous">> ELSE <<>>)
             \/ Recover(RequestPreviousFailSafe)
    /\ Fault
    /\ DiskUnchanged /\ UNCHANGED <<machine, used>>

-----------------------------------------------------------------------------
\* The steps the machine takes by itself when nothing fails.
Work ==
    \/ Return
    \/ Identify
    \/ \E step \in DOMAIN StoreOperation : CallStore(step)
    \/ RunStore
    \/ \E step \in DOMAIN StoreOperation : StoreReturns(step)
    \/ ArchiveStep
    \/ PreparedStep
    \/ \E step \in InstallerSteps : InstallerStep(step)
    \/ \E step \in InstallerSteps : InstallerRefuses(step)
    \/ RequestReboot
    \/ StopWatchdog
    \/ WatchdogFires
    \/ PowerOn
    \/ ArmWatchdog
    \/ RecoverPendingUpdate

Failing ==
    \/ FailStore
    \/ ArchiveFails
    \/ PreparedFails
    \/ \E step \in InstallerSteps : InstallerFails(step)
    \/ RebootFails
    \/ StopWatchdogFails
    \/ WatchdogFails
    \/ RecoveryReadFails

Next ==
    \/ Work
    \/ Failing
    \/ InstallCheckedUpdate
    \/ BadDownload
    \/ Cancel
    \/ PowerCut

Spec == Init /\ [][Next]_vars

FairSpec == Spec /\ WF_vars(Work)

-----------------------------------------------------------------------------
(* Properties. *)

\* A journal in use, a published archive and a prepared configuration belong
\* to a request that boot recovery or retirement will find.  The Idle journal
\* of a rollback must go with its request: no later Stage accepts it.
Orphans ==
    \/ At(OwnedStates) /\ journal.owner \notin {record["active"], record["committed"]}
    \/ At({"Idle"}) /\ ~Present("active")
    \/ \E r \in Requests : /\ r # record["active"]
                           /\ archiveFinal[r] # "none" \/ prepared[r] # "none"

\* As long as no call fails, power cuts and cancellations at any point leave
\* nothing without an owner, if the update resets no configuration.
ArtifactsOwned ==
    faults = 0 /\ (\A r \in used : ~ResetOf[r]) => ~Orphans

\* The same for every update, which the consent flag in the journal breaks.
ArtifactsOwnedWithReset == faults = 0 => ~Orphans

\* A candidate that is not committed runs on without a watchdog only after
\* three calls failed: the watchdog, the early reboot and the late one.
CandidateGuarded ==
    pc = "menu" /\ boot = "tryboot" /\ watchdog = "off" => faults >= 3

\* An update becomes committed only by a one-shot boot of the candidate whose
\* watchdog runs, never by a later normal boot, however often it was cut.
CommitsOnlyGuarded ==
    [][At({"Committed"})' /\ ~At({"Committed"}) =>
          boot = "tryboot" /\ watchdog = "owned"]_vars

\* A request does not stay active: once power cuts and failing calls end,
\* recovery commits it or rolls it back and discards it.  The one exception is
\* a rollback that a power cut has barred: ResumeAfterBoot then returns at
\* every boot with the request still active.
Resolved ==
    \/ []<><<PowerCut>>_vars
    \/ Present("active") ~> (~Present("active") \/ Refused \/ faults > 0
                             \/ \E r \in used : ResetOf[r])

=============================================================================
