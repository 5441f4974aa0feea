---------------------------- MODULE UpdateSession ----------------------------
(* The update menu: update_service.cpp with update_authorization_adapters,  *)
(* the foreground progress and the two release clients.                     *)
(*                                                                          *)
(* A menu call is a chain of steps; between any two of them the card may be *)
(* edited, the network may go, GitHub may publish something else and time   *)
(* passes.  The configuration on the card is one value; Assessment says     *)
(* what AssessConfigSnapshot (module ConfigMigration) makes of it for a     *)
(* release.  The run of the update itself is that of UpdateOrchestrator;    *)
(* here it is downloaded, staged and cleaned up under the eyes of the user. *)
EXTENDS ReleaseOffer, FiniteSets

CONSTANTS
    Nothing,            \* no release, ticket, consent
    FirstInstalled,     \* the release the board starts with
    Configs,            \* configurations of the card
    Assessment,         \* [Releases \X Configs -> Plans]
    Tickets,            \* draft tickets that can be put on the card
    TicketLifetime,     \* kMaximumDraftTestTicketLifetimeSeconds
    AuthorizationLifetime, DeviceLifetime, PollingInterval,
    MaxClock, MaxEdits  \* bounds of the environment

\* ConfigPlanDecision, as the menu tells its values apart.
Plans == {"Compatible", "ResetRequired", "Blocked"}

\* The durations are unsigned numbers; the absent value is no record.
ASSUME SessionAssumption ==
    /\ AuthorizationLifetime \in Nat \ {0} /\ MaxClock \in Nat /\ MaxEdits \in Nat
    /\ DeviceLifetime \in Nat /\ PollingInterval \in Nat
    /\ Assessment \in [Releases \X Configs -> Plans]
    /\ Nothing \notin [release : Releases, config : Configs, plan : Plans]

VARIABLES
    menu,       \* g_state: download, mode, offer_valid, consent, consent_valid
    draft,      \* g_state: ticket, device code and access token
    source,     \* the one-shot authorization: pending and when it was issued
    progress,   \* UpdateForegroundProgress: cancel, stop, depth
    inventory,  \* release whose manifest the shared parser arrays hold
    card,       \* config, retained transaction, ticket file, installed release
    latest,     \* what GitHub answers now
    network, clock, edits,
    pc, call,   \* the step of the running menu call and its local variables
    shown       \* what the menu last offered, until an update was started

vars == <<menu, draft, source, progress, inventory, card, latest, network,
          clock, edits, pc, call, shown>>
environment == <<latest, network, clock, edits>>

NoDownload == [response |-> Nothing, manifest |-> Nothing, signature |-> Nothing]
EmptyMenu == [download |-> NoDownload, mode |-> "PublishedStable",
              offer_valid |-> FALSE, consent |-> Nothing, consent_valid |-> FALSE]
NoDraft == [ticket |-> Nothing, pending |-> FALSE, deadline |-> 0, next_poll |-> 0,
            interval |-> 0, access |-> FALSE]
NoToken == [pending |-> FALSE, issued |-> 0]
NoProgress == [cancel |-> FALSE, stop |-> FALSE, depth |-> 0]
NoCall == [reset_consent |-> FALSE, retained |-> FALSE, evidence |-> Nothing,
           request |-> Nothing]

Init ==
    /\ menu = EmptyMenu /\ draft = NoDraft /\ source = NoToken
    /\ progress = NoProgress /\ inventory = Nothing
    /\ card \in [config : Configs, retained : {"none", "committed", "retiring"},
                 ticket : {Nothing}, installed : {FirstInstalled}]
    /\ latest \in Releases /\ network = TRUE /\ clock = 0 /\ edits = 0
    /\ pc = "idle" /\ call = NoCall /\ shown = Nothing

-----------------------------------------------------------------------------
(* The foreground progress and the digest of a configuration. *)

\* Checkpoint and Report: a cancel is remembered; it stops the call at the
\* first checkpoint that is not mandatory, once, and never a mandatory one.
MandatoryNow(kind) == kind = "mandatory" \/ progress.depth > 0 \/ progress.stop

\* A mutated form: only the kind of the event counts.
ReportWithoutDepth(kind, pressed) ==
    LET cancel == progress.cancel \/ pressed
        continue == ~cancel \/ kind = "mandatory"
    IN  [continue |-> continue,
         state |-> [progress EXCEPT !.cancel = cancel, !.stop = @ \/ ~continue]]

Report(kind, pressed) ==
    LET cancel == progress.cancel \/ pressed
        continue == ~cancel \/ MandatoryNow(kind)
    IN  [continue |-> continue,
         state |-> [progress EXCEPT !.cancel = cancel, !.stop = @ \/ ~continue]]

\* The journals of a retained transaction are part of the UpdateState area
\* until RetireCommitted has removed them.
Journals == card.retained = "committed"

\* AssessCurrentConfiguration: the digest binds release, files and their plan.
Plan == Assessment[<<menu.download.manifest, card.config>>]
Consent == [release |-> menu.download.manifest, config |-> card.config,
            plan |-> Plan, journals |-> Journals]

PlanIsInstallable == Plan # "Blocked"

\* ReReadAndCompute: the files are read again and give this consent.
StillConsented(consent) == PlanIsInstallable /\ Consent = consent

\* A mutated form: only the journals are looked at.
AnyTransition(before, after) == ~after.journals

\* ValidateRetainedUpdateStateConsentTransition: only the journals may go.
OnlyJournalsRetired(before, after) ==
    ~after.journals /\ after = [before EXCEPT !.journals = FALSE]

Invalid(m) == [m EXCEPT !.offer_valid = FALSE, !.consent_valid = FALSE]

-----------------------------------------------------------------------------
(* CheckForUpdateFromMenu and the draft test *)

\* LoadDraftTestTicket: a ticket is on the card and is good now.
TicketLoads ==
    card.ticket # Nothing /\ VerifyDraftTestTicket(card.ticket, TicketLifetime, clock)

\* RequestGitHubDeviceCode: the code to type in, when it ends and how often to ask.
DeviceCode ==
    [NoDraft EXCEPT !.ticket = card.ticket, !.pending = TRUE,
                    !.deadline = clock + DeviceLifetime, !.interval = PollingInterval,
                    !.next_poll = clock + PollingInterval]

\* ExchangeGitHubDeviceCode: pending, slow down (five seconds more), refused
\* or expired, or the access token.
ExchangeOutcomes ==
    {[draft EXCEPT !.interval = @ + slower,
                   !.next_poll = clock + draft.interval + slower] : slower \in {0, 1}}
    \cup {NoDraft, [NoDraft EXCEPT !.ticket = draft.ticket, !.access = TRUE]}

\* CheckForUpdateFromMenu up to the first request.
CheckForUpdate ==
    /\ pc = "idle"
    /\ menu' = [Invalid(menu) EXCEPT !.mode = "PublishedStable"]
    /\ draft' = NoDraft /\ progress' = NoProgress
    /\ pc' \in IF network /\ InstalledBuildFits(card.installed)
               THEN {"response", "idle"} ELSE {"idle"}
    /\ UNCHANGED <<source, inventory, card, environment, call, shown>>

\* BeginPreparedDraftTestFromMenu: the local ticket opens a device code.
BeginPreparedDraftTest ==
    /\ pc = "idle"
    /\ menu' = Invalid(menu) /\ progress' = NoProgress
    /\ \/ draft' = NoDraft
       \/ network /\ TicketLoads /\ draft' = DeviceCode
    /\ UNCHANGED <<source, inventory, card, environment, pc, call, shown>>

\* CompletePreparedDraftTestFromMenu up to the exchange of the device code.
CompletePreparedDraftTest ==
    /\ pc = "idle" /\ draft.pending /\ progress' = NoProgress
    /\ IF ~network \/ clock > draft.deadline
       THEN draft' = NoDraft /\ pc' = pc
       ELSE IF clock < draft.next_poll
       THEN draft' = draft /\ pc' = pc
       ELSE IF ~TicketLoads \/ card.ticket # draft.ticket
       THEN draft' = NoDraft /\ pc' = pc
       ELSE draft' \in ExchangeOutcomes /\ pc' = IF draft'.access THEN "response" ELSE pc
    /\ menu' = IF pc' = "response"
               THEN [menu EXCEPT !.mode = "PreparedDraft"] ELSE menu
    /\ UNCHANGED <<source, inventory, card, environment, call, shown>>

\* CancelPendingUpdateFromMenu
CancelPendingUpdate ==
    /\ pc = "idle"
    /\ menu' = Invalid(menu) /\ draft' = NoDraft
    /\ UNCHANGED <<source, progress, inventory, card, environment, pc, call, shown>>

\* A mutated form: a check that ends keeps the draft authorization.
CheckKeepsToken == pc' = "idle" /\ UNCHANGED draft

\* A check ends without an offer; a draft test gives up its authorization.
CheckEnds == pc' = "idle" /\ draft' = NoDraft

\* CheckLatestRelease and CheckPreparedDraftRelease: three requests, each of
\* which GitHub answers with what it has then, and each can fail or be canceled.
FetchParts == [response |-> "manifest", manifest |-> "signature", signature |-> "offer"]

Fetch ==
    /\ pc \in DOMAIN FetchParts
    /\ \E pressed \in BOOLEAN :
         LET report == Report("cancelable", pressed)
         IN  /\ progress' = report.state
             /\ \/ /\ report.continue /\ network
                   /\ menu' = [menu EXCEPT !.download[pc] = latest]
                   /\ pc' = FetchParts[pc] /\ UNCHANGED draft
                \/ menu' = [menu EXCEPT !.download = NoDownload] /\ CheckEnds
    /\ UNCHANGED <<source, inventory, card, environment, call, shown>>

\* BuildReleaseOffer, and the ticket of a draft.
BuildOffer ==
    /\ pc = "offer"
    /\ IF /\ BuildReleaseOfferForMode(menu.mode, card.installed, menu.download)
          /\ menu.mode = "PreparedDraft" => TicketAdmits(draft.ticket, menu.download)
       THEN inventory' = menu.download.manifest /\ pc' = "assess" /\ UNCHANGED draft
       ELSE inventory' = inventory /\ CheckEnds
    /\ UNCHANGED <<menu, source, progress, card, environment, call, shown>>

\* AssessCurrentConfiguration for the menu.
AssessForMenu ==
    /\ pc = "assess"
    /\ \/ /\ PlanIsInstallable
          /\ menu' = [menu EXCEPT !.consent = Consent, !.consent_valid = TRUE]
          /\ pc' = "ready" /\ UNCHANGED draft
       \/ menu' = menu /\ CheckEnds
    /\ UNCHANGED <<source, progress, inventory, card, environment, call, shown>>

\* ProbeUpdateInstallReadiness, then the question to the user. A draft that is
\* not ready, and a warning that cannot be shown, leave the consent behind.
ShowOffer ==
    /\ pc = "ready"
    /\ \/ /\ menu' = [menu EXCEPT !.offer_valid = TRUE]
          /\ shown' = [release |-> menu.download.manifest,
                       config |-> menu.consent.config, plan |-> menu.consent.plan]
          /\ pc' = "idle" /\ UNCHANGED draft
       \/ /\ menu' \in {Invalid(menu), menu} /\ CheckEnds /\ shown' = shown
    /\ UNCHANGED <<source, progress, inventory, card, environment, call>>

-----------------------------------------------------------------------------
(* InstallCheckedUpdateFromMenu *)

\* Every return of the call clears the draft authorization.
InstallEnds(m) ==
    /\ pc' = "idle" /\ call' = NoCall /\ draft' = NoDraft /\ source' = NoToken
    /\ menu' = m

\* The offer and the network are checked, and the raw release again.
InstallCheckedUpdate ==
    /\ pc = "idle" /\ progress' = NoProgress
    /\ \/ /\ menu.offer_valid /\ menu.consent_valid /\ network
          /\ \E consent \in BOOLEAN : call' = [NoCall EXCEPT !.reset_consent = consent]
          /\ inventory' = menu.download.manifest
          /\ pc' = "reassess" /\ UNCHANGED <<menu, draft, source>>
       \/ /\ ~(menu.offer_valid /\ menu.consent_valid /\ network)
          /\ InstallEnds(IF menu.offer_valid /\ network THEN Invalid(menu) ELSE menu)
          /\ inventory' = inventory
    /\ UNCHANGED <<card, environment, shown>>

\* The configuration must still be the one of the warning, and a reset needs
\* its own consent.
Reassess ==
    /\ pc = "reassess"
    /\ LET needs == menu.consent.plan = "ResetRequired" /\ ~call.reset_consent
           same == StillConsented(menu.consent)
       IN  \/ /\ same /\ ~needs
              /\ menu' = [menu EXCEPT !.consent = Consent]
              /\ pc' = "state files" /\ UNCHANGED <<draft, source, call>>
           \/ same /\ needs /\ InstallEnds(menu)
           \/ InstallEnds(Invalid(menu))
    /\ UNCHANGED <<progress, inventory, card, environment, shown>>

\* The fixed state names are inspected; an active update belongs to recovery.
InspectStateFiles ==
    /\ pc = "state files"
    /\ \/ /\ card.retained # "active"
          /\ call' = [call EXCEPT !.retained = card.retained # "none",
                                  !.evidence = menu.consent]
          /\ pc' = "retire" /\ UNCHANGED <<menu, draft, source>>
       \/ InstallEnds(Invalid(menu))
    /\ UNCHANGED <<progress, inventory, card, environment, shown>>

\* RetirePreviousTransaction: the retained update is authenticated in the
\* shared parser arrays; a cancel is heard before the first removal only. What
\* was begun is finished by a later call.
RetirePrevious ==
    /\ pc = "retire"
    /\ \E pressed \in BOOLEAN :
         LET report == Report("cancelable", pressed)
             authenticated == card.retained = "committed"
         IN  /\ IF authenticated THEN progress' = report.state ELSE UNCHANGED progress
             /\ inventory' = IF authenticated THEN card.installed ELSE inventory
             /\ \/ /\ authenticated => report.continue
                   /\ card' = [card EXCEPT !.retained = "none"]
                   /\ pc' = "restore" /\ UNCHANGED <<menu, draft, source, call>>
                \/ /\ authenticated => report.continue
                   /\ card.retained # "none"
                   /\ card' \in {card, [card EXCEPT !.retained = "retiring"]}
                   /\ InstallEnds(Invalid(menu))
                \/ /\ authenticated /\ ~report.continue
                   /\ card' = card /\ InstallEnds(Invalid(menu))
    /\ UNCHANGED <<environment, shown>>

\* A mutated form: the arrays keep what the retirement left in them.
RestoreLater ==
    /\ pc = "restore"
    /\ pc' = IF call.retained THEN "rebind" ELSE "readiness"
    /\ UNCHANGED <<menu, draft, source, progress, inventory, card, environment,
                   call, shown>>

\* The pending release is authenticated again into the shared arrays.
RestoreOffer ==
    /\ pc = "restore"
    /\ inventory' = menu.download.manifest
    /\ pc' = IF call.retained THEN "rebind" ELSE "readiness"
    /\ UNCHANGED <<menu, draft, source, progress, card, environment, call, shown>>

\* The consent is bound to the files without the journals, if nothing else
\* changed.
RebindConsent ==
    /\ pc = "rebind"
    /\ \/ /\ PlanIsInstallable /\ OnlyJournalsRetired(call.evidence, Consent)
          /\ menu' = [menu EXCEPT !.consent = Consent]
          /\ pc' = "readiness" /\ UNCHANGED <<draft, source, call>>
       \/ InstallEnds(Invalid(menu))
    /\ UNCHANGED <<progress, inventory, card, environment, shown>>

\* Issue: the one-use token and its time.
Issue == [pending |-> TRUE, issued |-> clock]

\* Readiness of card and platform for the manifest in the arrays; then the
\* request is made, the offer is used up and the one-use token issued.
IssueForConfirmedMenuAction ==
    /\ pc = "readiness"
    /\ \/ /\ inventory = menu.download.manifest
          /\ menu.mode = "PreparedDraft" => draft.access
          /\ call' = [call EXCEPT !.request =
                        [consent |-> menu.consent,
                         reset |-> menu.consent.plan = "ResetRequired"]]
          /\ menu' = Invalid(menu)
          /\ source' = Issue
          /\ pc' = "authorize" /\ UNCHANGED draft
       \/ InstallEnds(Invalid(menu))
    /\ UNCHANGED <<progress, inventory, card, environment, shown>>

\* ConsumeAndReadCurrent: the token is used up before anything else is read.
TokenValid == source.pending /\ clock - source.issued < AuthorizationLifetime

\* RawAuthenticatedReleaseValidator: the offered bytes are parsed once more,
\* and must make the same offer again.
Revalidate == inventory' = menu.download.manifest

\* Start up to AuthorizeAndSeal: the release is validated again, the files are
\* read once more and must give the consent.
AuthorizeAndSeal ==
    /\ pc = "authorize"
    /\ Revalidate
    /\ IF /\ BuildReleaseOfferForMode(menu.mode, card.installed, menu.download)
          /\ ValidateAuthenticatedRequest(menu.mode, card.installed, menu.download)
          /\ TokenValid /\ EvaluateUpdateStart(network)
          /\ StillConsented(call.request.consent)
          /\ call.request.reset = (Plan = "ResetRequired")
       THEN /\ pc' = "download" /\ source' = NoToken /\ shown' = Nothing
            /\ UNCHANGED <<menu, draft, call>>
       ELSE InstallEnds(menu) /\ shown' = shown
    /\ UNCHANGED <<progress, card, environment>>

-----------------------------------------------------------------------------
(* Start, as the user sees it *)

\* The checkpoint before Begin: nothing was written, a cancel is simply the end.
\* A download that fails or is canceled is followed by its cleanup.
Download ==
    /\ pc = "download"
    /\ \E pressed \in BOOLEAN :
         LET report == Report("cancelable", pressed)
         IN  \/ /\ report.continue /\ pc' = "stage" /\ progress' = report.state
                /\ card' = [card EXCEPT !.retained = "active"]
                /\ UNCHANGED <<menu, draft, source, call>>
             \/ /\ pc' = "cleanup"
                /\ progress' = [report.state EXCEPT !.depth = @ + 1]
                /\ card' = [card EXCEPT !.retained = "active"]
                /\ UNCHANGED <<menu, draft, source, call>>
             \/ /\ ~report.continue /\ progress' = report.state
                /\ InstallEnds(menu) /\ card' = card
    /\ UNCHANGED <<inventory, environment, shown>>

\* Stage, arm and the two checkpoints before the reboot; then the board resets.
\* A failure or a cancel is followed by the rollback and the cleanup.
StageAndArm ==
    /\ pc = "stage"
    /\ \E pressed \in BOOLEAN :
         LET report == Report("cancelable", pressed)
         IN  \/ /\ report.continue /\ progress' = report.state
                /\ pc' \in {"stage", "rebooting"}
             \/ /\ pc' = "cleanup"
                /\ progress' = [report.state EXCEPT !.depth = @ + 1]
    /\ UNCHANGED <<menu, draft, source, inventory, card, environment, call, shown>>

\* Rollback and cleanup report files they hash and removals they make; each is
\* an operation of its own within the mandatory one.
Cleanup ==
    /\ pc = "cleanup"
    /\ \E pressed \in BOOLEAN, kind \in {"mandatory", "cancelable"} :
         LET report == Report(kind, pressed)
         IN  \/ /\ report.continue
                /\ \/ /\ progress.depth < 2 /\ pc' = pc
                      /\ progress' = [report.state EXCEPT !.depth = @ + 1]
                      /\ UNCHANGED <<menu, draft, source, card, call>>
                   \/ /\ progress.depth > 1 /\ pc' = pc
                      /\ progress' = [report.state EXCEPT !.depth = @ - 1]
                      /\ UNCHANGED <<menu, draft, source, card, call>>
                   \/ /\ progress.depth = 1
                      /\ progress' = [report.state EXCEPT !.depth = 0]
                      /\ card' \in {card, [card EXCEPT !.retained = "none"]}
                      /\ InstallEnds(menu)
             \/ /\ ~report.continue /\ progress' = report.state
                /\ pc' = "abandoned"
                /\ UNCHANGED <<menu, draft, source, card, call>>
    /\ UNCHANGED <<inventory, environment, shown>>

-----------------------------------------------------------------------------
(* The environment *)

\* The board restarts, by itself or by a power cut; an update that was started
\* is committed or rolled back by recovery.
Reboot ==
    /\ pc # "idle" \/ card.retained = "active"
    /\ IF card.retained = "active"
       THEN \/ card' = [card EXCEPT !.retained = "none"]
            \/ /\ pc = "rebooting"
               /\ card' = [card EXCEPT !.retained = "committed",
                                       !.installed = menu.download.manifest]
       ELSE card' = card
    /\ menu' = EmptyMenu /\ draft' = NoDraft /\ source' = NoToken
    /\ progress' = NoProgress /\ inventory' = Nothing /\ call' = NoCall
    /\ pc' = "idle" /\ shown' = Nothing
    /\ UNCHANGED environment

Edit ==
    /\ edits < MaxEdits /\ edits' = edits + 1
    /\ \/ \E c \in Configs : card' = [card EXCEPT !.config = c]
       \/ \E t \in Tickets : card' = [card EXCEPT !.ticket = t]
    /\ UNCHANGED <<menu, draft, source, progress, inventory, latest, network,
                   clock, pc, call, shown>>

Publish ==
    /\ edits < MaxEdits /\ edits' = edits + 1
    /\ latest' \in Releases
    /\ UNCHANGED <<menu, draft, source, progress, inventory, card, network,
                   clock, pc, call, shown>>

Tick ==
    /\ clock < MaxClock /\ clock' = clock + 1
    /\ UNCHANGED <<menu, draft, source, progress, inventory, card, latest,
                   network, edits, pc, call, shown>>

NetworkChanges ==
    /\ network' = ~network
    /\ UNCHANGED <<menu, draft, source, progress, inventory, card, latest,
                   clock, edits, pc, call, shown>>

Check ==
    \/ CheckForUpdate \/ BeginPreparedDraftTest \/ CompletePreparedDraftTest
    \/ CancelPendingUpdate \/ Fetch \/ BuildOffer \/ AssessForMenu \/ ShowOffer

Install ==
    \/ InstallCheckedUpdate \/ Reassess \/ InspectStateFiles \/ RetirePrevious
    \/ RestoreOffer \/ RebindConsent \/ IssueForConfirmedMenuAction
    \/ AuthorizeAndSeal \/ Download \/ StageAndArm \/ Cleanup

Next ==
    \/ Check \/ Install
    \/ Reboot \/ Edit \/ Publish \/ Tick \/ NetworkChanges

Spec == Init /\ [][Next]_vars

-----------------------------------------------------------------------------
(* Properties *)

\* Type invariant.
TypeOK ==
    /\ menu.mode \in Modes /\ menu.offer_valid \in BOOLEAN
    /\ card.config \in Configs
    /\ card.retained \in {"none", "committed", "retiring", "active"}
    /\ progress.depth \in 0..2 /\ clock \in 0..MaxClock /\ edits \in 0..MaxEdits

\* An update is started only as it was last shown and confirmed, once for each
\* time it was shown: the same release, newer than the installed one and signed
\* as a whole, over the same configuration with the same consequences, although
\* the card, the network and GitHub changed and a backup was retired in between.
StartsAsConfirmed ==
    [][pc = "authorize" /\ pc' = "download" =>
          /\ shown # Nothing /\ shown' = Nothing
          /\ menu.download.manifest = shown.release
          /\ menu.download.signature.id = shown.release.id
          /\ shown.release.sequence > card.installed.sequence
          /\ card.config = shown.config /\ Plan = shown.plan
          /\ shown.plan = "ResetRequired" => call.reset_consent
          /\ clock - source.issued < AuthorizationLifetime]_vars

\* The GitHub token of a draft test is kept only for the offer it was asked for:
\* whenever the menu is idle with a token, that draft offer can be installed.
TokenOnlyForOffer ==
    pc = "idle" /\ draft.access =>
      menu.offer_valid /\ menu.mode = "PreparedDraft"
      /\ menu.download.manifest.id = draft.ticket.release.id

\* What must be finished is finished: however often cancel is pressed, in
\* whatever nesting, no rollback or cleanup is abandoned.
CleanupCompletes == pc # "abandoned"

\* The parser arrays hold the offered release whenever it is put to use.
InventoryIsOffer ==
    pc \in {"assess", "ready", "rebind", "readiness", "download", "stage"} =>
      inventory = menu.download.manifest
=============================================================================
