----------------------- MODULE UpdateSession_proofs -----------------------
(***************************************************************************)
(* The update menu for any releases, configurations, tickets and           *)
(* durations, and any number of edits of the card between its steps: an    *)
(* update is started only as it was shown and confirmed, a draft's token   *)
(* does not outlive its offer, the parser arrays hold the offered release  *)
(* whenever it is used, and no cleanup is abandoned.                       *)
(*                                                                         *)
(* None of these is inductive.  What is missing is what the menu remembers *)
(* between the question and the answer (Confirmed), which steps hold an    *)
(* offer at all, and that the depth of the mandatory operations is 0       *)
(* everywhere but in a cleanup.                                            *)
(***************************************************************************)
EXTENDS UpdateSession, TLAPS

-----------------------------------------------------------------------------
(* Types *)

Parts == Releases \cup {Nothing}
Downloads == [response : Parts, manifest : Parts, signature : Parts]
Consents == [release : Releases, config : Configs, plan : Plans, journals : BOOLEAN]
Requests == [consent : Consents, reset : BOOLEAN]
Offers == [release : Releases, config : Configs, plan : Plans]
Retained == {"none", "committed", "retiring", "active"}

Menus == [download : Downloads, mode : Modes, offer_valid : BOOLEAN,
          consent : Consents \cup {Nothing}, consent_valid : BOOLEAN]
Drafts == [ticket : Tickets \cup {Nothing}, pending : BOOLEAN, deadline : Nat,
           next_poll : Nat, interval : Nat, access : BOOLEAN]
Sources == [pending : BOOLEAN, issued : Nat]
Progresses == [cancel : BOOLEAN, stop : BOOLEAN, depth : 0..2]
Cards == [config : Configs, retained : Retained, ticket : Tickets \cup {Nothing},
          installed : Parts \cup {FirstInstalled}]
Calls == [reset_consent : BOOLEAN, retained : BOOLEAN,
          evidence : Consents \cup {Nothing}, request : Requests \cup {Nothing}]

FetchSteps == {"response", "manifest", "signature"}
CheckSteps == FetchSteps \cup {"offer", "assess", "ready"}

\* The steps of an install that rest on the confirmed offer, and those after
\* the offer was used up.
OfferSteps == {"reassess", "state files", "retire", "restore", "rebind", "readiness"}
StartSteps == {"authorize", "download", "stage", "rebooting", "cleanup"}

SessionType ==
    /\ menu \in Menus /\ draft \in Drafts /\ source \in Sources
    /\ progress \in Progresses /\ card \in Cards /\ call \in Calls
    /\ inventory \in Parts \cup {FirstInstalled} /\ latest \in Releases /\ network \in BOOLEAN
    /\ clock \in 0..MaxClock /\ edits \in 0..MaxEdits
    /\ pc \in {"idle"} \cup CheckSteps \cup OfferSteps \cup StartSteps
    /\ shown \in Offers \cup {Nothing}

-----------------------------------------------------------------------------
(* The inductive invariant *)

\* A cleanup runs within a mandatory operation, and nothing else does.
DepthInv ==
    /\ pc = "cleanup" => progress.depth > 0
    /\ pc # "cleanup" => progress.depth = 0

\* From the manifest's arrival to the end of the call there is a release.
ManifestInv ==
    pc \in {"signature", "offer", "assess", "ready"} \cup OfferSteps \cup StartSteps
       => menu.download.manifest \in Releases

\* The consent is for the release, the configuration and the plan of the offer
\* that is on the screen.
Confirmed(consent) ==
    /\ shown \in Offers /\ consent \in Consents
    /\ shown.release = menu.download.manifest
    /\ consent.release = menu.download.manifest
    /\ consent.config = shown.config /\ consent.plan = shown.plan

\* Where there is an offer, and what it rests on.
OfferInv ==
    /\ menu.offer_valid => menu.consent_valid /\ Confirmed(menu.consent)
    /\ pc \in CheckSteps \cup StartSteps => ~menu.offer_valid
    /\ pc \in OfferSteps => menu.offer_valid
    /\ pc = "ready" =>
          /\ menu.consent_valid /\ menu.consent \in Consents
          /\ menu.consent.release = menu.download.manifest

\* What the running install took from the offer.
RequestInv ==
    /\ pc = "authorize" => call.request \in Requests /\ Confirmed(call.request.consent)
    /\ pc \in {"retire", "restore", "rebind"} => call.evidence = menu.consent
    /\ pc \in (OfferSteps \ {"reassess"}) \cup {"authorize"}
          => (shown.plan = "ResetRequired" => call.reset_consent)

\* A device code is asked for with the menu empty, a token belongs to a draft.
DraftInv ==
    /\ draft.pending => pc = "idle" /\ ~draft.access /\ ~menu.offer_valid
    /\ pc \in CheckSteps /\ draft.access => menu.mode = "PreparedDraft"
    /\ pc \in {"assess", "ready"} /\ draft.access
          => menu.download.manifest.id = draft.ticket.release.id

SessionInv ==
    /\ SessionType /\ DepthInv /\ ManifestInv /\ OfferInv /\ RequestInv /\ DraftInv
    /\ TokenOnlyForOffer /\ InventoryIsOffer


-----------------------------------------------------------------------------
(* What the updates of the records leave alone *)

\* Invalid forgets the offer and the consent's validity, and nothing else.
LEMMA InvalidMenu ==
    ASSUME NEW m \in Menus
    PROVE  /\ Invalid(m) \in Menus
           /\ Invalid(m).download = m.download /\ Invalid(m).mode = m.mode
           /\ Invalid(m).consent = m.consent
           /\ ~Invalid(m).offer_valid
  BY DEF Invalid, Menus

\* The empty values have their types.
LEMMA EmptyTypes ==
    /\ EmptyMenu \in Menus /\ NoDraft \in Drafts /\ NoToken \in Sources
    /\ NoProgress \in Progresses /\ NoCall \in Calls /\ NoDownload \in Downloads
  BY DEF EmptyMenu, NoDraft, NoToken, NoProgress, NoCall, NoDownload, Menus, Drafts,
         Sources, Progresses, Calls, Downloads, Parts, Modes

\* A menu with another mode, download or consent, or with a valid offer.
LEMMA ModeUpdate ==
    ASSUME NEW m \in Menus, NEW mode \in Modes, NEW n, n = [m EXCEPT !.mode = mode]
    PROVE  /\ n \in Menus /\ n.mode = mode /\ n.download = m.download
           /\ n.offer_valid = m.offer_valid
  BY DEF Menus

LEMMA DownloadUpdate ==
    ASSUME NEW m \in Menus, NEW d \in Downloads, NEW n, n = [m EXCEPT !.download = d]
    PROVE  /\ n \in Menus /\ n.mode = m.mode /\ n.download = d
           /\ n.offer_valid = m.offer_valid
  BY DEF Menus

LEMMA ConsentUpdate ==
    ASSUME NEW m \in Menus, NEW c \in Consents, NEW n, n = [m EXCEPT !.consent = c]
    PROVE  /\ n \in Menus /\ n.mode = m.mode /\ n.download = m.download /\ n.consent = c
           /\ n.offer_valid = m.offer_valid /\ n.consent_valid = m.consent_valid
  BY DEF Menus

LEMMA OfferMade ==
    ASSUME NEW m \in Menus, NEW n, n = [m EXCEPT !.offer_valid = TRUE]
    PROVE  /\ n \in Menus /\ n.mode = m.mode /\ n.download = m.download
           /\ n.offer_valid /\ n.consent = m.consent /\ n.consent_valid = m.consent_valid
  BY DEF Menus

\* A part of the download that has arrived.
LEMMA PartArrives ==
    ASSUME NEW m \in Menus, NEW p \in FetchSteps, NEW r \in Releases
    PROVE  LET n == [m EXCEPT !.download[p] = r] IN
             /\ n \in Menus /\ n.mode = m.mode
             /\ n.offer_valid = m.offer_valid
             /\ n.download.manifest = IF p = "manifest" THEN r ELSE m.download.manifest
  <1>1. m.download \in Downloads
    BY DEF Menus
  <1> DEFINE d == [m.download EXCEPT ![p] = r]
  <1>2. d \in Downloads /\ d.manifest = IF p = "manifest" THEN r ELSE m.download.manifest
    BY <1>1 DEF Downloads, Parts, FetchSteps
  <1> HIDE DEF d
  <1>3. [m EXCEPT !.download[p] = r] = [m EXCEPT !.download = d]
    BY DEF d
  <1>4. PICK n : n = [m EXCEPT !.download = d]
    OBVIOUS
  <1>5. /\ n \in Menus /\ n.mode = m.mode /\ n.offer_valid = m.offer_valid
        /\ n.download = d
    BY <1>2, <1>4, DownloadUpdate
  <1>6. n = [m EXCEPT !.download[p] = r]
    BY <1>3, <1>4
  <1> QED
    BY <1>2, <1>5, <1>6

\* Report keeps the depth, and a mandatory operation always continues.
LEMMA ReportKeeps ==
    ASSUME progress \in Progresses, NEW kind, NEW pressed \in BOOLEAN
    PROVE  /\ Report(kind, pressed).state \in Progresses
           /\ Report(kind, pressed).state.depth = progress.depth
           /\ progress.depth > 0 => Report(kind, pressed).continue
  <1>1. progress.cancel \in BOOLEAN /\ progress.stop \in BOOLEAN /\ progress.depth \in 0..2
    BY DEF Progresses
  <1> QED
    BY <1>1 DEF Report, MandatoryNow, Progresses

\* The depth is counted, within its range.
LEMMA DepthCounts ==
    ASSUME NEW p \in Progresses, NEW n \in 0..2, NEW q, q = [p EXCEPT !.depth = n]
    PROVE  q \in Progresses /\ q.depth = n
  BY DEF Progresses

\* The card with another state of the retained transaction, file or ticket.
LEMMA CardUpdates ==
    ASSUME NEW c \in Cards
    PROVE  /\ \A r \in Retained : [c EXCEPT !.retained = r] \in Cards
           /\ \A f \in Configs : [c EXCEPT !.config = f] \in Cards
           /\ \A t \in Tickets : [c EXCEPT !.ticket = t] \in Cards
           /\ \A r \in Retained, i \in Parts :
                 [c EXCEPT !.retained = r, !.installed = i] \in Cards
  BY DEF Cards

\* The configuration on the card gives a consent for the release at hand, and
\* the consent says which release, configuration and plan it is for.
LEMMA ConsentFits ==
    ASSUME card \in Cards, menu.download.manifest \in Releases
    PROVE  /\ Consent \in Consents
           /\ Consent.release = menu.download.manifest
           /\ Consent.config = card.config /\ Consent.plan = Plan
  <1>1. card.config \in Configs
    BY DEF Cards
  <1>2. Plan \in Plans
    BY <1>1, SessionAssumption DEF Plan
  <1>3. Journals \in BOOLEAN
    BY DEF Journals
  <1> QED
    BY <1>1, <1>2, <1>3 DEF Consent, Consents

\* Every end of an install leaves no token, no request and the given menu.
LEMMA EndsClear ==
    ASSUME NEW m, InstallEnds(m)
    PROVE  /\ pc' = "idle" /\ menu' = m /\ draft' = NoDraft /\ source' = NoToken
           /\ call' = NoCall /\ ~draft'.access /\ ~draft'.pending
  BY DEF InstallEnds, NoDraft


-----------------------------------------------------------------------------
(* One lemma for the returns of the menu calls, then one per action *)

\* A call that returns keeps the offer it found, or leaves none, and keeps no
\* token either way.
LEMMA Returns ==
    ASSUME SessionInv, SessionType', pc' = "idle", ~draft'.access, progress'.depth = 0,
           draft'.pending => ~menu'.offer_valid,
           ~menu'.offer_valid \/ (menu' = menu /\ shown' = shown)
    PROVE  SessionInv'
  <1>1. DepthInv' /\ ManifestInv' /\ RequestInv' /\ DraftInv' /\ TokenOnlyForOffer'
        /\ InventoryIsOffer'
    BY DEF DepthInv, ManifestInv, RequestInv, DraftInv, TokenOnlyForOffer, InventoryIsOffer,
           CheckSteps, FetchSteps, OfferSteps, StartSteps
  <1>2. OfferInv'
    <2>1. CASE ~menu'.offer_valid
      BY <2>1 DEF OfferInv, CheckSteps, FetchSteps, OfferSteps, StartSteps
    <2>2. CASE menu' = menu /\ shown' = shown
      BY <2>2 DEF SessionInv, OfferInv, Confirmed, CheckSteps, FetchSteps, OfferSteps, StartSteps
    <2> QED
      BY <2>1, <2>2
  <1> QED
    BY <1>1, <1>2 DEF SessionInv

\* The environment keeps its types.
LEMMA EnvironmentTyped ==
    ASSUME SessionType, UNCHANGED environment
    PROVE  /\ latest' \in Releases /\ network' \in BOOLEAN
           /\ clock' \in 0..MaxClock /\ edits' \in 0..MaxEdits
  BY DEF SessionType, environment

LEMMA InitHolds == Init => SessionInv
  <1> SUFFICES ASSUME Init PROVE SessionInv
    OBVIOUS
  <1>1. card \in Cards
    BY DEF Init, Cards, Retained
  <1>2. SessionType
    BY <1>1, EmptyTypes, SessionAssumption DEF Init, SessionType, Parts
  <1>3. ~menu.offer_valid /\ ~draft.access /\ ~draft.pending /\ progress.depth = 0 /\ pc = "idle"
    BY DEF Init, EmptyMenu, NoDraft, NoProgress
  <1> QED
    BY <1>2, <1>3 DEF SessionInv, DepthInv, ManifestInv, OfferInv, RequestInv, DraftInv,
        TokenOnlyForOffer, InventoryIsOffer, CheckSteps, FetchSteps, OfferSteps, StartSteps

LEMMA CheckForUpdateKeeps ==
    ASSUME SessionInv, CheckForUpdate
    PROVE  SessionInv'
  <1>1. /\ menu \in Menus /\ Invalid(menu) \in Menus /\ ~Invalid(menu).offer_valid
    BY InvalidMenu DEF SessionInv, SessionType
  <1>2. menu' \in Menus /\ ~menu'.offer_valid
    <2>1. PICK mode \in Modes : menu' = [Invalid(menu) EXCEPT !.mode = mode]
      BY DEF CheckForUpdate, Modes
    <2>2. PICK m \in Menus : m = Invalid(menu)
      BY <1>1
    <2>3. ~m.offer_valid
      BY <1>1, <2>2
    <2>4. menu' = [m EXCEPT !.mode = mode]
      BY <2>1, <2>2
    <2>5. menu' \in Menus /\ menu'.offer_valid = m.offer_valid
      BY <2>4, ModeUpdate
    <2> QED
      BY <2>3, <2>5
  <1>3. draft' = NoDraft /\ ~draft'.access /\ ~draft'.pending /\ progress' = NoProgress
        /\ progress'.depth = 0
    BY DEF CheckForUpdate, NoDraft, NoProgress
  <1>4. pc' \in {"response", "idle"}
    BY DEF CheckForUpdate
  <1>5. SessionType'
    BY <1>2, <1>3, <1>4, EmptyTypes, EnvironmentTyped
       DEF SessionInv, SessionType, CheckForUpdate, CheckSteps, FetchSteps
  <1>6. CASE pc' = "idle"
    BY <1>2, <1>3, <1>5, <1>6, Returns
  <1>7. CASE pc' = "response"
    BY <1>2, <1>3, <1>5, <1>7 DEF SessionInv, DepthInv, ManifestInv, OfferInv, RequestInv,
       DraftInv, TokenOnlyForOffer, InventoryIsOffer, CheckSteps, FetchSteps, OfferSteps, StartSteps
  <1> QED
    BY <1>4, <1>6, <1>7

LEMMA BeginPreparedDraftTestKeeps ==
    ASSUME SessionInv, BeginPreparedDraftTest
    PROVE  SessionInv'
  <1>1. menu' \in Menus /\ ~menu'.offer_valid
    BY InvalidMenu DEF SessionInv, SessionType, BeginPreparedDraftTest
  <1>2. draft' \in Drafts /\ ~draft'.access
    <2>1. CASE draft' = NoDraft
      BY <2>1, EmptyTypes DEF NoDraft
    <2>2. CASE draft' = DeviceCode
      <3>1. /\ card.ticket \in Tickets \cup {Nothing} /\ clock \in Nat
            /\ clock + DeviceLifetime \in Nat /\ clock + PollingInterval \in Nat
        BY SessionAssumption DEF SessionInv, SessionType, Cards
      <3> QED
        BY <2>2, <3>1, SessionAssumption DEF DeviceCode, NoDraft, Drafts
    <2> QED
      BY <2>1, <2>2 DEF BeginPreparedDraftTest
  <1>3. pc' = "idle" /\ progress' = NoProgress /\ progress'.depth = 0
    BY DEF BeginPreparedDraftTest, NoProgress
  <1>4. SessionType'
    BY <1>1, <1>2, <1>3, EmptyTypes, EnvironmentTyped
       DEF SessionInv, SessionType, BeginPreparedDraftTest
  <1> QED
    BY <1>1, <1>2, <1>3, <1>4, Returns

LEMMA CancelPendingUpdateKeeps ==
    ASSUME SessionInv, CancelPendingUpdate
    PROVE  SessionInv'
  <1>1. menu' \in Menus /\ ~menu'.offer_valid
    BY InvalidMenu DEF SessionInv, SessionType, CancelPendingUpdate
  <1>2. draft' \in Drafts /\ ~draft'.access
    BY EmptyTypes DEF CancelPendingUpdate, NoDraft
  <1>3. pc' = "idle" /\ progress' = progress /\ progress'.depth = 0
    BY DEF CancelPendingUpdate, SessionInv, DepthInv
  <1>4. SessionType'
    BY <1>1, <1>2, <1>3, EnvironmentTyped DEF SessionInv, SessionType, CancelPendingUpdate
  <1> QED
    BY <1>1, <1>2, <1>3, <1>4, Returns


\* What GitHub may answer to the device code.
LEMMA ExchangeFits ==
    ASSUME SessionInv, draft.pending, NEW d \in ExchangeOutcomes
    PROVE  d \in Drafts /\ (d.access => ~d.pending)
  <1>1. /\ draft \in Drafts /\ draft.ticket \in Tickets \cup {Nothing}
        /\ draft.interval \in Nat /\ clock \in Nat
    BY SessionAssumption DEF SessionInv, SessionType, Drafts
  <1>2. ~draft.access
    BY DEF SessionInv, DraftInv
  <1>3. CASE d = NoDraft
    BY <1>3, EmptyTypes DEF NoDraft
  <1>4. CASE d = [NoDraft EXCEPT !.ticket = draft.ticket, !.access = TRUE]
    BY <1>1, <1>4 DEF NoDraft, Drafts
  <1>5. ASSUME NEW slower \in {0, 1},
               d = [draft EXCEPT !.interval = @ + slower,
                                 !.next_poll = clock + draft.interval + slower]
        PROVE  d \in Drafts /\ (d.access => ~d.pending)
    <2>1. PICK i \in Nat, j \in Nat : i = draft.interval + slower
                                      /\ j = clock + draft.interval + slower
      BY <1>1
    <2>2. d = [draft EXCEPT !.interval = i, !.next_poll = j]
      BY <1>5, <2>1
    <2>3. d \in Drafts /\ d.access = draft.access
      BY <1>1, <2>2 DEF Drafts
    <2> QED
      BY <1>2, <2>3
  <1> QED
    BY <1>3, <1>4, <1>5 DEF ExchangeOutcomes

LEMMA CompletePreparedDraftTestKeeps ==
    ASSUME SessionInv, CompletePreparedDraftTest
    PROVE  SessionInv'
  <1>1. pc = "idle" /\ draft.pending /\ ~draft.access /\ ~menu.offer_valid /\ menu \in Menus
        /\ draft \in Drafts
    BY DEF CompletePreparedDraftTest, SessionInv, SessionType, DraftInv
  <1>2. progress' = NoProgress /\ progress'.depth = 0
    BY DEF CompletePreparedDraftTest, NoProgress
  <1>3. \/ pc' = "idle" /\ draft' \in {NoDraft, draft}
        \/ draft' \in ExchangeOutcomes /\ pc' = IF draft'.access THEN "response" ELSE "idle"
    BY <1>1 DEF CompletePreparedDraftTest
  <1>4. draft' \in Drafts /\ (pc' = "idle" => ~draft'.access) /\ pc' \in {"idle", "response"}
        /\ (pc' = "response" => ~draft'.pending)
    <2>1. CASE pc' = "idle" /\ draft' \in {NoDraft, draft}
      <3>1. ~NoDraft.access
        BY DEF NoDraft
      <3>2. draft' = NoDraft \/ draft' = draft
        BY <2>1
      <3> QED
        BY <1>1, <2>1, <3>1, <3>2, EmptyTypes
    <2>2. CASE draft' \in ExchangeOutcomes /\ pc' = IF draft'.access THEN "response" ELSE "idle"
      <3>1. draft' \in Drafts /\ (draft'.access => ~draft'.pending)
        BY <1>1, <2>2, ExchangeFits
      <3> QED
        BY <2>2, <3>1
    <2> QED
      BY <1>3, <2>1, <2>2
  <1>5. /\ menu' \in Menus /\ ~menu'.offer_valid
        /\ pc' = "response" => menu'.mode = "PreparedDraft"
    <2>1. CASE pc' = "response"
      <3>1. PICK mode \in Modes : mode = "PreparedDraft"
        BY DEF Modes
      <3>2. menu' = [menu EXCEPT !.mode = mode]
        BY <2>1, <3>1 DEF CompletePreparedDraftTest
      <3>3. menu' \in Menus /\ menu'.mode = mode /\ menu'.offer_valid = menu.offer_valid
        BY <1>1, <3>2, ModeUpdate
      <3> QED
        BY <1>1, <3>1, <3>3
    <2>2. CASE pc' # "response"
      BY <1>1, <2>2 DEF CompletePreparedDraftTest
    <2> QED
      BY <2>1, <2>2
  <1>6. SessionType'
    BY <1>2, <1>4, <1>5, EmptyTypes, EnvironmentTyped
       DEF SessionInv, SessionType, CompletePreparedDraftTest, CheckSteps, FetchSteps
  <1>7. CASE pc' = "idle"
    BY <1>2, <1>4, <1>5, <1>6, <1>7, Returns
  <1>8. CASE pc' = "response"
    BY <1>2, <1>4, <1>5, <1>6, <1>8 DEF SessionInv, DepthInv, ManifestInv, OfferInv, RequestInv,
       DraftInv, TokenOnlyForOffer, InventoryIsOffer, CheckSteps, FetchSteps, OfferSteps, StartSteps
  <1> QED
    BY <1>4, <1>7, <1>8

\* A check that ends returns without an offer.
LEMMA CheckReturns ==
    ASSUME SessionInv, SessionType', CheckEnds, progress'.depth = 0, ~menu'.offer_valid
    PROVE  SessionInv'
  BY Returns DEF CheckEnds, NoDraft

LEMMA FetchKeeps ==
    ASSUME SessionInv, Fetch
    PROVE  SessionInv'
  <1>1. /\ pc \in FetchSteps /\ menu \in Menus /\ ~menu.offer_valid /\ progress \in Progresses
        /\ progress.depth = 0 /\ latest \in Releases
    BY DEF Fetch, FetchParts, FetchSteps, SessionInv, SessionType, DepthInv, OfferInv, CheckSteps
  <1>2. PICK pressed \in BOOLEAN :
          /\ progress' = Report("cancelable", pressed).state
          /\ \/ /\ menu' = [menu EXCEPT !.download[pc] = latest]
                /\ pc' = FetchParts[pc] /\ UNCHANGED draft
             \/ menu' = [menu EXCEPT !.download = NoDownload] /\ CheckEnds
    BY DEF Fetch
  <1>3. progress' \in Progresses /\ progress'.depth = 0
    BY <1>1, <1>2, ReportKeeps
  <1>4. CASE /\ menu' = [menu EXCEPT !.download[pc] = latest]
             /\ pc' = FetchParts[pc] /\ UNCHANGED draft
    <2>1. /\ menu' \in Menus /\ menu'.mode = menu.mode /\ menu'.offer_valid = menu.offer_valid
          /\ menu'.download.manifest = IF pc = "manifest" THEN latest ELSE menu.download.manifest
      BY <1>1, <1>4, PartArrives
    <2>2. /\ pc = "response" => pc' = "manifest"
          /\ pc = "manifest" => pc' = "signature"
          /\ pc = "signature" => pc' = "offer"
      BY <1>4 DEF FetchParts
    <2>3. ~menu'.offer_valid
      BY <1>1, <2>1
    <2>4. SessionType'
      BY <1>1, <1>3, <1>4, <2>1, <2>2, EnvironmentTyped
         DEF SessionInv, SessionType, Fetch, CheckSteps, FetchSteps
    <2>5. ManifestInv'
      BY <1>1, <2>1, <2>2
         DEF SessionInv, ManifestInv, FetchSteps, OfferSteps, StartSteps
    <2>6. DraftInv'
      BY <1>1, <1>4, <2>1, <2>2, <2>3 DEF SessionInv, DraftInv, CheckSteps, FetchSteps
    <2> QED
      BY <1>1, <1>3, <2>2, <2>3, <2>4, <2>5, <2>6 DEF SessionInv, DepthInv, OfferInv, RequestInv,
         TokenOnlyForOffer, InventoryIsOffer, CheckSteps, FetchSteps, OfferSteps, StartSteps
  <1>5. CASE menu' = [menu EXCEPT !.download = NoDownload] /\ CheckEnds
    <2>1. PICK d \in Downloads : menu' = [menu EXCEPT !.download = d]
      BY <1>5, EmptyTypes
    <2>2. menu' \in Menus /\ menu'.offer_valid = menu.offer_valid
      BY <1>1, <2>1, DownloadUpdate
    <2>3. ~menu'.offer_valid
      BY <1>1, <2>2
    <2>4. SessionType'
      BY <1>3, <1>5, <2>2, EmptyTypes, EnvironmentTyped
         DEF SessionInv, SessionType, Fetch, CheckEnds
    <2> QED
      BY <1>3, <1>5, <2>3, <2>4, CheckReturns
  <1> QED
    BY <1>2, <1>4, <1>5


LEMMA BuildOfferKeeps ==
    ASSUME SessionInv, BuildOffer
    PROVE  SessionInv'
  <1>1. /\ pc = "offer" /\ menu' = menu /\ ~menu'.offer_valid /\ menu.download.manifest \in Releases
        /\ progress' = progress /\ progress'.depth = 0
    BY DEF BuildOffer, SessionInv, DepthInv, ManifestInv, OfferInv, CheckSteps
  <1>2. CASE /\ inventory' = menu.download.manifest /\ pc' = "assess" /\ UNCHANGED draft
             /\ menu.mode = "PreparedDraft" => TicketAdmits(draft.ticket, menu.download)
    <2>1. SessionType'
      BY <1>1, <1>2, EnvironmentTyped
         DEF SessionInv, SessionType, BuildOffer, CheckSteps, Parts
    <2>2. DraftInv'
      BY <1>1, <1>2 DEF SessionInv, DraftInv, TicketAdmits, CheckSteps
    <2> QED
      BY <1>1, <1>2, <2>1, <2>2 DEF SessionInv, DepthInv, ManifestInv, OfferInv, RequestInv,
         TokenOnlyForOffer, InventoryIsOffer, CheckSteps, FetchSteps, OfferSteps, StartSteps
  <1>3. CASE inventory' = inventory /\ CheckEnds
    <2>1. SessionType'
      BY <1>1, <1>3, EmptyTypes, EnvironmentTyped
         DEF SessionInv, SessionType, BuildOffer, CheckEnds
    <2> QED
      BY <1>1, <1>3, <2>1, CheckReturns
  <1> QED
    BY <1>2, <1>3 DEF BuildOffer

LEMMA AssessForMenuKeeps ==
    ASSUME SessionInv, AssessForMenu
    PROVE  SessionInv'
  <1>1. /\ pc = "assess" /\ menu \in Menus /\ ~menu.offer_valid
        /\ menu.download.manifest \in Releases /\ card \in Cards
        /\ progress' = progress /\ progress'.depth = 0
    BY DEF AssessForMenu, SessionInv, SessionType, DepthInv, ManifestInv, OfferInv, CheckSteps
  <1>2. CASE /\ menu' = [menu EXCEPT !.consent = Consent, !.consent_valid = TRUE]
             /\ pc' = "ready" /\ UNCHANGED draft
    <2>1. PICK c \in Consents : c = Consent /\ c.release = menu.download.manifest
      BY <1>1, ConsentFits
    <2>2. menu' = [menu EXCEPT !.consent = c, !.consent_valid = TRUE]
      BY <1>2, <2>1
    <2>3. /\ menu' \in Menus /\ menu'.mode = menu.mode /\ menu'.download = menu.download
          /\ menu'.consent = c /\ menu'.offer_valid = menu.offer_valid /\ menu'.consent_valid
      BY <1>1, <2>2 DEF Menus
    <2>4. ~menu'.offer_valid
      BY <1>1, <2>3
    <2>5. SessionType'
      BY <1>1, <1>2, <2>3, EnvironmentTyped
         DEF SessionInv, SessionType, AssessForMenu, CheckSteps
    <2>6. InventoryIsOffer'
      BY <1>1, <2>3 DEF AssessForMenu, SessionInv, InventoryIsOffer
    <2>7. DraftInv'
      BY <1>1, <1>2, <2>3 DEF SessionInv, DraftInv, CheckSteps
    <2>8. OfferInv'
      BY <1>2, <2>1, <2>3, <2>4 DEF OfferInv, OfferSteps
    <2> QED
      BY <1>1, <1>2, <2>3, <2>5, <2>6, <2>7, <2>8 DEF SessionInv, DepthInv, ManifestInv, RequestInv,
         TokenOnlyForOffer, OfferSteps
  <1>3. CASE menu' = menu /\ CheckEnds
    <2>1. SessionType'
      BY <1>1, <1>3, EmptyTypes, EnvironmentTyped
         DEF SessionInv, SessionType, AssessForMenu, CheckEnds
    <2> QED
      BY <1>1, <1>3, <2>1, CheckReturns
  <1> QED
    BY <1>2, <1>3 DEF AssessForMenu

LEMMA ShowOfferKeeps ==
    ASSUME SessionInv, ShowOffer
    PROVE  SessionInv'
  <1>1. /\ pc = "ready" /\ menu \in Menus /\ ~menu.offer_valid /\ menu.consent_valid
        /\ menu.consent \in Consents /\ menu.consent.release = menu.download.manifest
        /\ progress' = progress /\ progress'.depth = 0
    BY DEF ShowOffer, SessionInv, SessionType, DepthInv, OfferInv, CheckSteps
  <1>2. CASE /\ menu' = [menu EXCEPT !.offer_valid = TRUE]
             /\ shown' = [release |-> menu.download.manifest,
                          config |-> menu.consent.config, plan |-> menu.consent.plan]
             /\ pc' = "idle" /\ UNCHANGED draft
    <2>1. /\ menu' \in Menus /\ menu'.mode = menu.mode /\ menu'.download = menu.download
          /\ menu'.offer_valid /\ menu'.consent = menu.consent
          /\ menu'.consent_valid = menu.consent_valid
      BY <1>1, <1>2, OfferMade
    <2>2. /\ menu.consent.config \in Configs /\ menu.consent.plan \in Plans
          /\ menu.download.manifest \in Releases
      BY <1>1 DEF Consents
    <2>3. /\ shown' \in Offers /\ shown'.release = menu.download.manifest
          /\ shown'.config = menu.consent.config /\ shown'.plan = menu.consent.plan
      BY <1>2, <2>2 DEF Offers
    <2>4. SessionType'
      BY <1>1, <1>2, <2>1, <2>3, EnvironmentTyped DEF SessionInv, SessionType, ShowOffer
    <2>5. OfferInv'
      BY <1>1, <1>2, <2>1, <2>3 DEF OfferInv, Confirmed, CheckSteps, FetchSteps, OfferSteps, StartSteps
    <2>6. DraftInv' /\ TokenOnlyForOffer'
      BY <1>1, <1>2, <2>1 DEF SessionInv, DraftInv, TokenOnlyForOffer, CheckSteps, FetchSteps
    <2> QED
      BY <1>1, <1>2, <2>4, <2>5, <2>6 DEF SessionInv, DepthInv, ManifestInv, RequestInv,
         InventoryIsOffer, OfferSteps, StartSteps
  <1>3. CASE menu' \in {Invalid(menu), menu} /\ CheckEnds /\ shown' = shown
    <2>1. menu' \in Menus /\ ~menu'.offer_valid
      <3>1. CASE menu' = Invalid(menu)
        BY <1>1, <3>1, InvalidMenu
      <3>2. CASE menu' = menu
        BY <1>1, <3>2
      <3> QED
        BY <1>3, <3>1, <3>2
    <2>2. SessionType'
      BY <1>1, <1>3, <2>1, EmptyTypes, EnvironmentTyped
         DEF SessionInv, SessionType, ShowOffer, CheckEnds
    <2> QED
      BY <1>1, <1>3, <2>1, <2>2, CheckReturns
  <1> QED
    BY <1>2, <1>3 DEF ShowOffer


\* An install that ends returns with the menu it found, or with an invalid one.
LEMMA InstallReturns ==
    ASSUME SessionInv, NEW m \in {menu, Invalid(menu)}, InstallEnds(m),
           progress' \in Progresses, progress'.depth = 0, card' \in Cards,
           inventory' \in Parts \cup {FirstInstalled}, UNCHANGED <<environment, shown>>
    PROVE  SessionInv'
  <1>1. menu' \in Menus /\ (menu' = menu \/ ~menu'.offer_valid)
    BY InvalidMenu, EndsClear DEF SessionInv, SessionType
  <1>2. SessionType'
    BY <1>1, EmptyTypes, EnvironmentTyped, EndsClear DEF SessionInv, SessionType
  <1> QED
    BY <1>1, <1>2, EndsClear, Returns

LEMMA InstallCheckedUpdateKeeps ==
    ASSUME SessionInv, InstallCheckedUpdate
    PROVE  SessionInv'
  <1>1. progress' = NoProgress /\ progress' \in Progresses /\ progress'.depth = 0
    BY EmptyTypes DEF InstallCheckedUpdate, NoProgress
  <1>2. CASE /\ menu.offer_valid /\ pc' = "reassess" /\ UNCHANGED <<menu, draft, source>>
             /\ \E consent \in BOOLEAN : call' = [NoCall EXCEPT !.reset_consent = consent]
             /\ inventory' = menu.download.manifest
    <2>1. Confirmed(menu.consent) /\ menu.download.manifest \in Releases
      BY <1>2 DEF SessionInv, OfferInv, Confirmed, Offers
    <2>2. call' \in Calls
      BY <1>2 DEF NoCall, Calls
    <2>3. SessionType'
      BY <1>1, <1>2, <2>1, <2>2, EnvironmentTyped
         DEF SessionInv, SessionType, InstallCheckedUpdate, OfferSteps, Parts
    <2>4. OfferInv'
      BY <1>2 DEF SessionInv, OfferInv, InstallCheckedUpdate, Confirmed,
         CheckSteps, FetchSteps, StartSteps
    <2>5. DraftInv'
      BY <1>2 DEF SessionInv, DraftInv, CheckSteps, FetchSteps
    <2> QED
      BY <1>1, <1>2, <2>1, <2>3, <2>4, <2>5 DEF SessionInv, DepthInv, ManifestInv, RequestInv,
         TokenOnlyForOffer, InventoryIsOffer, OfferSteps
  <1>3. CASE /\ InstallEnds(IF menu.offer_valid /\ network THEN Invalid(menu) ELSE menu)
             /\ inventory' = inventory
    <2>1. PICK m \in {menu, Invalid(menu)} : InstallEnds(m)
      BY <1>3
    <2> QED
      BY <1>1, <1>3, <2>1, InstallReturns DEF InstallCheckedUpdate, SessionInv, SessionType
  <1> QED
    BY <1>2, <1>3 DEF InstallCheckedUpdate

\* The steps of an install that rest on the offer have what they rest on.
LEMMA OfferStands ==
    ASSUME SessionInv, pc \in OfferSteps
    PROVE  /\ menu \in Menus /\ menu.offer_valid /\ menu.consent_valid
           /\ shown \in Offers /\ menu.consent \in Consents
           /\ shown.release = menu.download.manifest
           /\ menu.consent.release = menu.download.manifest
           /\ menu.consent.config = shown.config /\ menu.consent.plan = shown.plan
           /\ menu.download.manifest \in Releases
           /\ progress.depth = 0 /\ progress \in Progresses /\ card \in Cards /\ call \in Calls
           /\ inventory \in Parts \cup {FirstInstalled}
  BY DEF SessionInv, SessionType, OfferInv, Confirmed, ManifestInv, DepthInv, OfferSteps

\* A step from one of them to another that keeps menu, draft and screen.
LEMMA OfferKept ==
    ASSUME SessionInv, pc \in OfferSteps, pc' \in OfferSteps, pc' # "reassess",
           UNCHANGED <<menu, draft, source, environment, shown>>,
           progress' \in Progresses, progress'.depth = 0, card' \in Cards, call' \in Calls,
           inventory' \in Parts \cup {FirstInstalled},
           InventoryIsOffer',
           pc' \in {"retire", "restore", "rebind"} => call'.evidence = menu.consent,
           shown.plan = "ResetRequired" => call'.reset_consent
    PROVE  SessionInv'
  <1>1. SessionType'
    BY EnvironmentTyped DEF SessionInv, SessionType
  <1>2. OfferInv'
    BY DEF SessionInv, OfferInv, Confirmed, CheckSteps, FetchSteps, OfferSteps, StartSteps
  <1>3. DraftInv' /\ TokenOnlyForOffer'
    BY DEF SessionInv, DraftInv, TokenOnlyForOffer, CheckSteps, FetchSteps, OfferSteps
  <1>4. ManifestInv' /\ DepthInv' /\ RequestInv'
    BY OfferStands DEF ManifestInv, DepthInv, RequestInv, OfferSteps
  <1> QED
    BY <1>1, <1>2, <1>3, <1>4 DEF SessionInv


LEMMA ReassessKeeps ==
    ASSUME SessionInv, Reassess
    PROVE  SessionInv'
  <1>1. pc \in OfferSteps /\ pc = "reassess"
    BY DEF Reassess, OfferSteps
  <1>2. CASE /\ StillConsented(menu.consent)
             /\ ~(menu.consent.plan = "ResetRequired" /\ ~call.reset_consent)
             /\ menu' = [menu EXCEPT !.consent = Consent]
             /\ pc' = "state files" /\ UNCHANGED <<draft, source, call>>
    <2>1. menu' = menu
      <3>1. menu' = [menu EXCEPT !.consent = menu.consent]
        BY <1>2 DEF StillConsented
      <3> QED
        BY <1>1, <3>1, OfferStands DEF Menus
    <2> QED
      BY <1>1, <1>2, <2>1, OfferStands, OfferKept DEF Reassess, OfferSteps, InventoryIsOffer
  <1>3. CASE InstallEnds(menu)
    BY <1>1, <1>3, OfferStands, InstallReturns DEF Reassess
  <1>4. CASE InstallEnds(Invalid(menu))
    BY <1>1, <1>4, OfferStands, InstallReturns DEF Reassess
  <1> QED
    BY <1>2, <1>3, <1>4 DEF Reassess

LEMMA InspectStateFilesKeeps ==
    ASSUME SessionInv, InspectStateFiles
    PROVE  SessionInv'
  <1>1. pc \in OfferSteps /\ pc = "state files"
    BY DEF InspectStateFiles, OfferSteps
  <1>2. CASE /\ call' = [call EXCEPT !.retained = card.retained # "none",
                                     !.evidence = menu.consent]
             /\ pc' = "retire" /\ UNCHANGED <<menu, draft, source>>
    <2>1. PICK retained \in BOOLEAN : retained = (card.retained # "none")
      OBVIOUS
    <2>2. call' = [call EXCEPT !.retained = retained, !.evidence = menu.consent]
      BY <1>2, <2>1
    <2>3. /\ call' \in Calls /\ call'.evidence = menu.consent
          /\ call'.reset_consent = call.reset_consent
      BY <1>1, <2>2, OfferStands DEF Calls
    <2>4. shown.plan = "ResetRequired" => call'.reset_consent
      BY <1>1, <2>3 DEF SessionInv, RequestInv
    <2> QED
      BY <1>1, <1>2, <2>3, <2>4, OfferStands, OfferKept
         DEF InspectStateFiles, OfferSteps, InventoryIsOffer
  <1>3. CASE InstallEnds(Invalid(menu))
    BY <1>1, <1>3, OfferStands, InstallReturns DEF InspectStateFiles
  <1> QED
    BY <1>2, <1>3 DEF InspectStateFiles

LEMMA RetirePreviousKeeps ==
    ASSUME SessionInv, RetirePrevious
    PROVE  SessionInv'
  <1>1. pc \in OfferSteps /\ pc = "retire"
    BY DEF RetirePrevious, OfferSteps
  <1>2. PICK pressed \in BOOLEAN :
          /\ progress' \in {Report("cancelable", pressed).state, progress}
          /\ inventory' \in {card.installed, inventory}
          /\ \/ /\ card' = [card EXCEPT !.retained = "none"]
                /\ pc' = "restore" /\ UNCHANGED <<menu, draft, source, call>>
             \/ /\ card' \in {card, [card EXCEPT !.retained = "retiring"]}
                /\ InstallEnds(Invalid(menu))
    BY DEF RetirePrevious
  <1>3. progress' \in Progresses /\ progress'.depth = 0
    BY <1>1, <1>2, OfferStands, ReportKeeps
  <1>4. inventory' \in Parts \cup {FirstInstalled}
    BY <1>1, <1>2, OfferStands DEF Cards
  <1>5. card' \in Cards
    BY <1>1, <1>2, OfferStands, CardUpdates DEF Retained
  <1>6. CASE pc' = "restore" /\ UNCHANGED <<menu, draft, source, call>>
    <2>1. /\ call.evidence = menu.consent
          /\ shown.plan = "ResetRequired" => call.reset_consent
      BY <1>1 DEF SessionInv, RequestInv
    <2> QED
      BY <1>1, <1>3, <1>4, <1>5, <1>6, <2>1, OfferStands, OfferKept
         DEF RetirePrevious, OfferSteps, InventoryIsOffer
  <1>7. CASE InstallEnds(Invalid(menu))
    BY <1>3, <1>4, <1>5, <1>7, InstallReturns DEF RetirePrevious
  <1> QED
    BY <1>2, <1>6, <1>7

LEMMA RestoreOfferKeeps ==
    ASSUME SessionInv, RestoreOffer
    PROVE  SessionInv'
  <1>1. pc \in OfferSteps /\ pc = "restore"
    BY DEF RestoreOffer, OfferSteps
  <1>2. /\ call.evidence = menu.consent
        /\ shown.plan = "ResetRequired" => call.reset_consent
    BY <1>1 DEF SessionInv, RequestInv
  <1>3. pc' \in {"rebind", "readiness"}
    BY DEF RestoreOffer
  <1>4. InventoryIsOffer' /\ inventory' \in Parts
    BY <1>1, OfferStands DEF RestoreOffer, InventoryIsOffer, Parts
  <1> QED
    BY <1>1, <1>2, <1>3, <1>4, OfferStands, OfferKept DEF RestoreOffer, OfferSteps


\* Only the journals were retired: release, configuration and plan are those of
\* the consent that was given.
LEMMA JournalsOnly ==
    ASSUME NEW before \in Consents, NEW after, OnlyJournalsRetired(before, after)
    PROVE  /\ after \in Consents /\ after.release = before.release
           /\ after.config = before.config /\ after.plan = before.plan
  BY DEF OnlyJournalsRetired, Consents

LEMMA RebindConsentKeeps ==
    ASSUME SessionInv, RebindConsent
    PROVE  SessionInv'
  <1>1. pc \in OfferSteps /\ pc = "rebind"
    BY DEF RebindConsent, OfferSteps
  <1>2. CASE /\ OnlyJournalsRetired(call.evidence, Consent)
             /\ menu' = [menu EXCEPT !.consent = Consent]
             /\ pc' = "readiness" /\ UNCHANGED <<draft, source, call>>
    <2>1. call.evidence = menu.consent /\ (shown.plan = "ResetRequired" => call.reset_consent)
      BY <1>1 DEF SessionInv, RequestInv
    <2>2. PICK c : c = Consent
      OBVIOUS
    <2>3. /\ c \in Consents /\ c.release = menu.consent.release
          /\ c.config = menu.consent.config /\ c.plan = menu.consent.plan
      BY <1>1, <1>2, <2>1, <2>2, OfferStands, JournalsOnly
    <2>4. menu' = [menu EXCEPT !.consent = c]
      BY <1>2, <2>2
    <2>5. /\ menu' \in Menus /\ menu'.mode = menu.mode /\ menu'.download = menu.download
          /\ menu'.consent = c /\ menu'.offer_valid = menu.offer_valid
          /\ menu'.consent_valid = menu.consent_valid
      BY <1>1, <2>3, <2>4, OfferStands, ConsentUpdate
    <2>6. SessionType'
      BY <1>2, <2>5, EnvironmentTyped DEF SessionInv, SessionType, RebindConsent, OfferSteps
    <2>7. OfferInv'
      BY <1>1, <1>2, <2>3, <2>5, OfferStands
         DEF OfferInv, Confirmed, RebindConsent, CheckSteps, FetchSteps, StartSteps
    <2>8. DraftInv' /\ TokenOnlyForOffer'
      BY <1>1, <1>2 DEF SessionInv, DraftInv, TokenOnlyForOffer, CheckSteps, FetchSteps
    <2>9. InventoryIsOffer'
      BY <1>1, <2>5 DEF SessionInv, InventoryIsOffer, RebindConsent
    <2>10. ManifestInv' /\ DepthInv' /\ RequestInv'
      BY <1>1, <1>2, <2>1, <2>5, OfferStands DEF RebindConsent, ManifestInv, DepthInv, RequestInv
    <2> QED
      BY <2>6, <2>7, <2>8, <2>9, <2>10 DEF SessionInv
  <1>3. CASE InstallEnds(Invalid(menu))
    BY <1>1, <1>3, OfferStands, InstallReturns DEF RebindConsent
  <1> QED
    BY <1>2, <1>3 DEF RebindConsent

LEMMA IssueKeeps ==
    ASSUME SessionInv, IssueForConfirmedMenuAction
    PROVE  SessionInv'
  <1>1. pc \in OfferSteps /\ pc = "readiness"
    BY DEF IssueForConfirmedMenuAction, OfferSteps
  <1>2. CASE /\ call' = [call EXCEPT !.request =
                           [consent |-> menu.consent,
                            reset |-> menu.consent.plan = "ResetRequired"]]
             /\ menu' = Invalid(menu) /\ source' = Issue
             /\ pc' = "authorize" /\ UNCHANGED draft
    <2>1. shown.plan = "ResetRequired" => call.reset_consent
      BY <1>1 DEF SessionInv, RequestInv
    <2>2. PICK r \in Requests : /\ r.consent = menu.consent
                                /\ call' = [call EXCEPT !.request = r]
      <3>1. PICK reset \in BOOLEAN : reset = (menu.consent.plan = "ResetRequired")
        OBVIOUS
      <3>2. [consent |-> menu.consent, reset |-> reset] \in Requests
        BY <1>1, OfferStands DEF Requests
      <3> QED
        BY <1>2, <3>1, <3>2
    <2>3. call' \in Calls /\ call'.request = r /\ call'.reset_consent = call.reset_consent
      BY <1>1, <2>2, OfferStands DEF Calls
    <2>4. /\ menu' \in Menus /\ menu'.download = menu.download /\ menu'.mode = menu.mode
          /\ ~menu'.offer_valid
      BY <1>1, <1>2, OfferStands, InvalidMenu
    <2>5. source' \in Sources
      BY <1>2, SessionAssumption DEF SessionInv, SessionType, Issue, Sources
    <2>6. SessionType'
      BY <1>2, <2>3, <2>4, <2>5, EnvironmentTyped
         DEF SessionInv, SessionType, IssueForConfirmedMenuAction, StartSteps
    <2>7. RequestInv'
      BY <1>1, <1>2, <2>1, <2>2, <2>3, <2>4, OfferStands
         DEF IssueForConfirmedMenuAction, RequestInv, Confirmed
    <2>8. OfferInv' /\ ManifestInv' /\ DepthInv'
      BY <1>1, <1>2, <2>4, OfferStands
         DEF IssueForConfirmedMenuAction, OfferInv, ManifestInv, DepthInv, OfferSteps
    <2>9. DraftInv' /\ TokenOnlyForOffer' /\ InventoryIsOffer'
      BY <1>1, <1>2, <2>4 DEF SessionInv, DraftInv, TokenOnlyForOffer, InventoryIsOffer,
         CheckSteps, FetchSteps
    <2> QED
      BY <2>6, <2>7, <2>8, <2>9 DEF SessionInv
  <1>3. CASE InstallEnds(Invalid(menu))
    BY <1>1, <1>3, OfferStands, InstallReturns DEF IssueForConfirmedMenuAction
  <1> QED
    BY <1>2, <1>3 DEF IssueForConfirmedMenuAction

\* The steps after the offer was used up have neither an offer nor a request
\* still to be confirmed.
LEMMA StartStands ==
    ASSUME SessionInv, pc \in StartSteps
    PROVE  /\ menu \in Menus /\ ~menu.offer_valid /\ menu.download.manifest \in Releases
           /\ progress \in Progresses /\ card \in Cards /\ call \in Calls /\ ~draft.pending
           /\ inventory \in Parts \cup {FirstInstalled}
           /\ pc # "cleanup" => progress.depth = 0
  BY DEF SessionInv, SessionType, OfferInv, ManifestInv, DepthInv, DraftInv, StartSteps

\* A step among them that starts the update or carries it on.
LEMMA StartGoesOn ==
    ASSUME SessionInv, pc \in StartSteps, pc' \in StartSteps \ {"authorize"},
           menu' = menu, draft' = draft, call' = call, source' \in Sources,
           UNCHANGED environment, progress' \in Progresses, card' \in Cards,
           inventory' \in Parts \cup {FirstInstalled}, shown' \in {shown, Nothing},
           DepthInv', InventoryIsOffer'
    PROVE  SessionInv'
  <1>1. SessionType'
    BY EnvironmentTyped DEF SessionInv, SessionType
  <1>2. OfferInv' /\ ManifestInv' /\ RequestInv'
    BY StartStands DEF OfferInv, ManifestInv, RequestInv, OfferSteps, StartSteps
  <1>3. DraftInv' /\ TokenOnlyForOffer'
    BY StartStands DEF DraftInv, TokenOnlyForOffer, CheckSteps, FetchSteps, StartSteps
  <1> QED
    BY <1>1, <1>2, <1>3 DEF SessionInv


LEMMA AuthorizeAndSealKeeps ==
    ASSUME SessionInv, AuthorizeAndSeal
    PROVE  SessionInv'
  <1>1. pc \in StartSteps /\ pc = "authorize"
    BY DEF AuthorizeAndSeal, StartSteps
  <1>2. inventory' = menu.download.manifest /\ inventory' \in Parts
    BY <1>1, StartStands DEF AuthorizeAndSeal, Revalidate, Parts
  <1>3. CASE /\ pc' = "download" /\ source' = NoToken /\ shown' = Nothing
             /\ UNCHANGED <<menu, draft, call>>
    BY <1>1, <1>2, <1>3, StartStands, StartGoesOn, EmptyTypes
       DEF AuthorizeAndSeal, StartSteps, DepthInv, InventoryIsOffer
  <1>4. CASE InstallEnds(menu) /\ shown' = shown
    BY <1>1, <1>2, <1>4, StartStands, InstallReturns DEF AuthorizeAndSeal
  <1> QED
    BY <1>3, <1>4 DEF AuthorizeAndSeal

\* The mandatory operation begins: from here no cancel is heard.
LEMMA CleanupBegins ==
    ASSUME NEW p \in Progresses, p.depth = 0
    PROVE  /\ [p EXCEPT !.depth = @ + 1] \in Progresses
           /\ [p EXCEPT !.depth = @ + 1].depth = 1
  <1>1. PICK n \in 0..2 : n = p.depth + 1 /\ n = 1
    OBVIOUS
  <1>2. [p EXCEPT !.depth = @ + 1] = [p EXCEPT !.depth = n]
    BY <1>1
  <1> QED
    BY <1>1, <1>2, DepthCounts

LEMMA DownloadKeeps ==
    ASSUME SessionInv, Download
    PROVE  SessionInv'
  <1>1. pc \in StartSteps /\ pc = "download" /\ progress.depth = 0
    BY StartStands DEF Download, StartSteps
  <1>2. PICK pressed \in BOOLEAN :
          LET report == Report("cancelable", pressed)
          IN  \/ /\ pc' = "stage" /\ progress' = report.state
                 /\ card' = [card EXCEPT !.retained = "active"]
                 /\ UNCHANGED <<menu, draft, source, call>>
              \/ /\ pc' = "cleanup" /\ progress' = [report.state EXCEPT !.depth = @ + 1]
                 /\ card' = [card EXCEPT !.retained = "active"]
                 /\ UNCHANGED <<menu, draft, source, call>>
              \/ progress' = report.state /\ InstallEnds(menu) /\ card' = card
    BY DEF Download
  <1>3. PICK state \in Progresses : state = Report("cancelable", pressed).state /\ state.depth = 0
    BY <1>1, ReportKeeps, StartStands
  <1>4. card' \in Cards
    BY <1>1, <1>2, StartStands, CardUpdates DEF Retained
  <1>5. CASE /\ pc' = "stage" /\ progress' = state /\ UNCHANGED <<menu, draft, source, call>>
    <2>1. InventoryIsOffer' /\ DepthInv'
      BY <1>1, <1>3, <1>5 DEF Download, SessionInv, InventoryIsOffer, DepthInv
    <2> QED
      BY <1>1, <1>3, <1>4, <1>5, <2>1, StartStands, StartGoesOn
         DEF Download, StartSteps, SessionInv, SessionType
  <1>6. CASE /\ pc' = "cleanup" /\ progress' = [state EXCEPT !.depth = @ + 1]
             /\ UNCHANGED <<menu, draft, source, call>>
    <2>1. progress' \in Progresses /\ progress'.depth = 1
      BY <1>3, <1>6, CleanupBegins
    <2>2. InventoryIsOffer' /\ DepthInv'
      BY <1>6, <2>1 DEF InventoryIsOffer, DepthInv
    <2> QED
      BY <1>1, <1>4, <1>6, <2>1, <2>2, StartStands, StartGoesOn
         DEF Download, StartSteps, SessionInv, SessionType
  <1>7. CASE progress' = state /\ InstallEnds(menu)
    BY <1>1, <1>3, <1>4, <1>7, StartStands, InstallReturns DEF Download
  <1> QED
    BY <1>2, <1>3, <1>5, <1>6, <1>7

LEMMA StageAndArmKeeps ==
    ASSUME SessionInv, StageAndArm
    PROVE  SessionInv'
  <1>1. pc \in StartSteps /\ pc = "stage" /\ progress.depth = 0
    BY StartStands DEF StageAndArm, StartSteps
  <1>2. PICK pressed \in BOOLEAN :
          LET report == Report("cancelable", pressed)
          IN  \/ progress' = report.state /\ pc' \in {"stage", "rebooting"}
              \/ pc' = "cleanup" /\ progress' = [report.state EXCEPT !.depth = @ + 1]
    BY DEF StageAndArm
  <1>3. PICK state \in Progresses : state = Report("cancelable", pressed).state /\ state.depth = 0
    BY <1>1, ReportKeeps, StartStands
  <1>4. progress' \in Progresses /\ DepthInv'
    <2>1. CASE progress' = state /\ pc' \in {"stage", "rebooting"}
      BY <1>3, <2>1 DEF DepthInv
    <2>2. CASE pc' = "cleanup" /\ progress' = [state EXCEPT !.depth = @ + 1]
      BY <1>3, <2>2, CleanupBegins DEF DepthInv
    <2> QED
      BY <1>2, <1>3, <2>1, <2>2
  <1>5. InventoryIsOffer'
    BY <1>1, <1>2 DEF StageAndArm, SessionInv, InventoryIsOffer
  <1> QED
    BY <1>1, <1>2, <1>4, <1>5, StartStands, StartGoesOn
       DEF StageAndArm, StartSteps, SessionInv, SessionType

LEMMA CleanupKeeps ==
    ASSUME SessionInv, Cleanup
    PROVE  SessionInv'
  <1>1. pc \in StartSteps /\ pc = "cleanup" /\ progress.depth > 0
    BY DEF Cleanup, StartSteps, SessionInv, DepthInv
  <1>2. PICK pressed \in BOOLEAN, kind \in {"mandatory", "cancelable"} :
          LET report == Report(kind, pressed)
          IN  \/ /\ progress.depth < 2 /\ pc' = pc
                 /\ progress' = [report.state EXCEPT !.depth = @ + 1]
                 /\ UNCHANGED <<menu, draft, source, card, call>>
              \/ /\ progress.depth > 1 /\ pc' = pc
                 /\ progress' = [report.state EXCEPT !.depth = @ - 1]
                 /\ UNCHANGED <<menu, draft, source, card, call>>
              \/ /\ progress' = [report.state EXCEPT !.depth = 0]
                 /\ card' \in {card, [card EXCEPT !.retained = "none"]}
                 /\ InstallEnds(menu)
              \/ ~report.continue
    BY DEF Cleanup
  <1>3. Report(kind, pressed).continue
    BY <1>1, ReportKeeps, StartStands
  <1>4. PICK state \in Progresses :
          state = Report(kind, pressed).state /\ state.depth = progress.depth
    BY <1>1, ReportKeeps, StartStands
  <1>5. progress.depth \in 1..2
    BY <1>1, StartStands DEF Progresses
  <1>6. CASE /\ \/ progress.depth < 2 /\ progress' = [state EXCEPT !.depth = @ + 1]
                \/ progress.depth > 1 /\ progress' = [state EXCEPT !.depth = @ - 1]
             /\ pc' = pc /\ UNCHANGED <<menu, draft, source, card, call>>
    <2>1. PICK n \in 0..2 : n > 0 /\ progress' = [state EXCEPT !.depth = n]
      BY <1>4, <1>5, <1>6
    <2>2. progress' \in Progresses /\ progress'.depth = n
      BY <2>1, DepthCounts
    <2>3. DepthInv' /\ InventoryIsOffer'
      BY <1>1, <1>6, <2>1, <2>2 DEF DepthInv, InventoryIsOffer
    <2> QED
      BY <1>1, <1>6, <2>2, <2>3, StartStands, StartGoesOn
         DEF Cleanup, StartSteps, SessionInv, SessionType
  <1>7. CASE /\ progress' = [state EXCEPT !.depth = 0]
             /\ card' \in {card, [card EXCEPT !.retained = "none"]}
             /\ InstallEnds(menu)
    <2>1. PICK n \in 0..2 : n = 0
      OBVIOUS
    <2>2. progress' \in Progresses /\ progress'.depth = 0
      BY <1>7, <2>1, DepthCounts
    <2>3. card' \in Cards
      BY <1>1, <1>7, StartStands, CardUpdates DEF Retained
    <2> QED
      BY <1>1, <1>7, <2>2, <2>3, StartStands, InstallReturns DEF Cleanup
  <1> QED
    BY <1>2, <1>3, <1>4, <1>6, <1>7


LEMMA RebootKeeps ==
    ASSUME SessionInv, Reboot
    PROVE  SessionInv'
  <1>1. menu.download.manifest \in Parts
    BY DEF SessionInv, SessionType, Menus, Downloads
  <1>2. card' \in Cards
    BY <1>1, CardUpdates DEF Reboot, SessionInv, SessionType, Retained
  <1>3. SessionType'
    BY <1>2, EmptyTypes, EnvironmentTyped DEF Reboot, SessionInv, SessionType, Parts
  <1>4. ~menu'.offer_valid /\ ~draft'.access /\ progress'.depth = 0 /\ pc' = "idle"
    BY DEF Reboot, EmptyMenu, NoDraft, NoProgress
  <1> QED
    BY <1>3, <1>4, Returns

\* Whatever the card, GitHub, the clock and the network do, the menu's own
\* state stays as it was.
LEMMA EnvironmentKeeps ==
    ASSUME SessionInv, card' \in Cards, latest' \in Releases, network' \in BOOLEAN,
           clock' \in 0..MaxClock, edits' \in 0..MaxEdits,
           UNCHANGED <<menu, draft, source, progress, inventory, pc, call, shown>>
    PROVE  SessionInv'
  <1>1. SessionType'
    BY DEF SessionInv, SessionType
  <1>2. DepthInv' /\ ManifestInv' /\ OfferInv' /\ RequestInv' /\ DraftInv'
        /\ TokenOnlyForOffer' /\ InventoryIsOffer'
    BY DEF SessionInv, DepthInv, ManifestInv, OfferInv, RequestInv, Confirmed, DraftInv,
           TokenOnlyForOffer, InventoryIsOffer
  <1> QED
    BY <1>1, <1>2 DEF SessionInv

LEMMA SurroundingsKeep ==
    ASSUME SessionInv, Edit \/ Publish \/ Tick \/ NetworkChanges \/ UNCHANGED vars
    PROVE  SessionInv'
  <1>1. /\ card \in Cards /\ latest \in Releases /\ network \in BOOLEAN
        /\ clock \in 0..MaxClock /\ edits \in 0..MaxEdits
    BY DEF SessionInv, SessionType
  <1>2. card' \in Cards
    BY <1>1, CardUpdates DEF Edit, Publish, Tick, NetworkChanges, vars
  <1>3. /\ latest' \in Releases /\ clock' \in 0..MaxClock /\ edits' \in 0..MaxEdits
    BY <1>1, SessionAssumption DEF Edit, Publish, Tick, NetworkChanges, vars
  <1>4. network' \in BOOLEAN
    BY <1>1 DEF Edit, Publish, Tick, NetworkChanges, vars
  <1>5. UNCHANGED <<menu, draft, source, progress, inventory, pc, call, shown>>
    BY DEF Edit, Publish, Tick, NetworkChanges, vars
  <1> QED
    BY <1>2, <1>3, <1>4, <1>5, EnvironmentKeeps

LEMMA NextKeeps ==
    ASSUME SessionInv, [Next]_vars
    PROVE  SessionInv'
  <1>1. CASE Check
    BY <1>1, CheckForUpdateKeeps, BeginPreparedDraftTestKeeps, CompletePreparedDraftTestKeeps,
       CancelPendingUpdateKeeps, FetchKeeps, BuildOfferKeeps, AssessForMenuKeeps, ShowOfferKeeps
       DEF Check
  <1>2. CASE Install
    BY <1>2, InstallCheckedUpdateKeeps, ReassessKeeps, InspectStateFilesKeeps, RetirePreviousKeeps,
       RestoreOfferKeeps, RebindConsentKeeps, IssueKeeps, AuthorizeAndSealKeeps, DownloadKeeps,
       StageAndArmKeeps, CleanupKeeps DEF Install
  <1>3. CASE Reboot
    BY <1>3, RebootKeeps
  <1>4. CASE Edit \/ Publish \/ Tick \/ NetworkChanges \/ UNCHANGED vars
    BY <1>4, SurroundingsKeep
  <1> QED
    BY <1>1, <1>2, <1>3, <1>4 DEF Next

-----------------------------------------------------------------------------
(* Theorems *)

\* The inductive invariant: types, what the menu remembers of the offer on the
\* screen at every step, and where a mandatory operation runs.
THEOREM SessionInvariant == Spec => []SessionInv
  <1>1. Init => SessionInv
    BY InitHolds
  <1>2. SessionInv /\ [Next]_vars => SessionInv'
    BY NextKeeps
  <1> QED
    BY <1>1, <1>2, PTL DEF Spec

\* Every variable keeps its type.
THEOREM TypeCorrect == Spec => []TypeOK
  <1>1. SessionInv => TypeOK
    BY DEF SessionInv, SessionType, TypeOK, Menus, Cards, Retained, Progresses
  <1> QED
    BY <1>1, SessionInvariant, PTL

\* The token of a draft test is kept only for the offer it was asked for
\* (ClearDraftAuthorization on every other return of a menu call).
THEOREM TokenStaysWithOffer == Spec => []TokenOnlyForOffer
  <1>1. SessionInv => TokenOnlyForOffer
    BY DEF SessionInv
  <1> QED
    BY <1>1, SessionInvariant, PTL

\* No rollback or cleanup is abandoned, however often cancel is pressed
\* (UpdateForegroundProgress::Report within a mandatory operation).
THEOREM CleanupsComplete == Spec => []CleanupCompletes
  <1>1. SessionInv => CleanupCompletes
    BY DEF SessionInv, SessionType, CleanupCompletes, CheckSteps, FetchSteps, OfferSteps, StartSteps
  <1> QED
    BY <1>1, SessionInvariant, PTL

\* The shared parser arrays hold the offered release whenever it is assessed,
\* checked for readiness, downloaded or staged, although the retirement of the
\* previous transaction parsed another manifest into them.
THEOREM ArraysHoldOffer == Spec => []InventoryIsOffer
  <1>1. SessionInv => InventoryIsOffer
    BY DEF SessionInv
  <1> QED
    BY <1>1, SessionInvariant, PTL

\* Only AuthorizeAndSeal leads from the authorization to the download.
LEMMA OnlySealStarts ==
    ASSUME Next, pc = "authorize", pc' = "download"
    PROVE  AuthorizeAndSeal
  <1>1. CASE Check
    BY <1>1 DEF Check, CheckForUpdate, BeginPreparedDraftTest, CompletePreparedDraftTest,
       CancelPendingUpdate, Fetch, FetchParts, BuildOffer, AssessForMenu, ShowOffer
  <1>2. CASE Install
    BY <1>2 DEF Install, InstallCheckedUpdate, Reassess, InspectStateFiles, RetirePrevious,
       RestoreOffer, RebindConsent, IssueForConfirmedMenuAction, Download, StageAndArm, Cleanup
  <1>3. CASE Reboot \/ Edit \/ Publish \/ Tick \/ NetworkChanges
    BY <1>3 DEF Reboot, Edit, Publish, Tick, NetworkChanges
  <1> QED
    BY <1>1, <1>2, <1>3 DEF Next

\* An update is started only as it was shown and confirmed, once for each time
\* it was shown: AuthorizeAndSeal reads the files again, and what it compares
\* them with has come unchanged from the question on the screen.
THEOREM StartsOnlyAsConfirmed == Spec => StartsAsConfirmed
  <1> DEFINE Confirmation ==
        pc = "authorize" /\ pc' = "download" =>
          /\ shown # Nothing /\ shown' = Nothing
          /\ menu.download.manifest = shown.release
          /\ menu.download.signature.id = shown.release.id
          /\ shown.release.sequence > card.installed.sequence
          /\ card.config = shown.config /\ Plan = shown.plan
          /\ shown.plan = "ResetRequired" => call.reset_consent
          /\ clock - source.issued < AuthorizationLifetime
  <1>1. SessionInv /\ [Next]_vars => [Confirmation]_vars
    <2> SUFFICES ASSUME SessionInv, Next, pc = "authorize", pc' = "download"
                 PROVE  Confirmation
      OBVIOUS
    <2>1. AuthorizeAndSeal
      BY OnlySealStarts
    <2>2. /\ BuildReleaseOfferForMode(menu.mode, card.installed, menu.download)
          /\ ValidateAuthenticatedRequest(menu.mode, card.installed, menu.download)
          /\ TokenValid /\ StillConsented(call.request.consent) /\ shown' = Nothing
      BY <2>1 DEF AuthorizeAndSeal, InstallEnds
    <2>3. /\ Confirmed(call.request.consent)
          /\ shown.plan = "ResetRequired" => call.reset_consent
      BY DEF SessionInv, RequestInv
    <2>4. shown # Nothing
      BY <2>3, SessionAssumption DEF Confirmed, Offers
    <2>5. /\ Consent = call.request.consent /\ Consent.config = card.config /\ Consent.plan = Plan
      BY <2>2, ConsentFits DEF StillConsented, SessionInv, SessionType, ManifestInv, StartSteps
    <2>6. card.config = shown.config /\ Plan = shown.plan
      BY <2>3, <2>5 DEF Confirmed
    <2>7. menu.download.manifest = shown.release
      BY <2>3 DEF Confirmed
    <2>8. menu.download.signature.id = shown.release.id
      BY <2>2, <2>7 DEF BuildReleaseOfferForMode, Trusted
    <2>9. shown.release.sequence > card.installed.sequence
      BY <2>2, <2>7 DEF ValidateAuthenticatedRequest
    <2>10. clock - source.issued < AuthorizationLifetime
      BY <2>2 DEF TokenValid
    <2> QED
      BY <2>2, <2>3, <2>4, <2>6, <2>7, <2>8, <2>9, <2>10
  <1> QED
    BY <1>1, SessionInvariant, PTL DEF Spec, StartsAsConfirmed
=============================================================================
