---------------------------- MODULE ReleaseOffer ----------------------------
(* What makes a downloaded release an offer: release_offer.cpp,             *)
(* update_policy.cpp, draft_test_ticket.cpp and the signature check.        *)
(*                                                                          *)
(* A release is a record of what the checks tell apart: the GitHub side     *)
(* (tag, draft, prerelease, the sizes of its assets) and the manifest's     *)
(* (tag, sequence, epoch, board, range of updater ABIs).  Bytes are the     *)
(* release they belong to: the response of one release, the manifest of     *)
(* another and the signature of a third can meet in one download.           *)
EXTENDS Integers

CONSTANTS
    Releases,       \* what GitHub may offer
    TrustedKeys,    \* the keys compiled into the program
    RunningBoard

Modes == {"PublishedStable", "PreparedDraft"}

\* EvaluateReleaseCandidate, UpdateAvailable. A prepared draft passes because
\* its caller hides the flag: its own ticket admitted it.
UpdateAvailable(mode, installed, response, manifest) ==
    /\ ~(response.draft /\ mode = "PublishedStable") /\ ~response.prerelease
    /\ manifest.board = installed.board
    /\ installed.abi \in manifest.minimum_abi .. manifest.maximum_abi
    /\ manifest.sequence > installed.sequence

\* VerifyManifestTrust: one trusted signature over exactly these bytes.
Trusted(manifest, signature) ==
    manifest.id = signature.id /\ signature.key \in TrustedKeys

\* ParseGitHubRelease accepts the kind of release that was asked for, only.
KindFits(mode, response) == response.draft <=> mode = "PreparedDraft"

\* FindRequiredAssetsForKind: the assets of the release are the manifest's.
AssetsFit(response, manifest) ==
    response.tag = manifest.tag /\ response.zip_size = manifest.zip_size

\* The build information of the running program belongs to this board.
InstalledBuildFits(installed) == installed.board = RunningBoard

\* BuildReleaseOfferForMode: the parts fit each other and the installation.
BuildReleaseOfferForMode(mode, installed, d) ==
    /\ InstalledBuildFits(installed)
    /\ KindFits(mode, d.response)
    /\ d.response.manifest_size = d.manifest.manifest_size
    /\ Trusted(d.manifest, d.signature)
    /\ AssetsFit(d.response, d.manifest)
    /\ UpdateAvailable(mode, installed, d.response, d.manifest)
    /\ d.manifest.epoch >= installed.epoch

\* ValidateAuthenticatedRequest: the orchestrator asks once more what the offer
\* must have been: the kind, a newer release of this board that this updater
\* may install, and assets of the sizes that were downloaded.
ValidateAuthenticatedRequest(mode, installed, d) ==
    /\ KindFits(mode, d.response) /\ ~d.response.prerelease
    /\ RunningBoard = installed.board /\ RunningBoard = d.manifest.board
    /\ d.manifest.sequence > installed.sequence
    /\ installed.abi \in d.manifest.minimum_abi .. d.manifest.maximum_abi
    /\ d.manifest.epoch >= installed.epoch
    /\ d.response.manifest_size = d.manifest.manifest_size
    /\ AssetsFit(d.response, d.manifest)

\* VerifyDraftTestTicket, at the given time: 0 while the clock is not set.
VerifyDraftTestTicket(ticket, maximum_lifetime, now) ==
    /\ ticket.key \in TrustedKeys
    /\ ticket.expires > ticket.issued
    /\ ticket.expires - ticket.issued <= maximum_lifetime
    /\ now # 0 => now <= ticket.expires

\* CheckPreparedDraftRelease: the draft is the one the ticket was signed for.
TicketAdmits(ticket, d) ==
    /\ d.response.tag = ticket.release.tag
    /\ d.manifest.id = ticket.release.id
    /\ d.manifest.sequence = ticket.release.sequence

\* EvaluateUpdateStart: an explicit menu action on a network that is up.
EvaluateUpdateStart(network) == network
=============================================================================
