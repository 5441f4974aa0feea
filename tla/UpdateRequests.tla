---------------------------- MODULE UpdateRequests ----------------------------
(***************************************************************************)
(* What the modules of the update transaction agree on: an authenticated   *)
(* request (AuthenticatedUpdateRequest) has an identity of its own and is  *)
(* for one release; its consent says whether configurations are reset.     *)
(***************************************************************************)
EXTENDS Naturals

CONSTANTS
    Requests,           \* transaction identities
    NoRequest,
    Releases,           \* signed releases, as the bytes of their payloads
    ReleaseOf,          \* the release a request is for
    ResetOf             \* reset_required (and so reset_approved) of a request

ASSUME RequestAssumption ==
    /\ NoRequest \notin Requests
    /\ ReleaseOf \in [Requests -> Releases]
    /\ ResetOf \in [Requests -> BOOLEAN]

=============================================================================
