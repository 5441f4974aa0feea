------------------------ MODULE MCUpdateOrchestrator ------------------------
(***************************************************************************)
(* UpdateOrchestrator for TLC: two updates, one after the other, for two   *)
(* different releases, so that the payloads of the first may be in the way *)
(* of the second.                                                          *)
(***************************************************************************)
EXTENDS UpdateOrchestrator

MCRequests == {"r1", "r2"}

MCReleases == {"a", "b"}

MCReleaseOf == [r1 |-> "a", r2 |-> "b"]

MCNoReset == [r1 |-> FALSE, r2 |-> FALSE]

MCFirstResets == [r1 |-> TRUE, r2 |-> FALSE]

=============================================================================
