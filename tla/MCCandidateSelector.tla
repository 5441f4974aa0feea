------------------------ MODULE MCCandidateSelector ------------------------
(* The candidate selector for TLC: nothing but the kind of replace to choose. *)
EXTENDS CandidateSelector
=============================================================================
