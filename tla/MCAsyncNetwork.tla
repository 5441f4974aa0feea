--------------------------- MODULE MCAsyncNetwork ---------------------------
(* A small connection table for TLC. *)
EXTENDS AsyncNetwork
=============================================================================
