--------------------------- MODULE MCJournalSlots ---------------------------
(***************************************************************************)
(* JournalSlots for TLC.  Two transactions so that one may follow another  *)
(* on the same root, and few enough steps that LastGeneration lets a       *)
(* transaction run from Idle to Committed, roll back and end in Idle.      *)
(***************************************************************************)
EXTENDS JournalSlots
=============================================================================
