-------------------------- MODULE MCUpdateInstaller --------------------------
(***************************************************************************)
(* UpdateInstaller for TLC: one file of every policy, the candidate        *)
(* selector being the configuration template, and one directory.  Every    *)
(* file may be missing, different from or equal to the release's file when *)
(* a transaction begins, and transactions follow one another for ever.     *)
(***************************************************************************)
EXTENDS UpdateInstaller

MCPolicy == <<"Kernel", "ManagedReplace", "ConfigTemplate", "Preserve",
              "Metadata">>

MCThreePolicies == <<"Kernel", "ConfigTemplate", "Metadata">>

=============================================================================
