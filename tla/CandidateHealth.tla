-------------------------- MODULE CandidateHealth --------------------------
(***************************************************************************)
(* Whether the system that is running is a candidate to be kept            *)
(* (update/candidate_health_adapters, candidate_health_probe and           *)
(* update_health): what the adapters observe, the evidence the probe makes *)
(* of it together with the card, and the verdict.                          *)
(*                                                                         *)
(* A finding is what there is to observe and to read.  The reset the       *)
(* system came from, its watchdog and the journal belong to the module     *)
(* that uses this one and are parameters.                                  *)
(***************************************************************************)
EXTENDS Naturals

\* A selector file, as ParseKernelSelector understands it: the machine, and
\* whether it names the temporary kernel or the machine's own.
Unreadable == [machine |-> "none", candidate |-> FALSE]
Selector(machine, candidate) == [machine |-> machine, candidate |-> candidate]

\* The updater ABIs that the manifest accepts.
MinimumAbi == 2
MaximumAbi == 3

\* A candidate in order.
Sound ==
    [gates |-> TRUE,        \* the build supports every observation
     readable |-> TRUE,     \* every callback answers
     board |-> TRUE,        \* the board is the manifest's
     abi |-> MinimumAbi,
     binding |-> TRUE,      \* the request and the manifest belong together
     active |-> Selector("c64", FALSE),
     candidate |-> Selector("c64", TRUE),
     templates |-> 1,       \* manifest entries of the candidate selector
     kernels |-> 1,         \* manifest entries of the candidate's kernel
     hash |-> TRUE,         \* the kernel has the size and digest signed for it
     previous |-> TRUE,     \* the active selector's kernel is a file with content
     configuration |-> "Valid",
     filesystem |-> TRUE, menu |-> TRUE, reboot |-> TRUE]

\* Everything one of the fields can be.
Values ==
    [f \in DOMAIN Sound |->
       CASE f = "abi" -> 0 .. MaximumAbi + 1
         [] f \in {"active", "candidate"} ->
              {Unreadable} \cup {Selector(m, c) : m \in {"c64", "vic20"}, c \in BOOLEAN}
         [] f \in {"templates", "kernels"} -> 0 .. 2
         [] f = "configuration" -> {"Valid", "Invalid", "Unavailable"}
         [] OTHER -> BOOLEAN]

\* Candidates with one field of any value: the verdict needs all of them.
Findings ==
    UNION {{[Sound EXCEPT ![f] = v] : v \in Values[f]} : f \in DOMAIN Sound}

-----------------------------------------------------------------------------
(* The adapters. *)

\* ReadCandidateBootExpected: the active selector is not a temporary one, and
\* the candidate's names the temporary kernel or the active kernel itself.
ReadCandidateBootExpected(found) ==
    /\ ~found.active.candidate
    /\ found.active.machine = found.candidate.machine
    /\ found.candidate.candidate \/ found.candidate = found.active

\* ProductionCandidateRuntimeReady: every observation was supplied and its
\* hardware gate is open in this build.
RuntimeReady(found) == found.gates

\* CollectLocalObservations fails as a whole: with any of its callbacks, the
\* one that reads the selectors included.
CollectLocalObservations(found) ==
    /\ RuntimeReady(found) /\ found.readable
    /\ found.active # Unreadable /\ found.candidate # Unreadable

-----------------------------------------------------------------------------
(* The probe. *)

\* ManifestBindingValid: the request and the manifest belong together, and
\* both are in range.
ManifestBindingValid(found) == found.binding

\* ValidateSelectorChain: the signed candidate selector, its kernel in the
\* asset, the active selector, and the kernel that a normal boot falls back on.
ValidateSelectorChain(found) ==
    IF \/ found.templates # 1 \/ found.candidate = Unreadable \/ found.kernels # 1
    THEN "CandidateInvalid"
    ELSE IF \/ found.active = Unreadable \/ found.active.candidate
            \/ found.active.machine # found.candidate.machine
            \/ found.candidate.candidate /\ found.active = found.candidate
            \/ ~found.previous
    THEN "ActiveInvalid" ELSE "Ok"

\* HashInstalledFile: the kernel that the candidate selector names has the
\* size and the digest that were signed.
HashInstalledFile(found) == found.hash

\* CandidateKernelValid: the selector comes from the chain, and is empty if
\* that is broken; exactly one entry of the manifest is for its kernel.
CandidateKernelValid(found) ==
    /\ ValidateSelectorChain(found) = "Ok" /\ found.kernels = 1
    /\ HashInstalledFile(found)

NoEvidence == [available |-> FALSE]

\* Collect.  A request that does not fit the manifest ends it early; a broken
\* selector chain does not, the other evidence is gathered all the same.
Collect(found, tryboot, watchdog, journalValid) ==
    IF ~CollectLocalObservations(found) THEN NoEvidence
    ELSE [available |-> TRUE,
          candidate_boot_expected |-> ReadCandidateBootExpected(found),
          firmware_reports_tryboot |-> tryboot,
          board_matches |-> found.board,
          running_updater_abi |-> found.abi,
          local_manifest_trusted |-> ManifestBindingValid(found),
          candidate_selector_valid |->
             ManifestBindingValid(found) /\ ValidateSelectorChain(found) = "Ok",
          critical_file_hashes_valid |->
             ManifestBindingValid(found) /\ CandidateKernelValid(found),
          configuration_valid |->
             ManifestBindingValid(found) /\ found.configuration = "Valid",
          journal_verified |-> ManifestBindingValid(found) /\ journalValid,
          core_ready |-> found.filesystem /\ found.menu /\ found.reboot,
          hardware_watchdog_ready |-> watchdog]

-----------------------------------------------------------------------------
\* EvaluateCandidateHealth: every piece of evidence is needed; which one is
\* reported first when several are missing is left out.
EvaluateCandidateHealth(e) ==
    /\ e.available
    /\ e.candidate_boot_expected /\ e.firmware_reports_tryboot
    /\ e.board_matches
    /\ e.running_updater_abi \in MinimumAbi .. MaximumAbi
    /\ e.local_manifest_trusted
    /\ e.candidate_selector_valid
    /\ e.critical_file_hashes_valid
    /\ e.configuration_valid
    /\ e.journal_verified
    /\ e.core_ready
    /\ e.hardware_watchdog_ready

=============================================================================
