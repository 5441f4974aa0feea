--------------------------- MODULE UpdateJournal ---------------------------
(***************************************************************************)
(* The journal record of the online updater and the rules about it         *)
(* (src/update/update_journal.cpp), together with the records that the     *)
(* installer's handlers build from the current one                         *)
(* (src/update/update_installer.cpp).                                      *)
(*                                                                         *)
(* Data is abstracted to what the rules tell apart.  The transaction id    *)
(* and the fields that may never change within a transaction (release      *)
(* sequences, board, digests, boot generations) are one value, the         *)
(* "transaction"; NoTransaction stands for all of them being zero.  Flags  *)
(* are a set instead of a bit mask.  The unused substate byte is left out. *)
(***************************************************************************)
EXTENDS Naturals

CONSTANTS
    Transactions,       \* identities a non-idle record may carry
    NoTransaction,      \* the all-zero identity of an Idle record
    LastGeneration,     \* UINT64_MAX: never the generation of a record
    MaximumSteps,       \* kMaximumJournalSteps
    Missing,            \* a journal file without a directory entry
    Torn                \* a journal file whose bytes do not parse

JournalStates ==
    {"Idle", "Discovered", "Downloaded", "Prepared", "Staged",
     "CandidatePending", "CandidateHealthy", "Committing", "Committed",
     "RollingBack"}

JournalFlags ==
    {"UserApproved", "ResetRequired", "ResetApproved", "DownloadVerified",
     "SnapshotComplete", "StagingComplete", "TrybootArmed",
     "CandidateHealthy", "SelectorCommitted", "RollbackRequested"}

JournalRecords ==
    [generation      : Nat,
     state           : JournalStates,
     flags           : SUBSET JournalFlags,
     completed_steps : Nat,
     total_steps     : Nat,
     transaction     : Transactions \cup {NoTransaction}]

ASSUME JournalAssumption ==
    /\ NoTransaction \notin Transactions
    /\ LastGeneration \in Nat /\ LastGeneration > 2
    /\ MaximumSteps \in Nat
    /\ Missing # Torn
    /\ Missing \notin JournalRecords
    /\ Torn \notin JournalRecords

-----------------------------------------------------------------------------
(* What a well-formed record is. *)

DownloadedFlags == {"UserApproved", "DownloadVerified"}

StagedFlags == DownloadedFlags \cup {"SnapshotComplete", "StagingComplete"}

RequiredFlagsForState(state) ==
    CASE state \in {"Downloaded", "Prepared"} -> DownloadedFlags
      [] state = "Staged" -> StagedFlags
      [] state = "CandidatePending" -> StagedFlags \cup {"TrybootArmed"}
      [] state \in {"CandidateHealthy", "Committing"} ->
            StagedFlags \cup {"TrybootArmed", "CandidateHealthy"}
      [] state = "Committed" ->
            StagedFlags \cup {"TrybootArmed", "CandidateHealthy",
                              "SelectorCommitted"}
      [] state = "RollingBack" -> DownloadedFlags \cup {"RollbackRequested"}
      [] OTHER -> {}

ConsentFlags == {"ResetRequired", "ResetApproved"}

AllowedFlagsForState(state) ==
    CASE state = "Idle" -> {}
      [] state = "Discovered" -> {"ResetRequired"}
      [] state = "Prepared" ->
            RequiredFlagsForState(state) \cup ConsentFlags
                                         \cup {"SnapshotComplete"}
      [] state = "Committing" ->
            RequiredFlagsForState(state) \cup ConsentFlags
                                         \cup {"SelectorCommitted"}
      [] state = "RollingBack" -> JournalFlags
      [] OTHER -> RequiredFlagsForState(state) \cup ConsentFlags

IdleIsBlank(r) ==
    /\ r.flags = {}
    /\ r.transaction = NoTransaction
    /\ r.completed_steps = 0
    /\ r.total_steps = 0

ResetConsentGiven(r) ==
    /\ "ResetApproved" \in r.flags => "ResetRequired" \in r.flags
    /\ ("ResetRequired" \in r.flags /\ r.state # "Discovered")
          => "ResetApproved" \in r.flags

RecordIsValid(r) ==
    /\ r.generation # 0
    /\ r.generation # LastGeneration
    /\ r.completed_steps <= r.total_steps
    /\ r.total_steps <= MaximumSteps
    /\ IF r.state = "Idle"
       THEN IdleIsBlank(r)
       ELSE /\ r.transaction # NoTransaction
            /\ r.total_steps # 0
            /\ RequiredFlagsForState(r.state) \subseteq r.flags
            /\ r.flags \subseteq AllowedFlagsForState(r.state)
            /\ ResetConsentGiven(r)

-----------------------------------------------------------------------------
(* Which record may follow which. *)

ForwardEdges ==
    {<<"Idle", "Discovered">>, <<"Discovered", "Downloaded">>,
     <<"Downloaded", "Prepared">>, <<"Prepared", "Staged">>,
     <<"Staged", "CandidatePending">>,
     <<"CandidatePending", "CandidateHealthy">>,
     <<"CandidateHealthy", "Committing">>, <<"Committing", "Committed">>}

StateEdgeAllowed(current, next) ==
    \/ current = next /\ current # "Idle"
    \/ /\ next = "Idle"
       /\ current \in {"Discovered", "Downloaded", "Committed", "RollingBack"}
    \/ /\ next = "RollingBack"
       /\ current \in {"Prepared", "Staged", "CandidatePending",
                       "CandidateHealthy", "Committing", "Committed"}
    \/ <<current, next>> \in ForwardEdges

ValidateJournalTransition(current, next) ==
    /\ RecordIsValid(current)
    /\ RecordIsValid(next)
    /\ next.generation = current.generation + 1
    /\ StateEdgeAllowed(current.state, next.state)
    /\ \/ current.state = "Idle"
       \/ next.state = "Idle"
       \/ /\ next.transaction = current.transaction
          /\ current.flags \subseteq next.flags
          /\ next.completed_steps >= current.completed_steps
          /\ next.total_steps = current.total_steps

-----------------------------------------------------------------------------
(* Which of the two copies on disk is the journal.  A copy is a record, or *)
(* Missing, or Torn; ParseJournal accepts only valid records.              *)

NotARecord == {Missing, Torn}

CopyIsValid(copy) == copy \notin NotARecord /\ RecordIsValid(copy)

SelectJournalCopy(copy_a, copy_b) ==
    LET outranks(x, y) ==
            /\ CopyIsValid(x)
            /\ CopyIsValid(y) => x.generation > y.generation
    IN
    IF copy_a = Missing /\ copy_b = Missing THEN "NoJournal"
    ELSE IF ~CopyIsValid(copy_a) /\ ~CopyIsValid(copy_b) THEN "NoValidCopy"
    ELSE IF outranks(copy_a, copy_b) \/ copy_a = copy_b THEN "A"
    ELSE IF outranks(copy_b, copy_a) THEN "B"
    ELSE "AmbiguousSameGeneration"

-----------------------------------------------------------------------------
(* The records the installer writes, each built from the current one. *)

MakeIdleJournalRecord(generation) ==
    [generation |-> generation, state |-> "Idle", flags |-> {},
     completed_steps |-> 0, total_steps |-> 0, transaction |-> NoTransaction]

Discovered(r, transaction, reset, total) ==
    [generation |-> r.generation + 1, state |-> "Discovered",
     flags |-> IF reset THEN {"ResetRequired"} ELSE {},
     completed_steps |-> 0, total_steps |-> total,
     transaction |-> transaction]

\* The current record with its generation advanced, moved to another state,
\* with more flags and more completed steps: every other write is of this form.
Moved(r, state, flags, steps) ==
    [generation |-> r.generation + 1, state |-> state,
     flags |-> r.flags \cup flags,
     completed_steps |-> r.completed_steps + steps,
     total_steps |-> r.total_steps, transaction |-> r.transaction]

Downloaded(r) ==
    Moved(r, "Downloaded",
          DownloadedFlags \cup
             (IF "ResetRequired" \in r.flags THEN {"ResetApproved"} ELSE {}), 0)

Prepared(r)       == Moved(r, "Prepared", {}, 0)
Advanced(r, steps) == Moved(r, r.state, {}, steps)
Staged(r)         == Moved(r, "Staged",
                           {"SnapshotComplete", "StagingComplete"}, 0)
Pending(r)        == Moved(r, "CandidatePending", {"TrybootArmed"}, 1)
Healthy(r)        == Moved(r, "CandidateHealthy", {"CandidateHealthy"}, 1)
Committing(r)     == Moved(r, "Committing", {}, 0)
SelectorDone(r)   == Moved(r, "Committing", {"SelectorCommitted"}, 1)
Committed(r)      == Moved(r, "Committed", {}, 0)
RollingBack(r)    == Moved(r, "RollingBack", {"RollbackRequested"}, 0)
Idle(r)           == MakeIdleJournalRecord(r.generation + 1)

=============================================================================
