# Verification of BMX: the online updater and the network worker

BMX is a bare-metal Commodore emulator for the Raspberry Pi 4 and 5. The
emulator itself (VICE) and the C library are vendored under `third_party/`; what
BMX adds is device glue in `src/*.cpp` and, by far the largest part, an online
updater in `src/update/` that replaces the very system it runs from, on a FAT
card that may lose power at any moment. The one piece of concurrent code outside
it is the worker behind the emulated serial port, `src/async_network.cpp`. This
directory specifies both in TLA+, from the bytes of a download to the last
rename of a commit, checks the specifications with TLC and proves the central
ones with TLAPS. Paths below are relative to the repository; `src/update/x.cpp` is
`src/src/update/x.cpp` in `PROJECT.json`, where the repository root is `src/`.

## 1. The system

### Components

| component | state | operations | interacts with |
|---|---|---|---|
| journal (`update_journal`) | one record: generation, state, flags, steps, identity | validate, choose between two copies | written by the installer |
| journal files (`update_installer`: `LoadJournal`, `WriteJournalBytes`) | `journal.a`, `journal.b`, `journal.tmp`; `record_`, `slot_` in memory | load, write initial, write transition, retire | file system |
| installer (`update_installer`) | live files, private trees `stage`, `snapshot`, `metadata-old`, markers, content plans | `Stage`, `ArmCandidate`, `MarkCandidateHealthy`, `Commit`, `Rollback`, `RetireRolledBack`, `RetireCommitted` | journal, file system, candidate backend |
| candidate backend (`selector_candidate_backend`) | active and candidate kernel selector, temporary kernel | arm, commit, disarm | called by the installer; read by the firmware |
| file system adapter (`fatfs_update_filesystem`) | the card | rename, create, remove, sync | FatFs |
| orchestrator (`update_orchestrator`), recovery executor | the phase of one call | `Start`, `ResumeAfterBoot`, `RetireCommitted` | everything above, reboot control, watchdog |
| request store (`update_transaction_store`) | request record (active, committed, retiring) and four signed payloads | save, load, discard, retain, deactivate | orchestrator |
| archive and prepared configurations (`fatfs_update_archive`, `fatfs_prepared_config`) | downloaded archive; rewritten configuration files | begin, write, finish, abort, discard | orchestrator, installer |
| candidate health (`candidate_health_adapters`, `candidate_health_probe`, `update_health`) | none of its own | observe, collect evidence, decide | orchestrator; reads selectors, kernel, configuration, journal |
| configuration migration (`config_migration`) | none of its own | detect, classify, transform | menu, authorization, prepared configurations, candidate health |
| storage preflight (`storage_preflight`, `update_install_readiness`) | none of its own | demand before and after the download | service, installer |
| tryboot, reboot, watchdog | one-shot boot flag, deadline | arm, clear, refresh, stop | firmware |
| service, authorization, foreground progress | menu state, one-use consent | check, authorize, install, cancel | user interface |
| discovery and download (HTTPS, GitHub, manifest, signatures) | the one stream, the body decoder | fetch, redirect, decode, verify | network, service |
| ZIP reader | the entries, the bound inventory | open, bind, extract | installer, prepared configurations |
| network manager | the interface | bring-up, scan | network library |
| asynchronous network (`async_network.cpp`) | connection slots, byte queues, one worker task | start, stop, send, receive | emulator and worker concurrently |
| kernel, screen, sound, input, Pi 5 display | devices | - | VICE |

### How an update runs

The menu checks GitHub for a release (or a draft that a signed ticket admits),
shows what the update would do to the configuration and takes the user's
consent, which is sealed into the request. `Start` saves the signed request,
downloads the archive, prepares the configuration files and calls `Stage`:
snapshot what will be replaced, extract the new files into a private tree, then
activate the ordinary files one journaled step at a time. `ArmCandidate` points
the candidate selector at a temporary copy of the new kernel and the board
reboots once into it. The candidate's boot calls `ResumeAfterBoot`, which probes
its health, then `MarkCandidateHealthy` and `Commit` (kernels, metadata,
selector), or `Rollback`. A finished transaction is retired: private files
first, journals last, the request at the very end.

### What is hard about it

* *Power cuts everywhere.* Every operation must be repeatable from whatever the
  card holds. The journal counts steps but is not written with every effect.
* *FAT has no atomic replace.* `FatFsUpdateFileSystem::Rename` unlinks the
  destination and then renames. The journal avoids the problem with two slots;
  the live files cannot.
* *Evidence moves.* What a rollback needs (does the file exist in the old
  installation, with which digest, where is the copy) is spread over two plans,
  per-file records, markers and private trees that are written and removed at
  different times.
* *One step of several fails.* Every call can return an error, after which the
  orchestrator rolls back in the same boot.
* *The root is reused.* The next transaction must not find what the last left.
* *Things are checked twice.* The configuration, the offer, the archive and the
  installed kernel are each looked at in the menu, at the start, while staging
  and by the candidate, with the card and GitHub free to change in between.
* *The request, the archive, the prepared files and the journal have different
  owners* and must be created and removed in an order that leaves none behind.
* *Locks are dropped around blocking calls.* The network worker holds a slot
  across name resolution, connecting and closing, while the emulator's tasks
  stop that connection and start others.

`PROJECT.json` lists these hazards line by line with the property that covers
each.

## 2. Modules

```
UpdateJournal            the record and its rules          (pure operators)
  |-- JournalRegister    what the journal promises: one atomic cell
  |-- JournalSlots       how it is kept: two slots and a temporary file
  |     '-- JournalSlots_proofs      implements JournalRegister (TLAPS)
  '-- UpdateInstaller    the installer, over the register;
        |                implements JournalRegister and InstallerContract
        '-- UpdateInstaller_proofs   (TLAPS)
CandidateSelector        the kernel selectors, file operation by file operation
  '-- InstallerParts_proofs          with StorageBudget (TLAPS)
UpdateRequests           what a request is
  |-- InstallerContract  what the orchestrator may expect of the journal
  |-- RequestStore       the saved request, file by file
  '-- ArchiveStorage     the downloaded archive
CandidateHealth          the verdict on a candidate        (pure operators)
UpdateOrchestrator       composes RequestStore, ArchiveStorage,
                         InstallerContract and CandidateHealth with the boot,
  |                      the watchdog and power
  '-- UpdateOrchestrator_proofs      with RequestStore (TLAPS)
ConfigMigration          configuration formats             (pure operators)
  '-- PreparedConfig     the configuration files an update installs
        '-- PreparedConfig_proofs    (TLAPS)
StorageBudget            space and announced work of an update
  '-- InstallerParts_proofs          with CandidateSelector (TLAPS)
ReleaseOffer             what makes a download an offer    (pure operators)
  '-- UpdateSession      the menu
        '-- UpdateSession_proofs     (TLAPS)
HttpsTransfer            requests, redirects and body decoding
ZipReader                the archive's reader
  '-- ArchiveIntake      composes HttpsTransfer and ZipReader
        '-- ArchiveIntake_proofs     (TLAPS)
AsyncNetwork             connection slots, worker, byte queues
  '-- AsyncNetwork_proofs            (TLAPS)
```

Every module that is checked has a module `MC<name>` with the instance for TLC.

### UpdateJournal

Translates `update_journal.cpp`: `RecordIsValid`, required and allowed flags,
`StateEdgeAllowed`, `ValidateJournalTransition` and `SelectJournalCopy`, and the
records that the handlers of `update_installer.cpp` build from the current one
(`Discovered` ... `Idle`). Abstractions: the transaction id, release sequences,
board, digests and boot generations, which never change within a transaction,
are one value; flags are a set; a file that does not parse (short, bad CRC,
invalid record) is `Torn`. `LastGeneration` stands for `UINT64_MAX`, which the
code refuses as a generation, and `MaximumSteps` for `kMaximumJournalSteps`.

### JournalSlots and JournalRegister

`disk` holds the three files, `record` and `slot` are `record_` and `slot_`,
`pc` is the position in `WriteJournalBytes`. Removing the old temporary file,
creating it, writing and syncing it, unlinking the destination, renaming, and
reading back are one action each. `WriteFails` is a failing call at any of them
(the handler then removes the temporary file), `Stop` a power cut or the end of
the operation; both forget the memory. A created file that is not yet synced is
`Torn`. Retirement removes the temporary file, the older slot, the newer slot.
`Proposals` is the set of records that any handler may write next, so that the
module stands alone without the installer.

`JournalRegister` is the abstract specification: one value that is created as
`MakeIdleJournalRecord(1)`, changes along `ValidateJournalTransition`, and is
removed only when Idle or Committed. `JournalSlots` implements it under the
mapping "the value is what `SelectJournalCopy` would choose now".

### UpdateInstaller

The journal is the register. `live`, `staged`, `snapshot`, `metadata_old` map
each manifest file to its content; `marker` and `folder_marker` are the
`file-existed` and `dir-existed` records; `evidence` is the set of
`snapshot-<index>` records; the two plans record which files existed, with which
content, and for which the digest is known. `pc`, `cursor` and `high_water` are
the memory of the running operation.

Every durable effect is an action or a disjunct of one: a copy to a private
tree, a marker, a plan, an unlink, a rename, a journal record. Guards are the
checks of the handler in the order they are made, with `VerifyFile` as equality
of contents. A check that fails makes the code return an error; in the model the
operation then has no step and can only `Stop`. That makes "an operation never
finds evidence it must refuse" a property (`EvidenceSuffices`) and not an
assumption. `Stop` is possible at every point and is at once the power cut, the
failing call, the refused progress report and the early return.

Contents: `Missing`; `"old"`, whatever the transaction found that differs from
the release; `"new"`, the release's bytes (for a configuration file the bytes
prepared by the migration); `"next"`, the candidate selector naming the
temporary kernel. A file that is `"new"` from the start is one the content plan
marks unchanged. A new transaction relabels the present files freely, except
that a missing file stays missing.

`atomic_replace` is `crash_safe_replace_with_backup` of
`UpdateDurabilityCapabilities`: `DurabilitySupported` accepts either that or
`power_loss_recovery_validated`, the FAT case. Only replacement differs between
the two. It is fixed in the initial state, so that one run can cover both.
FatFs's own rename to a free name is taken to be one step.

The caller is the orchestrator, reduced to the calls it can make: each
operation may be called whenever the request is active and the journal allows
it, so that every order of `Start` and `ResumeAfterBoot` is included, together
with some that the orchestrator never uses. A rollback of a committed
transaction is allowed while its request is active because `Commit` may fail
after its last record has reached the disk.

The candidate backend is used through its contract (`update_installer.h`: every
method is idempotent): arm, commit and disarm each change the candidate
selector in one step. `CandidateSelector` opens these steps. The one step within
them that decides whether a rollback can go on is kept: where replacing is not
atomic, `CommitCandidate` unlinks the active selector (`UnlinkActive`) before it
renames the new one to its place, and `ArmCandidate` and `DisarmCandidate`, which
read the active selector first, have no step as long as it is missing
(`active_selector`).

### CandidateSelector

`selector_candidate_backend.cpp`: the active and the candidate selector, the
temporary kernel and the `.bmx-new` file of `PublishSelector`, which writes,
syncs, renames (on FAT: unlinks, then renames) and syncs the directory.
`ArmCandidate`, `CommitCandidate` and `DisarmCandidate` are sequences of these
steps, with the checks of `ReadAndValidate` as guards; `Stop` is a power cut or a
failing call at any of them. The selector text is the kernel it names. Around
them stand the parts of the installer that matter here: the activation of the
kernel, the restoration of the selectors from their snapshots, and the journal
states that decide which operation a boot repeats. `Boots` says what the
firmware would load. `ReplaceActiveFromCandidate` has no caller and is left out.

### InstallerContract

The orchestrator sees of the journal its state, its owner and the recorded
consent, and each operation of the installer as the steps it may take on them.
It also depends on something that it does not see: whether a rollback, once
asked for, can still be finished. That is the contract's `undo`: `"free"` (every
boot may repeat it until it succeeds), `"once"` (only the running call can
finish it) or `"barred"` (it is, or will be, refused). Arming and committing may
bar it for the time between two file operations (`ArmJournal`, `CommitJournal`),
a rollback without a content plan may have one attempt (`RollbackJournal`), and a
call that ends early keeps what it has barred (`Interrupted`).

`UpdateInstaller` implements this specification under `Projection` and `Undo`,
which computes `undo` from the disk (`ImplementsContract`), and shows that a free
rollback ends (`RollbackCompletes`). `UpdateOrchestrator` uses the contract's
actions for the installer's calls: what is checked of the orchestrator rests on
steps that the installer was shown to take, and its progress on rollbacks that
the installer was shown to finish. `"Anchor"` is the Idle record of generation
one, which `Stage` accepts, `"Idle"` that of a finished rollback, which it refuses.

### RequestStore

`update_transaction_store.cpp`. A request is four payload files with fixed
names and one state record; its name (`request-state`, `committed-state`,
`retiring-state`) says what the request is. `Save`, `Discard`, `Deactivate`,
`RetainCommitted` and `DiscardCommitted` are sequences of file operations, and
`call` is the position in the running one: writing a payload under a temporary
name, the rename to a free name, removing, renaming a record. A payload is the
release it belongs to, and `Loads` requires that record and payloads agree.

### ArchiveStorage

`fatfs_update_archive.cpp`: the part file and the published file of each
request and the state of the object that works on them (`state_`,
`active_paths_`, `failed_finish_may_have_final_`), from which `Abort` decides
what it may remove.

### UpdateOrchestrator

`Start`, `ResumeAfterBoot` and `RetireCommitted` are lists of things to do
(`todo`); a step takes the head of the list, and a step that fails puts in its
place the clean-up that the code performs there (`Recovery`). Power may be cut
between any two effects, up to `MaxFaults` calls fail, the user may cancel
wherever the code reports to the foreground progress. The firmware's one-shot
flag is cleared as it is honoured and may or may not survive a power cut; a
candidate boot arms the watchdog before anything else, and nobody feeds it once
recovery has returned. Recovery loads the request, compares it with the journal
(`JournalBound`, the consent flag included) and chooses its list
(`ResumePlan`). Signatures and digests are what a load or a verification
accepts or not.

### CandidateHealth

The adapters' observations, `LocalCandidateHealthProbe::Collect` and
`EvaluateCandidateHealth`. A finding describes what there is to observe and to
read; the reset the system came from, its watchdog and its journal are
parameters that the orchestrator supplies from its own state. `Findings`
contains a candidate in order and every candidate that differs from it in one
field: the verdict is a conjunction, so that more defects at once change
nothing. The journal counts only at `CandidatePending`; a boot that finds
`CandidateHealthy` or `Committing` is never healthy and rolls back.

### ConfigMigration and PreparedConfig

`ConfigMigration` translates the detectors, the classification, the plan, the
consent's digest and the transformations of `config_migration.cpp`. A file is
the sequence of its lines, and a line is a tuple of what the detectors tell
apart (a schema header, a key, a section, a marker of the managed block, junk).
The copying loops of the transformations are `Keep`, the lines of a file that
are wanted, in order; `FilesAssumption` says that every file is such a sequence
of lines and that the versions a release targets are natural numbers.
`PreparedConfig` is `FatFsPreparedConfigProvider`: the menu's approval, the
assessment bound to the consent, reading the current files, the changes in
memory, the boot files, the verified writing, the second and third look at the
sources, the evidence record, publication, resumption after a reset and
removal, with edits of the card, failing calls and power cuts in between. It
also contains what the candidate will ask of the result
(`ValidateLocalConfiguration`). The items of a directory are removed in one
step, because a power cut within leaves files that no evidence names.

### StorageBudget

Every file is its sizes, every file and directory occupies whole allocation
units. The module computes the demand before the download (from the manifest
and the card) and after it (from the prepared files), as the code does, and
takes the steps of staging, arming, commit and rollback that write or free
space, on a card that has exactly what was asked for, or one unit less, or
more. `work` is the announced and the reported work of staging. `Sum` adds a
quantity over the files of the manifest, as the loops of the preflight do.
`ReleasesAssumption` says that a release is a sequence of files with natural
sizes, `BudgetAssumption` that the other constants are numbers.

`NeverFull` names what may fill the card after all. The first case is a release
with so many directories that the private trees take more than the reserve,
three allocation units for each (`DirectoriesFit` excludes it). Nothing in the
code does: the reserve is 16 MiB (`storage_preflight.h:9`) and a manifest may
have 2048 directories (`release_manifest.h:16`), which with units of 64 KiB fit
only up to 85, with units of 4 KiB up to 1365. The second case is the leftovers
of two power cuts, if they exceed what the directories leave of the reserve. An
earlier form compared the leftovers with the whole reserve, and could not be proved because
it is false: the private directories take their units from the same reserve.
The run's slacks and its reserve are chosen so that this difference shows.

### ReleaseOffer and UpdateSession

`ReleaseOffer` states when a response, a manifest and a signature, which may
come from different releases, are an offer, and what a draft ticket admits.
`UpdateSession` is the menu: checking, the draft test with the device code and
its polling, showing the offer, confirming, re-assessing, retiring the
old backup, authorizing and starting. Between any two steps the card is edited,
GitHub publishes something else, the network goes, time passes, cancel is
pressed or the power fails. The shared parser arrays are a variable
(`inventory`), because two manifests are parsed into them. Signed sequences,
epochs and ABIs keep their order; texts are values.

### HttpsTransfer, ZipReader and ArchiveIntake

The peer may send any token in any segments, redirect anywhere and stop. A head
is the record that its parsing yields; the body decoder is modelled token by
token, with chunk-size digits in base two and a `SizeMax` small enough for the
size to overflow within `LineBytes`. The URL policy decides which hosts and
paths each purpose may ask and where a redirect may lead. The headers of a
request, the bearer token among them, are not modelled: whether it is sent is one
condition on the host of the URL at hand (`https_stream.cpp:178`).

An archive is a sequence of cells instead of bytes: local headers, data,
central entries, the end record. `Open` accepts or refuses it as the code does
(directory at the end, no gap, overlap or repetition, sizes and ratio bounded);
the signed inventory is bound; `ExtractOne` streams an entry, compares the
digest and commits the file. The card may change after the archive was opened.
`ArchiveIntake` puts the two after each other. CRC errors and inflater errors
are a stream that fails; comments, extra fields, flags, UTF-8 names and
case-folding of FAT names are left out.

### AsyncNetwork

`async_network.cpp`: each field of `ConnectionSlot` is a function of the slot,
the queues are sequences, `wpc` and `turn` are the position of the worker task,
`sock`, `amount`, `chunk` and `closing` its local variables. A region under a
slot's or a queue's mutex is one step and so is a call into the network stack;
between two steps anyone may run. Circle's scheduler is cooperative and switches
in fewer places, so the model has every interleaving of the program and more. A
client is a task with one handle: it starts a connection, sends, receives and
stops it, in any order the interface allows; `StopReturn` out of `"wait"` is the
250 ms timeout. The stack (external) may refuse, fail, end the stream or take and
give any number of bytes up to a chunk. A socket is named by the generation it
was opened for and a byte by generation and position, so that mixing up two
connections is visible; generations wrap as `unsigned` does, from
`LastGeneration` to 1, and `GenerationFree` excludes only that all 2^32 are used
up while one handle lives. Error codes and the drop and skip counters are
diagnostics. A use of a handle that is no longer valid would return 0 at once;
`HandlesHold` shows that it does not happen.

## 3. Runs

| run | properties | bounds | states |
|---|---|---|---|
| `journal` | `AlwaysSelectable`, `MemoryFollowsDisk`, `ImplementsRegister` | 2 transactions, generations below 15, 3 steps, non-atomic replace | 107 174 |
| `installer` | `RolledBackExactly`, `CommittedExactly`, `Recoverable`, `EvidenceSuffices`, `BootUntilHealthy` | one file of each of the five policies, one directory, all 486 initial installations | 1 393 304 |
| `installer_live` | `RolledBackButOne`, `EvidenceSuffices`, `RollbackCompletes`, `ImplementsContract` | kernel, configuration and metadata file, one directory, either kind of replace | 172 781 |
| `lost_file` | `RestoredExactly`, violated (section 5) | as `installer`, replace in two steps | - |
| `selector` | `ActiveStable`, `CandidateStands`, `OneSelectorStands` | successive transactions, either kind of replace | 21 848 |
| `network` | `HandlesHold`, `SocketsAccounted`, `StopMeansClosed`, `NothingDropped`, `StreamsExact`, `SlotReleased` | 1 slot, 2 clients, 3 generations, queues of 3, chunks of 2, 4 bytes each way | 588 448 |
| `recovery` | `RecordLoads`, `OneRecord`, `ArtifactsOwned`, `CandidateGuarded`, `CommitsOnlyGuarded`, `Resolved` | 2 requests for 2 releases, 2 payload files, 3 failing calls, any number of power cuts | 179 567 |
| `reset_orphan` | `ArtifactsOwnedWithReset`, violated (section 5) | as `recovery`, the first update resets configuration | - |
| `prepared` | `OneConfiguration`, `UserDataKept`, `StaysAccepted`, `ApprovedIsApplicable` | 6 releases that keep, accept, migrate or reset four areas, 3 cards, 2 edits, 2 faults | 115 870 |
| `session` | `TokenOnlyForOffer`, `CleanupCompletes`, `InventoryIsOffer`, `StartsAsConfirmed` | a release, the same published again, a draft; 3 configurations, 2 edits, clock to 2 | 500 272 |
| `storage` | `NeverFull`, `WorkIsAnnounced` | all releases of 1 or 2 files of any policy and two sizes, 3 shrinking files; a reserve of 8; a card one byte short, exact, 2 or 22 bytes larger; 3 power cuts | 4 276 631 |
| `intake` | `DeliveredExactly`, `ArchiveAccounted`, `ExtractedAsSigned` | 4 requests, 9 heads, 1 redirect, segments of 2 tokens; archives of up to 3 member cells and 2 entries; 1 change of the card | 2 978 699 |

What the properties say, beyond their names:

* `installer`: a rollback that reports success has restored every file, a commit
  every file of the release; whatever has been touched can be put back from what
  is on the card now (`Recoverable`); and an operation that is repeated after
  power cuts always has a next step (`EvidenceSuffices`).
* `installer_live`: the same question where replacing is not atomic, outside the
  windows of section 5; a rollback that the contract calls free is finished by
  some later boot (`RollbackCompletes`), and every change of the journal and of
  `undo` is a step of the contract (`ImplementsContract`).
* `selector`: a trial boot always finds a whole kernel, and the two selectors are
  never lost together.
* `recovery`: a record that boot recovery finds always loads; an active, a
  committed and a retiring request never exist side by side; a journal, an
  archive or a prepared configuration always belongs to a request that will be
  found again (`ArtifactsOwned`); an update becomes committed only in its own
  one-shot boot with the watchdog running; and an active request is resolved
  unless a power cut has barred its rollback (`Refused`).
* `prepared`: what is installed was made from the approved files and nothing
  else, although they were read several times while somebody edits them; keeps
  what the user wrote; and is found in order by the candidate's own, stricter
  assessment (`StaysAccepted`), which decides whether the update is rolled back.
* `session`: an update starts only with the release, consent and configuration
  that were shown, once, within the lifetime of the authorization; the inventory
  used for it is the offered release's although retirement parses another
  manifest into the same arrays; a cancelled clean-up is finished; the access
  token does not outlive its offer.
* `storage`: on a card with just the space that was asked for no write of
  staging, arming, commit or rollback finds it full, as long as `DirectoriesFit`
  and apart from the leftovers of two cuts, and the reported work is the
  announced. The instance's one directory takes six of the reserve's eight bytes,
  so that it fits.
* `intake`: a response reported as delivered is exactly its framed body; an
  opened archive has no hidden, shared or missing part; and what is extracted is
  what was signed, even if the card changes behind the reader.

Why the bounds are enough. In `journal`, fourteen generations let a transaction
run from Idle through every state to Committed, be rolled back and reach Idle,
and a second one follow; a write touches only two slots, so longer histories
repeat the same disk shapes. In `installer`, the policies behave independently
except for the order of their steps, so one file of each exercises every branch
of every loop; the files are listed in an order different from the order of
activation. `LastGeneration` and `MaximumSteps` are above what the instance can
reach, so they do not cut any behaviour off, and transactions follow one another
without a bound because retirement removes the journal. In `network`, a queue of
three and chunks of two make a chunk that fits only partly possible, four bytes
fill a queue and go on, and three generations make two clients follow each other
in one slot and the counter wrap. Slots share nothing but the worker and the
generation counter, and the proofs of section 4 cover any number of them; for
`SlotReleased` a second slot adds one finite visit to every round of the worker.
In `recovery`, the second request shows what the first leaves behind, two
payloads make a half-written set possible, and three failing calls are what it
takes to leave a candidate unguarded (`CandidateGuarded` states that number). In
`prepared`, two edits change a file and change it back, which is what a check
made before and after a read can miss. In `session`, two edits do the same to
the card between the question and the start, and the clock passes every
lifetime. In `storage`, sizes of one byte and of more than four units make
rounding, growth and shrinking visible; in `intake`, archives of three cells and
two entries contain every overlap, gap and repetition of two members, and one
redirect stands for the code's three, each of which repeats the same checks.

Deadlock is checked except in `prepared`, where a refused update ends the
behaviour.

Fairness (`installer_live`). `WF(Step)`: a running operation is ordinary
sequential code and goes on unless stopped. `WF(ResumeRollback)`: every boot
with an active request runs `ResumeAfterBoot`, which calls `Rollback` for a
journal in RollingBack. Power cuts are not fair, and `RollbackCompletes` allows
for them: either they go on for ever or the rollback completes, or it is one
that `Undo` calls barred.

Fairness (`recovery`). `WF(Work)`: the machine takes its next step by itself,
the reboot and the boot's recovery included; the user, power cuts and failing
calls are not fair. `Resolved` excludes behaviours with power cuts for ever. A
refused rollback makes `ResumeAfterBoot` return at each boot with the request
still active (`update_orchestrator.cpp:1632`); `Resolved` names that state
(`Refused`) as its exception.

Fairness (`network`). `WF(Worker)`: the worker's loop never ends, and every
call into the network stack returns, with an error after its own timeout if need
be. The clients are not assumed to do anything, not even to wait for a stop.

Every property has a mutant: an operator beside the definition it replaces,
marked `Mutant:`, that changes the model as a plausible slip in the code would
(a guard one step off, a marker that is never read, the wrong slot), under which
TLC finds the property violated.

## 4. Proofs

`JournalSlots_proofs` proves, for every set of transactions, every bound and
either kind of replace:

* `TypeCorrect`: `Spec => []TypeOK`;
* `SlotsInvariant`: `Spec => []SlotsInv`;
* `JournalAlwaysSelectable`: a boot never finds the journal corrupt or ambiguous;
* `MemoryIsDisk`: the record in memory is the one a boot would find;
* `RegisterImplemented`: the files implement `JournalRegister`.

The last three are not inductive. `SlotsInv` adds what the argument needs:
`SlotsOrdered` (each slot is empty or holds a valid record and their generations
differ), `MemoryExact` (the running operation knows which slot holds the newest),
`WriteExact` (the pending record is a validated successor aimed at the other
slot, and the temporary file holds it from the sync on), `ReadbackExact` and
`RetireExact` (the older slot is gone before the newer goes). With it, unlinking
the destination removes a record that is already outranked, the rename publishes
a record with the next generation, and everything else leaves the selected
record alone, which is the step simulation of the refinement. The assumptions
are `JournalAssumption` and `SlotsAssumption`: the marks for "no record" are not
records, and a transaction has between one and `MaximumSteps` steps.

`InstallerParts_proofs` is about two parts of the installer.

For the selectors it proves, for either kind of replace and from
`SelectorAssumption` alone, `ActiveAlwaysStable`, `CandidateAlwaysStands` and
`OneSelectorAlwaysStands`. They are conjuncts of the invariant `SelectorInv`,
next to what the steps rely on: `ArmExact` (while arming, the temporary kernel
is a verified copy before a selector names it), `CommitExact` and `DisarmExact`
(which selectors have been rewritten at which step, and that the stable kernel is
the new one from the activation on) and `PublishExact` (the new file holds the
wanted text before the rename).

For the space it proves, from `BudgetAssumption` and `ReleasesAssumption`,
`WorkIsAnnouncedAlways` for any release and card, and `NeverFullAlways` for any
release, card, allocation unit and number of power cuts, under the condition that
`NeverFull` states: three units for each directory fit in the reserve
(`DirectoriesFit`), or else the card may be found full. The invariant is
`BudgetInv`:

* `Admitted`: the first preflight that succeeded has admitted the sum of every
  file's share (the most it will ever occupy, in all its copies together) and
  one temporary file as large as the largest copy;
* each file stays within its share in every phase (`FileHeld`, `PrivateFits`),
  so that the copy about to be written always has room (`Room`, `EarlyRoom`,
  `ArmRoom`);
* `RestoreInv`: with at most one cut, a rollback has left at most one part file
  or one unrecorded candidate kernel, and whatever is still to be restored fits
  (`RestoreRoom`).

`WorkInv` says, for each phase of a run without interruption, which prefix of
the announced sum has been reported. Both need facts on sums over a manifest of
any length (a sum of sums, a larger summand, one summand changed), which are the
lemmas `SumAdds`, `SumMonotone` and `SumOne`.

`AsyncNetwork_proofs` proves every safety property of `AsyncNetwork` for any
number of slots, clients and generations and any sizes of queue and chunks, from
`NetworkAssumption`. The argument has two layers.

* `NetworkInv` is about control. `WorkerKnows` states, for each step of the
  worker, what it may rely on although it holds no lock: nobody else changes the
  state or the socket of a slot in use, clients only set the two flags, and a
  slot in use is never started. `SlotsSettled` is the same for slots at rest,
  `HandlesUnreleased` says that the flags of a slot are set only by the holder of
  its handle, `LiveGenerations` and `HandlesDistinct` that a generation names one
  connection, `DrainStable` that what a stop has observed stays true, and
  `SocketsHeld` who holds each open socket.
* `QueueInv` is about bytes. Each queue in use is a run of consecutive bytes of
  its connection, so its content and length follow from the history counts;
  `ChunkExact` carries the free space from the look at it to the store, during
  which clients can only take bytes out. It rests on three lemmas on runs:
  appending the next bytes (`BytesConcat`) and dropping the first (`BytesTail`)
  give runs again, and `BytesRun` gives their length.

`UpdateInstaller_proofs` is about one transaction of any manifest: any number of
files of any policy in any order, any number of directories, either kind of
replace, a cut after any durable effect. From `InstallerAssumption`,
`PlanAssumption` and `EmptyAssumption` (the selector is a template of the
manifest; the marks for "nothing" are not contents, plans or records) it proves
`TypeCorrect`, `RollbackIsExact`, `RollbackLosesOneAtMost`, `CommitIsExact`,
`AlwaysRecoverable`, `OldSystemBoots` and `ContractImplemented`. They follow from
`InstallerInv`, whose argument counts steps: `completed_steps` divides the files
into those whose turn has passed, is now or is to come.

* `StepsInv` says which counts each journal state can carry, `RequestInv` and
  `CallInv` which operation can be where with which record, `RetireInv` what a
  retirement has removed, `FreshInv` that nothing has happened before the plan.
* `PlanInv` and `LoopInv` say that plan, copies and markers are complete before
  the first count that relies on them.
* `FileInv` is the meaning of the count for one file, and is the same going
  forward and back: before its turn the file is as it was; in its turn, with the
  staged file still there, it is as it was or, on FAT, missing; a metadata file
  is as it was or in `metadata-old`. `ForwardInv` adds what is activated,
  `FolderInv` the directories, `RestoreInv` how far a rollback is.

The steps are reduced to a few kinds (`Turn`: the activation of the file whose
turn it is; `Milestone`: a record without a file; `SelectorMoves`; `Restoring`),
each with one lemma on what it keeps. For the refinement, every record a handler
writes is a `JournalWrite` that both `JournalRegister` and `InstallerContract`
allow; everything else leaves the journal alone. That `undo` moves as the
contract allows is shown apart: `ActiveInv` says in which states and at which
steps the active selector can be missing, `SelectorInv` that only arming can
leave the candidate selector at the temporary kernel, and one lemma for each
kind of step says how `Undo` changes. `ContractImplemented` is a statement about
steps, the bar included; that a free rollback ends is `RollbackCompletes`, which
TLC checks.

`UpdateOrchestrator_proofs` proves, for any requests, releases, payload files and
any number of failing calls, `TypeCorrect`, `RecordsAlwaysLoad`,
`OneRecordAlways`, `CandidateAlwaysGuarded`, `OnlyGuardedCommits` and
`ArtifactsAlwaysOwned`. Recovery is a list of steps that a failure rewrites, so
the invariant `OrchestratorInv` speaks of the list: `Exposed(list, X, Y)` says
that a step of X has no step of Y before it, and a step that relies on a fact is
exposed only if the fact holds already (`StartInv`, `EndInv`). `ListInv` says
that the list follows the order of the code (`Rank`) and never mixes the steps of
`Start` with those of recovery. `StoreInv` is the request store, cut between any
two file operations; `CallInv` and `RequestInv` tie its operation to the head of
the list and to one request; `WatchdogInv` counts the failing calls it takes to
lose the watchdog. A step that may not be taken is excluded by `InstallerMay`,
which spells out when the installer's contract has a step, so that the
specification needs no `ENABLED`. Assumptions: `RequestAssumption`,
`StoreAssumption`, `FaultAssumption` and, of the contract, `JournalAssumption`.

`UpdateSession_proofs` proves, for any releases, configurations, tickets and
durations and any number of edits, `StartsOnlyAsConfirmed`,
`TokenStaysWithOffer`, `ArraysHoldOffer` and `CleanupsComplete` from
`SessionAssumption` (durations are numbers, every release and configuration have
an assessment). `SessionInv` adds to them what the menu remembers between the
question and the answer (`Confirmed`, through `OfferInv` and `RequestInv`), which
steps hold a manifest (`ManifestInv`), and that the depth of mandatory operations
is zero everywhere but in a clean-up (`DepthInv`). `StartsAsConfirmed` is an
action property; its proof is the one step that starts, from this invariant.

`PreparedConfig_proofs` proves, for any releases, cards, edits and faults and
from `FilesAssumption`, every property of the `prepared` run.

`AlwaysOneConfiguration`: `ConfigInv` says that from the first verification on
the set in memory, the evidence and the published set match the approved plan
(`MatchesConsent`). It rests on two lemmas: `DigestCovers`, equal digests come
from plans of equal files, and `VerificationBinds`, which needs both comparisons
of `VerifyCurrentEvidence`, the digest's and the one of every template's file,
to be made of one state of the card.

The other three need `BuiltInv` as well: the plan is what the menu has checked
(`Agreed`), and whatever is in memory, in the evidence or published was made by
the code's steps from that plan (`Built`). The rest is about the text
transformations, on files of any length.

* `Keep`: `KeepConcat`, `KeepTwice` and `KeepPlaces` say what is kept of two
  files, by two filters and at which places. Each is proved with the shortest
  prefix that would break it (`LeastNatural`, below).
* `UserDataAlwaysKept`: a header added or replaced leaves every other line where
  it was (`HeaderedLines`, `ReplacedLines`); a rewritten `cmdline.txt` says for
  the other area, and for nobody's keys, what it said before (`RewriteSays`).
* `AlwaysStaysAccepted`: what the candidate's detectors find in the installed
  files is computed transformation by transformation. In the file that two areas
  share, a detector looks only at its own area's tokens (`OwnTokens`), so that
  rewriting one area leaves the reading of the other unchanged.
* `ApprovedAlwaysApplicable`: the same detectors accept the output of each
  transformation (`HeaderedOk`, `ReplacedOk`, `OwnAreaReads`), which is the check
  that would refuse it after the download.

`ArchiveIntake_proofs` proves, for any requests, answers, limits, archives and
manifest, `AlwaysDeliveredExactly`, `ArchiveAlwaysAccounted` and
`AlwaysExtractedAsSigned`.

* `HttpInv` says in `Got` what the decoder knows of the tokens that came. In the
  middle of a body in chunks (`AtChunk`) these are whole chunks, whose data is
  the sink's first part, and then as much of a line, of data and of separators
  as the decoder's state stands for; the size of the line is what is written and
  what remains together. A lemma for each kind of step of `Feed` (`LineToken`,
  `SeparatorToken`, `DataStep`, `LengthStep`, `FinalStep`) shows that the step
  takes at least one token and keeps this; `FeedRestGets` follows the loop over
  a segment. The body's reference, `IsChunked`, cuts what was sent without
  looking at the decoder, and `MoreChunks` and `LastChunk` extend such a cut.
* `ZipInv`: `EntriesTile` shows that the checks of `Open` (each entry's data ends
  where the next begins, the last where the directory begins) let the entries
  cover every cell before the directory exactly once; `TaskInv` and `SinkInv`
  say that a file is committed only with all of the bytes that were hashed.

Loops over data need an induction, and the prover cannot instantiate one. It is
replaced by `LeastNatural`, a set of natural numbers has a least element: the
first iteration that would break the invariant, the first entry that would leave
a gap, the first file at which a sum is wrong, does not exist. `LoopExists` and `ValueExists` show in the
same way that the model's recursive functions satisfy their equations, and `SumExists` and the
`Keep` lemmas those of the other two modules. Assumptions:
`TransferAssumption` (limits and announced lengths are natural numbers) and
`ArchivesAssumption` (so are the fields of an archive's cells, and no path is
within itself).

The inductive invariants TLC can evaluate were checked on the module's run before
they were proved (`BudgetInv` completely for releases of one file and partly for
two). Left out were `PublishedInv`, whose set of archives is too large
to enumerate, and `HttpInv`, which quantifies over all sequences of body tokens:
these two rest on their proofs alone, and the properties they imply are checked by
the `intake` run as well.

Only model-checked are the liveness properties `RollbackCompletes`, `Resolved`
and `SlotReleased`, and `EvidenceSuffices`, which is stated with `ENABLED`: both
are outside the prover. Every other property of a passing run is a theorem.

## 5. Findings

Two statements of the sources are violated by what the code does; each has a
run that shows it.

* `lost_file`: on FAT, a power cut between the unlink and the rename inside
  `ActivateFile` leaves the live file missing and the staged one in place. The
  rollback reads the staged file as "not activated yet" and reports success
  without the file, although its snapshot exists. `RolledBackButOne` shows that
  this is the only way and costs at most that file.
* `reset_orphan`: the journal records the consent to a reset only with
  `Downloaded`, but `JournalBoundToTransaction` expects it from `Discovered` on.
  A power cut between the two records makes boot recovery drop the request and
  keep the journal, and the archive and the journal are then nobody's: no later
  update can start.

Windows that the passing properties name as exceptions, so that everything
outside them is still checked:

* Three windows in which one power cut makes the rollback refused at every later
  boot, although `update_installer.h:182` calls `Rollback` idempotent. The
  request then stays active and no other update can start. They are the barred
  cases of `Undo`, the exceptions of `EvidenceSuffices` and `RollbackCompletes`
  and, as `Refused`, of `Resolved`:
  * `NoPlanLeft`: a rollback that starts before the content plan was written
    records RollingBack, then Idle. Cut between the two it cannot be repeated,
    because only the state Prepared may lack a plan.
  * `ArmedUnrecorded`: the candidate selector is changed before the journal says
    so. A rollback after a cut in this window does not disarm it, and refuses a
    selector that the update had added.
  * `ActiveLost`, on FAT: a commit cut while it replaces the active selector
    leaves none, and `DisarmCandidate` (`selector_candidate_backend.cpp:571`),
    which the rollback calls first, cannot read it. The interrupted commit is not
    repeated by the boot, which rolls back. `OneSelectorStands` shows that the
    candidate selector still boots the new kernel then.

  `CandidateSelector` has the two-step replacement of the candidate selector as
  well; no rollback depends on reading that one.
* `LeftArmed`: a selector that the update had not changed, armed by a call cut
  before its record, is left naming the temporary kernel by the rollback.
* `KeepsOlder`: the menu takes an area whose version the release accepts as
  compatible and leaves it alone, but the candidate's `PlanIsStagedTarget` wants
  every present area at the target version. An update to a release that accepts
  an older version is therefore installed, booted and rolled back. (For a
  missing area, version 0, the two agree, as the comment there asks for.)
* `AddsToArea`: a compatible area of which one template file is missing gets
  that file from the release; its schema may differ from the files that stay,
  and the area is then rejected.
* `LacksBuildInfo`: a release may declare that it accepts version 0 of the update
  state, a card without `BMX-BUILD.json`. The menu then finds the card
  compatible, but the candidate compares the build information with its own and
  refuses. The proof of `StaysAccepted` found this window.
* `ApprovedIsApplicable` assumes that no file to be migrated carries a header:
  an explicit version-1 header lets the menu's check pass and the lossless
  migration fail after the download.

Behaviour that the models show and no property forbids:

* `CommitCandidate` gives the candidate selector the stable name before it
  removes the temporary kernel, and finds that kernel through the selector; an
  interruption in between leaves the kernel on the card.
* A failing read during recovery, or a prepared configuration that cannot be
  read, deactivates the request with the journal in mid-course; a failed
  clean-up of a rolled-back transaction deactivates it all the same where a
  reboot follows. These need a failing call, and `ArtifactsOwned` speaks of
  behaviours without one.
* A power cut between `Begin` of the archive and `Persist` of the request
  leaves a part file without an owner.
* Two or more power cuts during restores each leave a temporary copy, which
  together with an unrecorded candidate kernel can exceed what is left of the
  preflight's reserve: the private directories of the stage and snapshot trees
  are covered by nothing but that reserve and take up to three units each of it.
* A draft install that is refused early keeps the offer and loses the access
  token: the next attempt retires the old backup and then stops for lack of it.
* Bytes after a complete body are refused if they come in the same segment and
  never read if they come in a later one.

No disagreement was found in the network worker.

## 6. Not modelled, and what is left

* *Network manager* (`network_manager.cpp`): bring-up and scanning are calls
  into the network library with logging around them.
* *Kernel, screen, sound, input, file and display glue*: device code between
  Circle and the vendored emulator, half of the repository's own lines; it keeps
  little state and its behaviour is that of the hardware.
* *Parsers and digests at byte level*: JSON, the manifest, the HTTP head,
  SHA-256, signatures and the inflater are their results. The vendored miniz,
  TLS, DNS, TCP, FatFs and the firmware are external.
* *Formatting, messages, the local log*; progress reports appear as calls that
  may fail or cancel.
* `config_schema`'s classifiers, `BuildConfigConsentDigestInput`,
  `ReplaceActiveFromCandidate`, `ValidateContents` and `ExtractAll` have no
  caller in the program.

Left for later: `CandidateSelector` as a refinement of the one-step contract that
`UpdateInstaller` uses, outside the windows of section 5; the release manifest's
parser and the orchestration around the menu's service, of which only the results
appear here.
