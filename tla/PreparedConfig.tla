---------------------------- MODULE PreparedConfig ----------------------------
(***************************************************************************)
(* The configuration files an update will install, prepared from the       *)
(* user's files and the release's signed defaults                          *)
(* (update/fatfs_prepared_config.cpp: FatFsPreparedConfigProvider).        *)
(*                                                                         *)
(* The user approves a plan; PrepareForStage builds every file, writes     *)
(* them below a directory of this update, and publishes an evidence record *)
(* last. The configuration may be edited at any time, a call may fail and  *)
(* power may be cut between any two steps. A later boot takes the set up   *)
(* again with RestoreForResume, or throws it away with Discard.            *)
(***************************************************************************)
EXTENDS ConfigMigration

CONSTANTS
    Releases,   \* [requirements, migrations, templates: path -> signed default, kernels]
    Configs,    \* the configurations the update may start from: path -> content
    Edits,      \* the changes somebody may make: <<path, content>>
    MaxEdits,   \* how many of them
    MaxFaults   \* how many power cuts and failing calls

\* A file is the sequence of its lines, and versions are natural numbers.
IsText(content) == content \in Seq(Range(content))

ASSUME FilesAssumption ==
    /\ \A files \in Configs : \A p \in DOMAIN files : IsText(files[p])
    /\ \A e \in Edits : IsText(e[2])
    /\ \A rel \in Releases :
         /\ \A p \in DOMAIN rel.templates : IsText(rel.templates[p])
         /\ \A a \in Areas : rel.requirements[a].target \in Nat

VARIABLES
    release,    \* the authenticated release, fixed
    disk,       \* the live configuration files
    consent,    \* the plan the user has approved (the consent digest), or NotYet
    pc,         \* the step PrepareForStage is at
    work,       \* the templates it holds in memory: current and prepared contents
    items,      \* the item files of this update's directory
    evidence,   \* the evidence file, or NotYet
    published,  \* the set handed to the installer, or NotYet (active_)
    edits, faults

vars == <<release, disk, consent, pc, work, items, evidence, published, edits, faults>>

NotYet == [none |-> TRUE]
NoWork == [current |-> <<>>, prepared |-> <<>>]

TemplatePaths == {"config.txt", "cmdline.txt", "machines.txt", "machines.ini",
                  "machines.defaults.ini", "active", "candidate", "bmx-machine.txt",
                  "tryboot.txt"}
RequiredTemplates == {"config.txt", "active", "candidate", "tryboot.txt"}
Templates(rel) == DOMAIN rel.templates

TemplateArea(path) ==
    CASE path \in AreaPaths["Machines"] -> "Machines"
      [] path = "config.txt" -> "ConfigManagedBlock"
      [] path = "cmdline.txt" -> "CmdlineManagedKeys"
      [] OTHER -> "Unknown"

Plan(files, rel) == AssessConfigSnapshot(files, rel.requirements, rel.migrations)

-----------------------------------------------------------------------------
(* Whether the plan can be carried out with the release's templates.       *)

\* Mutant: the menu overlooks that two areas rewrite the same file.
RepresentableApart(plan, files, rel) ==
    /\ BlockedAreas(plan) = {}
    /\ Templates(rel) \subseteq TemplatePaths
    /\ RequiredTemplates \subseteq Templates(rel)
    /\ \A a \in Areas : Changed(plan, a) =>
         /\ DOMAIN Snapshot(files, a) # {}
         /\ DOMAIN Snapshot(files, a) \subseteq Templates(rel)

\* CheckPreparedConfigRepresentability, which the menu calls before it offers
\* the update and PrepareForStage calls again.
Representable(plan, files, rel) ==
    /\ BlockedAreas(plan) = {}
    /\ Templates(rel) \subseteq TemplatePaths
    /\ RequiredTemplates \subseteq Templates(rel)
    /\ ~(Changed(plan, "CmdlineManagedKeys") /\ Changed(plan, "Network"))
    /\ \A a \in Areas : Changed(plan, a) =>
         /\ DOMAIN Snapshot(files, a) # {}
         /\ DOMAIN Snapshot(files, a) \subseteq Templates(rel)

-----------------------------------------------------------------------------
(* The content of the prepared files.                                       *)

\* ReadCurrentTemplates: a file keeps its current content if nothing in its
\* area changes, or if it is the user's own; otherwise it starts as the
\* signed default.
Preserved(path, current, plan) ==
    /\ path \in DOMAIN current
    /\ LET area == TemplateArea(path)
       IN  CASE area = "CmdlineManagedKeys" ->
                  ~Changed(plan, "CmdlineManagedKeys") /\ ~Changed(plan, "Network")
             [] area = "Unknown" -> path \in {"machines.txt", "active"}
             [] OTHER -> plan[area].classification = "Compatible"

ReadTemplates(current, plan, rel) ==
    [p \in Templates(rel) |->
       IF Preserved(p, current, plan) THEN current[p] ELSE rel.templates[p]]

MigrationOf(plan, area, rel) ==
    CHOOSE m \in rel.migrations : /\ m.area = area
                                  /\ m.from = plan[area].source_version
                                  /\ m.to = plan[area].target_version

\* ApplyAreaChange: the area is rewritten from the snapshot that was assessed.
ChangeOf(area, plan, rel) ==
    LET source == plan[area].content
        migration == MigrationOf(plan, area, rel)
        defaults == [p \in AreaPaths[area] \cap Templates(rel) |-> rel.templates[p]]
        resets == plan[area].classification = "ResetRequired"
        expected == IF resets THEN DOMAIN defaults ELSE DOMAIN source
    IN  IF /\ DOMAIN source # {}
           /\ DOMAIN source \subseteq Templates(rel)
           /\ expected # {} /\ expected \subseteq Templates(rel)
        THEN ApplyConfigChange(migration, source, defaults, expected, resets)
        ELSE NoChange

\* ApplyRepresentableChanges
ChangesApply(plan, rel) ==
    /\ ~(Changed(plan, "CmdlineManagedKeys") /\ Changed(plan, "Network"))
    /\ \A a \in Areas : Changed(plan, a) => ChangeOf(a, plan, rel).status = "Ok"

ApplyRepresentableChanges(prepared, plan, rel) ==
    [p \in DOMAIN prepared |->
       LET area == {a \in Areas : Changed(plan, a) /\ p \in AreaPaths[a]
                                    /\ p \in DOMAIN ChangeOf(a, plan, rel).files}
       IN  IF area = {} THEN prepared[p]
           ELSE ChangeOf(CHOOSE a \in area : TRUE, plan, rel).files[p]]

\* ValidateSelectorConfigProfile: one fallback kernel and one include of the
\* right selector, in this order inside the managed block, and none elsewhere.
ConfigProfileOk(lines, which) ==
    LET kernels == {i \in Kinds(lines, "key") : lines[i][2] = "kernel"}
        includes == Kinds(lines, "include")
    IN  /\ \A kind \in {"begin", "end"} : Cardinality(Kinds(lines, kind)) = 1
        /\ Cardinality(kernels) = 1 /\ Cardinality(includes) = 1
        /\ lines[First(kernels)][3] = "c64"
        /\ lines[First(includes)][2] = which
        /\ InnerStart(lines) < First(kernels)
        /\ First(kernels) < First(includes)
        /\ First(includes) < InnerEnd(lines)

\* BuildTrybootConfig: the same file with the other selector.
TrybootConfig(lines) ==
    [i \in DOMAIN lines |->
       IF lines[i] = <<"include", "active">> THEN <<"include", "tryboot">>
       ELSE lines[i]]

\* A kernel selector names a machine; RenderTargetSelector writes one.
Selector(machine) == <<<<"kernel", machine>>>>
SelectorOk(content) == Len(content) = 1 /\ content[1][1] = "kernel"
Marker(machine) == <<<<"machine", machine>>>>

\* PrepareBootTemplates, its conditions on the release's defaults ...
SignedBootOk(rel) ==
    /\ RequiredTemplates \subseteq Templates(rel)
    /\ rel.templates["active"] = Selector("c64")
    /\ rel.templates["candidate"] = Selector("c64")
    /\ "c64" \in rel.kernels
    /\ ConfigProfileOk(rel.templates["config.txt"], "active")
    /\ rel.templates["tryboot.txt"] = TrybootConfig(rel.templates["config.txt"])
    /\ "bmx-machine.txt" \in Templates(rel) =>
         rel.templates["bmx-machine.txt"] = Marker("c64")

\* ... on the files of the card ...
CurrentBootOk(current) ==
    /\ {"active", "candidate", "config.txt"} \subseteq DOMAIN current
    /\ SelectorOk(current["active"]) /\ SelectorOk(current["candidate"])
    /\ ConfigProfileOk(current["config.txt"], "active")
    /\ "tryboot.txt" \in DOMAIN current =>
         ConfigProfileOk(current["tryboot.txt"], "tryboot")
    /\ "bmx-machine.txt" \in DOMAIN current =>
         current["bmx-machine.txt"] = Marker(current["active"][1][2])

\* Mutant: the boot files are built from the card's config.txt.
BootFromCurrent(prepared, current) ==
    [p \in DOMAIN prepared |->
       CASE p \in {"active", "config.txt"} -> current[p]
         [] p = "candidate" -> Selector(current["active"][1][2])
         [] p = "tryboot.txt" -> TrybootConfig(current["config.txt"])
         [] p = "bmx-machine.txt" -> Marker(current["active"][1][2])
         [] OTHER -> prepared[p]]

\* ... and what it writes: the active selector stays, the candidate selector
\* names the same machine, tryboot.txt follows the prepared config.txt.
BootTemplates(prepared, current) ==
    LET machine == current["active"][1][2]
    IN  [p \in DOMAIN prepared |->
           CASE p = "active" -> current["active"]
             [] p = "candidate" -> Selector(machine)
             [] p = "tryboot.txt" -> TrybootConfig(prepared["config.txt"])
             [] p = "bmx-machine.txt" -> Marker(machine)
             [] OTHER -> prepared[p]]

BootPrepared(prepared, current, rel) ==
    /\ SignedBootOk(rel) /\ CurrentBootOk(current)
    /\ ConfigProfileOk(prepared["config.txt"], "active")
    /\ current["active"][1][2] \in rel.kernels

-----------------------------------------------------------------------------
(* What the candidate checks of the installed configuration.               *)

\* PlanIsStagedTarget: every area is at the release's version, or missing
\* where the release accepts that; the metadata is replaced only by Commit.
PlanIsStagedTarget(plan) ==
    /\ BlockedAreas(plan) = {}
    /\ \A a \in Areas :
         IF a = "UpdateState" THEN plan[a].source_version # 0
         ELSE /\ plan[a].classification = "Compatible"
              /\ plan[a].source_version \in {0, plan[a].target_version}

\* BuildInfoMatchesActiveSource: BMX-BUILD.json is still the one of the
\* release that the update started from.
BuildInfoMatchesActiveSource(files, plan) ==
    /\ "BMX-BUILD.json" \in DOMAIN files
    /\ files["BMX-BUILD.json"] = plan["UpdateState"].content["BMX-BUILD.json"]

-----------------------------------------------------------------------------
Only(files, paths) == [p \in paths \cap DOMAIN files |-> files[p]]

Init ==
    /\ release \in Releases /\ disk \in Configs
    /\ consent = NotYet /\ pc = "menu" /\ work = NoWork
    /\ items = <<>> /\ evidence = NotYet /\ published = NotYet
    /\ edits = 0 /\ faults = 0

\* The menu shows what the update would do to the configuration; the user
\* approves it, and the digest of exactly this plan is sealed into the request.
Approve ==
    /\ pc = "menu"
    /\ ValidateConfigMigrationDeclarations(release.requirements, release.migrations)
    /\ LET plan == Plan(disk, release)
       IN  /\ PlanDecision(plan) \notin BlockedDecisions
           /\ Representable(plan, disk, release)
           /\ ConsentInputValid(plan)
           /\ consent' = plan
    /\ pc' = "idle"
    /\ UNCHANGED <<release, disk, work, items, evidence, published, edits, faults>>

\* AssessAndBindConfig: the plan of the present files is the approved one.
BoundToConsent(files) ==
    LET plan == Plan(files, release)
    IN  /\ PlanDecision(plan) \notin BlockedDecisions
        /\ ConsentInputValid(plan)
        /\ ConsentDigest(plan) = ConsentDigest(consent)

\* ProductionCandidateConfigurationHealthSource, run by the candidate.
ValidateLocalConfiguration(files) ==
    /\ ValidateConfigMigrationDeclarations(release.requirements, release.migrations)
    /\ PlanIsStagedTarget(Plan(files, release))
    /\ BuildInfoMatchesActiveSource(files, consent)

\* ValidateManifestBinding: every template of the manifest is one that can be
\* prepared.
TemplatesKnown == Templates(release) \subseteq TemplatePaths

\* PrepareForStage, its first snapshot; refused while a set is published.
PrepareForStage ==
    /\ pc = "idle" /\ published = NotYet
    /\ pc' = IF /\ TemplatesKnown
                /\ BoundToConsent(disk) /\ Representable(consent, disk, release)
             THEN "read" ELSE "idle"
    /\ work' = NoWork
    /\ UNCHANGED <<release, disk, consent, items, evidence, published, edits, faults>>

\* ExtractSignedDefaults and ReadCurrentTemplates. Two files that are edited in
\* turn are read as they are now: an edit touches one file, so that reading
\* them one after the other shows nothing that another order of edits does not.
ReadCurrentTemplates ==
    /\ pc = "read"
    /\ LET current == Only(disk, Templates(release))
       IN  work' = [current |-> current,
                    prepared |-> ReadTemplates(current, consent, release)]
    /\ pc' = "change"
    /\ UNCHANGED <<release, disk, consent, items, evidence, published, edits, faults>>

\* ApplyRepresentableChanges, then PrepareBootTemplates, both in memory.
ChangeTemplates ==
    /\ pc = "change"
    /\ LET changed == ApplyRepresentableChanges(work.prepared, consent, release)
       IN  IF ChangesApply(consent, release) /\ BootPrepared(changed, work.current, release)
           THEN /\ work' = [work EXCEPT !.prepared = BootTemplates(changed, work.current)]
                /\ pc' = "clean"
           ELSE work' = NoWork /\ pc' = "idle"
    /\ UNCHANGED <<release, disk, consent, items, evidence, published, edits, faults>>

\* CleanupPreparedPaths: the evidence first, then the items. A removal that
\* fails leaves its file, the others are still tried.
RemoveEvidence(here, next) ==
    /\ pc = here /\ evidence' = NotYet /\ pc' = next
    /\ UNCHANGED <<release, disk, consent, work, items, published, edits, faults>>

RemoveEvidenceFails(here, next) ==
    /\ pc = here /\ evidence # NotYet /\ faults < MaxFaults
    /\ faults' = faults + 1 /\ pc' = next
    /\ UNCHANGED <<release, disk, consent, work, items, evidence, published, edits>>

\* The items go in one step: what a power cut within it leaves no evidence
\* names, and the next cleanup removes. The set is withdrawn if all went well.
RemoveItems(here, next) ==
    /\ pc = here
    /\ \/ items' = <<>> /\ pc' = next /\ UNCHANGED faults
          /\ published' = IF here = "failed items" THEN published ELSE NotYet
       \/ /\ faults < MaxFaults /\ faults' = faults + 1
          /\ \E p \in DOMAIN items : items' = Only(items, {p})
          /\ pc' = "idle" /\ UNCHANGED published
    /\ UNCHANGED <<release, disk, consent, work, evidence, edits>>

\* A removal that failed before the writing makes PrepareForStage give up.
CleanThenWrite ==
    \/ RemoveEvidence("clean", "clean items")
    \/ RemoveEvidenceFails("clean", "failed items")
    \/ RemoveItems("clean items", "write")

\* WriteFreshVerified for the next template: temporary file, rename onto a
\* missing name, read back.
WriteItem ==
    /\ pc = "write" /\ DOMAIN items # Templates(release)
    /\ LET p == CHOOSE q \in Templates(release) : q \notin DOMAIN items
       IN  items' = [q \in DOMAIN items \cup {p} |->
                       IF q = p THEN work.prepared[p] ELSE items[q]]
    /\ UNCHANGED <<release, disk, consent, pc, work, evidence, published, edits, faults>>

\* Mutant: only the plan is compared again.
PlanUnchanged == BoundToConsent(disk)

\* VerifyCurrentEvidence: every template's file is still the one that was read.
SourcesUnchanged ==
    /\ BoundToConsent(disk)
    /\ Only(disk, Templates(release)) = work.current

Verify ==
    /\ pc = "write" /\ DOMAIN items = Templates(release)
    /\ pc' = IF SourcesUnchanged THEN "evidence" ELSE "discard"
    /\ UNCHANGED <<release, disk, consent, work, items, evidence, published, edits, faults>>

WriteEvidence ==
    /\ pc = "evidence"
    /\ evidence' = work
    /\ pc' = "verify"
    /\ UNCHANGED <<release, disk, consent, work, items, published, edits, faults>>

\* The second verification and the publication.
Publish ==
    /\ pc = "verify"
    /\ IF SourcesUnchanged
       THEN published' = work /\ pc' = "idle"
       ELSE UNCHANGED published /\ pc' = "discard"
    /\ work' = NoWork
    /\ UNCHANGED <<release, disk, consent, items, evidence, edits, faults>>

\* Any call of the writing phase may fail; what was written is removed.
PrepareFails ==
    /\ pc \in {"write", "evidence", "verify"} /\ faults < MaxFaults
    /\ faults' = faults + 1 /\ pc' = "discard"
    /\ UNCHANGED <<release, disk, consent, work, items, evidence, published, edits>>

CleanAfterFailure ==
    \/ RemoveEvidence("discard", "discard items")
    \/ RemoveEvidenceFails("discard", "failed items")
    \/ RemoveItems("discard items", "idle")
    \/ RemoveItems("failed items", "idle")

\* ParseEvidence: it is there, it is whole, and it speaks of exactly the
\* manifest's templates.
EvidenceParses ==
    /\ evidence # NotYet
    /\ DOMAIN evidence.prepared = Templates(release)
    /\ DOMAIN evidence.current \subseteq Templates(release)

\* FileMatches: the item has the bytes that the evidence gives it.
FileMatches(path) ==
    path \in DOMAIN items /\ items[path] = evidence.prepared[path]

\* RestoreForResume, after a reset.
RestoreForResume ==
    /\ pc = "idle" /\ published = NotYet /\ TemplatesKnown
    /\ EvidenceParses /\ \A p \in Templates(release) : FileMatches(p)
    /\ published' = evidence
    /\ UNCHANGED <<release, disk, consent, pc, work, items, evidence, edits, faults>>

\* Discard: the set is withdrawn when its files are gone.
Discard ==
    /\ pc = "idle" /\ consent # NotYet
    /\ evidence # NotYet \/ DOMAIN items # {}
    /\ pc' = "discard"
    /\ UNCHANGED <<release, disk, consent, work, items, evidence, published, edits, faults>>

\* Somebody changes a file: on another computer, or in the machine menu.
Edit ==
    /\ edits < MaxEdits /\ edits' = edits + 1
    /\ \E e \in Edits :
         /\ e[1] \in DOMAIN disk
         /\ disk' = [disk EXCEPT ![e[1]] = e[2]]
    /\ UNCHANGED <<release, consent, pc, work, items, evidence, published, faults>>

\* Power is cut: memory is gone, the files stay. What was renamed is whole; a
\* temporary file is removed by the next cleanup.
PowerCut ==
    /\ pc # "menu" /\ faults < MaxFaults /\ faults' = faults + 1
    /\ pc' = "idle" /\ work' = NoWork /\ published' = NotYet
    /\ UNCHANGED <<release, disk, consent, items, evidence, edits>>

Next ==
    \/ Approve \/ PrepareForStage \/ ReadCurrentTemplates \/ ChangeTemplates
    \/ CleanThenWrite \/ WriteItem \/ Verify \/ WriteEvidence \/ Publish
    \/ PrepareFails \/ CleanAfterFailure \/ RestoreForResume \/ Discard
    \/ Edit \/ PowerCut

Spec == Init /\ [][Next]_vars

-----------------------------------------------------------------------------
\* Type invariant.
TypeOK ==
    /\ release \in Releases
    /\ pc \in {"menu", "idle", "read", "change", "clean", "clean items", "write",
               "evidence", "verify", "discard", "discard items", "failed items"}
    /\ consent # NotYet => DOMAIN consent = Areas
    /\ DOMAIN items \subseteq Templates(release)
    /\ \A s \in {evidence, published} \ {NotYet} :
         DOMAIN s.prepared = Templates(release)
    /\ edits \in 0..MaxEdits /\ faults \in 0..MaxFaults

\* A published set comes from one configuration, the approved one: what was
\* read for the templates is what the plan was made of, although the files may
\* have been changed and changed back while PrepareForStage was reading them.
OneConfiguration ==
    published # NotYet =>
      \A a \in Areas : \A p \in AreaPaths[a] \cap Templates(release) :
        /\ p \in DOMAIN published.current <=> p \in DOMAIN consent[a].content
        /\ p \in DOMAIN consent[a].content =>
             published.current[p] = consent[a].content[p]

\* What area a says in the lines of a file, without its schema marker, and what
\* no area owns.
Says(a, lines) ==
    LET Unmarked(part) == Keep(part, {l \in Range(part) : l[1] # "schema"})
    IN  CASE a \in {"CmdlineManagedKeys", "Network"} ->
               Keep(lines, {t \in Range(lines) : /\ KeyBelongsToCmdlineArea(a, t[2])
                                                 /\ t[2] # CmdlineSchemaKey(a)})
          [] a = "ConfigManagedBlock" ->
               Unmarked(SubSeq(lines, InnerStart(lines) + 1, InnerEnd(lines) - 1))
          [] OTHER -> Unmarked(lines)

Unowned(a, lines) ==
    CASE a \in {"CmdlineManagedKeys", "Network"} ->
           Keep(lines, {t \in Range(lines) : t[2] \notin MachineKeys \cup NetworkKeys})
      [] a = "ConfigManagedBlock" ->
           <<SubSeq(lines, 1, InnerStart(lines)), SubSeq(lines, InnerEnd(lines), Len(lines))>>
      [] OTHER -> <<>>

\* The prepared files keep, in order, everything the user wrote in an area that
\* was not approved for a reset, also in a file that two areas share, and
\* everything that no area owns.
UserDataKept ==
    published # NotYet =>
      \A a \in Areas : \A p \in AreaPaths[a] \cap Templates(release)
                                 \cap DOMAIN consent[a].content :
        LET old == consent[a].content[p]
            new == published.prepared[p]
        IN  /\ a \notin ResetAreas(consent) => Says(a, new) = Says(a, old)
            /\ Unowned(a, new) = Unowned(a, old)

\* The files of the card once the set is installed.
Installed(set) ==
    [p \in DOMAIN disk \cup DOMAIN set.prepared |->
       IF p \in DOMAIN set.prepared THEN set.prepared[p] ELSE disk[p]]

\* Does the set create a file of an area whose other files stay as they are?
AddsToArea(set) ==
    \E a \in Areas \ ResetAreas(consent) :
      \E p \in AreaPaths[a] \cap Templates(release) : p \notin DOMAIN set.current

\* Does the release accept a version other than the one it writes?  Such an
\* area is kept as it is, and the candidate does not find it at its target.
KeepsOlder(plan) ==
    \E a \in Areas \ {"UpdateState"} :
       /\ plan[a].classification = "Compatible"
       /\ plan[a].source_version \notin {0, plan[a].target_version}

\* Is there no build information on the card?  A release may accept that as
\* version 0; the candidate compares it with the one of the running release.
LacksBuildInfo(plan) == plan["UpdateState"].source_version = 0

\* The candidate that boots with the set installed finds its configuration in
\* order, so that the update is not rolled back for it: nothing of the set is
\* rejected or would be migrated again.
StaysAccepted ==
    /\ published # NotYet
    /\ ~AddsToArea(published) /\ ~KeepsOlder(consent) /\ ~LacksBuildInfo(consent)
    /\ \A a \in Areas : consent[a].content = Snapshot(disk, a)
    => ValidateLocalConfiguration(Installed(published))

\* What the menu showed can be done: a plan that passed the early check is not
\* refused after the download, if the release's defaults have the versions it
\* declares and no file to be migrated carries a header already.
DefaultsSound(rel) ==
    \A a \in Areas : \A p \in AreaPaths[a] \cap Templates(rel) :
      DetectArea(a, [q \in AreaPaths[a] \cap Templates(rel) |-> rel.templates[q]])
        = Valid(rel.requirements[a].target)

ApprovedIsApplicable ==
    /\ consent # NotYet
    /\ DefaultsSound(release)
    /\ \A a \in {"Machines", "ConfigManagedBlock", "Settings"} : Changed(consent, a) =>
         \A p \in DOMAIN consent[a].content : Headers(consent[a].content[p]) = {}
    => ChangesApply(consent, release)
=============================================================================
