--------------------------- MODULE ConfigMigration ---------------------------
(***************************************************************************)
(* Which configuration formats a release accepts, and the rewriting of the *)
(* ones it does not (update/config_migration.cpp).                         *)
(*                                                                         *)
(* A file is the sequence of its lines (of its tokens, for cmdline.txt).   *)
(* A line is a tuple whose first component is what the detectors tell      *)
(* apart:                                                                  *)
(*   <<"schema", v>>        "# BMX-SCHEMA ...=v"; v = 0 is malformed       *)
(*   <<"format", v>>        "format=v" of a machines file                  *)
(*   <<"section", kind>>    "[kind name]" of a machines file               *)
(*   <<"key", k, v>>        "k=v"                                          *)
(*   <<"begin">>, <<"end">> the markers of the managed block of config.txt *)
(*   <<"include", which>>   "include bmx-<which>-kernel.txt"               *)
(*   <<"comment">>          a comment or an empty line                     *)
(*   <<"junk">>             a line that no rule knows                      *)
(*   <<"token", key, v>>    a token of cmdline.txt                         *)
(*   <<"build", v>>         BMX-BUILD.json; v = 0 does not parse           *)
(*   <<"journal", g, body>> a journal copy; g = 0 does not parse           *)
(* A set of files is a function from paths to contents.                    *)
(***************************************************************************)
EXTENDS Integers, Sequences, SequencesExt, FiniteSets

Areas == {"Machines", "ConfigManagedBlock", "CmdlineManagedKeys", "Network",
          "Settings", "UpdateState"}

\* The names the model gives to settings*.txt.
SettingsPaths == {"settings.txt", "settings-c64.txt"}

AreaPaths == [Machines |-> {"machines.ini", "machines.defaults.ini",
                            "machines.local.ini"},
              ConfigManagedBlock |-> {"config.txt"},
              CmdlineManagedKeys |-> {"cmdline.txt"},
              Network |-> {"cmdline.txt"},
              Settings |-> SettingsPaths,
              UpdateState |-> {"BMX-BUILD.json", "journal.a", "journal.b"}]

\* FatFsConfigSnapshot::Load: an area holds the files of its paths that exist.
Snapshot(files, area) ==
    [p \in AreaPaths[area] \cap DOMAIN files |-> files[p]]

-----------------------------------------------------------------------------
(* Detection: [detail, version] with detail Valid, Missing or Rejected (the *)
(* code's UnknownFormat, Corrupt and LimitExceeded, which all block).       *)

Valid(v) == [detail |-> "Valid", version |-> v]
Missing == [detail |-> "Missing", version |-> 0]
Rejected == [detail |-> "Rejected", version |-> 0]

Kinds(lines, kind) == {i \in DOMAIN lines : lines[i][1] = kind}
Headers(lines) == Kinds(lines, "schema")
First(indices) == CHOOSE i \in indices : \A j \in indices : i <= j

\* No malformed header, no second one.
HeaderOk(lines) ==
    Cardinality(Headers(lines)) <= 1 /\ \A i \in Headers(lines) : lines[i][2] > 0

HeaderVersion(lines, otherwise) ==
    IF Headers(lines) = {} THEN otherwise ELSE lines[First(Headers(lines))][2]

\* A machines file: format= once and before every section, no other key before
\* the first section, only known sections, one video and one machine at least.
MachinesFileOk(lines) ==
    LET sections == Kinds(lines, "section")
        early == {i \in DOMAIN lines : \A s \in sections : i < s}
        formats == Kinds(lines, "format") \cap early
    IN  /\ HeaderOk(lines)
        /\ Kinds(lines, "junk") = {}
        /\ Kinds(lines, "key") \cap early = {}
        /\ Cardinality(formats) = 1
        /\ lines[First(formats)][2] > 0
        /\ \A i \in sections : lines[i][2] \in {"video", "scaling", "machine"}
        /\ \A k \in {"video", "machine"} : \E i \in sections : lines[i][2] = k
        /\ Headers(lines) # {} =>
             lines[First(formats)][2] \in {1, lines[First(Headers(lines))][2]}

MachinesFileVersion(lines) ==
    HeaderVersion(lines, lines[First(Kinds(lines, "format"))][2])

SameVersion(files, Version(_)) ==
    \A p, q \in DOMAIN files : Version(files[p]) = Version(files[q])

DetectMachines(files) ==
    IF DOMAIN files = {} THEN Missing
    ELSE IF /\ \A p \in DOMAIN files : MachinesFileOk(files[p])
            /\ SameVersion(files, MachinesFileVersion)
            /\ "machines.ini" \in DOMAIN files
         THEN Valid(MachinesFileVersion(files["machines.ini"]))
         ELSE Rejected

\* config.txt: one managed block, its header and its known keys inside of it,
\* no key twice, at least one.
ConfigBlockOk(lines) ==
    LET begins == Kinds(lines, "begin")
        ends == Kinds(lines, "end")
        inside == {i \in DOMAIN lines : i > First(begins) /\ i < First(ends)}
        keys == Kinds(lines, "key") \cap inside
    IN  /\ Cardinality(begins) = 1 /\ Cardinality(ends) = 1
        /\ First(begins) < First(ends)
        /\ HeaderOk(lines) /\ Headers(lines) \subseteq inside
        /\ keys # {}
        /\ \A i, j \in keys : lines[i][2] = lines[j][2] => i = j
        /\ inside \cap Kinds(lines, "junk") = {}
        /\ Cardinality(Kinds(lines, "include") \cap inside) <= 1
        /\ \A i \in Kinds(lines, "include") \cap inside : lines[i][2] = "active"

DetectConfigBlock(files) ==
    IF DOMAIN files = {} THEN Missing
    ELSE IF ConfigBlockOk(files["config.txt"])
         THEN Valid(HeaderVersion(files["config.txt"], 1))
         ELSE Rejected

\* The keys of the two areas that share cmdline.txt, and their schema markers.
MachineKeys == {"machine_timing", "audio_out", "schema_cmdline"}
NetworkKeys == {"network", "network_ip", "schema_network"}
KeyBelongsToCmdlineArea(area, key) ==
    key \in (IF area = "CmdlineManagedKeys" THEN MachineKeys ELSE NetworkKeys)
CmdlineSchemaKey(area) ==
    IF area = "CmdlineManagedKeys" THEN "schema_cmdline" ELSE "schema_network"

\* A token without a value has the value 0. Tokens of other owners may repeat.
ParseCmdline(files, area) ==
    IF DOMAIN files = {} THEN Missing
    ELSE LET tokens == files["cmdline.txt"]
             owned == {i \in DOMAIN tokens :
                         KeyBelongsToCmdlineArea(area, tokens[i][2])}
             markers == {i \in owned : tokens[i][2] = CmdlineSchemaKey(area)}
         IN  IF /\ Kinds(tokens, "junk") = {}
                /\ \A i \in owned : tokens[i][3] # 0
                /\ \A i, j \in owned : tokens[i][2] = tokens[j][2] => i = j
             THEN Valid(IF markers = {} THEN 1 ELSE tokens[First(markers)][3])
             ELSE Rejected

DetectSettings(files) ==
    LET Version(lines) == HeaderVersion(lines, 1)
        Ok(lines) == /\ HeaderOk(lines) /\ Kinds(lines, "junk") = {}
                     /\ \A i, j \in Kinds(lines, "key") :
                          lines[i][2] = lines[j][2] => i = j
    IN  IF DOMAIN files = {} THEN Missing
        ELSE IF /\ \A p \in DOMAIN files : Ok(files[p])
                /\ SameVersion(files, Version)
             THEN Valid(Version(files[CHOOSE p \in DOMAIN files : TRUE]))
             ELSE Rejected

\* BMX-BUILD.json names the version; the journal copies, if there are any, must
\* select a record (SelectJournalCopy).
DetectUpdateState(files) ==
    LET copies == DOMAIN files \cap {"journal.a", "journal.b"}
        parsed == {p \in copies : files[p][1][2] > 0}
    IN  IF DOMAIN files = {} THEN Missing
        ELSE IF "BMX-BUILD.json" \notin DOMAIN files THEN Rejected
        ELSE IF /\ files["BMX-BUILD.json"][1][2] > 0
                /\ copies # {} => parsed # {}
                /\ \A p, q \in parsed :
                     files[p][1][2] = files[q][1][2] => files[p] = files[q]
             THEN Valid(files["BMX-BUILD.json"][1][2])
             ELSE Rejected

DetectArea(area, files) ==
    CASE area = "Machines" -> DetectMachines(files)
      [] area = "ConfigManagedBlock" -> DetectConfigBlock(files)
      [] area \in {"CmdlineManagedKeys", "Network"} -> ParseCmdline(files, area)
      [] area = "Settings" -> DetectSettings(files)
      [] area = "UpdateState" -> DetectUpdateState(files)

-----------------------------------------------------------------------------
(* What a release declares: for every area the version it writes and the   *)
(* ones it accepts, and the migrations it names.                           *)

Transforms(area, lossy) ==
    CASE area \in {"Machines", "Settings"} -> IF lossy THEN "ResetDefaults" ELSE "TextHeader"
      [] area = "UpdateState" -> "ResetDefaults"
      [] area = "ConfigManagedBlock" ->
           IF lossy THEN "ResetConfigBlock" ELSE "ConfigBlockHeader"
      [] OTHER -> IF lossy THEN "ResetCmdlineKeys" ELSE "CmdlineMarker"

\* kCompiledMigrations. The code finds one by its identifier; the identifier
\* is the area and whether it resets.
CompiledMigrations ==
    {[area |-> a, from |-> 1, to |-> 2, lossy |-> l, transform |-> Transforms(a, l)] :
       a \in Areas, l \in BOOLEAN}
      \ {[area |-> "UpdateState", from |-> 1, to |-> 2, lossy |-> FALSE,
          transform |-> "ResetDefaults"]}

RequirementIsValid(requirement) ==
    requirement.target > 0 /\ requirement.target \in requirement.accepted

\* A declared migration is a compiled one, leads to the target and starts at a
\* version that is not accepted; two of them never share their tuple.
ValidateConfigMigrationDeclarations(requirements, migrations) ==
    /\ \A a \in Areas : RequirementIsValid(requirements[a])
    /\ migrations \subseteq CompiledMigrations
    /\ \A m, n \in migrations :
         m.area = n.area /\ m.from = n.from /\ m.to = n.to => m = n
    /\ \A m \in migrations : /\ m.to = requirements[m.area].target
                             /\ m.from \notin requirements[m.area].accepted

Classify(area, detected, requirements, migrations) ==
    LET found == {m \in migrations : /\ m.area = area
                                     /\ m.from = detected.version
                                     /\ m.to = requirements[area].target}
    IN  IF detected.detail = "Rejected" THEN "UnknownOrCorrupt"
        ELSE IF detected.version > requirements[area].target THEN "NewerThanTarget"
        ELSE IF detected.version \in requirements[area].accepted THEN "Compatible"
        ELSE IF found = {} THEN "UnknownOrCorrupt"
        ELSE IF \E m \in found : m.lossy THEN "ResetRequired" ELSE "LosslessMigration"

\* HashAreaSnapshot: the digest of an area stands for the files it was made of,
\* in whatever order they were found.
AreaDigest(files, area) == Snapshot(files, area)

\* The plan: for every area its classification, its versions and its digest.
AssessConfigSnapshot(files, requirements, migrations) ==
    [a \in Areas |->
       LET detected == DetectArea(a, Snapshot(files, a))
       IN  [classification |-> Classify(a, detected, requirements, migrations),
            source_version |-> detected.version,
            target_version |-> requirements[a].target,
            content |-> AreaDigest(files, a)]]

Changed(plan, area) ==
    plan[area].classification \in {"LosslessMigration", "ResetRequired"}
ResetAreas(plan) == {a \in Areas : plan[a].classification = "ResetRequired"}
BlockedAreas(plan) ==
    {a \in Areas : ~Changed(plan, a) /\ plan[a].classification # "Compatible"}

\* RecomputePlanDecision: the worst classification decides.
PlanDecision(plan) ==
    LET is(c) == \E a \in Areas : plan[a].classification = c
    IN  IF is("NewerThanTarget") THEN "BlockedNewerThanTarget"
        ELSE IF is("UnknownOrCorrupt") THEN "BlockedUnknownOrCorrupt"
        ELSE IF is("ResetRequired") THEN "ResetConfirmationRequired"
        ELSE IF is("LosslessMigration") THEN "LosslessMigration"
        ELSE "Compatible"

BlockedDecisions == {"BlockedNewerThanTarget", "BlockedUnknownOrCorrupt"}

\* ValidateAndSort: what the user can be asked to agree to.  Only an area that
\* is kept as it is may have no version.
ConsentInputValid(plan) ==
    /\ BlockedAreas(plan) = {}
    /\ \A a \in Areas : plan[a].source_version = 0 =>
          plan[a].classification = "Compatible"

\* SerializeConsentDigestInput: what the digest of the consent covers.
ConsentDigest(plan) ==
    {<<a, plan[a].classification, plan[a].source_version,
       plan[a].target_version, plan[a].content>> : a \in Areas}

-----------------------------------------------------------------------------
(* The transforms.                                                          *)

PrefixTextSchema(lines, version) == <<<<"schema", version>>>> \o lines

\* The positions between the markers of the managed block.
InnerStart(lines) == First(Kinds(lines, "begin"))
InnerEnd(lines) == First(Kinds(lines, "end"))

AddConfigBlockHeader(lines, version) ==
    SubSeq(lines, 1, InnerStart(lines)) \o <<<<"schema", version>>>>
      \o SubSeq(lines, InnerStart(lines) + 1, Len(lines))

ReplaceConfigBlock(lines, defaults) ==
    SubSeq(lines, 1, InnerStart(lines))
      \o SubSeq(defaults, InnerStart(defaults) + 1, InnerEnd(defaults) - 1)
      \o SubSeq(lines, InnerEnd(lines), Len(lines))

\* The lines that are among the wanted ones, in their order.
Keep(lines, wanted) ==
    LET kept[n \in 0..Len(lines)] ==
          IF n = 0 THEN <<>>
          ELSE IF lines[n] \in wanted THEN kept[n - 1] \o <<lines[n]>>
          ELSE kept[n - 1]
    IN  kept[Len(lines)]

\* Mutant: a reset removes the keys of both areas of the shared file.
RewriteBothAreas(tokens, defaults, area, version, markerOnly) ==
    LET Owned(t) == KeyBelongsToCmdlineArea(area, t[2])
        Marker(t) == t[2] = CmdlineSchemaKey(area)
        kept == {t \in Range(tokens) :
                   ~Marker(t) /\ (markerOnly \/ t[2] \notin MachineKeys \cup NetworkKeys)}
        added == {t \in Range(defaults) : ~markerOnly /\ Owned(t) /\ ~Marker(t)}
    IN  Keep(tokens, kept) \o Keep(defaults, added)
          \o <<<<"token", CmdlineSchemaKey(area), version>>>>

\* The source without the area's marker (and, when it is reset, without the
\* area's keys), then the defaults' keys of the area, then the new marker.
RewriteCmdlineArea(tokens, defaults, area, version, markerOnly) ==
    LET Owned(t) == KeyBelongsToCmdlineArea(area, t[2])
        Marker(t) == t[2] = CmdlineSchemaKey(area)
        kept == {t \in Range(tokens) : ~Marker(t) /\ (markerOnly \/ ~Owned(t))}
        added == {t \in Range(defaults) : ~markerOnly /\ Owned(t) /\ ~Marker(t)}
    IN  Keep(tokens, kept) \o Keep(defaults, added)
          \o <<<<"token", CmdlineSchemaKey(area), version>>>>

Transformed(migration, source, defaults) ==
    LET v == migration.to
    IN  CASE migration.transform = "TextHeader" ->
               [p \in DOMAIN source |-> PrefixTextSchema(source[p], v)]
          [] migration.transform = "ConfigBlockHeader" ->
               [p \in DOMAIN source |-> AddConfigBlockHeader(source[p], v)]
          [] migration.transform = "CmdlineMarker" ->
               [p \in DOMAIN source |->
                  RewriteCmdlineArea(source[p], <<>>, migration.area, v, TRUE)]
          [] migration.transform = "ResetDefaults" -> defaults
          [] migration.transform = "ResetConfigBlock" ->
               [p \in DOMAIN source |-> ReplaceConfigBlock(source[p], defaults[p])]
          [] migration.transform = "ResetCmdlineKeys" ->
               [p \in DOMAIN source |->
                  RewriteCmdlineArea(source[p], defaults[p], migration.area, v, FALSE)]

NoChange == [status |-> "Refused", files |-> <<>>]

\* ApplyConfigChange. Consent is given exactly for a migration that resets; the
\* output paths are those of the source, of the defaults for a whole reset.
\* Buffers that are too small or shared are programming errors of the caller.
ApplyConfigChange(migration, source, defaults, outputs, consent) ==
    LET detected == DetectArea(migration.area, source)
        expected == IF migration.transform = "ResetDefaults"
                    THEN DOMAIN defaults ELSE DOMAIN source
        result == Transformed(migration, source, defaults)
    IN  IF /\ migration \in CompiledMigrations
           /\ detected = Valid(migration.from)
           /\ consent = migration.lossy
           /\ migration.lossy =>
                DetectArea(migration.area, defaults) = Valid(migration.to)
           /\ outputs = expected
           /\ DetectArea(migration.area, result) = Valid(migration.to)
        THEN [status |-> "Ok", files |-> result]
        ELSE NoChange
=============================================================================
