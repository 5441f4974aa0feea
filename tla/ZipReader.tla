----------------------------- MODULE ZipReader -----------------------------
(***************************************************************************)
(* The reader of the release's archive (src/update/zip_reader) as its two  *)
(* clients use it: the installer binds the signed inventory and extracts   *)
(* file by file, the configuration templates are extracted without.        *)
(*                                                                         *)
(* An archive is a sequence of cells: a local header, a cell of data, an   *)
(* entry of the central directory, the end record.  Offsets count cells    *)
(* from zero, as the code's count bytes.  A digest is the content itself.  *)
(***************************************************************************)
EXTENDS Integers, Sequences, SequencesExt, FiniteSetsExt

CONSTANTS
    Archives,           \* archives that may have been published
    Manifest,           \* [path -> [method, content]] of the signed files
    ManifestDirectories,\* the signed directories
    Within,             \* pairs of paths, the second below the first
    MaximumRatio,       \* maximum_compression_ratio
    MaxDamage           \* bound on changes of the card behind the reader's back

\* Every cell of every archive.
Cells == UNION {{a[i] : i \in DOMAIN a} : a \in Archives}

\* The fields of the records are unsigned; no path is below itself.
ASSUME ArchivesAssumption ==
    /\ Archives \subseteq Seq(Cells)
    /\ \A cell \in Cells :
         /\ cell.kind = "central" => cell.offset \in Nat /\ cell.csize \in Nat
         /\ cell.kind = "end" => cell.offset \in Nat /\ cell.size \in Nat /\ cell.count \in Nat
    /\ \A pair \in Within : pair[1] # pair[2]

VARIABLES
    archive,        \* the archive file on the card, as cells; empty if there is none
    entries,        \* entries_, in the order of the central directory
    open,           \* open_ with the size and the place of the central directory
    validated,      \* validated_inventory_binding_, or Unbound
    task,           \* StreamFile in progress
    extracted,      \* files committed by the sink
    damage          \* changes of the card so far

zipVars == <<archive, entries, open, validated, task, extracted, damage>>

Unbound == <<>>
NotOpen == [is |-> FALSE, size |-> 0, central |-> 0]
NoTask == [entry |-> 0, extracts |-> FALSE, produced |-> <<>>, next |-> 0]

ZipInit ==
    /\ archive = <<>> /\ entries = <<>> /\ open = NotOpen /\ validated = Unbound
    /\ task = NoTask /\ extracted = <<>> /\ damage = 0

-----------------------------------------------------------------------------
(* Open *)

Kind(a, offset) == a[offset + 1].kind

EndOffsets(a) == {o \in 0..(Len(a) - 1) : Kind(a, o) = "end"}

\* FindLastSignature
EndRecord(a) == a[Max(EndOffsets(a)) + 1]

MaximumFile == Max({1} \cup {Len(Manifest[p].content) : p \in DOMAIN Manifest})
\* installed_size of the manifest.
ExpectedSize == MapThenSumSet(LAMBDA p : Len(Manifest[p].content), DOMAIN Manifest)
MaximumInstalled == Max({1, ExpectedSize})
MaximumEntries == Cardinality(DOMAIN Manifest) + Cardinality(ManifestDirectories)

\* The end record is the last cell; its directory ends where it begins.
EndAccepted(a) ==
    /\ EndOffsets(a) # {}
    /\ Max(EndOffsets(a)) = Len(a) - 1
    /\ EndRecord(a).count \in 1..MaximumEntries
    /\ EndRecord(a).offset + EndRecord(a).size = Len(a) - 1

Central(a) == SubSeq(a, EndRecord(a).offset + 1, EndRecord(a).offset + EndRecord(a).size)

\* What an entry of the central directory says of itself.
EntryAccepted(e) ==
    /\ e.kind = "central"
    /\ IF e.dir THEN e.method = "Store" /\ e.csize = 0 /\ e.size = 0
       ELSE /\ e.size <= MaximumFile
            /\ e.size # 0 => e.csize # 0
            /\ e.size <= MaximumRatio * Max({1, e.csize})

\* No path twice, and no file where another entry has a directory.
PathsAccepted(c) ==
    \A i, j \in DOMAIN c : i # j => /\ c[i].path # c[j].path
                                    /\ ~c[i].dir => <<c[i].path, c[j].path>> \notin Within

\* The cells of an entry: its local header and its data.
EntryEnd(e) == e.offset + 1 + e.csize

\* A mutated form: the entries only have to lie in order before the central directory.
OffsetsOrdered(c, central) ==
    /\ \A i \in DOMAIN c : i # 1 => c[i].offset >= EntryEnd(c[i - 1])
    /\ EntryEnd(Last(c)) <= central

\* The local headers follow each other from the start to the central directory.
OffsetsAccepted(c, central) ==
    /\ \A i \in DOMAIN c : c[i].offset = IF i = 1 THEN 0 ELSE EntryEnd(c[i - 1])
    /\ EntryEnd(Last(c)) = central

\* Every local header repeats its entry.
LocalMatches(a, e) ==
    /\ e.offset < Len(a) /\ Kind(a, e.offset) = "local"
    /\ LET l == a[e.offset + 1]
       IN l.path = e.path /\ l.dir = e.dir /\ l.method = e.method
          /\ l.size = e.size /\ l.csize = e.csize

InstalledSize(c) ==
    MapThenSumSet(LAMBDA i : IF c[i].dir THEN 0 ELSE c[i].size, DOMAIN c)

Accepted(a) ==
    /\ EndAccepted(a)
    /\ LET c == Central(a)
       IN /\ Len(c) = EndRecord(a).count
          /\ \A i \in DOMAIN c : EntryAccepted(c[i])
          /\ PathsAccepted(c)
          /\ OffsetsAccepted(c, EndRecord(a).offset)
          /\ \A i \in DOMAIN c : LocalMatches(a, c[i])
          /\ InstalledSize(c) <= MaximumInstalled

Open ==
    /\ archive # <<>> /\ ~open.is /\ Accepted(archive)
    /\ open' = [is |-> TRUE, size |-> Len(archive), central |-> EndRecord(archive).offset]
    /\ entries' = Central(archive)
    /\ validated' = Unbound
    /\ UNCHANGED <<archive, task, extracted, damage>>

-----------------------------------------------------------------------------
(* The signed inventory *)

\* What the clients expect of the archive: the files and the directories of the
\* manifest (PrepareExpectedInventory, PrepareArchive).
ExpectedInventory ==
    [files |-> [p \in DOMAIN Manifest |->
                  [size |-> Len(Manifest[p].content), method |-> Manifest[p].method,
                   sha256 |-> Manifest[p].content]],
     directories |-> ManifestDirectories]

EntryOf(p) == {i \in DOMAIN entries : ~entries[i].dir /\ entries[i].path = p}

VerifyExpectedInventory ==
    LET files == ExpectedInventory.files
        directories == ExpectedInventory.directories
    IN  /\ Cardinality({i \in DOMAIN entries : ~entries[i].dir}) = Cardinality(DOMAIN files)
        /\ Cardinality({i \in DOMAIN entries : entries[i].dir}) = Cardinality(directories)
        /\ \A p \in DOMAIN files : \E i \in EntryOf(p) :
              entries[i].size = files[p].size /\ entries[i].method = files[p].method
        /\ \A d \in directories : \E i \in DOMAIN entries : entries[i].dir /\ entries[i].path = d

\* ComputeExpectedInventoryBinding: the entries in the archive's order, with what
\* is expected of them.
InventoryBinding ==
    [i \in DOMAIN entries |->
       IF entries[i].dir THEN <<"D", entries[i].path>>
       ELSE <<"F", entries[i].path, ExpectedInventory.files[entries[i].path]>>]

ValidatedContentsMatch == validated # Unbound /\ validated = InventoryBinding

\* BindAuthenticatedInventory, by the installer that hashed the whole archive before.
Bind ==
    /\ open.is /\ validated = Unbound /\ task = NoTask /\ extracted = <<>>
    /\ InstalledSize(entries) = ExpectedSize
    /\ VerifyExpectedInventory
    /\ validated' = InventoryBinding
    /\ UNCHANGED <<archive, entries, open, task, extracted, damage>>

-----------------------------------------------------------------------------
(* Extraction *)

\* StreamFile refuses an archive that has another size than when it was opened.
Begin(i, extracts) ==
    IF Len(archive) = open.size
    THEN task' = [entry |-> i, extracts |-> extracts, produced |-> <<>>, next |-> entries[i].offset + 1]
         /\ UNCHANGED validated
    ELSE task' = NoTask /\ validated' = Unbound

\* A file that was not validated is read twice, first without the sink.
ExtractOne(p) ==
    /\ open.is /\ task = NoTask /\ p \notin DOMAIN extracted
    /\ VerifyExpectedInventory
    /\ \E i \in EntryOf(p) : Begin(i, ValidatedContentsMatch)
    /\ UNCHANGED <<archive, entries, open, extracted, damage>>

Streaming == entries[task.entry]

\* The bytes of a cell; the inflater is an external one that doubles.
Inflated(e, cell) ==
    IF cell.kind # "data" THEN <<cell.kind>>
    ELSE IF e.method = "Store" THEN <<cell.byte>> ELSE <<cell.byte, cell.byte>>

\* The stream is given up: the sink removes what it has, the validation is void.
Abort ==
    /\ task' = NoTask /\ validated' = Unbound
    /\ UNCHANGED <<archive, entries, open, extracted, damage>>

\* InstallerHashSink::Update takes no more than BeginFile announced.
HashTakes(bytes) == Len(bytes) <= Streaming.size

\* A buffer is read, counted, hashed and written.
ReadPiece ==
    /\ task # NoTask /\ task.next < EntryEnd(Streaming)
    /\ IF task.next >= Len(archive)
       THEN Abort
       ELSE LET piece == Inflated(Streaming, archive[task.next + 1])
            IN IF ~HashTakes(task.produced \o piece)
               THEN Abort
               ELSE /\ task' = [task EXCEPT !.produced = @ \o piece, !.next = @ + 1]
                    /\ UNCHANGED <<archive, entries, open, validated, extracted, damage>>

\* A mutated form: a file of a validated archive is not hashed again.
DigestOfFirstPass ==
    /\ Len(task.produced) = Streaming.size
    /\ task.extracts \/ task.produced = ExpectedInventory.files[Streaming.path].sha256

\* After the last buffer the size and the digest of what was read must be the signed ones.
DigestMatches ==
    /\ Len(task.produced) = Streaming.size
    /\ task.produced = ExpectedInventory.files[Streaming.path].sha256

\* CommitEntry of the sink: the file is complete and is kept.
CommitEntry ==
    /\ Len(task.produced) = Streaming.size
    /\ extracted' = [p \in DOMAIN extracted \cup {Streaming.path} |->
                       IF p = Streaming.path THEN task.produced ELSE extracted[p]]

\* A first pass is followed by the second, which is checked in the same way.
StreamEnds ==
    /\ task # NoTask /\ task.next = EntryEnd(Streaming)
    /\ IF ~DigestMatches THEN Abort
       ELSE IF ~task.extracts
       THEN Begin(task.entry, TRUE) /\ UNCHANGED <<archive, entries, open, extracted, damage>>
       ELSE /\ CommitEntry
            /\ task' = NoTask
            /\ UNCHANGED <<archive, entries, open, validated, damage>>

\* A read, the hash sink, the sink or its commit fails, or progress is refused.
StreamFails == task # NoTask /\ Abort

-----------------------------------------------------------------------------
(* The card *)

\* A cell changes, or the file is cut short, behind the back of an open reader; what
\* the archive is when it is opened is free already.
Damage ==
    /\ open.is /\ archive # <<>> /\ damage < MaxDamage /\ damage' = damage + 1
    /\ \/ \E i \in DOMAIN archive, b \in {1, 2} :
            archive' = [archive EXCEPT ![i] = [kind |-> "data", byte |-> b]]
       \/ archive' = Front(archive)
    /\ UNCHANGED <<entries, open, validated, task, extracted>>

\* The archive of a release is stored, and removed again; module ArchiveIntake
\* says when.
ArchiveStored ==
    /\ archive = <<>> /\ archive' \in Archives
    /\ UNCHANGED <<entries, open, validated, task, extracted, damage>>

ArchiveRemoved ==
    /\ archive # <<>> /\ task = NoTask
    /\ archive' = <<>> /\ entries' = <<>> /\ open' = NotOpen /\ validated' = Unbound
    /\ extracted' = <<>> /\ damage' = 0
    /\ UNCHANGED task

ZipNext ==
    \/ Open \/ Bind \/ \E p \in DOMAIN Manifest : ExtractOne(p)
    \/ ReadPiece \/ StreamEnds \/ StreamFails \/ Damage

-----------------------------------------------------------------------------
(* Properties *)

Owners(offset) ==
    Cardinality({i \in DOMAIN entries : offset \in entries[i].offset..(EntryEnd(entries[i]) - 1)})
    + (IF offset \in open.central..(open.size - 2) THEN 1 ELSE 0)
    + (IF offset = open.size - 1 THEN 1 ELSE 0)

\* Every cell of an archive that was opened is the header or the data of exactly one
\* entry, or part of the directory: nothing is hidden between, before or under the
\* entries, and no two entries share data or a place on the card (ZipReader::Open).
ArchiveAccounted ==
    open.is =>
        /\ \A offset \in 0..(open.size - 1) : Owners(offset) = 1
        /\ Len(entries) = Cardinality({entries[i].path : i \in DOMAIN entries})
        /\ \A i, j \in DOMAIN entries :
            <<entries[i].path, entries[j].path>> \in Within => entries[i].dir

\* Whatever happens to the card between the check of the archive and the extraction
\* of a file, a file that the sink has committed is the signed one
\* (ZipReader::ExtractOne, StreamFile).
ExtractedAsSigned ==
    \A p \in DOMAIN extracted : extracted[p] = Manifest[p].content

=============================================================================
