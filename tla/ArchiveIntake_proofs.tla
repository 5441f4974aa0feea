----------------------- MODULE ArchiveIntake_proofs -----------------------
(***************************************************************************)
(* The archive on its way to the files, for any requests, answers, limits, *)
(* archives and manifest: a body is delivered as it was framed however it  *)
(* is cut into segments, the access token stays with the API's host, an    *)
(* archive that was opened hides nothing, and a file that was committed is *)
(* the signed one, whatever the card does while it is read.                *)
(*                                                                         *)
(* The loops of the code (the decoder's over a segment, the value of a     *)
(* line of digits, the reader's along the central directory) are followed  *)
(* with the least element of a set of numbers.                             *)
(***************************************************************************)
EXTENDS ArchiveIntake, FiniteSetTheorems, FunctionTheorems, SequenceTheorems,
        WellFoundedInduction, TLAPS

-----------------------------------------------------------------------------
(* Numbers *)

\* A set of natural numbers has a least element.
LEMMA LeastNatural ==
    ASSUME NEW T \in SUBSET Nat, T # {}
    PROVE  \E x \in T : \A y \in T : x <= y
  <1>1. PICK x \in T : \A y \in T : ~(<<y, x>> \in OpToRel(<, Nat))
    BY NatLessThanWellFounded, WFMin
  <1>2. \A y \in T : ~(y < x)
    BY <1>1 DEF OpToRel
  <1> QED
    BY <1>2

\* Max of a set of natural numbers below a bound is in the set.
LEMMA LargestOffset ==
    ASSUME NEW n \in Nat, NEW S \in SUBSET (0..n), S # {}
    PROVE  Max(S) \in S
  <1> DEFINE T == {n - o : o \in S}
  <1>1. T \in SUBSET Nat /\ T # {}
    <2>1. \A o \in S : o \in 0..n /\ n - o \in Nat
      OBVIOUS
    <2>2. PICK o \in S : TRUE
      OBVIOUS
    <2>3. n - o \in T
      BY <2>2
    <2> QED
      BY <2>1, <2>3
  <1>2. PICK x \in T : \A y \in T : x <= y
    BY <1>1, LeastNatural
  <1>3. PICK o \in S : x = n - o
    BY <1>2
  <1>4. \A p \in S : o >= p
    BY <1>2, <1>3
  <1> QED
    BY <1>4 DEF Max

\* Intervals that follow each other, none of them empty, lie in order.
LEMMA ChainOrdered ==
    ASSUME NEW n \in Nat, NEW low \in [1..n -> Nat], NEW high \in [1..n -> Nat],
           \A i \in 1..n : i # 1 => low[i] = high[i - 1],
           \A i \in 1..n : low[i] < high[i]
    PROVE  \A i, j \in 1..n : i < j => high[i] <= low[j]
  <1> DEFINE T == {j \in 1..n : \E i \in 1..n : i < j /\ ~(high[i] <= low[j])}
  <1> SUFFICES ASSUME T # {} PROVE FALSE
    OBVIOUS
  <1>1. PICK j \in T : \A k \in T : j <= k
    <2>1. T \in SUBSET Nat
      OBVIOUS
    <2> HIDE DEF T
    <2> QED
      BY <2>1, LeastNatural
  <1>2. PICK i \in 1..n : i < j /\ ~(high[i] <= low[j])
    BY <1>1
  <1>3. j - 1 \in 1..n /\ low[j] = high[j - 1] /\ low[j - 1] < high[j - 1]
    BY <1>1, <1>2
  <1>4. i # j - 1
    <2> SUFFICES ASSUME i = j - 1 PROVE FALSE
      OBVIOUS
    <2>1. high[i] = low[j] /\ low[j] \in Nat
      BY <1>1, <1>3
    <2> QED
      BY <1>2, <2>1
  <1>5. j - 1 \notin T
    BY <1>1
  <1>6. high[i] <= low[j - 1]
    BY <1>2, <1>3, <1>4, <1>5
  <1> QED
    BY <1>2, <1>3, <1>6

\* They tile what lies before their end: every place is in exactly one.
LEMMA ChainTiles ==
    ASSUME NEW n \in Nat \ {0}, NEW low \in [1..n -> Nat], NEW high \in [1..n -> Nat],
           low[1] = 0,
           \A i \in 1..n : i # 1 => low[i] = high[i - 1],
           \A i \in 1..n : low[i] < high[i]
    PROVE  /\ \A i \in 1..n : high[i] <= high[n]
           /\ \A x \in 0..(high[n] - 1) :
                \E i \in 1..n : {j \in 1..n : x \in low[j]..(high[j] - 1)} = {i}
  <1>1. \A i, j \in 1..n : i < j => high[i] <= low[j]
    BY ChainOrdered
  <1>2. \A i \in 1..n : high[i] <= high[n]
    BY <1>1
  <1>3. ASSUME NEW x \in 0..(high[n] - 1)
        PROVE  \E i \in 1..n : {j \in 1..n : x \in low[j]..(high[j] - 1)} = {i}
    <2> DEFINE U == {i \in 1..n : x < high[i]}
    <2>1. U \in SUBSET Nat /\ n \in U
      BY <1>3
    <2>2. PICK i \in U : \A k \in U : i <= k
      <3> HIDE DEF U
      <3> QED
        BY <2>1, LeastNatural
    <2>3. low[i] <= x
      <3>1. CASE i = 1
        BY <3>1, <1>3
      <3>2. CASE i # 1
        <4>1. i - 1 \in 1..n /\ i - 1 \notin U
          BY <2>2, <3>2
        <4> QED
          BY <3>2, <4>1, <1>3
      <3> QED
        BY <3>1, <3>2
    <2>4. \A j \in 1..n : x \in low[j]..(high[j] - 1) => j = i
      <3> SUFFICES ASSUME NEW j \in 1..n, x \in low[j]..(high[j] - 1), j # i
                   PROVE  FALSE
        OBVIOUS
      <3>1. i <= j
        BY <1>3, <2>2
      <3>2. high[i] <= low[j]
        BY <1>1, <2>2, <3>1
      <3> QED
        BY <1>3, <2>2, <3>2
    <2>5. i \in 1..n /\ x \in low[i]..(high[i] - 1)
      BY <1>3, <2>2, <2>3
    <2>6. {j \in 1..n : x \in low[j]..(high[j] - 1)} = {i}
      BY <2>4, <2>5
    <2> QED
      BY <2>5, <2>6
  <1> QED
    BY <1>2, <1>3

-----------------------------------------------------------------------------
(* What Open has checked *)

\* The end record is the last cell of the archive.
LEMMA EndIsLast ==
    ASSUME NEW a \in Archives, EndAccepted(a)
    PROVE  /\ a \in Seq(Cells) /\ Len(a) \in Nat \ {0} /\ EndRecord(a) = a[Len(a)]
           /\ EndRecord(a).offset \in Nat /\ EndRecord(a).size \in Nat
           /\ EndRecord(a).count \in Nat
  <1>1. a \in Seq(Cells) /\ Len(a) \in Nat /\ \A i \in 1..Len(a) : a[i] \in Cells
    BY ArchivesAssumption, LenProperties, ElementOfSeq
  <1>2. EndOffsets(a) # {} /\ Max(EndOffsets(a)) = Len(a) - 1
    BY DEF EndAccepted
  <1>3. Len(a) # 0
    BY <1>1, <1>2 DEF EndOffsets
  <1>4. Max(EndOffsets(a)) \in EndOffsets(a)
    <2>1. EndOffsets(a) \in SUBSET (0..(Len(a) - 1)) /\ Len(a) - 1 \in Nat
      BY <1>1, <1>3 DEF EndOffsets
    <2> QED
      BY <1>2, <2>1, LargestOffset
  <1>5. EndRecord(a) = a[Len(a)] /\ Kind(a, Len(a) - 1) = "end"
    BY <1>1, <1>2, <1>4 DEF EndRecord, EndOffsets
  <1>6. a[Len(a)].kind = "end" /\ a[Len(a)] \in Cells
    BY <1>1, <1>3, <1>5 DEF Kind
  <1> QED
    BY <1>1, <1>3, <1>5, <1>6, ArchivesAssumption

\* The central directory lies between the last entry and the end record.
LEMMA DirectoryShape ==
    ASSUME NEW a \in Archives, Accepted(a),
           NEW c, c = Central(a), NEW m, m = EndRecord(a).offset
    PROVE  /\ m \in Nat /\ Len(a) \in Nat /\ Len(a) = m + Len(c) + 1
           /\ Len(c) \in Nat \ {0} /\ c \in Seq(Cells) /\ DOMAIN c = 1..Len(c)
           /\ \A i \in 1..Len(c) : c[i].offset \in Nat /\ c[i].csize \in Nat
           /\ PathsAccepted(c) /\ OffsetsAccepted(c, m)
  <1>1. /\ EndAccepted(a) /\ Len(c) = EndRecord(a).count
        /\ \A i \in DOMAIN c : EntryAccepted(c[i])
        /\ PathsAccepted(c) /\ OffsetsAccepted(c, m)
    BY DEF Accepted
  <1>2. /\ a \in Seq(Cells) /\ Len(a) \in Nat \ {0}
        /\ m \in Nat /\ EndRecord(a).size \in Nat /\ EndRecord(a).count \in Nat
    BY <1>1, EndIsLast
  <1>3. /\ m + EndRecord(a).size = Len(a) - 1
        /\ EndRecord(a).count # 0
    BY <1>1, <1>2 DEF EndAccepted
  <1>4. PICK k \in Nat : k = EndRecord(a).size
    BY <1>2
  <1>5. c = SubSeq(a, m + 1, m + k)
    BY <1>4 DEF Central
  <1>6. c \in Seq(Cells) /\ Len(c) = k
    <2>1. \A i \in (m + 1)..(m + k) : a[i] \in Cells
      BY <1>2, <1>3, <1>4, ElementOfSeq
    <2>2. PICK from \in Int, to \in Int : from = m + 1 /\ to = m + k
      BY <1>2, <1>4
    <2>3. /\ SubSeq(a, from, to) \in Seq(Cells)
          /\ Len(SubSeq(a, from, to)) = IF from <= to THEN to - from + 1 ELSE 0
      BY <2>1, <2>2, SubSeqProperties
    <2>4. c = SubSeq(a, from, to)
      BY <1>5, <2>2
    <2>5. (IF from <= to THEN to - from + 1 ELSE 0) = k
      BY <1>2, <1>4, <2>2
    <2> QED
      BY <2>3, <2>4, <2>5
  <1>7. Len(c) \in Nat \ {0} /\ DOMAIN c = 1..Len(c) /\ Len(a) = m + Len(c) + 1
    BY <1>1, <1>2, <1>3, <1>4, <1>6, LenProperties
  <1>8. \A i \in 1..Len(c) : c[i] \in Cells /\ c[i].kind = "central"
    BY <1>1, <1>6, <1>7, ElementOfSeq DEF EntryAccepted
  <1> QED
    BY <1>1, <1>2, <1>6, <1>7, <1>8, ArchivesAssumption

\* The places of the entries tile what lies before the central directory.
LEMMA EntriesTile ==
    ASSUME NEW a \in Archives, Accepted(a),
           NEW c, c = Central(a), NEW m, m = EndRecord(a).offset
    PROVE  \A x \in 0..(Len(a) - 1) :
             LET inside == {i \in DOMAIN c : x \in c[i].offset..(EntryEnd(c[i]) - 1)}
             IN  /\ x < m => Cardinality(inside) = 1
                 /\ x >= m => Cardinality(inside) = 0
  <1>1. /\ m \in Nat /\ Len(a) \in Nat /\ Len(c) \in Nat \ {0} /\ DOMAIN c = 1..Len(c)
        /\ c \in Seq(Cells) /\ OffsetsAccepted(c, m)
        /\ \A i \in 1..Len(c) : c[i].offset \in Nat /\ c[i].csize \in Nat
    BY DirectoryShape
  <1>2. PICK n \in Nat \ {0} : n = Len(c)
    BY <1>1
  <1> DEFINE low == [i \in 1..n |-> c[i].offset]
             high == [i \in 1..n |-> EntryEnd(c[i])]
  <1>3. low \in [1..n -> Nat] /\ high \in [1..n -> Nat]
    BY <1>1, <1>2 DEF EntryEnd
  <1>4. \A i \in 1..n : low[i] < high[i]
    BY <1>1, <1>2 DEF EntryEnd
  <1>5. low[1] = 0 /\ \A i \in 1..n : i # 1 => low[i] = high[i - 1]
    <2>1. \A i \in 1..n : c[i].offset = IF i = 1 THEN 0 ELSE EntryEnd(c[i - 1])
      BY <1>1, <1>2 DEF OffsetsAccepted
    <2>2. 1 \in 1..n /\ \A i \in 1..n : i # 1 => i - 1 \in 1..n
      OBVIOUS
    <2>3. \A i \in 1..n : low[i] = c[i].offset /\ high[i] = EntryEnd(c[i])
      OBVIOUS
    <2> HIDE DEF low, high
    <2> QED
      BY <2>1, <2>2, <2>3
  <1>6. high[n] = m
    <2>1. Last(c) = c[n]
      BY <1>2 DEF Last
    <2> QED
      BY <1>1, <2>1 DEF OffsetsAccepted
  <1>7. \A i \in 1..n : low[i] = c[i].offset /\ high[i] = EntryEnd(c[i])
    OBVIOUS
  <1> HIDE DEF low, high
  <1>8. /\ \A i \in 1..n : high[i] <= high[n]
        /\ \A x \in 0..(high[n] - 1) :
             \E i \in 1..n : {j \in 1..n : x \in low[j]..(high[j] - 1)} = {i}
    BY <1>3, <1>4, <1>5, ChainTiles, ZenonT(40)
  <1> SUFFICES ASSUME NEW x \in 0..(Len(a) - 1),
                      NEW inside, inside = {i \in DOMAIN c : x \in c[i].offset..(EntryEnd(c[i]) - 1)}
               PROVE  /\ x < m => Cardinality(inside) = 1
                      /\ x >= m => Cardinality(inside) = 0
    OBVIOUS
  <1>9. inside = {j \in 1..n : x \in low[j]..(high[j] - 1)}
    BY <1>1, <1>2, <1>7
  <1>10. ASSUME x < m PROVE Cardinality(inside) = 1
    <2>1. x \in 0..(high[n] - 1)
      BY <1>1, <1>6, <1>10
    <2>2. PICK i \in 1..n : {j \in 1..n : x \in low[j]..(high[j] - 1)} = {i}
      BY <1>8, <2>1
    <2>3. inside = {i}
      BY <1>9, <2>2
    <2> QED
      BY <2>3, FS_Singleton
  <1>11. ASSUME x >= m PROVE Cardinality(inside) = 0
    <2>1. \A j \in 1..n : ~(x \in low[j]..(high[j] - 1))
      BY <1>1, <1>3, <1>6, <1>8, <1>11
    <2>2. inside = {}
      BY <1>9, <2>1
    <2> QED
      BY <2>2, FS_EmptySet
  <1> QED
    BY <1>10, <1>11

\* As many paths as entries: no path is there twice.
LEMMA PathsCounted ==
    ASSUME NEW c \in Seq(Cells), PathsAccepted(c)
    PROVE  Len(c) = Cardinality({c[i].path : i \in DOMAIN c})
  <1>1. Len(c) \in Nat /\ DOMAIN c = 1..Len(c)
    BY LenProperties
  <1> DEFINE S == 1..Len(c)
             T == {c[i].path : i \in DOMAIN c}
             f == [i \in S |-> c[i].path]
  <1>2. f \in Bijection(S, T)
    BY <1>1 DEF PathsAccepted, Bijection, Injection, Surjection, IsInjective
  <1>3. IsFiniteSet(S) /\ Cardinality(S) = Len(c)
    <2>1. PICK n \in Nat : n = Len(c)
      BY <1>1
    <2>2. IsFiniteSet(1..n) /\ Cardinality(1..n) = n
      BY FS_Interval, SMTT(30)
    <2> QED
      BY <2>1, <2>2
  <1>4. ExistsBijection(S, T)
    BY <1>2 DEF ExistsBijection
  <1> HIDE DEF S, T
  <1> QED
    BY <1>3, <1>4, FS_Bijection DEF T


-----------------------------------------------------------------------------
(* The inductive invariant *)

\* The card's damage is done behind an open reader; before, the archive is the one
\* that was published.
PublishedInv == ~open.is => archive \in Archives \cup {<<>>}

\* A stream reads a signed file of the archive that is open.
TaskInv ==
    /\ DOMAIN task = {"entry", "extracts", "produced", "next"}
    /\ task # NoTask => /\ open.is /\ task.entry \in DOMAIN entries
                        /\ entries[task.entry].path \in DOMAIN Manifest

\* Only signed files are committed, each with the signed content.
SinkInv == DOMAIN extracted \subseteq DOMAIN Manifest /\ ExtractedAsSigned

ZipInv == PublishedInv /\ ArchiveAccounted /\ TaskInv /\ SinkInv

-----------------------------------------------------------------------------
(* The steps *)

\* Open accepts no archive with a cell that nobody or more than one owns.
LEMMA OpenAccounts ==
    ASSUME archive \in Archives, Open
    PROVE  ArchiveAccounted'
  <1> DEFINE a == archive
  <1>1. PICK c, m : c = Central(a) /\ m = EndRecord(a).offset
    OBVIOUS
  <1>2. Accepted(a) /\ entries' = c /\ open'.size = Len(a) /\ open'.central = m
    BY <1>1 DEF Open
  <1>3. /\ m \in Nat /\ Len(a) \in Nat /\ Len(a) = m + Len(c) + 1
        /\ Len(c) \in Nat \ {0} /\ c \in Seq(Cells) /\ DOMAIN c = 1..Len(c)
        /\ PathsAccepted(c)
    BY <1>1, <1>2, DirectoryShape
  <1>4. ASSUME NEW offset \in 0..(Len(a) - 1) PROVE Owners(offset)' = 1
    <2>1. PICK owners : owners = Cardinality({i \in DOMAIN c : offset \in c[i].offset..(EntryEnd(c[i]) - 1)})
      OBVIOUS
    <2>2. (offset < m => owners = 1) /\ (offset >= m => owners = 0)
      BY <1>1, <1>2, <2>1, EntriesTile
    <2>3. Owners(offset)' = owners + (IF offset \in m..(Len(a) - 2) THEN 1 ELSE 0)
                                   + (IF offset = Len(a) - 1 THEN 1 ELSE 0)
      BY <1>2, <2>1 DEF Owners, EntryEnd
    <2> QED
      BY <1>3, <1>4, <2>2, <2>3
  <1>5. Len(entries') = Cardinality({entries'[i].path : i \in DOMAIN entries'})
    BY <1>2, <1>3, PathsCounted
  <1>6. \A i, j \in DOMAIN entries' :
          <<entries'[i].path, entries'[j].path>> \in Within => entries'[i].dir
    <2> SUFFICES ASSUME NEW i \in DOMAIN c, NEW j \in DOMAIN c,
                        <<c[i].path, c[j].path>> \in Within
                 PROVE  c[i].dir
      BY <1>2
    <2>1. i # j
      BY ArchivesAssumption
    <2> QED
      BY <1>3, <2>1 DEF PathsAccepted
  <1> QED
    BY <1>2, <1>4, <1>5, <1>6 DEF ArchiveAccounted

\* What the reader knows of the archive does not depend on anything else.
LEMMA AccountKept ==
    ASSUME ArchiveAccounted, UNCHANGED <<entries, open>>
    PROVE  ArchiveAccounted'
  BY DEF ArchiveAccounted, Owners, EntryEnd

\* A stream begins on a signed file, or not at all.
LEMMA BeginKeeps ==
    ASSUME NEW i \in DOMAIN entries, NEW x, open.is, Begin(i, x),
           entries[i].path \in DOMAIN Manifest, UNCHANGED <<entries, open>>
    PROVE  TaskInv'
  <1>1. CASE task' = NoTask
    BY <1>1 DEF TaskInv, NoTask
  <1>2. CASE task' = [entry |-> i, extracts |-> x, produced |-> <<>>, next |-> entries[i].offset + 1]
    BY <1>2 DEF TaskInv
  <1> QED
    BY <1>1, <1>2 DEF Begin

\* A stream that is given up leaves the rest as it is.
LEMMA AbortKeeps ==
    ASSUME ZipInv, Abort
    PROVE  ZipInv'
  <1>1. TaskInv'
    BY DEF Abort, TaskInv, NoTask
  <1>2. ArchiveAccounted'
    BY AccountKept DEF ZipInv, Abort
  <1> QED
    BY <1>1, <1>2 DEF ZipInv, Abort, PublishedInv, SinkInv, ExtractedAsSigned

\* A committed file has just been compared with its signed digest.
LEMMA CommitKeeps ==
    ASSUME SinkInv, TaskInv, task # NoTask, DigestMatches, CommitEntry
    PROVE  SinkInv'
  <1>1. PICK p \in DOMAIN Manifest : p = Streaming.path
    BY DEF TaskInv, Streaming
  <1>2. task.produced = Manifest[p].content
    BY <1>1 DEF DigestMatches, ExpectedInventory
  <1>3. extracted' = [q \in DOMAIN extracted \cup {p} |->
                        IF q = p THEN Manifest[p].content ELSE extracted[q]]
    BY <1>1, <1>2 DEF CommitEntry
  <1> QED
    BY <1>1, <1>3 DEF SinkInv, ExtractedAsSigned

LEMMA ZipStepKeeps ==
    ASSUME ZipInv, [ZipNext \/ ArchiveStored \/ ArchiveRemoved]_zipVars
    PROVE  ZipInv'
  <1>1. ASSUME Open PROVE ZipInv'
    <2>1. archive \in Archives
      BY <1>1 DEF Open, ZipInv, PublishedInv
    <2>2. ArchiveAccounted'
      BY <1>1, <2>1, OpenAccounts
    <2>3. task = NoTask /\ task' = NoTask
      BY <1>1 DEF Open, ZipInv, TaskInv
    <2>4. TaskInv'
      BY <2>3 DEF TaskInv, NoTask
    <2> QED
      BY <1>1, <2>2, <2>4 DEF Open, ZipInv, PublishedInv, SinkInv, ExtractedAsSigned
  <1>2. ASSUME Bind PROVE ZipInv'
    <2>1. ArchiveAccounted'
      BY <1>2, AccountKept DEF ZipInv, Bind
    <2> QED
      BY <1>2, <2>1 DEF Bind, ZipInv, PublishedInv, TaskInv, SinkInv, ExtractedAsSigned
  <1>3. ASSUME NEW p \in DOMAIN Manifest, ExtractOne(p) PROVE ZipInv'
    <2>1. PICK i \in EntryOf(p) : Begin(i, ValidatedContentsMatch)
      BY <1>3 DEF ExtractOne
    <2>2. i \in DOMAIN entries /\ entries[i].path \in DOMAIN Manifest
      BY <2>1 DEF EntryOf
    <2>3. open.is /\ UNCHANGED <<archive, entries, open, extracted>>
      BY <1>3 DEF ExtractOne
    <2>4. TaskInv'
      BY <2>1, <2>2, <2>3, BeginKeeps
    <2>5. ArchiveAccounted'
      BY <2>3, AccountKept DEF ZipInv
    <2> QED
      BY <2>3, <2>4, <2>5 DEF ZipInv, PublishedInv, SinkInv, ExtractedAsSigned
  <1>4. ASSUME ReadPiece PROVE ZipInv'
    <2>1. CASE Abort
      BY <2>1, AbortKeeps
    <2>2. CASE ~Abort
      <3>1. PICK produced, next : task' = [task EXCEPT !.produced = produced, !.next = next]
        BY <1>4, <2>2 DEF ReadPiece
      <3>2. task # NoTask /\ UNCHANGED <<archive, entries, open, extracted>>
        BY <1>4, <2>2 DEF ReadPiece
      <3>3. DOMAIN task' = DOMAIN task /\ task'.entry = task.entry
        BY <3>1 DEF ZipInv, TaskInv
      <3>4. TaskInv'
        BY <3>2, <3>3 DEF ZipInv, TaskInv
      <3>5. ArchiveAccounted'
        BY <3>2, AccountKept DEF ZipInv
      <3> QED
        BY <3>2, <3>4, <3>5 DEF ZipInv, PublishedInv, SinkInv, ExtractedAsSigned
    <2> QED
      BY <2>1, <2>2
  <1>5. ASSUME StreamEnds PROVE ZipInv'
    <2>1. CASE ~DigestMatches
      BY <1>5, <2>1, AbortKeeps DEF StreamEnds
    <2>2. CASE DigestMatches /\ ~task.extracts
      <3>1. Begin(task.entry, TRUE) /\ UNCHANGED <<archive, entries, open, extracted>>
        BY <1>5, <2>2 DEF StreamEnds
      <3>2. TaskInv'
        BY <1>5, <3>1, BeginKeeps DEF ZipInv, TaskInv, StreamEnds
      <3>3. ArchiveAccounted'
        BY <3>1, AccountKept DEF ZipInv
      <3> QED
        BY <3>1, <3>2, <3>3 DEF ZipInv, PublishedInv, SinkInv, ExtractedAsSigned
    <2>3. CASE DigestMatches /\ task.extracts
      <3>1. task # NoTask /\ CommitEntry /\ task' = NoTask /\ UNCHANGED <<archive, entries, open>>
        BY <1>5, <2>3 DEF StreamEnds
      <3>2. SinkInv'
        BY <2>3, <3>1, CommitKeeps DEF ZipInv
      <3>3. TaskInv'
        BY <3>1 DEF TaskInv, NoTask
      <3>4. ArchiveAccounted'
        BY <3>1, AccountKept DEF ZipInv
      <3> QED
        BY <3>1, <3>2, <3>3, <3>4 DEF ZipInv, PublishedInv
    <2> QED
      BY <2>1, <2>2, <2>3
  <1>6. ASSUME StreamFails PROVE ZipInv'
    BY <1>6, AbortKeeps DEF StreamFails
  <1>7. ASSUME Damage PROVE ZipInv'
    <2>1. open.is /\ UNCHANGED <<entries, open, task, extracted>>
      BY <1>7 DEF Damage
    <2>2. ArchiveAccounted'
      BY <2>1, AccountKept DEF ZipInv
    <2> QED
      BY <2>1, <2>2 DEF ZipInv, PublishedInv, TaskInv, SinkInv, ExtractedAsSigned
  <1>8. ASSUME ArchiveStored PROVE ZipInv'
    <2>1. archive' \in Archives /\ UNCHANGED <<entries, open, task, extracted>>
      BY <1>8 DEF ArchiveStored
    <2>2. ArchiveAccounted'
      BY <2>1, AccountKept DEF ZipInv
    <2> QED
      BY <2>1, <2>2 DEF ZipInv, PublishedInv, TaskInv, SinkInv, ExtractedAsSigned
  <1>9. ASSUME ArchiveRemoved PROVE ZipInv'
    <2>1. archive' = <<>> /\ open' = NotOpen /\ extracted' = <<>> /\ task' = NoTask
      BY <1>9 DEF ArchiveRemoved
    <2>2. DOMAIN extracted' = {} /\ ~open'.is
      BY <2>1 DEF NotOpen
    <2>3. TaskInv'
      BY <2>1 DEF TaskInv, NoTask
    <2> QED
      BY <2>1, <2>2, <2>3 DEF ZipInv, PublishedInv, ArchiveAccounted, SinkInv, ExtractedAsSigned
  <1>10. ASSUME UNCHANGED zipVars PROVE ZipInv'
    <2>1. UNCHANGED <<archive, entries, open, task, extracted>>
      BY <1>10 DEF zipVars
    <2>2. ArchiveAccounted'
      BY <2>1, AccountKept DEF ZipInv
    <2> QED
      BY <2>1, <2>2 DEF ZipInv, PublishedInv, TaskInv, SinkInv, ExtractedAsSigned
  <1> QED
    BY <1>1, <1>2, <1>3, <1>4, <1>5, <1>6, <1>7, <1>8, <1>9, <1>10 DEF ZipNext

-----------------------------------------------------------------------------
(* The loops of the decoder *)

\* What the recursive functions of the model are to satisfy, up to k.
IsLoop(f, d, data, takes, k) ==
    f = [n \in 0..k |-> IF n = 0 THEN Fed(d, data) ELSE FeedNext(f[n - 1], takes)]
IsValue(f, line, k) ==
    f = [n \in 0..k |-> IF n = 0 THEN 0 ELSE NextSize(f[n - 1], line[n])]

\* A loop that runs from the front exists: a least length without one has one.
LEMMA LoopExists ==
    ASSUME NEW d, NEW data, NEW takes, NEW k \in Nat
    PROVE  \E f : IsLoop(f, d, data, takes, k)
  <1> DEFINE T == {n \in Nat : ~\E f : IsLoop(f, d, data, takes, n)}
  <1> SUFFICES ASSUME T # {} PROVE FALSE
    OBVIOUS
  <1>1. PICK m \in T : \A n \in T : m <= n
    <2>1. T \in SUBSET Nat
      OBVIOUS
    <2> HIDE DEF T
    <2> QED
      BY <2>1, LeastNatural
  <1>2. CASE m = 0
    <2> DEFINE g == [n \in 0..0 |-> Fed(d, data)]
    <2>1. g = [n \in 0..0 |-> IF n = 0 THEN Fed(d, data) ELSE FeedNext(g[n - 1], takes)]
      <3>1. \A n \in 0..0 : n = 0
        OBVIOUS
      <3> QED
        BY <3>1
    <2>2. IsLoop(g, d, data, takes, 0)
      BY <2>1 DEF IsLoop
    <2> QED
      BY <1>1, <1>2, <2>2
  <1>3. CASE m # 0
    <2>1. m - 1 \in Nat /\ m - 1 \notin T
      BY <1>1, <1>3
    <2>2. PICK f : IsLoop(f, d, data, takes, m - 1)
      BY <2>1
    <2> DEFINE g == [n \in 0..m |-> IF n = m THEN FeedNext(f[m - 1], takes) ELSE f[n]]
    <2>3. \A n \in 0..m : n = m \/ (n \in 0..(m - 1) /\ n # m)
      BY <1>1
    <2>4. \A n \in 0..(m - 1) : /\ f[n] = IF n = 0 THEN Fed(d, data) ELSE FeedNext(f[n - 1], takes)
                               /\ g[n] = f[n] /\ (n # 0 => g[n - 1] = f[n - 1])
      BY <1>1, <2>2 DEF IsLoop
    <2>5. g[m] = FeedNext(f[m - 1], takes) /\ g[m - 1] = f[m - 1]
      BY <1>1, <1>3
    <2>6. \A n \in 0..m : g[n] = IF n = 0 THEN Fed(d, data) ELSE FeedNext(g[n - 1], takes)
      BY <1>3, <2>3, <2>4, <2>5
    <2>7. g = [n \in 0..m |-> g[n]]
      OBVIOUS
    <2>8. IsLoop(g, d, data, takes, m)
      <3> HIDE DEF g
      <3> QED
        BY <2>6, <2>7 DEF IsLoop
    <2> QED
      BY <1>1, <2>8
  <1> QED
    BY <1>2, <1>3

LEMMA LoopEquation ==
    ASSUME NEW d, NEW data, Len(data) \in Nat, NEW takes
    PROVE  IsLoop(FeedLoop(d, data, takes), d, data, takes, Len(data))
  <1>1. PICK f : IsLoop(f, d, data, takes, Len(data))
    BY LoopExists
  <1>2. FeedLoop(d, data, takes) = CHOOSE g : IsLoop(g, d, data, takes, Len(data))
    BY DEF FeedLoop, IsLoop
  <1> QED
    BY <1>1, <1>2

\* The same for the value of a line of digits.
LEMMA ValueExists ==
    ASSUME NEW line, NEW k \in Nat
    PROVE  \E f : IsValue(f, line, k)
  <1> DEFINE T == {n \in Nat : ~\E f : IsValue(f, line, n)}
  <1> SUFFICES ASSUME T # {} PROVE FALSE
    OBVIOUS
  <1>1. PICK m \in T : \A n \in T : m <= n
    <2>1. T \in SUBSET Nat
      OBVIOUS
    <2> HIDE DEF T
    <2> QED
      BY <2>1, LeastNatural
  <1>2. CASE m = 0
    <2> DEFINE g == [n \in 0..0 |-> 0]
    <2>1. g = [n \in 0..0 |-> IF n = 0 THEN 0 ELSE NextSize(g[n - 1], line[n])]
      <3>1. \A n \in 0..0 : n = 0
        OBVIOUS
      <3> QED
        BY <3>1
    <2>2. IsValue(g, line, 0)
      BY <2>1 DEF IsValue
    <2> QED
      BY <1>1, <1>2, <2>2
  <1>3. CASE m # 0
    <2>1. m - 1 \in Nat /\ m - 1 \notin T
      BY <1>1, <1>3
    <2>2. PICK f : IsValue(f, line, m - 1)
      BY <2>1
    <2> DEFINE g == [n \in 0..m |-> IF n = m THEN NextSize(f[m - 1], line[m]) ELSE f[n]]
    <2>3. \A n \in 0..m : n = m \/ (n \in 0..(m - 1) /\ n # m)
      BY <1>1
    <2>4. \A n \in 0..(m - 1) : /\ f[n] = IF n = 0 THEN 0 ELSE NextSize(f[n - 1], line[n])
                               /\ g[n] = f[n] /\ (n # 0 => g[n - 1] = f[n - 1])
      BY <1>1, <2>2 DEF IsValue
    <2>5. g[m] = NextSize(f[m - 1], line[m]) /\ g[m - 1] = f[m - 1]
      BY <1>1, <1>3
    <2>6. \A n \in 0..m : g[n] = IF n = 0 THEN 0 ELSE NextSize(g[n - 1], line[n])
      BY <1>3, <2>3, <2>4, <2>5
    <2>7. g = [n \in 0..m |-> g[n]]
      OBVIOUS
    <2>8. IsValue(g, line, m)
      <3> HIDE DEF g
      <3> QED
        BY <2>6, <2>7 DEF IsValue
    <2> QED
      BY <1>1, <2>8
  <1> QED
    BY <1>2, <1>3

\* A line that has a value is one of digits, and its value is a natural number.
LEMMA ValueOfLine ==
    ASSUME NEW line \in Seq(Tokens), Len(line) \in 1..LineBytes, ChunkSizeOf(line) # -1
    PROVE  ChunkSizeOf(line) \in Nat /\ line \in SizeLines(ChunkSizeOf(line))
  <1>1. PICK k \in Nat : k = Len(line) /\ k \in 1..LineBytes /\ line \in [1..k -> Tokens]
    BY LenProperties
  <1>2. PICK f : IsValue(f, line, k) /\ ChunkSizeOf(line) = f[k]
    <2>1. \E f : IsValue(f, line, k)
      BY ValueExists
    <2>2. ChunkSizeOf(line) = (CHOOSE f : IsValue(f, line, k))[k]
      BY <1>1 DEF ChunkSizeOf, IsValue
    <2> QED
      BY <2>1, <2>2
  <1>3. \A n \in 0..k : f[n] = IF n = 0 THEN 0 ELSE NextSize(f[n - 1], line[n])
    BY <1>2 DEF IsValue
  <1> DEFINE T == {n \in 0..k : f[n] # -1 /\ ~(f[n] \in Nat /\ \A i \in 1..n : line[i] \in Digits)}
  <1>4. T = {}
    <2> SUFFICES ASSUME T # {} PROVE FALSE
      OBVIOUS
    <2>1. PICK m \in T : \A n \in T : m <= n
      <3>1. T \in SUBSET Nat
        OBVIOUS
      <3> HIDE DEF T
      <3> QED
        BY <3>1, LeastNatural
    <2>2. m # 0
      BY <1>3, <2>1
    <2>3. m - 1 \in 0..k /\ m - 1 \notin T /\ f[m] = NextSize(f[m - 1], line[m]) /\ f[m] # -1
      BY <1>3, <2>1, <2>2
    <2>4. f[m - 1] # -1 /\ line[m] \in Digits /\ f[m] = 2 * f[m - 1] + DigitValue(line[m])
      BY <2>3 DEF NextSize
    <2>5. f[m - 1] \in Nat /\ \A i \in 1..(m - 1) : line[i] \in Digits
      BY <2>3, <2>4
    <2>6. f[m] \in Nat
      BY <2>4, <2>5 DEF DigitValue
    <2>7. \A i \in 1..m : line[i] \in Digits
      <3>1. \A i \in 1..m : i = m \/ i \in 1..(m - 1)
        BY <2>1
      <3> QED
        BY <2>4, <2>5, <3>1
    <2> QED
      BY <2>1, <2>6, <2>7
  <1>5. f[k] \in Nat /\ \A i \in 1..k : line[i] \in Digits
    BY <1>1, <1>2, <1>4
  <1>6. line \in [1..k -> Digits]
    BY <1>1, <1>5
  <1> QED
    BY <1>1, <1>2, <1>5, <1>6 DEF SizeLines

-----------------------------------------------------------------------------
(* Bodies in chunks *)

LEMMA LineIsTokens ==
    ASSUME NEW n, NEW l \in SizeLines(n)
    PROVE  l \in Seq(Tokens) /\ Len(l) \in Nat
  <1>1. PICK k \in 1..LineBytes : l \in [1..k -> Digits]
    BY DEF SizeLines
  <1>2. k \in Nat /\ l \in [1..k -> Tokens]
    BY <1>1, TransferAssumption DEF Tokens
  <1> QED
    BY <1>2, SeqDef, LenProperties

LEMMA FrameIsTokens ==
    ASSUME NEW l \in Seq(Tokens), NEW data \in Seq(Tokens)
    PROVE  /\ ChunkFrame(l, data) \in Seq(Tokens) /\ Len(ChunkFrame(l, data)) = Len(l) + Len(data) + 4
           /\ Len(l) \in Nat /\ Len(data) \in Nat /\ Crlf \in Seq(Tokens)
  <1>1. Crlf \in Seq(Tokens) /\ Len(Crlf) = 2
    BY DEF Crlf, Tokens
  <1>0. PICK crlf \in Seq(Tokens) : crlf = Crlf /\ Len(crlf) = 2
    BY <1>1
  <1>2. l \o crlf \in Seq(Tokens) /\ Len(l \o crlf) = Len(l) + 2
    <2>1. l \o crlf \in Seq(Tokens) /\ Len(l \o crlf) = Len(l) + Len(crlf)
      BY ConcatProperties
    <2> QED
      BY <1>0, <2>1
  <1>3. (l \o crlf) \o data \in Seq(Tokens) /\ Len((l \o crlf) \o data) = Len(l) + 2 + Len(data)
    <2>1. PICK a \in Seq(Tokens) : a = l \o crlf /\ Len(a) = Len(l) + 2
      BY <1>2
    <2>2. a \o data \in Seq(Tokens) /\ Len(a \o data) = Len(a) + Len(data)
      BY ConcatProperties
    <2> QED
      BY <2>1, <2>2
  <1>4. /\ ((l \o crlf) \o data) \o crlf \in Seq(Tokens)
        /\ Len(((l \o crlf) \o data) \o crlf) = Len(l) + 2 + Len(data) + 2
    <2>1. PICK a \in Seq(Tokens) : a = (l \o crlf) \o data /\ Len(a) = Len(l) + 2 + Len(data)
      BY <1>3
    <2>2. a \o crlf \in Seq(Tokens) /\ Len(a \o crlf) = Len(a) + Len(crlf)
      BY ConcatProperties
    <2> QED
      BY <1>0, <2>1, <2>2
  <1>5. Len(l) \in Nat /\ Len(data) \in Nat
    BY LenProperties
  <1>6. /\ ChunkFrame(l, data) \in Seq(Tokens)
        /\ Len(ChunkFrame(l, data)) = Len(l) + 2 + Len(data) + 2
    BY <1>0, <1>4 DEF ChunkFrame
  <1> QED
    BY <1>1, <1>5, <1>6

\* What is sent for a chunk is not empty.
LEMMA FrameNotEmpty ==
    ASSUME NEW data \in Seq(Tokens), NEW l \in SizeLines(Len(data)),
           NEW frame, frame = ChunkFrame(l, data)
    PROVE  frame \in Seq(Tokens) /\ Len(frame) \in Nat \ {0}
  <1>1. l \in Seq(Tokens)
    BY LineIsTokens
  <1>2. /\ frame \in Seq(Tokens) /\ Len(frame) = Len(l) + Len(data) + 4
        /\ Len(l) \in Nat /\ Len(data) \in Nat
    BY <1>1, FrameIsTokens
  <1> QED
    BY <1>2

\* The parts of a concatenation.
LEMMA FirstOfConcat ==
    ASSUME NEW s \in Seq(Tokens), NEW t \in Seq(Tokens)
    PROVE  SubSeq(s \o t, 1, Len(s)) = s
  <1>1. PICK p \in Nat : p = Len(s)
    BY LenProperties
  <1>2. CASE p = 0
    <2>1. SubSeq(s \o t, 1, 0) = <<>>
      BY SubSeqEmpty
    <2>2. s = <<>>
      BY <1>1, <1>2, EmptySeq
    <2> QED
      BY <1>1, <1>2, <2>1, <2>2
  <1>3. CASE p # 0
    <2>1. 1 \in 1..p /\ p \in 1..p
      BY <1>3
    <2>2. SubSeq(s \o t, 1, p) = SubSeq(s, 1, p)
      BY <1>1, <2>1, SubSeqOfConcat1
    <2> QED
      BY <1>1, <2>2, SubSeqFull
  <1> QED
    BY <1>2, <1>3

LEMMA SecondOfConcat ==
    ASSUME NEW s \in Seq(Tokens), NEW t \in Seq(Tokens), t # <<>>
    PROVE  SubSeq(s \o t, Len(s) + 1, Len(s) + Len(t)) = t
  <1>1. PICK p \in Nat, q \in Nat \ {0} : p = Len(s) /\ q = Len(t)
    BY LenProperties, EmptySeq
  <1>2. p + 1 \in (p + 1)..(p + q) /\ p + q \in (p + 1)..(p + q)
    BY <1>1
  <1>3. SubSeq(s \o t, p + 1, p + q) = SubSeq(t, (p + 1) - p, (p + q) - p)
    BY <1>1, <1>2, SubSeqOfConcat2
  <1>4. (p + 1) - p = 1 /\ (p + q) - p = q
    BY <1>1
  <1>5. SubSeq(t, 1, q) = t
    BY <1>1, SubSeqFull
  <1> QED
    BY <1>1, <1>3, <1>4, <1>5

\* Nothing is sent for an empty body before its last chunk.
LEMMA NoChunks ==
    ChunksOf(<<>>, <<>>)
  <1> DEFINE cuts == {}
             at == [x \in {0} |-> 0]
  <1>1. Len(<<>>) = 0
    OBVIOUS
  <1>2. cuts \in SUBSET (1..0) /\ cuts \cup {0} = {0} /\ at \in [{0} -> 0..0] /\ at[0] = 0
    OBVIOUS
  <1> HIDE DEF cuts, at
  <1>3. \E a \in [cuts \cup {0} -> 0..0] :
          /\ a[0] = 0 /\ 0 \in cuts \cup {0}
          /\ \A j \in cuts : \E i \in cuts \cup {0} :
               i < j /\ IsChunk(SubSeq(<<>>, a[i] + 1, a[j]), SubSeq(<<>>, i + 1, j))
    BY <1>2 DEF cuts
  <1> QED
    BY <1>1, <1>2, <1>3 DEF ChunksOf

\* A chunk after chunks.
LEMMA MoreChunks ==
    ASSUME NEW pre \in Seq(Tokens), NEW base \in Seq(Tokens), NEW part \in Seq(Tokens),
           ChunksOf(pre, base), part # <<>>, NEW l \in SizeLines(Len(part)),
           NEW frame, frame = ChunkFrame(l, part)
    PROVE  ChunksOf(pre \o frame, base \o part)
  <1> DEFINE sent == pre \o frame
             body == base \o part
  <1>1. PICK p \in Nat, b \in Nat, f \in Nat, t \in Nat \ {0} :
          p = Len(pre) /\ b = Len(base) /\ f = Len(frame) /\ t = Len(part)
    BY FrameNotEmpty, EmptySeq, LenProperties
  <1>2. frame \in Seq(Tokens) /\ f # 0
    BY <1>1, FrameNotEmpty
  <1>3. /\ sent \in Seq(Tokens) /\ Len(sent) = p + f
        /\ body \in Seq(Tokens) /\ Len(body) = b + t
    BY <1>1, <1>2, ConcatProperties
  <1>0. PICK cuts \in SUBSET (1..b) : \E at \in [cuts \cup {0} -> 0..p] :
          /\ at[0] = 0 /\ b \in cuts \cup {0} /\ at[b] = p
          /\ \A j \in cuts : \E i \in cuts \cup {0} :
               i < j /\ IsChunk(SubSeq(pre, at[i] + 1, at[j]), SubSeq(base, i + 1, j))
    BY <1>1 DEF ChunksOf
  <1>4. PICK at \in [cuts \cup {0} -> 0..p] :
          /\ at[0] = 0 /\ b \in cuts \cup {0} /\ at[b] = p
          /\ \A j \in cuts : \E i \in cuts \cup {0} :
               i < j /\ IsChunk(SubSeq(pre, at[i] + 1, at[j]), SubSeq(base, i + 1, j))
    BY <1>0
  <1> DEFINE more == cuts \cup {b + t}
             at2 == [x \in more \cup {0} |-> IF x = b + t THEN p + f ELSE at[x]]
  <1>5. /\ more \in SUBSET (1..(b + t)) /\ at2 \in [more \cup {0} -> 0..(p + f)]
        /\ at2[0] = 0 /\ b + t \in more \cup {0} /\ at2[b + t] = p + f
    <2>0. b + t \in 1..(b + t) /\ b + t # 0 /\ p + f \in 0..(p + f) /\ \A x \in 1..b : x \in 1..(b + t)
      BY <1>1
    <2>1. more \in SUBSET (1..(b + t)) /\ b + t # 0 /\ p + f \in 0..(p + f)
      BY <1>4, <2>0
    <2>2. \A x \in more \cup {0} : x # b + t => x \in cuts \cup {0} /\ at[x] \in 0..p
      BY <1>4
    <2>3. \A y \in 0..p : y \in 0..(p + f)
      BY <1>1
    <2>4. at2 \in [more \cup {0} -> 0..(p + f)]
      BY <2>1, <2>2, <2>3
    <2> QED
      BY <1>4, <2>1, <2>4
  <1>6. \A x \in cuts \cup {0} : x \in more \cup {0} /\ at2[x] = at[x] /\ at[x] \in 0..p /\ x \in 0..b
    BY <1>1, <1>4
  <1>7. ASSUME NEW j \in cuts
        PROVE  \E i \in more \cup {0} :
                 i < j /\ IsChunk(SubSeq(sent, at2[i] + 1, at2[j]), SubSeq(body, i + 1, j))
    <2>1. PICK i \in cuts \cup {0} :
            i < j /\ IsChunk(SubSeq(pre, at[i] + 1, at[j]), SubSeq(base, i + 1, j))
      BY <1>4, <1>7
    <2>2. i \in 0..b /\ j \in 1..b /\ i + 1 \in 1..b /\ at[i] \in 0..p /\ at[j] \in 0..p
      <3>1. j \in cuts \cup {0} /\ j \in 1..b
        BY <1>4, <1>7
      <3>2. i \in 0..b /\ at[i] \in 0..p /\ at[j] \in 0..p
        BY <1>6, <2>1, <3>1
      <3>3. i < j
        BY <2>1
      <3> QED
        BY <1>1, <3>1, <3>2, <3>3
    <2>3. SubSeq(body, i + 1, j) = SubSeq(base, i + 1, j)
      BY <1>1, <2>2, SubSeqOfConcat1
    <2>4. SubSeq(base, i + 1, j) \in Seq(Tokens)
      <3>1. \A x \in (i + 1)..j : base[x] \in Tokens
        BY <1>1, <2>2, ElementOfSeq
      <3>2. i + 1 \in Int /\ j \in Int
        BY <2>2
      <3> QED
        BY <3>1, <3>2, SubSeqProperties
    <2>5. SubSeq(pre, at[i] + 1, at[j]) # <<>>
      <3>1. PICK line \in SizeLines(Len(SubSeq(base, i + 1, j))) :
              SubSeq(pre, at[i] + 1, at[j]) = ChunkFrame(line, SubSeq(base, i + 1, j))
        BY <2>1 DEF IsChunk
      <3>2. PICK data \in Seq(Tokens) : data = SubSeq(base, i + 1, j)
        BY <2>4
      <3>3. Len(ChunkFrame(line, data)) # 0
        BY <3>1, <3>2, FrameNotEmpty
      <3> QED
        BY <3>1, <3>2, <3>3, EmptySeq
    <2>6. at[i] + 1 \in 1..p /\ at[j] \in 1..p
      <3>1. ~(at[j] < at[i] + 1)
        BY <2>2, <2>5, SubSeqEmpty
      <3> QED
        BY <2>2, <3>1
    <2>7. SubSeq(sent, at[i] + 1, at[j]) = SubSeq(pre, at[i] + 1, at[j])
      <3>1. PICK u \in 1..p, v \in 1..p : u = at[i] + 1 /\ v = at[j]
        BY <2>6
      <3>2. SubSeq(pre \o frame, u, v) = SubSeq(pre, u, v)
        BY <1>1, <1>2, SubSeqOfConcat1
      <3> QED
        BY <3>1, <3>2
    <2> QED
      BY <1>6, <1>7, <2>1, <2>3, <2>7
  <1>8. /\ b < b + t /\ b \in more \cup {0}
        /\ IsChunk(SubSeq(sent, at2[b] + 1, at2[b + t]), SubSeq(body, b + 1, b + t))
    <2>1. at2[b] = p /\ at2[b + t] = p + f
      BY <1>4, <1>5, <1>6
    <2>2. SubSeq(sent, p + 1, p + f) = frame
      <3>1. frame # <<>>
        BY <1>1, <1>2, EmptySeq
      <3> QED
        BY <1>1, <1>2, <3>1, SecondOfConcat
    <2>5. SubSeq(body, b + 1, b + t) = part
      BY <1>1, SecondOfConcat
    <2>6. IsChunk(frame, part)
      BY DEF IsChunk
    <2>7. IsChunk(SubSeq(sent, at2[b] + 1, at2[b + t]), SubSeq(body, b + 1, b + t))
      <3> HIDE DEF at2, more, sent, body
      <3> QED
        BY <2>1, <2>2, <2>5, <2>6
    <2>8. b < b + t
      BY <1>1
    <2>9. b \in more \cup {0}
      BY <1>4, <1>6
    <2> QED
      BY <2>7, <2>8, <2>9
  <1> HIDE DEF more, at2, sent, body
  <1>9. \A j \in more : \E i \in more \cup {0} :
          i < j /\ IsChunk(SubSeq(sent, at2[i] + 1, at2[j]), SubSeq(body, i + 1, j))
    BY <1>7, <1>8 DEF more
  <1>10. ChunksOf(sent, body)
    <2>1. PICK n, m, s, d, c, a : /\ n = b + t /\ m = p + f /\ s = sent /\ d = body
                                 /\ c = more /\ a = at2
      OBVIOUS
    <2>2. n = Len(d) /\ m = Len(s)
      BY <1>3, <2>1
    <2>3. c \in SUBSET (1..n) /\ a \in [c \cup {0} -> 0..m]
      BY <1>5, <2>1
    <2>4. a[0] = 0 /\ n \in c \cup {0} /\ a[n] = m
      BY <1>5, <2>1
    <2>5. \A j \in c : \E i \in c \cup {0} :
            i < j /\ IsChunk(SubSeq(s, a[i] + 1, a[j]), SubSeq(d, i + 1, j))
      BY <1>9, <2>1
    <2>6. ChunksOf(s, d)
      <3> c \in SUBSET (1..Len(d)) /\ a \in [c \cup {0} -> 0..Len(s)]
        BY <2>2, <2>3
      <3>2. a[0] = 0 /\ Len(d) \in c \cup {0} /\ a[Len(d)] = Len(s)
        BY <2>2, <2>4
      <3> USE DEF ChunksOf
      <3> WITNESS c \in SUBSET (1..Len(d))
      <3> WITNESS a \in [c \cup {0} -> 0..Len(s)]
      <3> QED
        BY <2>5, <3>2
    <2> QED
      BY <2>1, <2>6
  <1> QED
    BY <1>10 DEF sent, body

\* The last chunk.
LEMMA LastChunk ==
    ASSUME NEW pre \in Seq(Tokens), NEW body \in Seq(Tokens), ChunksOf(pre, body),
           NEW l \in SizeLines(0), NEW frame, frame = ChunkFrame(l, <<>>)
    PROVE  IsChunked(pre \o frame, body)
  <1> DEFINE sent == pre \o frame
  <1>1. <<>> \in Seq(Tokens) /\ Len(<<>>) = 0
    BY EmptySeq
  <1>2. frame \in Seq(Tokens) /\ Len(frame) \in Nat \ {0} /\ Len(pre) \in Nat
    BY <1>1, FrameNotEmpty, LenProperties
  <1>3. PICK p \in Nat, f \in Nat \ {0} : p = Len(pre) /\ f = Len(frame)
    BY <1>2
  <1>4. sent \in Seq(Tokens) /\ Len(sent) = p + f
    BY <1>2, <1>3, ConcatProperties
  <1>5. SubSeq(sent, p + 1, p + f) = frame
    BY <1>2, <1>3, SecondOfConcat
  <1>6. SubSeq(sent, 1, p) = pre
    BY <1>2, <1>3, FirstOfConcat
  <1>7. IsChunk(frame, <<>>)
    BY <1>1 DEF IsChunk
  <1>8. p \in 0..(p + f)
    BY <1>3
  <1> HIDE DEF sent
  <1>9. IsChunked(sent, body)
    BY <1>4, <1>5, <1>6, <1>7, <1>8 DEF IsChunked
  <1> QED
    BY <1>9 DEF sent

-----------------------------------------------------------------------------
(* The decoder *)

BodyStatuses == {"Ok", "Complete", "UnexpectedData", "TooLarge", "SinkRejected", "InvalidChunk",
                 "InvalidArgument", "Truncated"}
ChunkStates == {"ChunkSize", "ChunkSizeLf", "ChunkData", "ChunkDataCr", "ChunkDataLf",
                "FinalCr", "FinalLf"}
Decoders ==
    [state : ChunkStates \cup {"ContentLength", "Complete", "Failed"}, remaining : Nat,
     line : Seq(Tokens), sink : Seq(Tokens), max : Nat, status : BodyStatuses]

\* Whole chunks, pre, have brought base; of the next one its line l and part of its
\* data were taken, as far as the state says.
AtChunk(d, sent, pre, base, part, l) ==
    /\ ChunksOf(pre, base) /\ d.sink = base \o part
    /\ IF d.state = "ChunkSize"
       THEN part = <<>> /\ Len(d.line) <= LineBytes /\ sent = pre \o d.line
       ELSE d.line = <<>> /\ l \in SizeLines(Len(part) + d.remaining)
    /\ d.state = "ChunkSizeLf" => part = <<>> /\ sent = pre \o (l \o <<"cr">>)
    /\ d.state = "ChunkData" => d.remaining # 0
    /\ d.state \in {"ChunkDataCr", "ChunkDataLf"} => part # <<>> /\ d.remaining = 0
    /\ d.state \in {"FinalCr", "FinalLf"} => part = <<>> /\ d.remaining = 0
    /\ d.state \in {"ChunkData", "ChunkDataCr", "FinalCr"} => sent = pre \o ((l \o Crlf) \o part)
    /\ d.state \in {"ChunkDataLf", "FinalLf"} => sent = pre \o (((l \o Crlf) \o part) \o <<"cr">>)

\* What the decoder knows of the tokens it has taken.
Decoding(d, sent, h) ==
    /\ Len(d.sink) <= d.max /\ d.status = "Ok"
    /\ IF h.chunked
       THEN /\ d.state \in ChunkStates
            /\ \E pre, base, part, l \in Seq(Tokens) : AtChunk(d, sent, pre, base, part, l)
       ELSE /\ d.state = "ContentLength" /\ d.remaining # 0
            /\ sent = d.sink /\ Len(sent) + d.remaining = h.length

Delivered(d, sent, h) ==
    /\ Len(d.sink) <= d.max
    /\ IF h.chunked THEN IsChunked(sent, d.sink) ELSE sent = d.sink /\ Len(sent) = h.length

\* A token was read, or the body is refused.
Taken(w, d, sent, h) ==
    /\ w \in Decoders /\ w.max = d.max
    /\ IF w.state = "Failed" THEN w.status = "InvalidChunk" ELSE Decoding(w, sent, h)

-----------------------------------------------------------------------------

LEMMA Joined ==
    ASSUME NEW r \in Seq(Tokens), NEW s \in Seq(Tokens)
    PROVE  r \o s \in Seq(Tokens)
  BY ConcatProperties

\* The place of the brackets does not matter.
Regrouped(r, s, t) == (r \o s) \o t = r \o (s \o t)

LEMMA Regroup ==
    ASSUME NEW r \in Seq(Tokens), NEW s \in Seq(Tokens), NEW t \in Seq(Tokens)
    PROVE  Regrouped(r, s, t)
  BY ConcatAssociative DEF Regrouped

LEMMA CrlfParts == Crlf = <<"cr">> \o <<"lf">>
  <1>1. <<"cr">> \in Seq(Tokens) /\ <<"lf">> \in Seq(Tokens) /\ Crlf \in Seq(Tokens)
    BY DEF Tokens, Crlf
  <1>2. PICK cr \in Seq(Tokens), lf \in Seq(Tokens) :
          cr = <<"cr">> /\ lf = <<"lf">> /\ Len(cr) = 1 /\ Len(lf) = 1 /\ cr[1] = "cr" /\ lf[1] = "lf"
    BY <1>1
  <1>3. /\ cr \o lf \in Seq(Tokens) /\ Len(cr \o lf) = Len(cr) + Len(lf)
        /\ \A i \in 1..(Len(cr) + Len(lf)) :
             (cr \o lf)[i] = IF i <= Len(cr) THEN cr[i] ELSE lf[i - Len(cr)]
    BY <1>2, ConcatProperties
  <1>4. Len(Crlf) = 2 /\ Crlf[1] = "cr" /\ Crlf[2] = "lf"
    BY DEF Crlf
  <1>5. PICK s \in Seq(Tokens) : s = cr \o lf /\ Len(s) = 2 /\ s[1] = "cr" /\ s[2] = "lf"
    <2>1. PICK s \in Seq(Tokens) : s = cr \o lf
      BY <1>3
    <2>2. Len(s) = 2 /\ \A i \in 1..2 : s[i] = IF i <= 1 THEN cr[i] ELSE lf[i - 1]
      BY <1>2, <1>3, <2>1
    <2>3. s[1] = cr[1] /\ s[2] = lf[1]
      BY <2>2
    <2> QED
      BY <1>2, <2>1, <2>2, <2>3
  <1>6. PICK t \in Seq(Tokens) : t = Crlf /\ Len(t) = 2 /\ t[1] = "cr" /\ t[2] = "lf"
    BY <1>1, <1>4
  <1>7. \A i \in 1..Len(s) : s[i] = t[i]
    <2>1. \A i \in 1..2 : i = 1 \/ i = 2
      OBVIOUS
    <2> QED
      BY <1>5, <1>6, <2>1
  <1>8. s = t
    BY <1>5, <1>6, <1>7, SeqEqual
  <1> QED
    BY <1>2, <1>5, <1>6, <1>8

\* A token after the parts of what is there.
LEMMA AddToken ==
    ASSUME NEW pre \in Seq(Tokens), NEW s \in Seq(Tokens), NEW c \in Tokens
    PROVE  (pre \o s) \o <<c>> = pre \o (s \o <<c>>)
  <1>0. <<c>> \in Seq(Tokens)
    OBVIOUS
  <1>1. PICK t \in Seq(Tokens) : t = <<c>>
    BY <1>0
  <1>2. Regrouped(pre, s, t)
    BY Regroup
  <1> QED
    BY <1>1, <1>2 DEF Regrouped

LEMMA AddLf ==
    ASSUME NEW pre \in Seq(Tokens), NEW s \in Seq(Tokens)
    PROVE  (pre \o (s \o <<"cr">>)) \o <<"lf">> = pre \o (s \o Crlf)
  <1>0. <<"cr">> \in Seq(Tokens) /\ <<"lf">> \in Seq(Tokens)
    BY DEF Tokens
  <1>1. PICK cr \in Seq(Tokens), lf \in Seq(Tokens) : cr = <<"cr">> /\ lf = <<"lf">>
    BY <1>0
  <1>2. PICK crlf \in Seq(Tokens) : crlf = Crlf /\ crlf = cr \o lf
    BY <1>1, CrlfParts, Joined
  <1>3. PICK u \in Seq(Tokens) : u = s \o cr
    BY Joined
  <1>4. Regrouped(pre, u, lf) /\ Regrouped(s, cr, lf)
    BY Regroup
  <1> QED
    BY <1>1, <1>2, <1>3, <1>4 DEF Regrouped

LEMMA FailFields ==
    ASSUME NEW d \in Decoders, NEW s \in BodyStatuses, NEW w, w = Fail(d, s)
    PROVE  /\ w \in Decoders /\ w.state = "Failed" /\ w.status = s
           /\ w.max = d.max /\ w.sink = d.sink
  BY DEF Fail, Decoders

\* One token of data.
LEMMA TakeOne ==
    ASSUME NEW done \in Seq(Tokens), NEW data \in Seq(Tokens), data # <<>>,
           NEW c, c = Head(data), NEW rest, rest = Tail(data)
    PROVE  /\ c \in Tokens /\ <<c>> \in Seq(Tokens) /\ rest \in Seq(Tokens)
           /\ Len(rest) \in Nat /\ Len(data) = Len(rest) + 1
           /\ done \o <<c>> \in Seq(Tokens)
           /\ done \o data = (done \o <<c>>) \o rest
  <1>1. c \in Tokens /\ rest \in Seq(Tokens) /\ Len(rest) = Len(data) - 1
    BY HeadTailProperties
  <1>2. Len(data) \in Nat /\ Len(rest) \in Nat
    BY <1>1, LenProperties
  <1>3. <<c>> \in Seq(Tokens)
    BY <1>1
  <1>4. data = <<c>> \o rest
    <2>1. PICK n \in Nat \ {0} : n = Len(data)
      BY EmptySeq
    <2>2. SubSeq(data, 1, n) = <<data[1]>> \o SubSeq(data, 2, n)
      <3>1. 1 \in 1..n /\ n \in 1..n
        BY <2>1
      <3> QED
        BY <2>1, <3>1, SubSeqRecursiveFirst
    <2>3. SubSeq(data, 1, n) = data /\ SubSeq(data, 2, n) = rest
      BY <2>1, SubSeqFull, TailIsSubSeq
    <2>4. c = data[1]
      OBVIOUS
    <2> QED
      BY <2>2, <2>3, <2>4
  <1>5. done \o <<c>> \in Seq(Tokens)
    BY <1>3, ConcatProperties
  <1>6. (done \o <<c>>) \o rest = done \o (<<c>> \o rest)
    BY <1>1, <1>3, ConcatAssociative
  <1> QED
    BY <1>1, <1>2, <1>3, <1>4, <1>5, <1>6

\* A token of the line of a chunk.
LEMMA LineToken ==
    ASSUME NEW d \in Decoders, NEW done \in Seq(Tokens), NEW h, h.chunked,
           Decoding(d, done, h), d.state = "ChunkSize", NEW c \in Tokens,
           NEW w, w = ChunkLine(d, c)
    PROVE  Taken(w, d, done \o <<c>>, h)
  <1>1. PICK pre \in Seq(Tokens), base \in Seq(Tokens), part \in Seq(Tokens), l \in Seq(Tokens) :
          AtChunk(d, done, pre, base, part, l)
    BY DEF Decoding
  <1>2. /\ ChunksOf(pre, base) /\ d.sink = base \o part /\ part = <<>>
        /\ Len(d.line) <= LineBytes /\ done = pre \o d.line
        /\ Len(d.sink) <= d.max /\ d.status = "Ok"
    BY <1>1 DEF AtChunk, Decoding
  <1>3. d.line \in Seq(Tokens) /\ Len(d.line) \in Nat /\ <<c>> \in Seq(Tokens) /\ LineBytes \in Nat
    BY LenProperties, TransferAssumption DEF Decoders
  <1>4. done \o <<c>> = pre \o (d.line \o <<c>>)
    <2>1. PICK s \in Seq(Tokens) : s = d.line
      BY <1>3
    <2>2. (pre \o s) \o <<c>> = pre \o (s \o <<c>>)
      BY AddToken
    <2> QED
      BY <1>2, <2>1, <2>2
  <1>5. CASE w = Fail(d, "InvalidChunk")
    BY <1>5, FailFields DEF Taken, BodyStatuses
  <1>6. CASE w # Fail(d, "InvalidChunk") /\ c = "cr"
    <2>1. PICK n : n = ChunkSizeOf(d.line)
      OBVIOUS
    <2>2. d.line # <<>> /\ n # -1 /\ w = [d EXCEPT !.remaining = n, !.line = <<>>, !.state = "ChunkSizeLf"]
      BY <1>6, <2>1 DEF ChunkLine
    <2>3. Len(d.line) \in 1..LineBytes
      BY <1>2, <1>3, <2>2, EmptySeq
    <2>4. n \in Nat /\ d.line \in SizeLines(n)
      BY <1>3, <2>1, <2>2, <2>3, ValueOfLine
    <2>5. <<>> \in Seq(Tokens) /\ Len(<<>>) + n = n
      BY <2>4, EmptySeq
    <2>6. /\ w \in Decoders /\ w.state = "ChunkSizeLf" /\ w.remaining = n /\ w.line = <<>>
          /\ w.sink = d.sink /\ w.max = d.max /\ w.status = d.status
      BY <2>2, <2>4, <2>5 DEF Decoders, ChunkStates
    <2>7. AtChunk(w, done \o <<c>>, pre, base, part, d.line)
      BY <1>2, <1>4, <1>6, <2>4, <2>5, <2>6 DEF AtChunk
    <2>8. Decoding(w, done \o <<c>>, h)
      BY <1>2, <1>3, <2>6, <2>7 DEF Decoding, ChunkStates
    <2> QED
      BY <2>6, <2>8 DEF Taken
  <1>7. CASE w # Fail(d, "InvalidChunk") /\ c # "cr"
    <2>1. /\ w = [d EXCEPT !.line = Append(d.line, c)] /\ ~(Len(d.line) >= LineBytes)
      BY <1>7 DEF ChunkLine
    <2>2. PICK line \in Seq(Tokens) : line = Append(d.line, c) /\ Len(line) = Len(d.line) + 1
      <3>1. PICK s \in Seq(Tokens) : s = d.line
        BY <1>3
      <3>2. Append(s, c) \in Seq(Tokens) /\ Len(Append(s, c)) = Len(s) + 1
        BY AppendProperties
      <3> QED
        BY <3>1, <3>2
    <2>3. line = d.line \o <<c>>
      BY <1>3, <2>2, AppendIsConcat
    <2>4. /\ w \in Decoders /\ w.state = "ChunkSize" /\ w.line = line
          /\ w.sink = d.sink /\ w.max = d.max /\ w.status = d.status
      BY <2>1, <2>2 DEF Decoders
    <2>5. AtChunk(w, done \o <<c>>, pre, base, part, l)
      <3>1. Len(w.line) <= LineBytes
        BY <1>3, <2>1, <2>2, <2>4
      <3> QED
        BY <1>2, <1>4, <2>3, <2>4, <3>1 DEF AtChunk
    <2>6. Decoding(w, done \o <<c>>, h)
      BY <1>2, <2>4, <2>5 DEF Decoding, ChunkStates
    <2> QED
      BY <2>4, <2>6 DEF Taken
  <1> QED
    BY <1>5, <1>6, <1>7

\* A token that is to separate: the line feed after a line, what follows the data of
\* a chunk and the carriage return of the end.
LEMMA SeparatorToken ==
    ASSUME NEW d \in Decoders, NEW done \in Seq(Tokens), NEW h, h.chunked,
           Decoding(d, done, h), NEW c \in Tokens, NEW w, w = Separator(d, c),
           d.state \in {"ChunkSizeLf", "ChunkDataCr", "ChunkDataLf", "FinalCr"}
    PROVE  Taken(w, d, done \o <<c>>, h)
  <1>1. PICK pre \in Seq(Tokens), base \in Seq(Tokens), part \in Seq(Tokens), l \in Seq(Tokens) :
          AtChunk(d, done, pre, base, part, l)
    BY DEF Decoding
  <1>2. /\ ChunksOf(pre, base) /\ d.sink = base \o part
        /\ d.line = <<>> /\ l \in SizeLines(Len(part) + d.remaining)
        /\ Len(d.sink) <= d.max /\ d.status = "Ok"
    BY <1>1 DEF AtChunk, Decoding
  <1>3. <<c>> \in Seq(Tokens) /\ <<"cr">> \in Seq(Tokens) /\ <<"lf">> \in Seq(Tokens) /\ Crlf \in Seq(Tokens)
    BY DEF Tokens, Crlf
  <1>4. PICK head1 \in Seq(Tokens), chunk \in Seq(Tokens) : head1 = l \o Crlf /\ chunk = head1 \o part
    BY <1>3, ConcatProperties
  <1>5. CASE w = Fail(d, "InvalidChunk")
    BY <1>5, FailFields DEF Taken, BodyStatuses
  <1>6. CASE w # Fail(d, "InvalidChunk")
    <2>1. PICK st : st = AfterSeparator(d)
      OBVIOUS
    <2>2. w = [d EXCEPT !.state = st] /\ c = IF d.state \in {"ChunkDataCr", "FinalCr"} THEN "cr" ELSE "lf"
      BY <1>6, <2>1 DEF Separator
    <2>3. st \in ChunkStates /\ st # "Failed"
      BY <2>1 DEF AfterSeparator, ChunkStates
    <2>4. /\ w \in Decoders /\ w.state = st /\ w.remaining = d.remaining /\ w.line = <<>>
          /\ w.sink = d.sink /\ w.max = d.max /\ w.status = d.status
      BY <1>2, <2>2, <2>3 DEF Decoders
    <2>5. CASE d.state = "ChunkSizeLf"
      <3>1. part = <<>> /\ done = pre \o (l \o <<"cr">>) /\ c = "lf"
        BY <1>1, <2>2, <2>5 DEF AtChunk
      <3>2. done \o <<c>> = pre \o chunk
        <4>0. (pre \o (l \o <<"cr">>)) \o <<"lf">> = pre \o (l \o Crlf)
          BY AddLf
        <4>1. done \o <<c>> = pre \o (l \o Crlf)
          BY <3>1, <4>0
        <4>2. head1 \o part = head1
          BY <3>1, ConcatEmptySeq
        <4> QED
          BY <1>4, <4>1, <4>2
      <3>3. st = IF d.remaining = 0 THEN "FinalCr" ELSE "ChunkData"
        BY <2>1, <2>5 DEF AfterSeparator
      <3>4. AtChunk(w, done \o <<c>>, pre, base, part, l)
        BY <1>2, <1>4, <2>4, <3>1, <3>2, <3>3 DEF AtChunk
      <3>5. Decoding(w, done \o <<c>>, h)
        BY <1>2, <2>3, <2>4, <3>4 DEF Decoding
      <3> QED
        BY <2>3, <2>4, <3>5 DEF Taken
    <2>6. CASE d.state \in {"ChunkDataCr", "FinalCr"}
      <3>1. done = pre \o chunk /\ d.remaining = 0 /\ c = "cr"
        BY <1>1, <1>4, <2>2, <2>6 DEF AtChunk
      <3>2. (pre \o chunk) \o <<c>> = pre \o (chunk \o <<c>>)
        BY AddToken
      <3>3. st = IF d.state = "FinalCr" THEN "FinalLf" ELSE "ChunkDataLf"
        BY <2>1, <2>6 DEF AfterSeparator
      <3>4. (d.state = "FinalCr" => part = <<>>) /\ (d.state = "ChunkDataCr" => part # <<>>)
        BY <1>1 DEF AtChunk
      <3>5. AtChunk(w, done \o <<c>>, pre, base, part, l)
        BY <1>2, <1>4, <2>4, <2>6, <3>1, <3>2, <3>3, <3>4 DEF AtChunk
      <3>6. Decoding(w, done \o <<c>>, h)
        BY <1>2, <2>3, <2>4, <3>5 DEF Decoding
      <3> QED
        BY <2>3, <2>4, <3>6 DEF Taken
    <2>7. CASE d.state = "ChunkDataLf"
      <3>1. /\ done = pre \o (chunk \o <<"cr">>) /\ d.remaining = 0 /\ c = "lf" /\ part # <<>>
            /\ st = "ChunkSize"
        BY <1>1, <1>4, <2>1, <2>2, <2>7 DEF AtChunk, AfterSeparator
      <3>2. PICK frame \in Seq(Tokens) : frame = ChunkFrame(l, part)
        BY FrameIsTokens
      <3>3. done \o <<c>> = pre \o frame
        <4>0. (pre \o (chunk \o <<"cr">>)) \o <<"lf">> = pre \o (chunk \o Crlf)
          BY AddLf
        <4>1. done \o <<c>> = pre \o (chunk \o Crlf)
          BY <3>1, <4>0
        <4>2. frame = chunk \o Crlf
          BY <1>4, <3>2 DEF ChunkFrame
        <4> QED
          BY <4>1, <4>2
      <3>4. l \in SizeLines(Len(part))
        BY <1>2, <3>1, LenProperties
      <3>5. ChunksOf(pre \o frame, base \o part)
        BY <1>2, <3>1, <3>2, <3>4, MoreChunks
      <3>6. PICK pre2 \in Seq(Tokens), base2 \in Seq(Tokens) :
              pre2 = pre \o frame /\ base2 = base \o part
        BY ConcatProperties
      <3>7. base2 \o <<>> = base2 /\ pre2 \o <<>> = pre2 /\ <<>> \in Seq(Tokens) /\ Len(<<>>) = 0
        BY ConcatEmptySeq, EmptySeq
      <3>8. AtChunk(w, done \o <<c>>, pre2, base2, <<>>, l)
        <4>1. w.state = "ChunkSize" /\ w.line = <<>> /\ w.sink = base2 \o <<>> /\ ChunksOf(pre2, base2)
          BY <1>2, <2>4, <3>1, <3>5, <3>6, <3>7
        <4>2. done \o <<c>> = pre2 \o w.line
          BY <3>3, <3>6, <3>7, <4>1
        <4>3. Len(w.line) <= LineBytes
          BY <3>7, <4>1, TransferAssumption
        <4> QED
          BY <4>1, <4>2, <4>3 DEF AtChunk
      <3>9. Decoding(w, done \o <<c>>, h)
        BY <1>2, <2>3, <2>4, <3>7, <3>8 DEF Decoding
      <3> QED
        BY <2>3, <2>4, <3>9 DEF Taken
    <2> QED
      BY <2>5, <2>6, <2>7
  <1> QED
    BY <1>5, <1>6

LEMMA MinOfTwo ==
    ASSUME NEW m \in Nat, NEW n \in Nat, NEW k, k = Min({m, n})
    PROVE  k \in Nat /\ k <= m /\ k <= n /\ (k = m \/ k = n)
  <1>1. \E x \in {m, n} : \A y \in {m, n} : x =< y
    BY m <= n \/ n <= m
  <1>2. k \in {m, n} /\ \A y \in {m, n} : k =< y
    BY <1>1 DEF Min
  <1> QED
    BY <1>2

\* A segment in two pieces.
InPieces(data, k, first, rest) ==
    /\ first \in Seq(Tokens) /\ Len(first) = k
    /\ rest \in Seq(Tokens) /\ Len(rest) = Len(data) - k /\ Len(data) \in Nat
    /\ first \o rest = data

LEMMA Pieces ==
    ASSUME NEW data \in Seq(Tokens), NEW k \in Nat, k <= Len(data),
           NEW first, first = SubSeq(data, 1, k), NEW rest, rest = SubSeq(data, k + 1, Len(data))
    PROVE  InPieces(data, k, first, rest)
  <1>1. PICK n \in Nat : n = Len(data) /\ k <= n
    BY LenProperties
  <1>2. \A i \in 1..n : data[i] \in Tokens
    BY <1>1, ElementOfSeq
  <1>3. first \in Seq(Tokens) /\ Len(first) = k
    <2>1. \A i \in 1..k : data[i] \in Tokens
      BY <1>1, <1>2
    <2>2. first \in Seq(Tokens) /\ Len(first) = IF 1 <= k THEN k - 1 + 1 ELSE 0
      BY <2>1, SubSeqProperties
    <2> QED
      BY <2>2
  <1>4. rest \in Seq(Tokens) /\ Len(rest) = n - k
    <2>1. \A i \in (k + 1)..n : data[i] \in Tokens
      BY <1>1, <1>2
    <2>2. rest = SubSeq(data, k + 1, n) /\ k + 1 \in Int /\ n \in Int
      BY <1>1
    <2>3. rest \in Seq(Tokens) /\ Len(rest) = IF k + 1 <= n THEN n - (k + 1) + 1 ELSE 0
      BY <2>1, <2>2, SubSeqProperties
    <2> QED
      BY <1>1, <2>3
  <1>5. SubSeq(data, 1, k) \o SubSeq(data, k + 1, n) = SubSeq(data, 1, n)
    <2>1. 1 \in 1..(Len(data) + 1) /\ k \in (1 - 1)..Len(data) /\ n \in k..Len(data)
      BY <1>1
    <2> QED
      BY <2>1, ConcatAdjacentSubSeq
  <1>6. SubSeq(data, 1, n) = data
    BY <1>1, SubSeqFull
  <1> QED
    BY <1>1, <1>3, <1>4, <1>5, <1>6 DEF InPieces

\* What two writes have written.
LEMMA FirstAndMore ==
    ASSUME NEW data \in Seq(Tokens), data # <<>>, NEW k \in Nat, k + 1 <= Len(data)
    PROVE  /\ <<Head(data)>> \in Seq(Tokens) /\ Len(<<Head(data)>>) = 1
           /\ SubSeq(data, 2, k + 1) \in Seq(Tokens) /\ Len(SubSeq(data, 2, k + 1)) = k
           /\ <<Head(data)>> \o SubSeq(data, 2, k + 1) = SubSeq(data, 1, k + 1)
  <1>1. PICK n \in Nat : n = Len(data) /\ k + 1 <= n
    BY LenProperties
  <1>2. \A i \in 2..(k + 1) : data[i] \in Tokens
    BY <1>1, ElementOfSeq
  <1>3. /\ SubSeq(data, 2, k + 1) \in Seq(Tokens)
        /\ Len(SubSeq(data, 2, k + 1)) = IF 2 <= k + 1 THEN (k + 1) - 2 + 1 ELSE 0
    <2>1. 2 \in Int /\ k + 1 \in Int
      OBVIOUS
    <2> QED
      BY <1>2, <2>1, SubSeqProperties
  <1>4. SubSeq(data, 1, k + 1) = <<data[1]>> \o SubSeq(data, 2, k + 1)
    <2>1. 1 \in 1..Len(data) /\ k + 1 \in 1..Len(data)
      BY <1>1
    <2> QED
      BY <2>1, SubSeqRecursiveFirst
  <1>5. Head(data) = data[1] /\ Head(data) \in Tokens
    BY HeadTailProperties
  <1> QED
    BY <1>3, <1>4, <1>5

\* A write fails for a reason, or its bytes are in the sink.
Written(w, d, data) ==
    /\ w \in Decoders /\ w.max = d.max
    /\ IF w.state = "Failed" THEN w.status \in {"TooLarge", "SinkRejected"}
       ELSE /\ w.sink = d.sink \o data /\ Len(w.sink) = Len(d.sink) + Len(data) /\ Len(w.sink) <= d.max
            /\ w.remaining = d.remaining - Len(data)
            /\ w.state = d.state /\ w.line = d.line /\ w.status = d.status

LEMMA WriteData ==
    ASSUME NEW d \in Decoders, NEW data \in Seq(Tokens), NEW takes,
           Len(data) <= d.remaining, Len(d.sink) <= d.max, d.state # "Failed",
           NEW w, w = Write(d, data, takes)
    PROVE  Written(w, d, data)
  <1>1. /\ d.sink \in Seq(Tokens) /\ d.remaining \in Nat /\ d.max \in Nat
        /\ Len(data) \in Nat /\ Len(d.sink) \in Nat
    BY LenProperties DEF Decoders
  <1>2. CASE w = Fail(d, "TooLarge")
    BY <1>2, FailFields DEF Written, BodyStatuses
  <1>3. CASE w = Fail(d, "SinkRejected")
    BY <1>3, FailFields DEF Written, BodyStatuses
  <1>4. CASE w # Fail(d, "TooLarge") /\ w # Fail(d, "SinkRejected")
    <2>1. PICK s \in Seq(Tokens) : s = d.sink \o data /\ Len(s) = Len(d.sink) + Len(data)
      <3>1. PICK a \in Seq(Tokens) : a = d.sink
        BY <1>1
      <3>2. a \o data \in Seq(Tokens) /\ Len(a \o data) = Len(a) + Len(data)
        BY ConcatProperties
      <3> QED
        BY <3>1, <3>2
    <2>2. PICK r \in Nat : r = d.remaining - Len(data)
      BY <1>1
    <2>3. /\ w = [d EXCEPT !.sink = s, !.remaining = r]
          /\ ~(Len(data) > d.max - Len(d.sink))
      BY <1>4, <2>1, <2>2 DEF Write
    <2>4. /\ w \in Decoders /\ w.sink = s /\ w.remaining = r /\ w.max = d.max
          /\ w.state = d.state /\ w.line = d.line /\ w.status = d.status
      BY <2>3 DEF Decoders
    <2>5. Len(s) <= d.max
      BY <1>1, <2>1, <2>3
    <2> QED
      BY <2>1, <2>2, <2>4, <2>5 DEF Written
  <1> QED
    BY <1>2, <1>3, <1>4

\* Chunk data: some of it is written, at once or in two writes.
ChunkWritten(w, d, data) ==
    /\ w \in Decoders /\ w.max = d.max
    /\ IF w.state = "Failed" THEN w.status \in {"TooLarge", "SinkRejected"}
       ELSE \E k \in Nat \ {0} :
              /\ k <= Len(data) /\ k <= d.remaining /\ w.remaining = d.remaining - k
              /\ w.sink = d.sink \o SubSeq(data, 1, k)
              /\ Len(w.sink) = Len(d.sink) + k /\ Len(w.sink) <= d.max
              /\ w.state = IF w.remaining = 0 THEN "ChunkDataCr" ELSE "ChunkData"
              /\ w.line = d.line /\ w.status = d.status

LEMMA ChunkDataWrites ==
    ASSUME NEW d \in Decoders, NEW data \in Seq(Tokens), data # <<>>, NEW takes,
           d.remaining # 0, Len(d.sink) <= d.max, d.state = "ChunkData",
           NEW w, w = ChunkData(d, data, takes)
    PROVE  ChunkWritten(w, d, data)
  <1>1. PICK n \in Nat \ {0} : n = Len(data)
    BY LenProperties, EmptySeq
  <1>2. d.sink \in Seq(Tokens) /\ d.remaining \in Nat /\ d.max \in Nat /\ Len(d.sink) \in Nat
    BY LenProperties DEF Decoders
  <1>3. PICK first : first = Write(d, <<Head(data)>>, takes)
    OBVIOUS
  <1>4. PICK a \in Seq(Tokens) : a = <<Head(data)>> /\ Len(a) = 1 /\ a = SubSeq(data, 1, 1)
    <2>1. 0 + 1 <= Len(data) /\ 0 \in Nat /\ 0 + 1 = 1
      BY <1>1
    <2>2. /\ <<Head(data)>> \in Seq(Tokens) /\ Len(<<Head(data)>>) = 1
          /\ <<Head(data)>> \o SubSeq(data, 2, 1) = SubSeq(data, 1, 1)
      BY <2>1, FirstAndMore
    <2>3. SubSeq(data, 2, 1) = <<>>
      BY SubSeqEmpty
    <2>4. PICK b \in Seq(Tokens) : b = <<Head(data)>>
      BY <2>2
    <2>5. b \o <<>> = b
      BY ConcatEmptySeq
    <2> QED
      BY <2>2, <2>3, <2>4, <2>5
  <1>5. Written(first, d, a)
    <2>1. Len(a) <= d.remaining /\ d.state # "Failed"
      BY <1>2, <1>4
    <2> QED
      BY <1>3, <1>4, <2>1, WriteData
  <1>6. PICK more : more = Min({first.remaining, n - 1})
    OBVIOUS
  <1>7. PICK all : all = IF first.state = "Failed" \/ more = 0 THEN first
                         ELSE Write(first, SubSeq(data, 2, more + 1), takes)
    OBVIOUS
  <1>8. w = IF all.state # "Failed" /\ all.remaining = 0 THEN [all EXCEPT !.state = "ChunkDataCr"] ELSE all
    BY <1>1, <1>3, <1>6, <1>7 DEF ChunkData
  <1>9. CASE first.state = "Failed"
    BY <1>5, <1>7, <1>8, <1>9 DEF Written, ChunkWritten
  <1>10. CASE first.state # "Failed"
    <2>1. /\ first \in Decoders /\ first.max = d.max /\ first.sink = d.sink \o a
          /\ Len(first.sink) = Len(d.sink) + 1 /\ Len(first.sink) <= d.max
          /\ first.remaining = d.remaining - 1 /\ first.remaining \in Nat
          /\ first.state = "ChunkData" /\ first.line = d.line /\ first.status = d.status
      <3>1. /\ first \in Decoders /\ first.max = d.max /\ first.sink = d.sink \o a
            /\ Len(first.sink) = Len(d.sink) + Len(a) /\ Len(first.sink) <= d.max
            /\ first.remaining = d.remaining - Len(a)
            /\ first.state = d.state /\ first.line = d.line /\ first.status = d.status
        BY <1>5, <1>10 DEF Written
      <3>2. first.remaining \in Nat
        BY <3>1 DEF Decoders
      <3> QED
        BY <1>4, <3>1, <3>2
    <2>2. more \in Nat /\ more <= first.remaining /\ more <= n - 1
      <3>0. first.remaining \in Nat /\ n - 1 \in Nat
        BY <1>1, <2>1
      <3>1. PICK p \in Nat, q \in Nat : p = first.remaining /\ q = n - 1
        BY <3>0
      <3>2. more = Min({p, q})
        BY <1>6, <3>1
      <3> QED
        BY <3>1, <3>2, MinOfTwo
    <2>3. PICK k \in Nat \ {0} : k = more + 1 /\ k <= n /\ k <= d.remaining
      BY <1>1, <1>2, <2>1, <2>2
    <2>4. \/ all \in Decoders /\ all.max = d.max /\ all.state = "Failed"
             /\ all.status \in {"TooLarge", "SinkRejected"}
          \/ /\ all \in Decoders /\ all.max = d.max /\ all.state = "ChunkData"
             /\ all.remaining = d.remaining - k /\ all.sink = d.sink \o SubSeq(data, 1, k)
             /\ Len(all.sink) = Len(d.sink) + k /\ Len(all.sink) <= d.max
             /\ all.line = d.line /\ all.status = d.status
      <3>1. CASE more = 0
        <4>1. all = first /\ k = 1
          BY <1>7, <1>10, <2>3, <3>1
        <4> QED
          BY <1>4, <2>1, <4>1
      <3>2. CASE more # 0
        <4>0. PICK b \in Seq(Tokens) : /\ b = SubSeq(data, 2, more + 1) /\ Len(b) = more
                                       /\ a \o b = SubSeq(data, 1, k)
          <5>1. more + 1 <= Len(data)
            BY <1>1, <2>3
          <5>2. /\ SubSeq(data, 2, more + 1) \in Seq(Tokens) /\ Len(SubSeq(data, 2, more + 1)) = more
                /\ <<Head(data)>> \o SubSeq(data, 2, more + 1) = SubSeq(data, 1, more + 1)
            BY <2>2, <5>1, FirstAndMore
          <5> QED
            BY <1>4, <2>3, <5>2
        <4>1. all = Write(first, b, takes)
          BY <1>7, <1>10, <3>2, <4>0
        <4>2. Written(all, first, b)
          <5>1. Len(b) <= first.remaining /\ Len(first.sink) <= first.max /\ first.state # "Failed"
            BY <2>1, <2>2, <4>0
          <5> QED
            BY <2>1, <4>1, <5>1, WriteData
        <4>3. CASE all.state = "Failed"
          BY <2>1, <4>2, <4>3 DEF Written
        <4>4. CASE all.state # "Failed"
          <5>1. all.sink = first.sink \o b
            BY <4>2, <4>4 DEF Written
          <5>2. PICK s \in Seq(Tokens) : s = d.sink
            BY <1>2
          <5>3. Regrouped(s, a, b)
            BY Regroup
          <5>4. all.sink = d.sink \o SubSeq(data, 1, k)
            BY <2>1, <4>0, <5>1, <5>2, <5>3 DEF Regrouped
          <5>5. /\ all \in Decoders /\ all.max = d.max /\ all.state = "ChunkData"
                /\ all.remaining = first.remaining - more /\ Len(all.sink) = Len(first.sink) + more
                /\ Len(all.sink) <= d.max /\ all.line = d.line /\ all.status = d.status
            BY <2>1, <4>0, <4>2, <4>4 DEF Written
          <5>6. all.remaining = d.remaining - k /\ Len(all.sink) = Len(d.sink) + k
            <6>1. all.remaining = first.remaining - more /\ first.remaining = d.remaining - 1
              BY <2>1, <5>5
            <6>2. Len(all.sink) = Len(first.sink) + more /\ Len(first.sink) = Len(d.sink) + 1
              BY <2>1, <5>5
            <6>3. more \in Nat /\ k = more + 1 /\ d.remaining \in Nat /\ Len(d.sink) \in Nat
              BY <1>2, <2>2, <2>3
            <6>4. \A x, y \in Nat : (x - 1) - y = x - (y + 1) /\ (x + 1) + y = x + (y + 1)
              OBVIOUS
            <6>5. /\ (d.remaining - 1) - more = d.remaining - (more + 1)
                  /\ (Len(d.sink) + 1) + more = Len(d.sink) + (more + 1)
              BY <6>3, <6>4, Zenon
            <6> QED
              BY <6>1, <6>2, <6>3, <6>5, Zenon
          <5> QED
            BY <5>4, <5>5, <5>6
        <4> QED
          BY <4>3, <4>4
      <3> QED
        BY <3>1, <3>2
    <2>5. CASE all.state = "Failed"
      BY <1>8, <2>4, <2>5 DEF ChunkWritten
    <2>6. CASE all.state # "Failed" /\ all.remaining = 0
      <3>1. w = [all EXCEPT !.state = "ChunkDataCr"]
        BY <1>8, <2>6
      <3>2. /\ w \in Decoders /\ w.max = all.max /\ w.state = "ChunkDataCr" /\ w.remaining = all.remaining
            /\ w.sink = all.sink /\ w.line = all.line /\ w.status = all.status
        BY <2>4, <3>1 DEF Decoders, ChunkStates
      <3> QED
        BY <1>1, <2>3, <2>4, <2>6, <3>2 DEF ChunkWritten
    <2>7. CASE all.state # "Failed" /\ all.remaining # 0
      BY <1>1, <1>8, <2>3, <2>4, <2>7 DEF ChunkWritten
    <2> QED
      BY <2>5, <2>6, <2>7
  <1> QED
    BY <1>9, <1>10

\* What holds of a decoder that has been given sent.
Got(d, sent, h) ==
    /\ d \in Decoders
    /\ d.state = "Failed" => d.status \notin {"Ok", "Complete"}
    /\ d.state = "Complete" /\ d.status \in {"Ok", "Complete"} => Delivered(d, sent, h)
    /\ d.state \notin {"Failed", "Complete"} => Decoding(d, sent, h)

\* In the loop of Feed: what is not left of all has been taken.
Reached(f, all, h) ==
    \E done \in Seq(Tokens) :
        /\ Got(f.decoder, done, h)
        /\ f.decoder.state # "Failed" => f.rest \in Seq(Tokens) /\ all = done \o f.rest
        /\ f.decoder.state = "Complete" => f.rest = <<>>

Stepped(f, d, data, all, h) ==
    /\ Reached(f, all, h) /\ f.decoder.max = d.max
    /\ f.decoder.state = "Failed" \/ (Len(f.rest) \in Nat /\ Len(f.rest) < Len(data))

LEMMA FedFields ==
    ASSUME NEW w, NEW rest, NEW f, f = Fed(w, rest)
    PROVE  f.decoder = w /\ f.rest = rest
  BY DEF Fed

\* A token taken by one of the states that read tokens.
LEMMA TokenStep ==
    ASSUME NEW d, NEW done \in Seq(Tokens), NEW h, NEW data \in Seq(Tokens), data # <<>>,
           NEW w, Taken(w, d, done \o <<Head(data)>>, h), NEW f, f = Fed(w, Tail(data))
    PROVE  Stepped(f, d, data, done \o data, h)
  <1>1. PICK c, rest : c = Head(data) /\ rest = Tail(data)
    OBVIOUS
  <1>2. /\ rest \in Seq(Tokens) /\ Len(rest) \in Nat /\ Len(data) = Len(rest) + 1
        /\ done \o <<c>> \in Seq(Tokens) /\ done \o data = (done \o <<c>>) \o rest
    BY <1>1, TakeOne
  <1>3. PICK done2 \in Seq(Tokens) : done2 = done \o <<c>>
    BY <1>2
  <1>4. f.decoder = w /\ f.rest = rest
    BY <1>1, FedFields
  <1>5. Taken(w, d, done2, h)
    BY <1>1, <1>3
  <1>6. w \in Decoders /\ w.max = d.max
    BY <1>5 DEF Taken
  <1>7. Got(w, done2, h) /\ w.state # "Complete"
    <2>1. CASE w.state = "Failed"
      BY <1>5, <2>1 DEF Taken, Got
    <2>2. CASE w.state # "Failed"
      <3>1. Decoding(w, done2, h)
        BY <1>5, <2>2 DEF Taken
      <3>2. w.state # "Complete"
        BY <3>1 DEF Decoding, ChunkStates
      <3> QED
        BY <1>6, <2>2, <3>1, <3>2 DEF Got
    <2> QED
      BY <2>1, <2>2
  <1>8. done \o data = done2 \o rest
    BY <1>2, <1>3
  <1>9. Reached(f, done \o data, h)
    BY <1>2, <1>3, <1>4, <1>7, <1>8 DEF Reached
  <1>10. Len(rest) < Len(data)
    BY <1>2
  <1> QED
    BY <1>2, <1>4, <1>6, <1>9, <1>10 DEF Stepped

\* The line feed of the end.
LEMMA FinalStep ==
    ASSUME NEW d \in Decoders, NEW done \in Seq(Tokens), NEW h, h.chunked,
           Decoding(d, done, h), d.state = "FinalLf",
           NEW data \in Seq(Tokens), data # <<>>, NEW f,
           f = Fed(IF Head(data) # "lf" THEN Fail(d, "InvalidChunk") ELSE Complete(d, Tail(data)), <<>>)
    PROVE  Stepped(f, d, data, done \o data, h)
  <1>1. PICK c, rest : c = Head(data) /\ rest = Tail(data)
    OBVIOUS
  <1>2. /\ rest \in Seq(Tokens) /\ Len(rest) \in Nat /\ Len(data) = Len(rest) + 1
        /\ done \o <<c>> \in Seq(Tokens) /\ done \o data = (done \o <<c>>) \o rest
    BY <1>1, TakeOne
  <1>3. PICK all \in Seq(Tokens) : all = done \o data
    BY ConcatProperties
  <1>4. <<>> \in Seq(Tokens) /\ Len(<<>>) = 0 /\ Len(<<>>) < Len(data) /\ all \o <<>> = all
    BY <1>2, ConcatEmptySeq, EmptySeq
  <1>5. CASE c # "lf"
    <2>1. f.decoder = Fail(d, "InvalidChunk")
      BY <1>1, <1>5, FedFields
    <2>2. /\ f.decoder \in Decoders /\ f.decoder.state = "Failed" /\ f.decoder.status = "InvalidChunk"
          /\ f.decoder.max = d.max
      BY <2>1, FailFields DEF BodyStatuses
    <2>3. Got(f.decoder, done, h)
      BY <2>2 DEF Got
    <2> QED
      BY <2>2, <2>3 DEF Stepped, Reached
  <1>6. CASE c = "lf"
    <2>1. PICK w : w = Complete(d, rest)
      OBVIOUS
    <2>2. f.decoder = w /\ f.rest = <<>>
      BY <1>1, <1>6, <2>1, FedFields
    <2>3. PICK st \in BodyStatuses : /\ st = IF rest = <<>> THEN "Complete" ELSE "UnexpectedData"
                                     /\ w = [d EXCEPT !.state = "Complete", !.status = st]
      BY <2>1 DEF Complete, BodyStatuses
    <2>4. /\ w \in Decoders /\ w.state = "Complete" /\ w.status = st
          /\ w.sink = d.sink /\ w.max = d.max
      BY <2>3 DEF Decoders
    <2>5. ASSUME st \in {"Ok", "Complete"} PROVE Delivered(w, all, h)
      <3>1. rest = <<>>
        BY <2>3, <2>5
      <3>2. PICK pre \in Seq(Tokens), base \in Seq(Tokens), part \in Seq(Tokens), l \in Seq(Tokens) :
              AtChunk(d, done, pre, base, part, l)
        BY DEF Decoding
      <3>3. /\ ChunksOf(pre, base) /\ d.sink = base \o part /\ part = <<>> /\ d.remaining = 0
            /\ l \in SizeLines(Len(part) + d.remaining)
            /\ done = pre \o (((l \o Crlf) \o part) \o <<"cr">>)
        BY <3>2 DEF AtChunk
      <3>4. PICK chunk \in Seq(Tokens) : chunk = (l \o Crlf) \o part
        <4>1. Crlf \in Seq(Tokens)
          BY DEF Crlf, Tokens
        <4> QED
          BY <4>1, Joined
      <3>5. (pre \o (chunk \o <<"cr">>)) \o <<"lf">> = pre \o (chunk \o Crlf)
        BY AddLf
      <3>6. PICK frame : frame = ChunkFrame(l, part)
        OBVIOUS
      <3>7. frame = chunk \o Crlf
        BY <3>4, <3>6 DEF ChunkFrame
      <3>8. all = pre \o frame
        <4>1. PICK s \in Seq(Tokens) : s = done \o <<c>>
          BY <1>2
        <4>2. s \o <<>> = s
          BY ConcatEmptySeq
        <4> QED
          BY <1>2, <1>3, <1>6, <3>1, <3>3, <3>4, <3>5, <3>7, <4>1, <4>2
      <3>9. l \in SizeLines(0) /\ frame = ChunkFrame(l, <<>>)
        BY <1>4, <3>3, <3>6
      <3>10. IsChunked(pre \o frame, base)
        BY <3>3, <3>9, LastChunk
      <3>11. d.sink = base
        BY <3>3, ConcatEmptySeq
      <3>12. Len(d.sink) <= d.max
        BY DEF Decoding
      <3> QED
        BY <2>4, <3>8, <3>10, <3>11, <3>12 DEF Delivered
    <2>6. Got(w, all, h)
      BY <2>4, <2>5 DEF Got
    <2>7. Reached(f, all, h)
      BY <1>4, <2>2, <2>6 DEF Reached
    <2> QED
      BY <1>3, <1>4, <2>2, <2>4, <2>7 DEF Stepped
  <1> QED
    BY <1>5, <1>6

\* A piece of a body of a known length.
LEMMA LengthStep ==
    ASSUME NEW d \in Decoders, NEW done \in Seq(Tokens), NEW h, ~h.chunked,
           Decoding(d, done, h), NEW data \in Seq(Tokens), data # <<>>, NEW takes,
           NEW f, f = FeedStep(d, data, takes)
    PROVE  Stepped(f, d, data, done \o data, h)
  <1>1. PICK n0 \in Nat \ {0} : n0 = Len(data)
    BY LenProperties, EmptySeq
  <1>2. /\ d.state = "ContentLength" /\ d.remaining \in Nat \ {0} /\ d.status = "Ok"
        /\ done = d.sink /\ Len(done) + d.remaining = h.length /\ Len(d.sink) <= d.max
        /\ Len(done) \in Nat
    BY LenProperties DEF Decoding, Decoders
  <1>3. PICK n : n = Min({Len(data), d.remaining})
    OBVIOUS
  <1>4. n \in Nat \ {0} /\ n <= n0 /\ n <= d.remaining
    <2>1. PICK p \in Nat \ {0}, q \in Nat \ {0} : p = Len(data) /\ q = d.remaining
      BY <1>1, <1>2
    <2>2. n = Min({p, q})
      BY <1>3, <2>1
    <2>3. n \in Nat /\ n <= p /\ n <= q /\ (n = p \/ n = q)
      BY <2>1, <2>2, MinOfTwo
    <2> QED
      BY <1>1, <2>1, <2>3
  <1>5. PICK first, rest : first = SubSeq(data, 1, n) /\ rest = SubSeq(data, n + 1, Len(data))
    OBVIOUS
  <1>6. /\ first \in Seq(Tokens) /\ Len(first) = n /\ rest \in Seq(Tokens)
        /\ Len(rest) = Len(data) - n /\ first \o rest = data
    <2>1. n \in Nat /\ n <= Len(data)
      BY <1>1, <1>4
    <2>2. InPieces(data, n, first, rest)
      BY <1>5, <2>1, Pieces
    <2> QED
      BY <2>2 DEF InPieces
  <1>7. PICK w : w = Write(d, first, takes)
    OBVIOUS
  <1>8. f = IF w.state # "Failed" /\ w.remaining = 0 THEN Fed(Complete(w, rest), <<>>) ELSE Fed(w, rest)
    BY <1>2, <1>3, <1>5, <1>7 DEF FeedStep
  <1>9. Written(w, d, first)
    BY <1>2, <1>4, <1>6, <1>7, WriteData
  <1>10. PICK done2 \in Seq(Tokens) : done2 = done \o first /\ Len(done2) = Len(done) + n
    BY <1>6, ConcatProperties
  <1>11. done \o data = done2 \o rest
    <2>0. first \in Seq(Tokens) /\ rest \in Seq(Tokens)
      BY <1>6
    <2>1. Regrouped(done, first, rest)
      BY <2>0, Regroup
    <2> QED
      BY <1>6, <1>10, <2>1 DEF Regrouped
  <1>12. Len(rest) \in Nat /\ Len(rest) < Len(data)
    BY <1>1, <1>4, <1>6
  <1>13. CASE w.state = "Failed"
    <2>1. f.decoder = w
      BY <1>8, <1>13, FedFields
    <2>2. w \in Decoders /\ w.max = d.max /\ w.status \in {"TooLarge", "SinkRejected"}
      BY <1>9, <1>13 DEF Written
    <2>3. Got(w, done, h)
      BY <1>13, <2>2 DEF Got
    <2> QED
      BY <1>13, <2>1, <2>2, <2>3 DEF Stepped, Reached
  <1>14. CASE w.state # "Failed" /\ w.remaining # 0
    <2>1. f.decoder = w /\ f.rest = rest
      BY <1>8, <1>14, FedFields
    <2>2. /\ w \in Decoders /\ w.max = d.max /\ w.sink = done2 /\ Len(w.sink) <= w.max
          /\ w.remaining = d.remaining - n /\ w.state = "ContentLength" /\ w.status = "Ok"
      BY <1>2, <1>6, <1>9, <1>10, <1>14 DEF Written
    <2>3. Len(done2) + w.remaining = h.length
      <3>1. PICK r \in Nat, m \in Nat : r = d.remaining /\ m = Len(done)
        BY <1>2
      <3>2. Len(done2) = m + n /\ w.remaining = r - n /\ m + r = h.length
        BY <1>2, <1>10, <2>2, <3>1
      <3> QED
        BY <1>4, <3>2
    <2>4. Got(w, done2, h)
      BY <1>14, <2>2, <2>3 DEF Got, Decoding
    <2>5. Reached(f, done \o data, h)
      BY <1>6, <1>10, <1>11, <2>1, <2>2, <2>4 DEF Reached
    <2> QED
      BY <1>12, <2>1, <2>2, <2>5 DEF Stepped
  <1>15. CASE w.state # "Failed" /\ w.remaining = 0
    <2>1. PICK v : v = Complete(w, rest)
      OBVIOUS
    <2>2. f.decoder = v /\ f.rest = <<>>
      BY <1>8, <1>15, <2>1, FedFields
    <2>3. /\ w \in Decoders /\ w.max = d.max /\ w.sink = done2 /\ Len(w.sink) <= w.max
          /\ 0 = d.remaining - n
      BY <1>2, <1>6, <1>9, <1>10, <1>15 DEF Written
    <2>4. PICK st \in BodyStatuses : /\ st = IF rest = <<>> THEN "Complete" ELSE "UnexpectedData"
                                     /\ v = [w EXCEPT !.state = "Complete", !.status = st]
      BY <2>1 DEF Complete, BodyStatuses
    <2>5. /\ v \in Decoders /\ v.state = "Complete" /\ v.status = st
          /\ v.sink = w.sink /\ v.max = w.max
      BY <2>3, <2>4 DEF Decoders
    <2>6. PICK all \in Seq(Tokens) : all = done \o data
      BY ConcatProperties
    <2>7. <<>> \in Seq(Tokens) /\ Len(<<>>) = 0 /\ all \o <<>> = all /\ done2 \o <<>> = done2
      BY <1>10, ConcatEmptySeq, EmptySeq
    <2>8. ASSUME st \in {"Ok", "Complete"} PROVE Delivered(v, all, h)
      <3>1. rest = <<>>
        BY <2>4, <2>8
      <3>2. all = done2
        BY <1>11, <2>6, <2>7, <3>1
      <3>3. Len(done2) = h.length
        <4>1. d.remaining = n
          BY <1>2, <1>4, <2>3
        <4> QED
          BY <1>2, <1>10, <4>1
      <3> QED
        BY <2>3, <2>5, <3>2, <3>3 DEF Delivered
    <2>9. Got(v, all, h)
      BY <2>5, <2>8 DEF Got
    <2>10. Reached(f, all, h)
      BY <2>2, <2>7, <2>9 DEF Reached
    <2>11. Len(<<>>) < Len(data)
      BY <1>1, <2>7
    <2> QED
      BY <2>2, <2>3, <2>5, <2>6, <2>7, <2>10, <2>11 DEF Stepped
  <1> QED
    BY <1>13, <1>14, <1>15

\* A piece of the data of a chunk.
LEMMA DataStep ==
    ASSUME NEW d \in Decoders, NEW done \in Seq(Tokens), NEW h, h.chunked,
           Decoding(d, done, h), d.state = "ChunkData",
           NEW data \in Seq(Tokens), data # <<>>, NEW takes, NEW f, f = FeedStep(d, data, takes)
    PROVE  Stepped(f, d, data, done \o data, h)
  <1>1. PICK n0 \in Nat \ {0} : n0 = Len(data)
    BY LenProperties, EmptySeq
  <1>2. PICK pre \in Seq(Tokens), base \in Seq(Tokens), part \in Seq(Tokens), l \in Seq(Tokens) :
          AtChunk(d, done, pre, base, part, l)
    BY DEF Decoding
  <1>3. /\ ChunksOf(pre, base) /\ d.sink = base \o part /\ d.line = <<>>
        /\ l \in SizeLines(Len(part) + d.remaining) /\ d.remaining # 0
        /\ done = pre \o ((l \o Crlf) \o part)
    BY <1>2 DEF AtChunk
  <1>4. /\ d.remaining \in Nat /\ Len(d.sink) <= d.max /\ d.status = "Ok" /\ Len(part) \in Nat
        /\ d.sink \in Seq(Tokens) /\ Len(d.sink) \in Nat
    BY <1>2, LenProperties DEF Decoding, Decoders
  <1>5. PICK w : w = ChunkData(d, data, takes)
    OBVIOUS
  <1>6. f = Fed(w, SubSeq(data, Len(w.sink) - Len(d.sink) + 1, Len(data)))
    BY <1>5 DEF FeedStep
  <1>7. /\ w \in Decoders /\ w.max = d.max
        /\ IF w.state = "Failed" THEN w.status \in {"TooLarge", "SinkRejected"}
           ELSE \E k \in Nat \ {0} :
                  /\ k <= Len(data) /\ k <= d.remaining /\ w.remaining = d.remaining - k
                  /\ w.sink = d.sink \o SubSeq(data, 1, k)
                  /\ Len(w.sink) = Len(d.sink) + k /\ Len(w.sink) <= d.max
                  /\ w.state = IF w.remaining = 0 THEN "ChunkDataCr" ELSE "ChunkData"
                  /\ w.line = d.line /\ w.status = d.status
    <2>1. d.remaining # 0 /\ Len(d.sink) <= d.max
      BY <1>3, <1>4
    <2>2. ChunkWritten(w, d, data)
      BY <1>5, <2>1, ChunkDataWrites
    <2> QED
      BY <2>2 DEF ChunkWritten
  <1>8. CASE w.state = "Failed"
    <2>1. f.decoder = w
      BY <1>6 DEF Fed
    <2>2. Got(w, done, h)
      BY <1>7, <1>8 DEF Got
    <2> QED
      BY <1>7, <1>8, <2>1, <2>2 DEF Stepped, Reached
  <1>9. CASE w.state # "Failed"
    <2>1. PICK k \in Nat \ {0} :
            /\ k <= Len(data) /\ k <= d.remaining /\ w.remaining = d.remaining - k
            /\ w.sink = d.sink \o SubSeq(data, 1, k)
            /\ Len(w.sink) = Len(d.sink) + k /\ Len(w.sink) <= d.max
            /\ w.state = IF w.remaining = 0 THEN "ChunkDataCr" ELSE "ChunkData"
            /\ w.line = d.line /\ w.status = d.status
      BY <1>7, <1>9
    <2>2. PICK first, rest : first = SubSeq(data, 1, k) /\ rest = SubSeq(data, k + 1, Len(data))
      OBVIOUS
    <2>3. /\ first \in Seq(Tokens) /\ Len(first) = k /\ rest \in Seq(Tokens)
          /\ Len(rest) = Len(data) - k /\ first \o rest = data
      <3>1. k \in Nat /\ k <= Len(data)
        BY <2>1
      <3>2. InPieces(data, k, first, rest)
        BY <2>2, <3>1, Pieces
      <3> QED
        BY <3>2 DEF InPieces
    <2>4. Len(w.sink) - Len(d.sink) + 1 = k + 1
      <3>1. PICK m \in Nat : m = Len(d.sink)
        BY <1>4
      <3>2. (m + k) - m + 1 = k + 1
        BY <2>1, <3>1
      <3> QED
        BY <2>1, <3>1, <3>2
    <2>5. f.decoder = w /\ f.rest = rest
      <3>1. f = Fed(w, rest)
        BY <1>6, <2>2, <2>4
      <3> QED
        BY <3>1, FedFields
    <2>6. PICK part2 \in Seq(Tokens) : part2 = part \o first /\ Len(part2) = Len(part) + k
      BY <1>2, <2>3, ConcatProperties
    <2>7. PICK done2 \in Seq(Tokens) : done2 = done \o first
      BY <2>3, ConcatProperties
    <2>8. done \o data = done2 \o rest
      <3>0. first \in Seq(Tokens) /\ rest \in Seq(Tokens)
        BY <2>3
      <3>1. Regrouped(done, first, rest)
        BY <3>0, Regroup
      <3> QED
        BY <2>3, <2>7, <3>1 DEF Regrouped
    <2>9. w.sink = base \o part2
      <3>0. base \in Seq(Tokens) /\ part \in Seq(Tokens) /\ first \in Seq(Tokens)
        BY <1>2, <2>3
      <3>1. Regrouped(base, part, first)
        BY <3>0, Regroup
      <3> QED
        BY <1>3, <2>1, <2>2, <2>6, <3>1 DEF Regrouped
    <2>10. PICK line \in Seq(Tokens) : line = l \o Crlf
      <3>1. Crlf \in Seq(Tokens)
        BY DEF Crlf, Tokens
      <3> QED
        BY <1>2, <3>1, Joined
    <2>11. done2 = pre \o (line \o part2)
      <3>1. PICK chunk \in Seq(Tokens) : chunk = line \o part
        BY <1>2, <2>10, Joined
      <3>0. /\ pre \in Seq(Tokens) /\ chunk \in Seq(Tokens) /\ line \in Seq(Tokens)
            /\ part \in Seq(Tokens) /\ first \in Seq(Tokens)
        BY <1>2, <2>3, <2>10, <3>1
      <3>2. Regrouped(pre, chunk, first)
        BY <3>0, Regroup
      <3>3. Regrouped(line, part, first)
        BY <3>0, Regroup
      <3> QED
        BY <1>3, <2>6, <2>7, <2>10, <3>1, <3>2, <3>3 DEF Regrouped
    <2>12. l \in SizeLines(Len(part2) + w.remaining)
      <3>1. PICK m \in Nat, r \in Nat : m = Len(part) /\ r = d.remaining
        BY <1>4
      <3>2. (m + k) + (r - k) = m + r
        <4>1. \A x, y, z \in Nat : (x + y) + (z - y) = x + z
          OBVIOUS
        <4>2. m \in Nat /\ k \in Nat /\ r \in Nat
          BY <2>1, <3>1
        <4> QED
          BY <4>1, <4>2, Zenon
      <3> QED
        BY <1>3, <2>1, <2>6, <3>1, <3>2
    <2>13. part2 # <<>>
      BY <1>4, <2>1, <2>6, EmptySeq
    <2>14. AtChunk(w, done2, pre, base, part2, l)
      BY <1>3, <2>1, <2>9, <2>10, <2>11, <2>12, <2>13 DEF AtChunk
    <2>15. Got(w, done2, h)
      <3>1. w.state \in ChunkStates /\ w.state \notin {"Failed", "Complete"}
        BY <2>1 DEF ChunkStates
      <3>2. Decoding(w, done2, h)
        BY <1>2, <1>4, <1>7, <2>1, <2>6, <2>14, <3>1 DEF Decoding
      <3> QED
        BY <1>7, <3>1, <3>2 DEF Got
    <2>16. Reached(f, done \o data, h)
      <3>1. w.state # "Complete"
        BY <2>1
      <3> QED
        BY <2>3, <2>5, <2>7, <2>8, <2>15, <3>1 DEF Reached
    <2>17. Len(rest) \in Nat /\ Len(rest) < Len(data)
      BY <1>1, <2>1, <2>3
    <2> QED
      BY <1>7, <2>5, <2>16, <2>17 DEF Stepped
  <1> QED
    BY <1>8, <1>9

\* One iteration of the loop of Feed.
LEMMA FeedStepTakes ==
    ASSUME NEW d \in Decoders, NEW done \in Seq(Tokens), NEW h, h.chunked \in BOOLEAN,
           Decoding(d, done, h), NEW data \in Seq(Tokens), data # <<>>, NEW takes,
           NEW f, f = FeedStep(d, data, takes)
    PROVE  Stepped(f, d, data, done \o data, h)
  <1>1. CASE ~h.chunked
    BY <1>1, LengthStep
  <1>2. CASE h.chunked
    <2>0. d.state \in ChunkStates
      BY <1>2 DEF Decoding
    <2>1. CASE d.state = "ChunkData"
      BY <1>2, <2>1, DataStep
    <2>2. CASE d.state = "FinalLf"
      <3>1. f = Fed(IF Head(data) # "lf" THEN Fail(d, "InvalidChunk") ELSE Complete(d, Tail(data)), <<>>)
        BY <2>2 DEF FeedStep
      <3> QED
        BY <1>2, <2>2, <3>1, FinalStep
    <2>3. PICK c \in Tokens : c = Head(data)
      BY HeadTailProperties
    <2>4. CASE d.state = "ChunkSize"
      <3>1. PICK w : w = ChunkLine(d, c)
        OBVIOUS
      <3>2. f = Fed(w, Tail(data))
        BY <2>3, <2>4, <3>1 DEF FeedStep
      <3>3. Taken(w, d, done \o <<c>>, h)
        BY <1>2, <2>3, <2>4, <3>1, LineToken
      <3>4. Taken(w, d, done \o <<Head(data)>>, h)
        BY <2>3, <3>3
      <3> QED
        BY <3>2, <3>4, TokenStep
    <2>5. CASE d.state \in {"ChunkSizeLf", "ChunkDataCr", "ChunkDataLf", "FinalCr"}
      <3>1. PICK w : w = Separator(d, c)
        OBVIOUS
      <3>2. f = Fed(w, Tail(data))
        BY <2>3, <2>5, <3>1 DEF FeedStep
      <3>3. Taken(w, d, done \o <<c>>, h)
        BY <1>2, <2>3, <2>5, <3>1, SeparatorToken
      <3>4. Taken(w, d, done \o <<Head(data)>>, h)
        BY <2>3, <3>3
      <3> QED
        BY <3>2, <3>4, TokenStep
    <2> QED
      BY <2>0, <2>1, <2>2, <2>4, <2>5 DEF ChunkStates
  <1> QED
    BY <1>1, <1>2

\* After n iterations at least n tokens are taken, if the loop still runs.
LoopInv(f, n, max, all, h, size) ==
    /\ Reached(f, all, h) /\ f.decoder.max = max
    /\ \/ f.decoder.state = "Failed"
       \/ f.rest = <<>>
       \/ f.rest \in Seq(Tokens) /\ Len(f.rest) \in Nat /\ Len(f.rest) + n <= size

LEMMA LoopKeeps ==
    ASSUME NEW f, NEW n \in Nat, NEW max, NEW all, NEW h, h.chunked \in BOOLEAN, NEW size \in Nat,
           LoopInv(f, n, max, all, h, size), NEW takes, NEW g, g = FeedNext(f, takes)
    PROVE  LoopInv(g, n + 1, max, all, h, size)
  <1>1. CASE f.rest = <<>> \/ f.decoder.state = "Failed"
    <2>1. g = f
      BY <1>1 DEF FeedNext
    <2> QED
      BY <1>1, <2>1 DEF LoopInv
  <1>2. CASE f.rest # <<>> /\ f.decoder.state # "Failed"
    <2>1. PICK d, data : d = f.decoder /\ data = f.rest
      OBVIOUS
    <2>2. /\ data \in Seq(Tokens) /\ data # <<>> /\ Len(data) \in Nat /\ Len(data) + n <= size
          /\ d.max = max
      BY <1>2, <2>1 DEF LoopInv
    <2>3. PICK done \in Seq(Tokens) :
            /\ Got(d, done, h) /\ all = done \o data /\ d.state # "Complete" /\ d.state # "Failed"
      BY <1>2, <2>1 DEF LoopInv, Reached
    <2>4. d \in Decoders /\ Decoding(d, done, h)
      BY <2>3 DEF Got
    <2>5. g = FeedStep(d, data, takes)
      BY <1>2, <2>1 DEF FeedNext
    <2>6. Stepped(g, d, data, done \o data, h)
      BY <2>2, <2>3, <2>4, <2>5, FeedStepTakes
    <2>7. /\ Reached(g, all, h) /\ g.decoder.max = max
          /\ g.decoder.state = "Failed" \/ (Len(g.rest) \in Nat /\ Len(g.rest) < Len(data))
      BY <2>2, <2>3, <2>6 DEF Stepped
    <2>8. g.decoder.state = "Failed" \/ g.rest \in Seq(Tokens)
      BY <2>7 DEF Reached
    <2>9. g.decoder.state # "Failed" => Len(g.rest) \in Nat /\ Len(g.rest) + (n + 1) <= size
      <3> SUFFICES ASSUME g.decoder.state # "Failed"
                   PROVE  Len(g.rest) \in Nat /\ Len(g.rest) + (n + 1) <= size
        OBVIOUS
      <3>1. PICK p \in Nat, q \in Nat : p = Len(g.rest) /\ q = Len(data) /\ p < q /\ q + n <= size
        BY <2>2, <2>7
      <3>2. p + (n + 1) <= size
        <4>1. \A x, y, z, u \in Nat : x < y /\ y + z <= u => x + (z + 1) <= u
          OBVIOUS
        <4> QED
          BY <3>1, <4>1, Zenon
      <3> QED
        BY <3>1, <3>2
    <2> QED
      BY <2>7, <2>8, <2>9 DEF LoopInv
  <1> QED
    BY <1>1, <1>2

LEMMA FeedRestGets ==
    ASSUME NEW d \in Decoders, NEW done \in Seq(Tokens), NEW h, h.chunked \in BOOLEAN,
           Decoding(d, done, h), d.state \notin {"Failed", "Complete"},
           NEW data \in Seq(Tokens), NEW takes, NEW w, w = FeedRest(d, data, takes)
    PROVE  Got(w, done \o data, h) /\ w.max = d.max
  <1>1. PICK size \in Nat : size = Len(data)
    BY LenProperties
  <1>2. PICK all \in Seq(Tokens) : all = done \o data
    BY ConcatProperties
  <1>3. PICK loop : loop = FeedLoop(d, data, takes)
    OBVIOUS
  <1>4. IsLoop(loop, d, data, takes, size)
    BY <1>1, <1>3, LoopEquation
  <1>5. \A n \in 0..size : loop[n] = IF n = 0 THEN Fed(d, data) ELSE FeedNext(loop[n - 1], takes)
    BY <1>4 DEF IsLoop
  <1>6. LoopInv(loop[0], 0, d.max, all, h, size)
    <2>1. PICK f : f = Fed(d, data) /\ f = loop[0]
      BY <1>1, <1>5
    <2>2. f.decoder = d /\ f.rest = data
      BY <2>1 DEF Fed
    <2>3. Got(d, done, h)
      BY DEF Got
    <2>4. Reached(f, all, h)
      BY <1>2, <2>2, <2>3 DEF Reached
    <2>5. Len(data) \in Nat /\ Len(data) + 0 <= size
      BY <1>1
    <2> QED
      BY <2>1, <2>2, <2>4, <2>5 DEF LoopInv
  <1> DEFINE T == {n \in 0..size : ~LoopInv(loop[n], n, d.max, all, h, size)}
  <1>7. T = {}
    <2> SUFFICES ASSUME T # {} PROVE FALSE
      OBVIOUS
    <2>1. PICK m \in T : \A n \in T : m <= n
      <3>1. T \in SUBSET Nat
        OBVIOUS
      <3> HIDE DEF T
      <3> QED
        BY <3>1, LeastNatural
    <2>2. m \in 0..size /\ m # 0 /\ ~LoopInv(loop[m], m, d.max, all, h, size)
      BY <1>6, <2>1
    <2>3. PICK n \in Nat : n = m - 1 /\ n \in 0..size /\ m = n + 1
      BY <2>2
    <2>4. LoopInv(loop[n], n, d.max, all, h, size)
      BY <2>1, <2>2, <2>3
    <2>5. PICK f, g : f = loop[n] /\ g = loop[m] /\ g = FeedNext(f, takes)
      BY <1>5, <2>2, <2>3
    <2>6. LoopInv(g, n + 1, d.max, all, h, size)
      <3> HIDE DEF T
      <3>1. LoopInv(f, n, d.max, all, h, size)
        BY <2>4, <2>5
      <3> QED
        BY <2>5, <3>1, LoopKeeps
    <2> QED
      BY <2>2, <2>3, <2>5, <2>6
  <1>8. PICK f : f = loop[size] /\ w = f.decoder
    BY <1>1, <1>3 DEF FeedRest
  <1>9. LoopInv(f, size, d.max, all, h, size)
    BY <1>1, <1>7, <1>8
  <1> HIDE DEF T
  <1>10. w.state = "Failed" \/ f.rest = <<>>
    <2>1. ASSUME f.rest \in Seq(Tokens), Len(f.rest) \in Nat, Len(f.rest) + size <= size
          PROVE  f.rest = <<>>
      <3>1. Len(f.rest) = 0
        BY <1>1, <2>1
      <3> QED
        BY <2>1, <3>1, EmptySeq
    <2> QED
      BY <1>8, <1>9, <2>1 DEF LoopInv
  <1>11. PICK done2 \in Seq(Tokens) :
           Got(w, done2, h) /\ (w.state # "Failed" => all = done2 \o f.rest)
    BY <1>8, <1>9 DEF LoopInv, Reached
  <1>12. w.max = d.max
    BY <1>8, <1>9 DEF LoopInv
  <1>13. CASE w.state = "Failed"
    BY <1>2, <1>11, <1>12, <1>13 DEF Got
  <1>14. CASE w.state # "Failed"
    <2>1. all = done2
      <3>1. done2 \o <<>> = done2
        BY <1>11, ConcatEmptySeq
      <3> QED
        BY <1>10, <1>11, <1>14, <3>1
    <2> QED
      BY <1>2, <1>11, <1>12, <2>1
  <1> QED
    BY <1>13, <1>14

\* The first segment of a body.
LEMMA FirstFeed ==
    ASSUME NEW h, h.chunked \in BOOLEAN, h.length \in Nat, NEW max \in Nat,
           NEW data \in Seq(Tokens), NEW takes, NEW w, w = Feed(NewDecoder(h, max), data, takes)
    PROVE  Got(w, data, h) /\ w.max = max
  <1>1. PICK d : d = NewDecoder(h, max)
    OBVIOUS
  <1>2. d \in Decoders
    <2>1. PICK e \in Seq(Tokens) : e = <<>>
      BY EmptySeq
    <2>2. PICK s \in ChunkStates \cup {"ContentLength", "Complete", "Failed"} :
            s = IF h.chunked THEN "ChunkSize" ELSE IF h.length > max THEN "Failed"
                ELSE IF h.length = 0 THEN "Complete" ELSE "ContentLength"
      BY DEF ChunkStates
    <2>3. PICK r \in Nat, ok \in BodyStatuses : r = (IF h.chunked THEN 0 ELSE h.length) /\ ok = "Ok"
      BY DEF BodyStatuses
    <2>4. d = [state |-> s, remaining |-> r, line |-> e, sink |-> e, max |-> max, status |-> ok]
      BY <1>1, <2>1, <2>2, <2>3 DEF NewDecoder
    <2> QED
      BY <2>1, <2>2, <2>3, <2>4 DEF Decoders
  <1>3. /\ d \in Decoders /\ d.sink = <<>> /\ d.line = <<>> /\ d.max = max /\ d.status = "Ok"
        /\ d.state = (IF h.chunked THEN "ChunkSize"
                      ELSE IF h.length > max THEN "Failed"
                      ELSE IF h.length = 0 THEN "Complete" ELSE "ContentLength")
        /\ (~h.chunked => d.remaining = h.length)
    BY <1>1, <1>2 DEF NewDecoder
  <1>4. <<>> \in Seq(Tokens) /\ Len(<<>>) = 0 /\ <<>> \o data = data /\ <<>> \o <<>> = <<>>
    BY EmptySeq, ConcatEmptySeq
  <1>5. CASE d.state = "Failed"
    <2>1. w = [d EXCEPT !.status = "InvalidArgument"]
      BY <1>1, <1>5 DEF Feed
    <2>2. w \in Decoders /\ w.state = "Failed" /\ w.status = "InvalidArgument" /\ w.max = max
      BY <1>3, <1>5, <2>1 DEF Decoders, BodyStatuses
    <2> QED
      BY <2>2 DEF Got
  <1>6. CASE d.state = "Complete"
    <2>1. w = Complete(d, data)
      BY <1>1, <1>6 DEF Feed
    <2>2. PICK s \in BodyStatuses : /\ s = IF data = <<>> THEN "Complete" ELSE "UnexpectedData"
                                    /\ w = [d EXCEPT !.state = "Complete", !.status = s]
      BY <2>1 DEF Complete, BodyStatuses
    <2>3. /\ w \in Decoders /\ w.state = "Complete" /\ w.status = s
          /\ w.sink = <<>> /\ w.max = max
      BY <1>3, <2>2 DEF Decoders
    <2>4. ~h.chunked /\ h.length = 0
      BY <1>3, <1>6
    <2>5. ASSUME s \in {"Ok", "Complete"} PROVE Delivered(w, data, h)
      <3>1. data = <<>>
        BY <2>2, <2>5
      <3> QED
        BY <1>4, <2>3, <2>4, <3>1 DEF Delivered
    <2> QED
      BY <2>3, <2>5 DEF Got
  <1>7. CASE d.state \notin {"Failed", "Complete"}
    <2>1. w = FeedRest(d, data, takes)
      BY <1>1, <1>7 DEF Feed
    <2>2. Decoding(d, <<>>, h)
      <3>1. CASE h.chunked
        <4>1. AtChunk(d, <<>>, <<>>, <<>>, <<>>, <<>>)
          BY <1>3, <1>4, <3>1, NoChunks, TransferAssumption DEF AtChunk
        <4>2. \E pre, base, part, l \in Seq(Tokens) : AtChunk(d, <<>>, pre, base, part, l)
          <5>1. PICK e \in Seq(Tokens) : e = <<>>
            BY <1>4
          <5>2. AtChunk(d, <<>>, e, e, e, e)
            BY <4>1, <5>1
          <5> QED
            BY <5>2
        <4>3. Len(d.sink) <= d.max /\ d.status = "Ok" /\ d.state \in ChunkStates
          BY <1>3, <1>4, <3>1 DEF ChunkStates
        <4> QED
          BY <3>1, <4>2, <4>3 DEF Decoding
      <3>2. CASE ~h.chunked
        BY <1>3, <1>4, <1>7, <3>2 DEF Decoding
      <3> QED
        BY <3>1, <3>2
    <2>3. Got(w, <<>> \o data, h) /\ w.max = d.max
      <3>1. PICK e \in Seq(Tokens) : e = <<>>
        BY <1>4
      <3>2. Decoding(d, e, h)
        BY <2>2, <3>1
      <3>3. Got(w, e \o data, h) /\ w.max = d.max
        BY <1>3, <1>7, <2>1, <3>2, FeedRestGets
      <3> QED
        BY <3>1, <3>3
    <2> QED
      BY <1>3, <1>4, <2>3
  <1> QED
    BY <1>5, <1>6, <1>7

\* The request being answered: what its decoder has made of the response so far.
AnswerInv ==
    pc \in {"judge", "body"} =>
        /\ head \in Heads /\ received \in Seq(Tokens)
        /\ decoder.max = req.max /\ Got(decoder, received, head)
        /\ pc = "body" => decoder.state \notin {"Failed", "Complete"}

HttpInv ==
    /\ req \in Requests /\ AnswerInv
    /\ pc = "stored" => status # "Ok"
    /\ DeliveredExactly

\* A segment of the connection.
LEMMA SegmentIsTokens ==
    ASSUME NEW data \in Segments
    PROVE  data \in Seq(Tokens)
  <1>1. PICK n \in 0..MaxSegment : data \in [1..n -> Tokens]
    BY DEF Segments
  <1>2. n \in Nat
    BY <1>1
  <1> QED
    BY <1>1, <1>2, SeqDef

\* A request that ends without its body reports so.
LEMMA ReturnKeeps ==
    ASSUME HttpInv, NEW s, Return(s), s # "Ok"
    PROVE  HttpInv'
  BY DEF HttpInv, AnswerInv, Return, DeliveredExactly

\* A step that leaves the request's arguments, and is neither at a body nor at rest
\* after it.
LEMMA OnTheWay ==
    ASSUME HttpInv, UNCHANGED req, pc' \notin {"judge", "body", "stored", "idle"}
    PROVE  HttpInv'
  BY DEF HttpInv, AnswerInv, DeliveredExactly

LEMMA RedirectKeeps ==
    ASSUME HttpInv, NEW h, Redirect(h)
    PROVE  HttpInv'
  <1>1. CASE \E s \in {"RedirectRejected", "TooManyRedirects"} : Return(s)
    BY <1>1, ReturnKeeps
  <1>2. CASE pc' = "authorize" /\ UNCHANGED req
    BY <1>2, OnTheWay
  <1> QED
    BY <1>1, <1>2 DEF Redirect

LEMMA ReceiveHeadKeeps ==
    ASSUME HttpInv, ReceiveHead
    PROVE  HttpInv'
  <1>1. PICK h \in Heads :
          IF ~HeadAccepted(h) THEN Return("HeaderInvalid")
          ELSE IF IsRedirectStatus(h.status) THEN Redirect(h)
          ELSE IF h.status # 200 THEN Return("UnexpectedStatus")
          ELSE \E data \in Segments, takes \in BOOLEAN :
            /\ head' = h /\ headSegments' = 0 /\ received' = data
            /\ decoder' = Feed(NewDecoder(h, req.max), data, takes)
            /\ pc' = "judge"
            /\ UNCHANGED <<req, url, hop, stream, cancelRequested, status>>
    BY DEF ReceiveHead
  <1>2. CASE \E s \in {"HeaderInvalid", "UnexpectedStatus"} : Return(s)
    BY <1>2, ReturnKeeps
  <1>3. CASE Redirect(h)
    BY <1>3, RedirectKeeps
  <1>4. ASSUME NEW data \in Segments, NEW takes \in BOOLEAN,
               head' = h, received' = data, decoder' = Feed(NewDecoder(h, req.max), data, takes),
               pc' = "judge", UNCHANGED req
        PROVE  HttpInv'
    <2>1. data \in Seq(Tokens)
      BY SegmentIsTokens
    <2>2. PICK max \in Nat : max = req.max
      BY TransferAssumption DEF HttpInv
    <2>3. h.chunked \in BOOLEAN /\ h.length \in Nat
      BY <1>1, TransferAssumption
    <2>4. PICK w : w = decoder' /\ w = Feed(NewDecoder(h, max), data, takes)
      BY <1>4, <2>2
    <2>5. Got(w, data, h) /\ w.max = max
      BY <2>1, <2>3, <2>4, FirstFeed
    <2>6. Got(w, received', head')
      BY <1>4, <2>5
    <2>7. AnswerInv'
      BY <1>1, <1>4, <2>1, <2>2, <2>4, <2>5, <2>6 DEF AnswerInv, Got
    <2> QED
      BY <1>4, <2>7 DEF HttpInv, DeliveredExactly
  <1> QED
    BY <1>1, <1>2, <1>3, <1>4

LEMMA ReceiveBodyKeeps ==
    ASSUME HttpInv, ReceiveBody
    PROVE  HttpInv'
  <1>1. PICK data \in Segments, takes \in BOOLEAN :
          received' = received \o data /\ decoder' = Feed(decoder, data, takes)
    BY DEF ReceiveBody
  <1>2. pc = "body" /\ pc' = "judge" /\ UNCHANGED <<req, head>>
    BY DEF ReceiveBody
  <1>3. PICK d, done, h : d = decoder /\ done = received /\ h = head
    OBVIOUS
  <1>4. /\ h \in Heads /\ done \in Seq(Tokens) /\ d.max = req.max /\ Got(d, done, h)
        /\ d.state \notin {"Failed", "Complete"}
    BY <1>2, <1>3 DEF HttpInv, AnswerInv
  <1>5. h.chunked \in BOOLEAN /\ d \in Decoders /\ Decoding(d, done, h)
    BY <1>4, TransferAssumption DEF Got
  <1>6. data \in Seq(Tokens)
    BY <1>1, SegmentIsTokens
  <1>7. PICK w : w = FeedRest(d, data, takes) /\ w = decoder'
    BY <1>1, <1>3, <1>4 DEF Feed
  <1>8. Got(w, done \o data, h) /\ w.max = d.max
    <2>1. w = FeedRest(d, data, takes) /\ d.state \notin {"Failed", "Complete"} /\ done \in Seq(Tokens)
      BY <1>4, <1>7
    <2> QED
      BY <1>5, <1>6, <2>1, FeedRestGets
  <1>9. Got(decoder', received', head') /\ decoder'.max = req'.max
    BY <1>1, <1>2, <1>3, <1>4, <1>7, <1>8
  <1>10. received' \in Seq(Tokens) /\ head' \in Heads
    <2>1. done \o data \in Seq(Tokens)
      BY <1>4, <1>6, ConcatProperties
    <2> QED
      BY <1>1, <1>2, <1>3, <1>4, <2>1
  <1> QED
    BY <1>2, <1>9, <1>10 DEF HttpInv, AnswerInv, DeliveredExactly

LEMMA JudgeKeeps ==
    ASSUME HttpInv, Judge
    PROVE  HttpInv'
  <1>1. /\ pc = "judge" /\ decoder.max = req.max /\ Got(decoder, received, head) /\ req \in Requests
        /\ head \in Heads
    BY DEF HttpInv, AnswerInv, Judge
  <1>2. CASE decoder.status \notin {"Ok", "Complete"}
    <2>1. Return("BodyInvalid")
      BY <1>2 DEF Judge
    <2> QED
      BY <2>1, ReturnKeeps
  <1>3. CASE decoder.status \in {"Ok", "Complete"} /\ decoder.state = "Complete"
    <2>1. Return("Ok")
      BY <1>3 DEF Judge
    <2>2. Delivered(decoder, received, head)
      BY <1>1, <1>3 DEF Got
    <2>3. /\ pc' = "idle" /\ UNCHANGED <<req, head, decoder, received>>
      BY <2>1 DEF Return
    <2>4. DeliveredExactly'
      BY <1>1, <2>2, <2>3 DEF DeliveredExactly, Delivered
    <2> QED
      BY <2>3, <2>4 DEF HttpInv, AnswerInv
  <1>4. CASE decoder.status \in {"Ok", "Complete"} /\ decoder.state # "Complete"
    <2>1. pc' = "body" /\ UNCHANGED <<req, head, decoder, received, status>>
      BY <1>4 DEF Judge
    <2>2. decoder.state # "Failed"
      BY <1>1, <1>4 DEF Got
    <2> QED
      BY <1>1, <1>4, <2>1, <2>2 DEF HttpInv, AnswerInv, DeliveredExactly
  <1> QED
    BY <1>2, <1>3, <1>4

LEMMA HttpStepKeeps ==
    ASSUME HttpInv, HttpNext
    PROVE  HttpInv'
  <1>1. ASSUME HttpsRequest PROVE HttpInv'
    <2>1. req' \in Requests /\ pc' = "authorize"
      BY <1>1 DEF HttpsRequest
    <2> QED
      BY <2>1 DEF HttpInv, AnswerInv, DeliveredExactly
  <1>2. ASSUME PressCancel PROVE HttpInv'
    BY <1>2 DEF PressCancel, HttpInv, AnswerInv, DeliveredExactly
  <1>3. ASSUME Canceled PROVE HttpInv'
    BY <1>3, ReturnKeeps DEF Canceled
  <1>4. ASSUME Authorize PROVE HttpInv'
    <2>1. CASE \E s \in {"UrlRejected", "RedirectRejected"} : Return(s)
      BY <2>1, ReturnKeeps
    <2>2. CASE pc' = "connect" /\ UNCHANGED req
      BY <2>2, OnTheWay
    <2> QED
      BY <1>4, <2>1, <2>2 DEF Authorize
  <1>5. ASSUME ConnectVerified PROVE HttpInv'
    BY <1>5, OnTheWay DEF ConnectVerified
  <1>6. ASSUME ConnectFails PROVE HttpInv'
    BY <1>6, ReturnKeeps DEF ConnectFails
  <1>7. ASSUME SendAll PROVE HttpInv'
    BY <1>7, OnTheWay DEF SendAll
  <1>8. ASSUME SendFails PROVE HttpInv'
    BY <1>8, ReturnKeeps DEF SendFails
  <1>9. ASSUME ReceiveHeadPart PROVE HttpInv'
    <2>1. CASE Return("HeaderInvalid")
      BY <2>1, ReturnKeeps
    <2>2. CASE pc' = "head" /\ UNCHANGED req
      BY <2>2, OnTheWay
    <2> QED
      BY <1>9, <2>1, <2>2 DEF ReceiveHeadPart
  <1>10. ASSUME ReceiveFails PROVE HttpInv'
    BY <1>10, ReturnKeeps DEF ReceiveFails
  <1>11. ASSUME ReceiveHead PROVE HttpInv'
    BY <1>11, ReceiveHeadKeeps
  <1>12. ASSUME ReceiveBody PROVE HttpInv'
    BY <1>12, ReceiveBodyKeeps
  <1>13. ASSUME BodyEnds PROVE HttpInv'
    BY <1>13 DEF BodyEnds, HttpInv, AnswerInv, DeliveredExactly
  <1>14. ASSUME Judge PROVE HttpInv'
    BY <1>14, JudgeKeeps
  <1> QED
    BY <1>1, <1>2, <1>3, <1>4, <1>5, <1>6, <1>7, <1>8, <1>9, <1>10, <1>11, <1>12, <1>13, <1>14 DEF HttpNext

LEMMA IntakeKeepsHttp ==
    ASSUME HttpInv, [Next]_vars
    PROVE  HttpInv'
  <1>1. CASE HttpNext
    BY <1>1, HttpStepKeeps
  <1>2. CASE UNCHANGED httpVars
    BY <1>2 DEF httpVars, HttpInv, AnswerInv, DeliveredExactly
  <1>3. CASE FinishDownload
    BY <1>3 DEF FinishDownload, HttpInv, AnswerInv, DeliveredExactly
  <1>4. CASE PublishArchive
    BY <1>4 DEF PublishArchive, HttpInv, AnswerInv, DeliveredExactly
  <1> QED
    BY <1>1, <1>2, <1>3, <1>4 DEF Next, RemoveArchive, vars

-----------------------------------------------------------------------------
(* The theorems *)

LEMMA IntakeKeepsZip ==
    ASSUME ZipInv, [Next]_vars
    PROVE  ZipInv'
  <1>1. [ZipNext \/ ArchiveStored \/ ArchiveRemoved]_zipVars
    BY DEF Next, FinishDownload, PublishArchive, RemoveArchive, vars
  <1> QED
    BY <1>1, ZipStepKeeps

\* The inductive invariant of the reader (ZipReader::Open, StreamFile, ExtractOne),
\* whatever is downloaded, stored and discarded around it.
THEOREM ZipInvariant == Spec => []ZipInv
  <1>1. Init => ZipInv
    <2> SUFFICES ASSUME ZipInit PROVE ZipInv
      BY DEF Init
    <2>1. ~open.is /\ task = NoTask /\ DOMAIN extracted = {} /\ archive = <<>>
      BY DEF ZipInit, NotOpen
    <2>2. TaskInv
      BY <2>1 DEF TaskInv, NoTask
    <2> QED
      BY <2>1, <2>2 DEF ZipInv, PublishedInv, ArchiveAccounted, SinkInv, ExtractedAsSigned
  <1>2. ZipInv /\ [Next]_vars => ZipInv'
    BY IntakeKeepsZip
  <1> QED
    BY <1>1, <1>2, PTL DEF Spec

\* Whatever archive is published, one that ZipReader::Open has accepted has an owner,
\* and one only, for each of its cells, no path twice and no file above another entry.
THEOREM ArchiveAlwaysAccounted == Spec => []ArchiveAccounted
  <1>1. ZipInv => ArchiveAccounted
    BY DEF ZipInv
  <1> QED
    BY <1>1, ZipInvariant, PTL

\* Whatever the card does between two reads, a file that the sink has committed is the
\* signed one (ZipReader::ExtractOne, StreamFile).
THEOREM AlwaysExtractedAsSigned == Spec => []ExtractedAsSigned
  <1>1. ZipInv => ExtractedAsSigned
    BY DEF ZipInv, SinkInv
  <1> QED
    BY <1>1, ZipInvariant, PTL

\* The inductive invariant of the requests: what the decoder has made of the tokens
\* that came, in every state of HttpBodyDecoder::Feed.
THEOREM HttpInvariant == Spec => []HttpInv
  <1>1. Init => HttpInv
    BY DEF Init, HttpInit, HttpInv, AnswerInv, DeliveredExactly
  <1>2. HttpInv /\ [Next]_vars => HttpInv'
    BY IntakeKeepsHttp
  <1> QED
    BY <1>1, <1>2, PTL DEF Spec

\* A request that reports Ok has given its sink exactly the framed body and no more
\* than was allowed, however the peer cuts it (HttpsRequest, HttpBodyDecoder::Feed).
THEOREM AlwaysDeliveredExactly == Spec => []DeliveredExactly
  <1>1. HttpInv => DeliveredExactly
    BY DEF HttpInv
  <1> QED
    BY <1>1, HttpInvariant, PTL

=============================================================================
