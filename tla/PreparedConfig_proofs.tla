------------------------ MODULE PreparedConfig_proofs ------------------------
(***************************************************************************)
(* The prepared configuration for any releases, configurations and edits,  *)
(* and any number of faults: a set that is handed to the installer was     *)
(* made of the configuration that the user has approved, it keeps what the *)
(* user wrote, the candidate will accept it, and what was approved can be  *)
(* carried out.                                                            *)
(*                                                                         *)
(* The plan is compared by its digest, and the digest covers the content   *)
(* of every area. What it does not cover, a template outside the areas'    *)
(* snapshots and the moment it was read, is covered by comparing every     *)
(* template's file with what was read of it. Both comparisons are made of  *)
(* the same state of the card, after the reading; hence the set matches    *)
(* (ConfigInv), and it still does when the evidence is read back after a   *)
(* reset, as the approved plan does not change any more.                   *)
(*                                                                         *)
(* BuiltInv adds how a set was made: the plan has passed the menu's checks *)
(* and the files are the ones that its changes make. The rest is about the *)
(* files: which lines a rewriting keeps and where they come from (Keep,    *)
(* Places), and that a rewritten file is read as its area's new version.   *)
(***************************************************************************)
EXTENDS PreparedConfig, FiniteSetTheorems, SequenceTheorems, NaturalsInduction,
        WellFoundedInduction, TLAPS

\* What was read for the templates is what the approved plan was made of.
MatchesConsent(set) ==
    \A a \in Areas : \A p \in AreaPaths[a] \cap Templates(release) :
      /\ p \in DOMAIN set.current <=> p \in DOMAIN consent[a].content
      /\ p \in DOMAIN consent[a].content => set.current[p] = consent[a].content[p]

\* Nothing is written before the approval, which is given once; from the first
\* verification on, the set in memory, the evidence and the published set match.
ConfigInv ==
    /\ pc = "menu" => evidence = NotYet /\ published = NotYet
    /\ pc = "evidence" => MatchesConsent(work)
    /\ evidence # NotYet => MatchesConsent(evidence)
    /\ published # NotYet => MatchesConsent(published)

-----------------------------------------------------------------------------

\* Two plans with the same digest were made of the same files (SerializeConsentDigestInput).
LEMMA DigestCovers ==
    ASSUME NEW plan, NEW other, ConsentDigest(plan) = ConsentDigest(other), NEW a \in Areas
    PROVE  plan[a].content = other[a].content
  <1>1. <<a, plan[a].classification, plan[a].source_version,
          plan[a].target_version, plan[a].content>> \in ConsentDigest(other)
    BY DEF ConsentDigest
  <1>2. PICK b \in Areas :
          <<a, plan[a].classification, plan[a].source_version, plan[a].target_version, plan[a].content>>
            = <<b, other[b].classification, other[b].source_version, other[b].target_version,
                other[b].content>>
    BY <1>1 DEF ConsentDigest
  <1> QED
    BY <1>2

\* A verification binds what was read to what was approved (VerifyCurrentEvidence).
LEMMA VerificationBinds ==
    ASSUME SourcesUnchanged
    PROVE  MatchesConsent(work)
  <1> SUFFICES ASSUME NEW a \in Areas, NEW p \in AreaPaths[a] \cap Templates(release)
               PROVE  /\ p \in DOMAIN work.current <=> p \in DOMAIN consent[a].content
                      /\ p \in DOMAIN consent[a].content => work.current[p] = consent[a].content[p]
    BY DEF MatchesConsent
  <1>1. Plan(disk, release)[a].content = consent[a].content
    BY DigestCovers DEF SourcesUnchanged, BoundToConsent
  <1>2. Plan(disk, release)[a].content = Snapshot(disk, a)
    BY DEF Plan, AssessConfigSnapshot, AreaDigest
  <1>3. consent[a].content = [q \in AreaPaths[a] \cap DOMAIN disk |-> disk[q]]
    BY <1>1, <1>2 DEF Snapshot
  <1>4. work.current = [q \in Templates(release) \cap DOMAIN disk |-> disk[q]]
    BY DEF SourcesUnchanged, Only
  <1> QED
    BY <1>3, <1>4

\* Without a new approval a set that matches keeps doing so.
LEMMA MatchKept ==
    ASSUME NEW set, MatchesConsent(set), UNCHANGED <<release, consent>>
    PROVE  MatchesConsent(set)'
  BY DEF MatchesConsent, Templates

\* A step that leaves release and consent alone, changes evidence and published to a
\* set that matches or to none, and arrives at "evidence" with a set that matches.
LEMMA SetsKept ==
    ASSUME ConfigInv, UNCHANGED <<release, consent>>,
           NEW e, e = evidence', NEW s, s = published', NEW w, w = work',
           e = NotYet \/ MatchesConsent(e), s = NotYet \/ MatchesConsent(s),
           pc' = "evidence" => MatchesConsent(w),
           pc' = "menu" => pc = "menu" /\ UNCHANGED <<evidence, published>>
    PROVE  ConfigInv'
  <1>1. MatchesConsent(e) => MatchesConsent(e)'
    BY MatchKept
  <1>2. MatchesConsent(s) => MatchesConsent(s)'
    BY MatchKept
  <1>3. MatchesConsent(w) => MatchesConsent(w)'
    BY MatchKept
  <1>4. (evidence # NotYet => MatchesConsent(evidence))'
    BY <1>1 DEF MatchesConsent
  <1>5. (published # NotYet => MatchesConsent(published))'
    BY <1>2 DEF MatchesConsent
  <1>6. (pc = "evidence" => MatchesConsent(work))'
    BY <1>3 DEF MatchesConsent
  <1>7. (pc = "menu" => evidence = NotYet /\ published = NotYet)'
    BY DEF ConfigInv
  <1> QED
    BY <1>4, <1>5, <1>6, <1>7 DEF ConfigInv

\* A step that also leaves the sets alone and arrives neither at "evidence" nor at the menu.
LEMMA NothingWritten ==
    ASSUME ConfigInv, UNCHANGED <<release, consent>>,
           evidence' \in {evidence, NotYet}, published' \in {published, NotYet},
           pc' = "evidence" => pc = "evidence" /\ UNCHANGED work,
           pc' = "menu" => pc = "menu" /\ UNCHANGED <<evidence, published>>
    PROVE  ConfigInv'
  <1>1. PICK e, s, w : e = evidence' /\ s = published' /\ w = work'
    OBVIOUS
  <1>2. e = NotYet \/ MatchesConsent(e)
    BY <1>1 DEF ConfigInv
  <1>3. s = NotYet \/ MatchesConsent(s)
    BY <1>1 DEF ConfigInv
  <1>4. pc' = "evidence" => MatchesConsent(w)
    BY <1>1 DEF ConfigInv
  <1> QED
    BY <1>1, <1>2, <1>3, <1>4, SetsKept

LEMMA StepKeeps ==
    ASSUME ConfigInv, [Next]_vars
    PROVE  ConfigInv'
  <1>1. ASSUME Approve PROVE ConfigInv'
    BY <1>1 DEF Approve, ConfigInv
  <1>2. ASSUME PrepareForStage PROVE ConfigInv'
    BY <1>2, NothingWritten DEF PrepareForStage
  <1>3. ASSUME ReadCurrentTemplates PROVE ConfigInv'
    BY <1>3, NothingWritten DEF ReadCurrentTemplates
  <1>4. ASSUME ChangeTemplates PROVE ConfigInv'
    <2>1. pc' \in {"clean", "idle"} /\ UNCHANGED <<release, consent, evidence, published>>
      BY <1>4 DEF ChangeTemplates
    <2> QED
      BY <2>1, NothingWritten
  <1>5. ASSUME CleanThenWrite \/ CleanAfterFailure PROVE ConfigInv'
    <2>1. pc' \in {"idle", "write", "clean items", "failed items", "discard items"}
      BY <1>5 DEF CleanThenWrite, CleanAfterFailure, RemoveEvidence, RemoveEvidenceFails, RemoveItems
    <2>2. /\ UNCHANGED <<release, consent>>
          /\ evidence' \in {evidence, NotYet} /\ published' \in {published, NotYet}
      BY <1>5 DEF CleanThenWrite, CleanAfterFailure, RemoveEvidence, RemoveEvidenceFails, RemoveItems
    <2> QED
      BY <2>1, <2>2, NothingWritten
  <1>6. ASSUME WriteItem PROVE ConfigInv'
    BY <1>6, NothingWritten DEF WriteItem
  <1>7. ASSUME Verify PROVE ConfigInv'
    <2>1. PICK e, s, w : e = evidence' /\ s = published' /\ w = work'
      OBVIOUS
    <2>2. UNCHANGED <<release, consent, evidence, published, work>>
      BY <1>7 DEF Verify
    <2>3. pc' \in {"evidence", "discard"} /\ (pc' = "evidence" => SourcesUnchanged)
      BY <1>7 DEF Verify
    <2>4. pc' = "evidence" => MatchesConsent(w)
      BY <2>1, <2>2, <2>3, VerificationBinds
    <2>5. (e = NotYet \/ MatchesConsent(e)) /\ (s = NotYet \/ MatchesConsent(s))
      BY <2>1, <2>2 DEF ConfigInv
    <2> QED
      BY <2>1, <2>2, <2>3, <2>4, <2>5, SetsKept
  <1>8. ASSUME WriteEvidence PROVE ConfigInv'
    <2>1. PICK e, s, w : e = evidence' /\ s = published' /\ w = work'
      OBVIOUS
    <2>2. e = work /\ pc = "evidence" /\ pc' = "verify" /\ UNCHANGED <<release, consent, published>>
      BY <1>8, <2>1 DEF WriteEvidence
    <2>3. MatchesConsent(e) /\ (s = NotYet \/ MatchesConsent(s))
      BY <2>1, <2>2 DEF ConfigInv
    <2> QED
      BY <2>1, <2>2, <2>3, SetsKept
  <1>9. ASSUME Publish PROVE ConfigInv'
    <2>1. PICK e, s, w : e = evidence' /\ s = published' /\ w = work'
      OBVIOUS
    <2>2. pc' \in {"idle", "discard"} /\ UNCHANGED <<release, consent, evidence>>
      BY <1>9 DEF Publish
    <2>3. s = published \/ (SourcesUnchanged /\ s = work)
      BY <1>9, <2>1 DEF Publish
    <2>4. (e = NotYet \/ MatchesConsent(e)) /\ (s = NotYet \/ MatchesConsent(s))
      BY <2>1, <2>2, <2>3, VerificationBinds DEF ConfigInv
    <2> QED
      BY <2>1, <2>2, <2>4, SetsKept
  <1>10. ASSUME PrepareFails PROVE ConfigInv'
    BY <1>10, NothingWritten DEF PrepareFails
  <1>11. ASSUME RestoreForResume PROVE ConfigInv'
    <2>1. PICK e, s, w : e = evidence' /\ s = published' /\ w = work'
      OBVIOUS
    <2>2. /\ evidence # NotYet /\ s = evidence /\ e = evidence /\ pc' = "idle"
          /\ UNCHANGED <<release, consent>>
      BY <1>11, <2>1 DEF RestoreForResume, EvidenceParses
    <2>3. MatchesConsent(e) /\ MatchesConsent(s)
      BY <2>2 DEF ConfigInv
    <2> QED
      BY <2>1, <2>2, <2>3, SetsKept
  <1>12. ASSUME Discard PROVE ConfigInv'
    BY <1>12, NothingWritten DEF Discard
  <1>13. ASSUME Edit PROVE ConfigInv'
    BY <1>13, NothingWritten DEF Edit
  <1>14. ASSUME PowerCut PROVE ConfigInv'
    BY <1>14, NothingWritten DEF PowerCut
  <1>15. ASSUME UNCHANGED vars PROVE ConfigInv'
    BY <1>15, NothingWritten DEF vars
  <1> QED
    BY <1>1, <1>2, <1>3, <1>4, <1>5, <1>6, <1>7, <1>8, <1>9, <1>10, <1>11, <1>12,
       <1>13, <1>14, <1>15 DEF Next

-----------------------------------------------------------------------------

\* The inductive invariant of the provider (FatFsPreparedConfigProvider).
THEOREM ConfigInvariant == Spec => []ConfigInv
  <1>1. Init => ConfigInv
    BY DEF Init, ConfigInv
  <1> QED
    BY <1>1, StepKeeps, PTL DEF Spec

\* However often the files are changed, and changed back, while PrepareForStage reads
\* them, and wherever power is cut, a set that the installer gets, now or after a
\* reset, was made of the one configuration that the user has approved.
THEOREM AlwaysOneConfiguration == Spec => []OneConfiguration
  <1>1. ConfigInv => OneConfiguration
    BY DEF ConfigInv, MatchesConsent, OneConfiguration
  <1> QED
    BY <1>1, ConfigInvariant, PTL

-----------------------------------------------------------------------------
(* Selections *)

\* A set of natural numbers has a least element.
LEMMA LeastNatural ==
    ASSUME NEW T \in SUBSET Nat, T # {}
    PROVE  \E x \in T : \A y \in T : x <= y
  <1>1. PICK x \in T : \A y \in T : ~(<<y, x>> \in OpToRel(<, Nat))
    BY NatLessThanWellFounded, WFMin
  <1>2. \A y \in T : ~(y < x)
    BY <1>1 DEF OpToRel
  <1> QED
    BY <1>2

\* What is kept of the first k lines.
IsKept(f, s, L, k) ==
    f = [n \in 0..k |-> IF n = 0 THEN <<>>
                        ELSE IF s[n] \in L THEN f[n - 1] \o <<s[n]>> ELSE f[n - 1]]

LEMMA KeptExists ==
    ASSUME NEW s, NEW L, NEW k \in Nat
    PROVE  \E f : IsKept(f, s, L, k)
  <1> DEFINE T == {n \in Nat : ~\E f : IsKept(f, s, L, n)}
             More(f, n) == IF s[n] \in L THEN f[n - 1] \o <<s[n]>> ELSE f[n - 1]
  <1> SUFFICES ASSUME T # {} PROVE FALSE
    OBVIOUS
  <1>1. PICK m \in T : \A n \in T : m <= n
    <2>1. T \in SUBSET Nat
      OBVIOUS
    <2> HIDE DEF T
    <2> QED
      BY <2>1, LeastNatural
  <1>2. CASE m = 0
    <2> DEFINE g == [n \in 0..0 |-> <<>>]
    <2>1. g = [n \in 0..0 |-> IF n = 0 THEN <<>> ELSE More(g, n)]
      <3>1. \A n \in 0..0 : n = 0
        OBVIOUS
      <3> HIDE DEF More
      <3> QED
        BY <3>1
    <2>2. IsKept(g, s, L, 0)
      BY <2>1 DEF IsKept
    <2> QED
      BY <1>1, <1>2, <2>2
  <1>3. CASE m # 0
    <2>1. m - 1 \in Nat /\ m - 1 \notin T
      BY <1>1, <1>3
    <2>2. PICK f : IsKept(f, s, L, m - 1)
      BY <2>1
    <2> DEFINE g == [n \in 0..m |-> IF n = m THEN More(f, m) ELSE f[n]]
    <2>3. \A n \in 0..m : n = m \/ (n \in 0..(m - 1) /\ n # m)
      BY <1>1
    <2>4. \A n \in 0..(m - 1) : /\ f[n] = IF n = 0 THEN <<>> ELSE More(f, n)
                               /\ g[n] = f[n] /\ (n # 0 => More(g, n) = More(f, n))
      <3>1. \A n \in 0..(m - 1) : f[n] = IF n = 0 THEN <<>> ELSE More(f, n)
        BY <2>2 DEF IsKept
      <3>2. \A n \in 0..(m - 1) : g[n] = f[n] /\ (n # 0 => g[n - 1] = f[n - 1])
        BY <1>1
      <3> QED
        BY <3>1, <3>2
    <2>5. g[m] = More(f, m) /\ More(g, m) = More(f, m)
      BY <1>1, <1>3
    <2>6. \A n \in 0..m : g[n] = IF n = 0 THEN <<>> ELSE More(g, n)
      <3> HIDE DEF g, More
      <3> QED
        BY <1>3, <2>3, <2>4, <2>5
    <2>7. g = [n \in 0..m |-> g[n]]
      OBVIOUS
    <2>8. IsKept(g, s, L, m)
      <3> HIDE DEF g
      <3> QED
        BY <2>6, <2>7 DEF IsKept
    <2> QED
      BY <1>1, <2>8
  <1> QED
    BY <1>2, <1>3

\* Keep is the last of them.
Keeping(f, X, s, L) ==
    /\ f \in [0..Len(s) -> Seq(X)]
    /\ f[0] = <<>> /\ Keep(s, L) = f[Len(s)]
    /\ \A n \in 1..Len(s) : f[n] = IF s[n] \in L THEN f[n - 1] \o <<s[n]>> ELSE f[n - 1]

LEMMA KeepEquation ==
    ASSUME NEW X, NEW s \in Seq(X), NEW L
    PROVE  \E f : Keeping(f, X, s, L)
  <1>1. Len(s) \in Nat
    OBVIOUS
  <1>2. PICK f : IsKept(f, s, L, Len(s)) /\ Keep(s, L) = f[Len(s)]
    <2>1. \E f : IsKept(f, s, L, Len(s))
      BY <1>1, KeptExists
    <2>2. Keep(s, L) = (CHOOSE f : IsKept(f, s, L, Len(s)))[Len(s)]
      BY DEF Keep, IsKept
    <2> QED
      BY <2>1, <2>2
  <1>3. \A n \in 0..Len(s) : f[n] = IF n = 0 THEN <<>>
                                   ELSE IF s[n] \in L THEN f[n - 1] \o <<s[n]>> ELSE f[n - 1]
    BY <1>2 DEF IsKept
  <1>4. f = [n \in 0..Len(s) |-> f[n]]
    BY <1>2 DEF IsKept
  <1>5. f[0] = <<>> /\ \A n \in 1..Len(s) : f[n] = IF s[n] \in L THEN f[n - 1] \o <<s[n]>>
                                                  ELSE f[n - 1]
    <2>1. 0 \in 0..Len(s) /\ \A n \in 1..Len(s) : n \in 0..Len(s) /\ n # 0
      BY <1>1
    <2> QED
      BY ONLY <1>3, <2>1, Zenon
  <1> DEFINE T == {n \in 0..Len(s) : f[n] \notin Seq(X)}
  <1>6. T = {}
    <2> SUFFICES ASSUME T # {} PROVE FALSE
      OBVIOUS
    <2>1. PICK m \in T : \A n \in T : m <= n
      <3>1. T \in SUBSET Nat
        OBVIOUS
      <3> HIDE DEF T
      <3> QED
        BY <3>1, LeastNatural
    <2>2. m # 0
      <3>1. <<>> \in Seq(X)
        OBVIOUS
      <3> QED
        BY <1>5, <2>1, <3>1
    <2>3. m \in 1..Len(s) /\ m - 1 \in 0..Len(s) /\ m - 1 \notin T
      BY <1>1, <2>1, <2>2
    <2>4. f[m - 1] \in Seq(X) /\ s[m] \in X
      BY <2>3
    <2>5. f[m] \in {f[m - 1], f[m - 1] \o <<s[m]>>}
      BY <1>5, <2>3
    <2>6. f[m - 1] \o <<s[m]>> \in Seq(X)
      BY <2>4
    <2> QED
      BY <2>1, <2>4, <2>5, <2>6
  <1>7. f \in [0..Len(s) -> Seq(X)]
    BY <1>4, <1>6
  <1> QED
    BY <1>2, <1>5, <1>7 DEF Keeping

LEMMA KeepType ==
    ASSUME NEW X, NEW s \in Seq(X), NEW L
    PROVE  Keep(s, L) \in Seq(X)
  <1>1. PICK f : Keeping(f, X, s, L)
    BY KeepEquation
  <1> QED
    BY <1>1 DEF Keeping

\* Two ways of naming the same lines keep the same.
LEMMA KeepSame ==
    ASSUME NEW X, NEW s \in Seq(X), NEW L, NEW M,
           \A i \in 1..Len(s) : s[i] \in L <=> s[i] \in M
    PROVE  Keep(s, L) = Keep(s, M)
  <1>1. PICK f : Keeping(f, X, s, L)
    BY KeepEquation
  <1>2. PICK g : Keeping(g, X, s, M)
    BY KeepEquation
  <1> USE DEF Keeping
  <1> DEFINE T == {n \in 0..Len(s) : f[n] # g[n]}
  <1>3. T = {}
    <2> SUFFICES ASSUME T # {} PROVE FALSE
      OBVIOUS
    <2>1. PICK m \in T : \A n \in T : m <= n
      <3>1. T \in SUBSET Nat
        OBVIOUS
      <3> HIDE DEF T
      <3> QED
        BY <3>1, LeastNatural
    <2>2. m \in 1..Len(s) /\ m - 1 \in 0..Len(s) /\ m - 1 \notin T
      BY <1>1, <1>2, <2>1
    <2>3. f[m - 1] = g[m - 1]
      BY <2>2
    <2>4. f[m] = g[m]
      BY <1>1, <1>2, <2>2, <2>3
    <2> QED
      BY <2>1, <2>4
  <1> QED
    BY <1>1, <1>2, <1>3

\* What is kept of two parts.
LEMMA KeepConcat ==
    ASSUME NEW X, NEW s \in Seq(X), NEW t \in Seq(X), NEW L
    PROVE  Keep(s \o t, L) = Keep(s, L) \o Keep(t, L)
  <1> DEFINE u == s \o t
  <1>0. /\ u \in Seq(X) /\ Len(u) = Len(s) + Len(t) /\ Len(s) \in Nat /\ Len(t) \in Nat
        /\ \A i \in 1..Len(s) : u[i] = s[i]
        /\ \A i \in 1..Len(t) : u[Len(s) + i] = t[i]
    OBVIOUS
  <1>1. PICK f : Keeping(f, X, s, L)
    BY KeepEquation
  <1>2. PICK g : Keeping(g, X, t, L)
    BY KeepEquation
  <1>3. PICK h : Keeping(h, X, u, L)
    BY <1>0, KeepEquation
  <1> USE DEF Keeping
  <1> HIDE DEF u
  <1> DEFINE T == {n \in 0..Len(s) : f[n] # h[n]}
  <1>4. T = {}
    <2> SUFFICES ASSUME T # {} PROVE FALSE
      OBVIOUS
    <2>1. PICK m \in T : \A n \in T : m <= n
      <3>1. T \in SUBSET Nat
        OBVIOUS
      <3> HIDE DEF T
      <3> QED
        BY <3>1, LeastNatural
    <2>2. m \in 1..Len(s) /\ m - 1 \in 0..Len(s) /\ m - 1 \notin T /\ m \in 1..Len(u)
      <3>1. m # 0 /\ m \in 0..Len(s)
        BY <1>1, <1>3, <2>1
      <3> QED
        BY <1>0, <2>1, <3>1
    <2>3. f[m - 1] = h[m - 1] /\ u[m] = s[m]
      BY <1>0, <2>2
    <2>4. f[m] = h[m]
      BY <1>1, <1>3, <2>2, <2>3
    <2> QED
      BY <2>1, <2>4
  <1>6. /\ Len(s) \in 0..Len(s) /\ Len(t) \in 0..Len(t) /\ f[Len(s)] \in Seq(X)
        /\ f[Len(s)] = h[Len(s)]
    BY <1>0, <1>1, <1>4
  <1> HIDE DEF T
  <1> DEFINE Apart(n) == h[Len(s) + n] # f[Len(s)] \o g[n]
             U == {n \in 0..Len(t) : Apart(n)}
  <1>5. U = {}
    <2> SUFFICES ASSUME U # {} PROVE FALSE
      OBVIOUS
    <2>1. PICK m \in U : \A n \in U : m <= n
      <3> HIDE DEF Apart
      <3>1. U \in SUBSET Nat
        BY <1>0
      <3> HIDE DEF U
      <3> QED
        BY <3>1, LeastNatural
    <2>2. m # 0
      <3>1. f[Len(s)] \o <<>> = f[Len(s)]
        BY <1>6, ConcatEmptySeq
      <3>2. Len(s) + 0 = Len(s)
        BY <1>0
      <3> QED
        BY <1>2, <1>6, <2>1, <3>1, <3>2
    <2>3. /\ m \in 1..Len(t) /\ m - 1 \in 0..Len(t) /\ m - 1 \notin U
          /\ Len(s) + m \in 1..Len(u) /\ (Len(s) + m) - 1 = Len(s) + (m - 1)
      <3>1. m \in 0..Len(t)
        BY <2>1
      <3>2. ~(m <= m - 1)
        BY <1>0, <3>1
      <3>3. m - 1 \notin U
        <4> HIDE DEF U
        <4> QED
          BY <2>1, <3>2
      <3> HIDE DEF U
      <3> QED
        BY <1>0, <2>2, <3>1, <3>3
    <2>4. h[(Len(s) + m) - 1] = f[Len(s)] \o g[m - 1] /\ u[Len(s) + m] = t[m]
      BY <1>0, <2>3
    <2>5. /\ f[Len(s)] \in Seq(X) /\ g[m - 1] \in Seq(X) /\ t[m] \in X
      <3>1. m \in 1..Len(t) /\ m - 1 \in 0..Len(t)
        BY <2>3
      <3>2. g[m - 1] \in Seq(X)
        BY <1>2, <3>1
      <3>3. t[m] \in X
        BY <3>1, ElementOfSeq
      <3> QED
        BY <1>6, <3>2, <3>3
    <2>6. (f[Len(s)] \o g[m - 1]) \o <<t[m]>> = f[Len(s)] \o (g[m - 1] \o <<t[m]>>)
      <3>1. <<t[m]>> \in Seq(X)
        BY <2>5
      <3>2. \A a, b, c \in Seq(X) : (a \o b) \o c = a \o (b \o c)
        BY ConcatAssociative
      <3> QED
        BY ONLY <2>5, <3>1, <3>2, Zenon
    <2>7. h[Len(s) + m] = f[Len(s)] \o g[m]
      <3>1. h[Len(s) + m] = IF u[Len(s) + m] \in L
                            THEN h[(Len(s) + m) - 1] \o <<u[Len(s) + m]>>
                            ELSE h[(Len(s) + m) - 1]
        BY <1>3, <2>3
      <3>2. g[m] = IF t[m] \in L THEN g[m - 1] \o <<t[m]>> ELSE g[m - 1]
        BY <1>2, <2>3
      <3> QED
        BY <2>4, <2>6, <3>1, <3>2
    <2> QED
      BY <2>1, <2>7
  <1>7. h[Len(s) + Len(t)] = f[Len(s)] \o g[Len(t)]
    BY <1>5, <1>6
  <1> QED
    BY <1>0, <1>1, <1>2, <1>3, <1>7 DEF u

LEMMA KeepOne ==
    ASSUME NEW x, NEW L
    PROVE  Keep(<<x>>, L) = IF x \in L THEN <<x>> ELSE <<>>
  <1>1. <<x>> \in Seq({x}) /\ Len(<<x>>) = 1 /\ <<x>>[1] = x
    OBVIOUS
  <1>2. PICK f : Keeping(f, {x}, <<x>>, L)
    BY <1>1, KeepEquation
  <1> USE DEF Keeping
  <1>3. f[1] = IF x \in L THEN <<>> \o <<x>> ELSE <<>>
    BY <1>1, <1>2
  <1>4. <<>> \o <<x>> = <<x>>
    OBVIOUS
  <1> QED
    BY <1>2, <1>3, <1>4

LEMMA KeepNone ==
    ASSUME NEW X, NEW s \in Seq(X), NEW L, \A i \in 1..Len(s) : s[i] \notin L
    PROVE  Keep(s, L) = <<>>
  <1>1. PICK f : Keeping(f, X, s, L)
    BY KeepEquation
  <1> USE DEF Keeping
  <1> DEFINE T == {n \in 0..Len(s) : f[n] # <<>>}
  <1>2. T = {}
    <2> SUFFICES ASSUME T # {} PROVE FALSE
      OBVIOUS
    <2>1. PICK m \in T : \A n \in T : m <= n
      <3>1. T \in SUBSET Nat
        OBVIOUS
      <3> HIDE DEF T
      <3> QED
        BY <3>1, LeastNatural
    <2>2. m \in 1..Len(s) /\ m - 1 \in 0..Len(s) /\ m - 1 \notin T
      BY <1>1, <2>1
    <2>3. f[m] = f[m - 1] /\ f[m - 1] = <<>>
      BY <1>1, <2>2
    <2> QED
      BY <2>1, <2>3
  <1> QED
    BY <1>1, <1>2

\* What is kept of what was kept.
LEMMA KeepTwice ==
    ASSUME NEW X, NEW s \in Seq(X), NEW L, NEW M
    PROVE  Keep(Keep(s, L), M) = Keep(s, L \cap M)
  <1>1. PICK f : Keeping(f, X, s, L)
    BY KeepEquation
  <1>2. PICK g : Keeping(g, X, s, L \cap M)
    BY KeepEquation
  <1> USE DEF Keeping
  <1> DEFINE T == {n \in 0..Len(s) : Keep(f[n], M) # g[n]}
  <1>3. T = {}
    <2> SUFFICES ASSUME T # {} PROVE FALSE
      OBVIOUS
    <2>1. PICK m \in T : \A n \in T : m <= n
      <3>1. T \in SUBSET Nat
        OBVIOUS
      <3> HIDE DEF T
      <3> QED
        BY <3>1, LeastNatural
    <2>2. m # 0
      <3>1. Keep(<<>>, M) = <<>>
        <4>1. <<>> \in Seq(X) /\ \A i \in 1..Len(<<>>) : <<>>[i] \notin M
          OBVIOUS
        <4> QED
          BY <4>1, KeepNone
      <3> QED
        BY <1>1, <1>2, <2>1, <3>1
    <2>3. m \in 1..Len(s) /\ m - 1 \in 0..Len(s) /\ m - 1 \notin T
      BY <2>1, <2>2
    <2>4. /\ f[m - 1] \in Seq(X) /\ g[m - 1] \in Seq(X) /\ s[m] \in X
          /\ Keep(f[m - 1], M) = g[m - 1] /\ <<s[m]>> \in Seq(X)
      <3>1. m \in 1..Len(s) /\ m - 1 \in 0..Len(s)
        BY <2>3
      <3>2. f[m - 1] \in Seq(X) /\ g[m - 1] \in Seq(X)
        BY <1>1, <1>2, <3>1
      <3>3. s[m] \in X
        BY <3>1, ElementOfSeq
      <3>4. Keep(f[m - 1], M) = g[m - 1]
        BY <2>3
      <3>5. <<s[m]>> \in Seq(X)
        BY <3>3
      <3> QED
        BY <3>2, <3>3, <3>4, <3>5
    <2>5. Keep(f[m - 1] \o <<s[m]>>, M) = g[m - 1] \o Keep(<<s[m]>>, M)
      <3>1. Keep(f[m - 1] \o <<s[m]>>, M) = Keep(f[m - 1], M) \o Keep(<<s[m]>>, M)
        <4>1. \A a, b \in Seq(X) : Keep(a \o b, M) = Keep(a, M) \o Keep(b, M)
          BY KeepConcat
        <4> QED
          BY ONLY <2>4, <4>1, Zenon
      <3> QED
        BY <2>4, <3>1
    <2>6. Keep(<<s[m]>>, M) = IF s[m] \in M THEN <<s[m]>> ELSE <<>>
      BY KeepOne
    <2>7. /\ f[m - 1] \o <<s[m]>> = f[m - 1] \o <<s[m]>>
          /\ g[m - 1] \o <<s[m]>> = g[m - 1] \o <<s[m]>>
          /\ g[m - 1] \o <<>> = g[m - 1]
      BY <2>4, ConcatEmptySeq
    <2>8. Keep(f[m], M) = g[m]
      <3>1. f[m] = IF s[m] \in L THEN f[m - 1] \o <<s[m]>> ELSE f[m - 1]
        BY <1>1, <2>3
      <3>2. g[m] = IF s[m] \in L \cap M THEN g[m - 1] \o <<s[m]>> ELSE g[m - 1]
        BY <1>2, <2>3
      <3>3. CASE s[m] \in L /\ s[m] \in M
        BY <2>5, <2>6, <2>7, <3>1, <3>2, <3>3
      <3>4. CASE s[m] \in L /\ s[m] \notin M
        BY <2>5, <2>6, <2>7, <3>1, <3>2, <3>4
      <3>5. CASE s[m] \notin L
        BY <2>4, <3>1, <3>2, <3>5
      <3> QED
        BY <3>3, <3>4, <3>5
    <2> QED
      BY <2>1, <2>8
  <1> QED
    BY <1>1, <1>2, <1>3

\* The lines that are kept come from different places, and from all that are wanted.
Places(e, s, L, r) ==
    /\ e \in [1..Len(r) -> 1..Len(s)]
    /\ \A k \in 1..Len(r) : r[k] = s[e[k]] /\ s[e[k]] \in L
    /\ \A k, j \in 1..Len(r) : e[k] = e[j] => k = j
    /\ \A i \in 1..Len(s) : s[i] \in L => \E k \in 1..Len(r) : e[k] = i

LEMMA KeepPlaces ==
    ASSUME NEW X, NEW s \in Seq(X), NEW L
    PROVE  \E e : Places(e, s, L, Keep(s, L))
  <1>1. PICK f : Keeping(f, X, s, L)
    BY KeepEquation
  <1>0. Len(s) \in Nat
    OBVIOUS
  <1> DEFINE Upto(n, e) ==
               /\ e \in [1..Len(f[n]) -> 1..n]
               /\ \A k \in 1..Len(f[n]) : f[n][k] = s[e[k]] /\ s[e[k]] \in L
               /\ \A k, j \in 1..Len(f[n]) : e[k] = e[j] => k = j
               /\ \A i \in 1..n : s[i] \in L => \E k \in 1..Len(f[n]) : e[k] = i
             Lost(n) == ~\E e : Upto(n, e)
             T == {n \in 0..Len(s) : Lost(n)}
  <1>2. T = {}
    <2> SUFFICES ASSUME T # {} PROVE FALSE
      OBVIOUS
    <2>1. PICK m \in T : \A n \in T : m <= n
      <3> HIDE DEF Lost
      <3>1. T \in SUBSET Nat
        BY <1>0
      <3> HIDE DEF T
      <3> QED
        BY <3>1, LeastNatural
    <2>2. m # 0
      <3>1. f[0] = <<>> /\ Len(f[0]) = 0
        BY <1>1 DEF Keeping
      <3>2. Upto(0, [k \in 1..0 |-> 0])
        BY <3>1
      <3>3. ~Lost(0)
        BY <3>2
      <3> HIDE DEF Lost
      <3> QED
        BY <2>1, <3>3
    <2>3. m \in 1..Len(s) /\ m - 1 \in 0..Len(s) /\ ~Lost(m - 1)
      <3> HIDE DEF Lost
      <3>1. m \in 0..Len(s)
        BY <2>1
      <3>2. ~(m <= m - 1) /\ m - 1 \in 0..Len(s)
        BY <1>0, <2>2, <3>1
      <3>3. m - 1 \notin T
        BY <2>1, <3>2
      <3> QED
        BY <1>0, <2>2, <3>1, <3>2, <3>3
    <2>4. PICK e : Upto(m - 1, e)
      BY <2>3
    <2>5. f[m] = IF s[m] \in L THEN f[m - 1] \o <<s[m]>> ELSE f[m - 1]
      BY <1>1, <2>3 DEF Keeping
    <2>6. m - 1 \in Nat /\ m \in Nat /\ \A i \in 1..m : i = m \/ i \in 1..(m - 1)
      BY <1>0, <2>3
    <2>7. f[m - 1] \in Seq(X) /\ Len(f[m - 1]) \in Nat
      <3>1. f[m - 1] \in Seq(X)
        BY <1>1, <2>3 DEF Keeping
      <3> QED
        BY <3>1
    <2>8. CASE s[m] \notin L
      <3>1. f[m] = f[m - 1]
        BY <2>5, <2>8
      <3>2. e \in [1..Len(f[m]) -> 1..m]
        BY <2>4, <2>6, <3>1
      <3>3. \A i \in 1..m : s[i] \in L => \E k \in 1..Len(f[m]) : e[k] = i
        BY <2>4, <2>6, <2>8, <3>1
      <3>4. Upto(m, e)
        BY <2>4, <3>1, <3>2, <3>3
      <3> QED
        BY <2>1, <3>4
    <2>9. CASE s[m] \in L
      <3> DEFINE l == Len(f[m - 1])
                 d == [k \in 1..(l + 1) |-> IF k = l + 1 THEN m ELSE e[k]]
      <3>0. s[m] \in X /\ <<s[m]>> \in Seq(X)
        BY <2>3, ElementOfSeq
      <3>1. f[m] = f[m - 1] \o <<s[m]>>
        BY <2>5, <2>9
      <3>2. /\ Len(f[m]) = l + 1 /\ f[m][l + 1] = s[m] /\ l \in Nat
            /\ \A k \in 1..l : f[m][k] = f[m - 1][k]
        BY <2>7, <3>0, <3>1
      <3>3. \A k \in 1..(l + 1) : k = l + 1 \/ (k \in 1..l /\ k # l + 1)
        BY <3>2
      <3>4. d[l + 1] = m /\ \A k \in 1..l : d[k] = e[k] /\ e[k] \in 1..(m - 1) /\ e[k] # m
        <4>1. \A k \in 1..l : e[k] \in 1..(m - 1)
          BY <2>4
        <4>2. l + 1 \in 1..(l + 1) /\ \A k \in 1..l : k \in 1..(l + 1) /\ k # l + 1
          BY <3>2
        <4>3. \A i \in 1..(m - 1) : i # m
          BY <2>6
        <4> HIDE DEF l
        <4> QED
          BY <4>1, <4>2, <4>3
      <3>5. d \in [1..(l + 1) -> 1..m]
        <4>1. m \in 1..m /\ \A i \in 1..(m - 1) : i \in 1..m
          BY <2>3, <2>6
        <4>2. \A k \in 1..(l + 1) : d[k] \in 1..m
          <5> HIDE DEF d, l
          <5> QED
            BY <3>3, <3>4, <4>1
        <4> HIDE DEF l
        <4> QED
          BY <4>2
      <3> HIDE DEF d, l
      <3>6. \A k \in 1..(l + 1) : f[m][k] = s[d[k]] /\ s[d[k]] \in L
        <4>1. \A k \in 1..l : f[m - 1][k] = s[e[k]] /\ s[e[k]] \in L
          BY <2>4 DEF l
        <4> QED
          BY <2>9, <3>2, <3>3, <3>4, <4>1
      <3>7. \A k, j \in 1..(l + 1) : d[k] = d[j] => k = j
        <4>1. \A k, j \in 1..l : e[k] = e[j] => k = j
          BY <2>4 DEF l
        <4> QED
          BY <3>3, <3>4, <4>1
      <3>8. \A i \in 1..m : s[i] \in L => \E k \in 1..(l + 1) : d[k] = i
        <4>1. \A i \in 1..(m - 1) : s[i] \in L => \E k \in 1..l : e[k] = i
          BY <2>4 DEF l
        <4>2. l + 1 \in 1..(l + 1) /\ \A k \in 1..l : k \in 1..(l + 1)
          BY <3>2
        <4> QED
          BY <2>6, <3>4, <4>1, <4>2
      <3>9. Upto(m, d)
        BY <3>2, <3>5, <3>6, <3>7, <3>8
      <3> QED
        BY <2>1, <3>9
    <2> QED
      BY <2>8, <2>9
  <1>3. Len(s) \in 0..Len(s)
    BY <1>0
  <1>4. PICK e : Upto(Len(s), e)
    BY <1>2, <1>3
  <1>5. Keep(s, L) = f[Len(s)]
    BY <1>1 DEF Keeping
  <1>6. Places(e, s, L, Keep(s, L))
    BY <1>4, <1>5 DEF Places
  <1> QED
    BY <1>6

-----------------------------------------------------------------------------
(* The invariant. *)

Texts(files) == \A p \in DOMAIN files : IsText(files[p])

\* What the menu has checked of a plan, in terms of the plan's own content.
Agreed(plan, rel) ==
    /\ ValidateConfigMigrationDeclarations(rel.requirements, rel.migrations)
    /\ BlockedAreas(plan) = {}
    /\ Templates(rel) \subseteq TemplatePaths /\ RequiredTemplates \subseteq Templates(rel)
    /\ ~(Changed(plan, "CmdlineManagedKeys") /\ Changed(plan, "Network"))
    /\ plan["CmdlineManagedKeys"].content = plan["Network"].content
    /\ \A a \in Areas :
         LET detected == DetectArea(a, plan[a].content)
         IN  /\ plan[a].classification = Classify(a, detected, rel.requirements, rel.migrations)
             /\ plan[a].source_version = detected.version
             /\ plan[a].target_version = rel.requirements[a].target
    /\ \A a \in Areas : DOMAIN plan[a].content \subseteq AreaPaths[a] /\ Texts(plan[a].content)
    /\ \A a \in Areas : Changed(plan, a) =>
         DOMAIN plan[a].content # {} /\ DOMAIN plan[a].content \subseteq Templates(rel)

\* A set was built from what was read for it as the approved plan says.
Built(set, plan, rel) ==
    /\ ChangesApply(plan, rel)
    /\ set.prepared = BootTemplates(
         ApplyRepresentableChanges(ReadTemplates(set.current, plan, rel), plan, rel), set.current)

\* The plan stands from the approval on; what is in memory, in the evidence and
\* handed to the installer was built by it.
BuiltInv ==
    /\ release \in Releases /\ Texts(disk)
    /\ pc = "menu" => consent = NotYet /\ evidence = NotYet /\ published = NotYet
    /\ pc # "menu" => Agreed(consent, release)
    /\ pc = "change" => work = [current |-> work.current,
                                prepared |-> ReadTemplates(work.current, consent, release)]
    /\ pc \in {"clean", "clean items", "write", "evidence", "verify"} =>
         Built(work, consent, release)
    /\ evidence # NotYet => Built(evidence, consent, release)
    /\ published # NotYet => Built(published, consent, release)

\* The menu's checks, in terms of the plan (Approve).
LEMMA ApprovalAgrees ==
    ASSUME BuiltInv, Approve
    PROVE  Agreed(consent', release)
  <1> DEFINE plan == Plan(disk, release)
  <1>1. /\ consent' = plan /\ Representable(plan, disk, release)
        /\ ValidateConfigMigrationDeclarations(release.requirements, release.migrations)
    BY DEF Approve
  <1>2. \A a \in Areas :
          /\ plan[a].classification = Classify(a, DetectArea(a, Snapshot(disk, a)),
                                               release.requirements, release.migrations)
          /\ plan[a].source_version = DetectArea(a, Snapshot(disk, a)).version
          /\ plan[a].target_version = release.requirements[a].target
          /\ plan[a].content = Snapshot(disk, a)
    BY DEF Plan, AssessConfigSnapshot, AreaDigest
  <1>3. "CmdlineManagedKeys" \in Areas /\ "Network" \in Areas
    BY DEF Areas
  <1>4. Snapshot(disk, "CmdlineManagedKeys") = Snapshot(disk, "Network")
    BY DEF Snapshot, AreaPaths
  <1>5. \A a \in Areas : DOMAIN Snapshot(disk, a) \subseteq AreaPaths[a]
                         /\ Texts(Snapshot(disk, a))
    BY DEF BuiltInv, Snapshot, Texts
  <1> HIDE DEF plan
  <1>6. \A a \in Areas : /\ DOMAIN plan[a].content \subseteq AreaPaths[a] /\ Texts(plan[a].content)
                         /\ Changed(plan, a) => /\ DOMAIN plan[a].content # {}
                                                /\ DOMAIN plan[a].content \subseteq Templates(release)
    BY <1>1, <1>2, <1>5 DEF Representable
  <1>7. plan["CmdlineManagedKeys"].content = plan["Network"].content
    BY <1>2, <1>3, <1>4
  <1>8. Agreed(plan, release)
    BY <1>1, <1>2, <1>6, <1>7 DEF Representable, Agreed
  <1> QED
    BY <1>1, <1>8

\* A step after the approval that leaves the card alone, arrives with a set in
\* memory as its step wants it, and keeps the other sets or takes over one that
\* was built.
LEMMA SetsBuilt ==
    ASSUME BuiltInv, pc # "menu", pc' # "menu", UNCHANGED <<release, consent>>, Texts(disk'),
           pc' = "change" => work' = [current |-> work'.current,
                                      prepared |-> ReadTemplates(work'.current, consent, release)],
           pc' \in {"clean", "clean items", "write", "evidence", "verify"} =>
             Built(work', consent, release),
           evidence' \in {evidence, NotYet} \/ Built(evidence', consent, release),
           published' \in {published, NotYet} \/ Built(published', consent, release)
    PROVE  BuiltInv'
  <1>1. release' \in Releases /\ Texts(disk')
    BY DEF BuiltInv
  <1>2. Agreed(consent', release')
    BY DEF BuiltInv
  <1>3. evidence' # NotYet => Built(evidence', consent', release')
    BY DEF BuiltInv
  <1>4. published' # NotYet => Built(published', consent', release')
    BY DEF BuiltInv
  <1>5. /\ pc' = "change" => work' = [current |-> work'.current,
                                      prepared |-> ReadTemplates(work'.current, consent', release')]
        /\ pc' \in {"clean", "clean items", "write", "evidence", "verify"} =>
             Built(work', consent', release')
    OBVIOUS
  <1> QED
    BY <1>1, <1>2, <1>3, <1>4, <1>5 DEF BuiltInv

LEMMA BuiltStep ==
    ASSUME BuiltInv, [Next]_vars
    PROVE  BuiltInv'
  <1>1. ASSUME Approve PROVE BuiltInv'
    <2>1. Agreed(consent', release)
      BY <1>1, ApprovalAgrees
    <2>2. /\ pc = "menu" /\ pc' = "idle"
          /\ UNCHANGED <<release, disk, work, evidence, published>>
      BY <1>1 DEF Approve
    <2>3. Agreed(consent', release')
      BY <2>1, <2>2
    <2>4. evidence' = NotYet /\ published' = NotYet /\ release' \in Releases /\ Texts(disk')
      BY <2>2 DEF BuiltInv
    <2> QED
      BY <2>2, <2>3, <2>4 DEF BuiltInv
  <1>2. ASSUME PrepareForStage PROVE BuiltInv'
    <2>1. /\ pc = "idle" /\ pc' \in {"read", "idle"}
          /\ UNCHANGED <<release, disk, consent, evidence, published>>
      BY <1>2 DEF PrepareForStage
    <2>2. Texts(disk')
      BY <2>1 DEF BuiltInv
    <2> QED
      BY <2>1, <2>2, SetsBuilt
  <1>3. ASSUME ReadCurrentTemplates PROVE BuiltInv'
    <2>1. /\ pc = "read" /\ pc' = "change"
          /\ UNCHANGED <<release, disk, consent, evidence, published>>
          /\ work' = [current |-> work'.current,
                      prepared |-> ReadTemplates(work'.current, consent, release)]
      BY <1>3 DEF ReadCurrentTemplates
    <2>2. Texts(disk')
      BY <2>1 DEF BuiltInv
    <2> QED
      BY <2>1, <2>2, SetsBuilt
  <1>4. ASSUME ChangeTemplates PROVE BuiltInv'
    <2> DEFINE changed == ApplyRepresentableChanges(work.prepared, consent, release)
    <2>1. /\ pc = "change" /\ pc' \in {"clean", "idle"}
          /\ UNCHANGED <<release, disk, consent, evidence, published>>
          /\ pc' = "clean" => /\ ChangesApply(consent, release)
                              /\ work' = [work EXCEPT !.prepared = BootTemplates(changed, work.current)]
      BY <1>4 DEF ChangeTemplates
    <2>2. work = [current |-> work.current,
                  prepared |-> ReadTemplates(work.current, consent, release)]
      BY <2>1 DEF BuiltInv
    <2>3. pc' = "clean" => Built(work', consent, release)
      <3> SUFFICES ASSUME pc' = "clean" PROVE Built(work', consent, release)
        OBVIOUS
      <3>1. work'.current = work.current /\ work'.prepared = BootTemplates(changed, work.current)
        BY <2>1, <2>2
      <3>2. work.prepared = ReadTemplates(work.current, consent, release)
        BY <2>2
      <3> QED
        BY <2>1, <3>1, <3>2 DEF Built
    <2>4. Texts(disk')
      BY <2>1 DEF BuiltInv
    <2> QED
      BY <2>1, <2>3, <2>4, SetsBuilt
  <1>5. ASSUME CleanThenWrite \/ CleanAfterFailure PROVE BuiltInv'
    <2>1. /\ pc \in {"clean", "clean items", "discard", "discard items", "failed items"}
          /\ pc' \in {"idle", "write", "clean items", "failed items", "discard items"}
          /\ pc' \in {"write", "clean items"} => pc \in {"clean", "clean items"}
          /\ UNCHANGED <<release, disk, consent, work>>
          /\ evidence' \in {evidence, NotYet} /\ published' \in {published, NotYet}
      BY <1>5 DEF CleanThenWrite, CleanAfterFailure, RemoveEvidence, RemoveEvidenceFails, RemoveItems
    <2>2. Texts(disk')
      BY <2>1 DEF BuiltInv
    <2>3. pc' \in {"write", "clean items"} => Built(work', consent, release)
      BY <2>1 DEF BuiltInv
    <2> QED
      BY <2>1, <2>2, <2>3, SetsBuilt
  <1>6. ASSUME WriteItem \/ Verify \/ WriteEvidence \/ PrepareFails PROVE BuiltInv'
    <2>1. /\ pc \in {"write", "evidence", "verify"}
          /\ pc' \in {"write", "evidence", "verify", "discard"}
          /\ UNCHANGED <<release, disk, consent, work, published>>
          /\ evidence' \in {evidence, work}
      BY <1>6 DEF WriteItem, Verify, WriteEvidence, PrepareFails
    <2>2. Built(work, consent, release) /\ Built(work', consent, release)
      BY <2>1 DEF BuiltInv
    <2>3. Texts(disk')
      BY <2>1 DEF BuiltInv
    <2>4. evidence' \in {evidence, NotYet} \/ Built(evidence', consent, release)
      BY <2>1, <2>2
    <2> QED
      BY <2>1, <2>2, <2>3, <2>4, SetsBuilt
  <1>7. ASSUME Publish PROVE BuiltInv'
    <2>1. /\ pc = "verify" /\ pc' \in {"idle", "discard"}
          /\ UNCHANGED <<release, disk, consent, evidence>>
          /\ published' \in {published, work}
      BY <1>7 DEF Publish
    <2>2. Texts(disk') /\ Built(work, consent, release)
      BY <2>1 DEF BuiltInv
    <2>3. published' \in {published, NotYet} \/ Built(published', consent, release)
      BY <2>1, <2>2
    <2> QED
      BY <2>1, <2>2, <2>3, SetsBuilt
  <1>8. ASSUME RestoreForResume PROVE BuiltInv'
    <2>1. /\ pc = "idle" /\ pc' = "idle" /\ evidence # NotYet /\ published' = evidence
          /\ UNCHANGED <<release, disk, consent, evidence>>
      BY <1>8 DEF RestoreForResume, EvidenceParses
    <2>2. Texts(disk') /\ Built(published', consent, release)
      BY <2>1 DEF BuiltInv
    <2> QED
      BY <2>1, <2>2, SetsBuilt
  <1>9. ASSUME Discard PROVE BuiltInv'
    <2>1. /\ pc = "idle" /\ pc' = "discard"
          /\ UNCHANGED <<release, disk, consent, evidence, published>>
      BY <1>9 DEF Discard
    <2>2. Texts(disk')
      BY <2>1 DEF BuiltInv
    <2> QED
      BY <2>1, <2>2, SetsBuilt
  <1>10. ASSUME Edit PROVE BuiltInv'
    <2>1. UNCHANGED <<release, consent, pc, work, evidence, published>>
      BY <1>10 DEF Edit
    <2>2. Texts(disk')
      <3>1. PICK e \in Edits : e[1] \in DOMAIN disk /\ disk' = [disk EXCEPT ![e[1]] = e[2]]
        BY <1>10 DEF Edit
      <3>2. IsText(e[2]) /\ Texts(disk)
        BY FilesAssumption DEF BuiltInv
      <3>3. \A p \in DOMAIN disk' : p \in DOMAIN disk /\ disk'[p] \in {disk[p], e[2]}
        BY <3>1
      <3> QED
        BY <3>2, <3>3 DEF Texts
    <2>3. CASE pc = "menu"
      BY <2>1, <2>2, <2>3 DEF BuiltInv
    <2>4. CASE pc # "menu"
      <3>1. /\ pc' = "change" => work' = [current |-> work'.current,
                                          prepared |-> ReadTemplates(work'.current, consent, release)]
            /\ pc' \in {"clean", "clean items", "write", "evidence", "verify"} =>
                 Built(work', consent, release)
        BY <2>1 DEF BuiltInv
      <3> QED
        BY <2>1, <2>2, <2>4, <3>1, SetsBuilt
    <2> QED
      BY <2>3, <2>4
  <1>11. ASSUME PowerCut PROVE BuiltInv'
    <2>1. /\ pc # "menu" /\ pc' = "idle" /\ published' = NotYet
          /\ UNCHANGED <<release, disk, consent, evidence>>
      BY <1>11 DEF PowerCut
    <2>2. Texts(disk')
      BY <2>1 DEF BuiltInv
    <2> QED
      BY <2>1, <2>2, SetsBuilt
  <1>12. ASSUME UNCHANGED vars PROVE BuiltInv'
    BY <1>12 DEF vars, BuiltInv
  <1> QED
    BY <1>1, <1>2, <1>3, <1>4, <1>5, <1>6, <1>7, <1>8, <1>9, <1>10, <1>11, <1>12 DEF Next

-----------------------------------------------------------------------------
(* What an approved plan says of the files that are prepared. *)

LEMMA TemplateKinds ==
    ASSUME NEW a \in Areas, NEW p \in AreaPaths[a], p \in TemplatePaths
    PROVE  \/ a = "Machines" /\ p \in {"machines.ini", "machines.defaults.ini"}
           \/ a = "ConfigManagedBlock" /\ p = "config.txt"
           \/ a \in {"CmdlineManagedKeys", "Network"} /\ p = "cmdline.txt"
  BY DEF Areas, AreaPaths, TemplatePaths, SettingsPaths

\* Two areas share a path only if it is cmdline.txt.
LEMMA AreasApart ==
    ASSUME NEW a \in Areas, NEW b \in Areas, NEW p \in AreaPaths[a], p \in AreaPaths[b]
    PROVE  a = b \/ (p = "cmdline.txt" /\ {a, b} = {"CmdlineManagedKeys", "Network"})
  BY DEF Areas, AreaPaths, SettingsPaths

LEMMA DetectShape ==
    ASSUME NEW a \in Areas, NEW files
    PROVE  \/ DetectArea(a, files) = Rejected
           \/ DetectArea(a, files) = Missing
           \/ \E v : DetectArea(a, files) = Valid(v)
  <1>1. a = "Machines" => DetectArea(a, files) = DetectMachines(files)
    BY DEF DetectArea
  <1>2. a = "ConfigManagedBlock" => DetectArea(a, files) = DetectConfigBlock(files)
    BY DEF DetectArea
  <1>3. a \in {"CmdlineManagedKeys", "Network"} => DetectArea(a, files) = ParseCmdline(files, a)
    BY DEF DetectArea
  <1>4. a = "Settings" => DetectArea(a, files) = DetectSettings(files)
    BY DEF DetectArea
  <1>5. a = "UpdateState" => DetectArea(a, files) = DetectUpdateState(files)
    BY DEF DetectArea
  <1>6. DetectMachines(files) \in {Missing, Rejected, Valid(MachinesFileVersion(files["machines.ini"]))}
    BY DEF DetectMachines
  <1>7. DetectConfigBlock(files) \in {Missing, Rejected, Valid(HeaderVersion(files["config.txt"], 1))}
    BY DEF DetectConfigBlock
  <1>8. \E v : ParseCmdline(files, a) \in {Missing, Rejected, Valid(v)}
    BY DEF ParseCmdline
  <1>9. \E v : DetectSettings(files) \in {Missing, Rejected, Valid(v)}
    BY DEF DetectSettings
  <1>10. \E v : DetectUpdateState(files) \in {Missing, Rejected, Valid(v)}
    BY DEF DetectUpdateState
  <1> QED
    BY <1>1, <1>2, <1>3, <1>4, <1>5, <1>6, <1>7, <1>8, <1>9, <1>10 DEF Areas

\* The one migration of a changed area.
LEMMA MigrationFound ==
    ASSUME NEW plan, NEW rel, Agreed(plan, rel), NEW a \in Areas, Changed(plan, a),
           NEW m, m = MigrationOf(plan, a, rel)
    PROVE  /\ m \in CompiledMigrations /\ m.area = a
           /\ m.from = plan[a].source_version /\ m.to = plan[a].target_version
           /\ rel.requirements[a].target = 2 /\ plan[a].target_version = 2
           /\ m.from = 1 /\ m.to = 2 /\ m.lossy \in BOOLEAN
           /\ m.transform = Transforms(a, m.lossy)
           /\ m.lossy <=> plan[a].classification = "ResetRequired"
           /\ DetectArea(a, plan[a].content) = Valid(1)
  <1> DEFINE d == DetectArea(a, plan[a].content)
             found == {n \in rel.migrations : /\ n.area = a /\ n.from = d.version
                                              /\ n.to = rel.requirements[a].target}
  <1>1. /\ plan[a].classification = Classify(a, d, rel.requirements, rel.migrations)
        /\ plan[a].source_version = d.version
        /\ plan[a].target_version = rel.requirements[a].target
        /\ ValidateConfigMigrationDeclarations(rel.requirements, rel.migrations)
    BY DEF Agreed
  <1>2. /\ rel.migrations \subseteq CompiledMigrations
        /\ \A n, o \in rel.migrations : n.area = o.area /\ n.from = o.from /\ n.to = o.to => n = o
    BY <1>1 DEF ValidateConfigMigrationDeclarations
  <1>3. plan[a].classification \in {"LosslessMigration", "ResetRequired"}
    BY DEF Changed
  <1> HIDE DEF d
  <1>4. /\ d.detail # "Rejected" /\ found # {}
        /\ plan[a].classification = "ResetRequired" <=> \E n \in found : n.lossy
    BY <1>1, <1>3 DEF Classify
  <1>5. m = CHOOSE n \in rel.migrations : /\ n.area = a /\ n.from = plan[a].source_version
                                          /\ n.to = plan[a].target_version
    BY DEF MigrationOf
  <1>6. /\ m \in rel.migrations /\ m.area = a /\ m.from = plan[a].source_version
        /\ m.to = plan[a].target_version
    BY <1>1, <1>4, <1>5
  <1>7. m \in found /\ \A n \in found : n = m
    BY <1>1, <1>2, <1>6
  <1>8. PICK b \in Areas, l \in BOOLEAN :
          m = [area |-> b, from |-> 1, to |-> 2, lossy |-> l, transform |-> Transforms(b, l)]
    BY <1>2, <1>6 DEF CompiledMigrations
  <1>9. b = a /\ m.lossy = l /\ m.from = 1 /\ m.to = 2 /\ m.transform = Transforms(a, l)
    BY <1>6, <1>8
  <1>10. m.lossy <=> plan[a].classification = "ResetRequired"
    BY <1>4, <1>7
  <1>11. d = Valid(1)
    <2>1. d.version = 1
      BY <1>1, <1>6, <1>9
    <2>2. d # Rejected /\ d # Missing
      BY <2>1 DEF Rejected, Missing
    <2>3. PICK v : d = Valid(v)
      BY <2>2, DetectShape DEF d
    <2> QED
      BY <2>1, <2>3 DEF Valid
  <1> QED
    BY <1>1, <1>2, <1>6, <1>9, <1>10, <1>11 DEF d

Defaults(a, rel) == [p \in AreaPaths[a] \cap Templates(rel) |-> rel.templates[p]]
NewFiles(a, plan, rel) == Transformed(MigrationOf(plan, a, rel), plan[a].content, Defaults(a, rel))

\* A change that was applied is the migration's, and both ends of it were looked
\* at (ApplyConfigChange).
LEMMA ChangeMade ==
    ASSUME NEW plan, NEW rel, Agreed(plan, rel), ChangesApply(plan, rel),
           NEW a \in Areas, Changed(plan, a)
    PROVE  /\ ChangeOf(a, plan, rel).files = NewFiles(a, plan, rel)
           /\ DetectArea(a, NewFiles(a, plan, rel)) = Valid(2)
           /\ plan[a].classification = "ResetRequired" =>
                DetectArea(a, Defaults(a, rel)) = Valid(2)
  <1> DEFINE m == MigrationOf(plan, a, rel)
             resets == plan[a].classification = "ResetRequired"
             expected == IF resets THEN DOMAIN Defaults(a, rel) ELSE DOMAIN plan[a].content
             result == ApplyConfigChange(m, plan[a].content, Defaults(a, rel), expected, resets)
  <1>1. ChangeOf(a, plan, rel).status = "Ok"
    BY DEF ChangesApply
  <1>2. NoChange.status # "Ok"
    BY DEF NoChange
  <1>3. ChangeOf(a, plan, rel) \in {NoChange, result}
    BY DEF ChangeOf, Defaults
  <1>4. ChangeOf(a, plan, rel) = result /\ result # NoChange
    BY <1>1, <1>2, <1>3
  <1>5. /\ result = [status |-> "Ok", files |-> Transformed(m, plan[a].content, Defaults(a, rel))]
        /\ DetectArea(m.area, Transformed(m, plan[a].content, Defaults(a, rel))) = Valid(m.to)
        /\ m.lossy => DetectArea(m.area, Defaults(a, rel)) = Valid(m.to)
    BY <1>4 DEF ApplyConfigChange
  <1>6. m.area = a /\ m.to = 2 /\ (m.lossy <=> resets)
    BY MigrationFound
  <1> QED
    BY <1>4, <1>5, <1>6 DEF NewFiles

\* A file of an area that is not changed stays as it was read.
LEMMA FileStays ==
    ASSUME NEW plan, NEW rel, Agreed(plan, rel), NEW set, Built(set, plan, rel),
           NEW a \in Areas, NEW p \in AreaPaths[a] \cap Templates(rel), p \in DOMAIN set.current,
           \A b \in Areas : p \in AreaPaths[b] => ~Changed(plan, b)
    PROVE  set.prepared[p] = set.current[p]
  <1> DEFINE read == ReadTemplates(set.current, plan, rel)
             changed == ApplyRepresentableChanges(read, plan, rel)
  <1>1. \/ a = "Machines" /\ p \in {"machines.ini", "machines.defaults.ini"}
        \/ a = "ConfigManagedBlock" /\ p = "config.txt"
        \/ a \in {"CmdlineManagedKeys", "Network"} /\ p = "cmdline.txt"
    BY TemplateKinds DEF Agreed
  <1>2. p \in Templates(rel)
    OBVIOUS
  <1>3. Preserved(p, set.current, plan)
    <2>1. \A b \in Areas : p \in AreaPaths[b] => plan[b].classification = "Compatible"
      BY DEF Agreed, BlockedAreas
    <2>2. CASE p \in {"machines.ini", "machines.defaults.ini"}
      <3>1. TemplateArea(p) = "Machines" /\ "Machines" \in Areas /\ p \in AreaPaths["Machines"]
        BY <2>2 DEF TemplateArea, AreaPaths, Areas
      <3> QED
        BY <2>1, <3>1 DEF Preserved
    <2>3. CASE p = "config.txt"
      <3>1. /\ TemplateArea(p) = "ConfigManagedBlock" /\ "ConfigManagedBlock" \in Areas
            /\ p \in AreaPaths["ConfigManagedBlock"]
        BY <2>3 DEF TemplateArea, AreaPaths, Areas
      <3> QED
        BY <2>1, <3>1 DEF Preserved
    <2>4. CASE p = "cmdline.txt"
      <3>1. /\ TemplateArea(p) = "CmdlineManagedKeys" /\ "CmdlineManagedKeys" \in Areas
            /\ "Network" \in Areas /\ p \in AreaPaths["CmdlineManagedKeys"] \cap AreaPaths["Network"]
        BY <2>4 DEF TemplateArea, AreaPaths, Areas
      <3> QED
        BY <3>1 DEF Preserved
    <2> QED
      BY <1>1, <2>2, <2>3, <2>4
  <1>4. p \in DOMAIN read /\ read[p] = set.current[p]
    BY <1>2, <1>3 DEF ReadTemplates
  <1>5. p \in DOMAIN changed /\ changed[p] = read[p]
    <2> HIDE DEF read
    <2> QED
      BY <1>4 DEF ApplyRepresentableChanges
  <1>6. set.prepared = BootTemplates(changed, set.current)
    BY DEF Built
  <1>7. p \notin {"active", "candidate", "tryboot.txt", "bmx-machine.txt"}
    BY <1>1
  <1>8. set.prepared[p] = changed[p]
    <2> HIDE DEF changed
    <2> QED
      BY <1>5, <1>6, <1>7 DEF BootTemplates
  <1> QED
    BY <1>4, <1>5, <1>8

\* A file of a changed area is the one that its change made.
LEMMA FileChanges ==
    ASSUME NEW plan, NEW rel, Agreed(plan, rel), NEW set, Built(set, plan, rel),
           NEW a \in Areas, Changed(plan, a), NEW p \in AreaPaths[a] \cap Templates(rel),
           p \in DOMAIN NewFiles(a, plan, rel)
    PROVE  set.prepared[p] = NewFiles(a, plan, rel)[p]
  <1> DEFINE read == ReadTemplates(set.current, plan, rel)
             changed == ApplyRepresentableChanges(read, plan, rel)
             area == {b \in Areas : Changed(plan, b) /\ p \in AreaPaths[b]
                                      /\ p \in DOMAIN ChangeOf(b, plan, rel).files}
  <1>0. ChangesApply(plan, rel) /\ set.prepared = BootTemplates(changed, set.current)
    BY DEF Built
  <1>1. \/ a = "Machines" /\ p \in {"machines.ini", "machines.defaults.ini"}
        \/ a = "ConfigManagedBlock" /\ p = "config.txt"
        \/ a \in {"CmdlineManagedKeys", "Network"} /\ p = "cmdline.txt"
    BY TemplateKinds DEF Agreed
  <1>2. p \in DOMAIN read
    BY DEF ReadTemplates
  <1>3. ChangeOf(a, plan, rel).files = NewFiles(a, plan, rel)
    BY <1>0, ChangeMade
  <1>4. area = {a}
    <2>1. a \in area
      BY <1>3
    <2>2. \A b \in area : b = a
      <3> SUFFICES ASSUME NEW b \in area, b # a PROVE FALSE
        OBVIOUS
      <3>1. {a, b} = {"CmdlineManagedKeys", "Network"}
        BY AreasApart
      <3>2. Changed(plan, "CmdlineManagedKeys") /\ Changed(plan, "Network")
        BY <3>1
      <3> QED
        BY <3>2 DEF Agreed
    <2> HIDE DEF area
    <2> QED
      BY <2>1, <2>2
  <1>5. p \in DOMAIN changed /\ changed[p] = NewFiles(a, plan, rel)[p]
    <2>1. changed = [q \in DOMAIN read |->
             LET here == {b \in Areas : Changed(plan, b) /\ q \in AreaPaths[b]
                                          /\ q \in DOMAIN ChangeOf(b, plan, rel).files}
             IN  IF here = {} THEN read[q]
                 ELSE ChangeOf(CHOOSE b \in here : TRUE, plan, rel).files[q]]
      BY DEF ApplyRepresentableChanges
    <2>2. changed[p] = IF area = {} THEN read[p]
                       ELSE ChangeOf(CHOOSE b \in area : TRUE, plan, rel).files[p]
      BY <1>2, <2>1
    <2>3. (CHOOSE b \in area : TRUE) = a
      BY <1>4
    <2>4. p \in DOMAIN changed
      BY <1>2, <2>1
    <2> HIDE DEF area, changed
    <2> QED
      BY <1>3, <1>4, <2>2, <2>3, <2>4
  <1>6. p \notin {"active", "candidate", "tryboot.txt", "bmx-machine.txt"}
    BY <1>1
  <1>7. set.prepared[p] = changed[p]
    <2> HIDE DEF changed
    <2> QED
      BY <1>0, <1>5, <1>6 DEF BootTemplates
  <1> QED
    BY <1>5, <1>7

-----------------------------------------------------------------------------
(* The rewriting of machines files and of the managed block. *)

\* A file of two parts.
LEMMA Joined ==
    ASSUME NEW X, NEW s \in Seq(X), NEW t \in Seq(X), NEW u, u = s \o t
    PROVE  /\ u \in Seq(X) /\ Len(u) = Len(s) + Len(t)
           /\ \A i \in 1..Len(s) : u[i] = s[i]
           /\ \A i \in 1..Len(t) : u[Len(s) + i] = t[i]
  OBVIOUS

Unheaded(lines) == Keep(lines, {l \in Range(lines) : l[1] # "schema"})

\* The first line is a header and the others are those of the file (PrefixTextSchema).
LEMMA HeaderAside ==
    ASSUME NEW lines, IsText(lines), NEW v
    PROVE  Unheaded(PrefixTextSchema(lines, v)) = Unheaded(lines)
  <1> DEFINE h == <<"schema", v>>
             X == Range(lines) \cup {h}
             W == {l \in X : l[1] # "schema"}
             new == <<h>> \o lines
  <1>1. lines \in Seq(X) /\ <<h>> \in Seq(X) /\ h[1] = "schema"
    BY DEF IsText
  <1>2. new \in Seq(X)
    BY <1>1
  <1>3. \A s \in Seq(X) : Unheaded(s) = Keep(s, W)
    <2> SUFFICES ASSUME NEW s \in Seq(X) PROVE Unheaded(s) = Keep(s, W)
      OBVIOUS
    <2>1. \A i \in 1..Len(s) : s[i] \in X /\ s[i] \in Range(s)
      BY DEF Range
    <2>2. \A i \in 1..Len(s) : s[i] \in {l \in Range(s) : l[1] # "schema"} <=> s[i] \in W
      <3> HIDE DEF X
      <3> QED
        BY <2>1
    <2> HIDE DEF X, W
    <2> QED
      BY <2>2, KeepSame DEF Unheaded
  <1>4. Keep(<<h>>, W) = <<>>
    <2>1. h \notin W
      BY <1>1
    <2> HIDE DEF h, W
    <2> QED
      BY <2>1, KeepOne
  <1> HIDE DEF W, X, h
  <1>5. Keep(<<h>> \o lines, W) = Keep(<<h>>, W) \o Keep(lines, W)
    <2>1. \A s, t \in Seq(X) : Keep(s \o t, W) = Keep(s, W) \o Keep(t, W)
      BY KeepConcat
    <2> QED
      BY <1>1, <2>1
  <1>6. Keep(lines, W) \in Seq(X)
    BY <1>1, KeepType
  <1>7. Keep(new, W) = Keep(lines, W)
    <2>1. <<>> \o Keep(lines, W) = Keep(lines, W)
      BY <1>6, ConcatEmptySeq
    <2> QED
      BY ONLY <1>4, <1>5, <2>1, Zenon
  <1>8. PrefixTextSchema(lines, v) = new
    BY DEF PrefixTextSchema, h
  <1> QED
    BY <1>1, <1>2, <1>3, <1>7, <1>8

\* The managed block lies between b and e.
Block(lines, b, e) ==
    /\ lines \in Seq(Range(lines)) /\ b \in 1..Len(lines) /\ e \in 1..Len(lines) /\ b < e
    /\ \A i \in 1..Len(lines) : /\ lines[i][1] = "begin" <=> i = b
                                /\ lines[i][1] = "end" <=> i = e

LEMMA BlockPlaces ==
    ASSUME NEW lines, NEW b, NEW e, Block(lines, b, e)
    PROVE  /\ Kinds(lines, "begin") = {b} /\ Kinds(lines, "end") = {e}
           /\ InnerStart(lines) = b /\ InnerEnd(lines) = e
  <1>0. DOMAIN lines = 1..Len(lines) /\ Len(lines) \in Nat
    BY DEF Block
  <1>1. Kinds(lines, "begin") = {b} /\ Kinds(lines, "end") = {e}
    BY <1>0 DEF Block, Kinds
  <1>2. b \in Int /\ e \in Int
    BY <1>0 DEF Block
  <1>3. \A x \in Int : First({x}) = x
    BY DEF First
  <1> QED
    BY <1>1, <1>2, <1>3 DEF InnerStart, InnerEnd

\* A set of line numbers of size one.
LEMMA OnePlace ==
    ASSUME NEW lines, IsText(lines), NEW S, S \subseteq DOMAIN lines, Cardinality(S) = 1
    PROVE  \E x \in DOMAIN lines : S = {x} /\ First(S) = x
  <1>1. DOMAIN lines = 1..Len(lines) /\ Len(lines) \in Nat
    BY DEF IsText
  <1>2. IsFiniteSet(S)
    <2>1. IsFiniteSet(1..Len(lines)) /\ S \in SUBSET (1..Len(lines))
      BY <1>1, FS_Interval
    <2> QED
      BY <2>1, FS_Subset
  <1>3. PICK x : S = {x}
    BY <1>2, FS_Singleton
  <1>4. x \in DOMAIN lines /\ x \in Int
    BY <1>1, <1>3
  <1>5. First({x}) = x
    BY <1>4 DEF First
  <1> QED
    BY <1>3, <1>4, <1>5

LEMMA BlockExists ==
    ASSUME NEW lines, IsText(lines), ConfigBlockOk(lines)
    PROVE  Block(lines, InnerStart(lines), InnerEnd(lines))
  <1>1. /\ Cardinality(Kinds(lines, "begin")) = 1 /\ Cardinality(Kinds(lines, "end")) = 1
        /\ First(Kinds(lines, "begin")) < First(Kinds(lines, "end"))
    BY DEF ConfigBlockOk
  <1>2. Kinds(lines, "begin") \subseteq DOMAIN lines /\ Kinds(lines, "end") \subseteq DOMAIN lines
    BY DEF Kinds
  <1>3. PICK b \in DOMAIN lines : Kinds(lines, "begin") = {b} /\ First(Kinds(lines, "begin")) = b
    BY <1>1, <1>2, OnePlace
  <1>4. PICK e \in DOMAIN lines : Kinds(lines, "end") = {e} /\ First(Kinds(lines, "end")) = e
    BY <1>1, <1>2, OnePlace
  <1>5. DOMAIN lines = 1..Len(lines)
    BY DEF IsText
  <1>6. Block(lines, b, e)
    BY <1>1, <1>3, <1>4, <1>5 DEF Block, IsText, Kinds
  <1> QED
    BY <1>3, <1>4, <1>6 DEF InnerStart, InnerEnd

\* The lines of a block with a new header (AddConfigBlockHeader).
LEMMA HeaderedLines ==
    ASSUME NEW lines, NEW b, NEW e, Block(lines, b, e), NEW v,
           NEW new, new = AddConfigBlockHeader(lines, v)
    PROVE  /\ Block(new, b, e + 1) /\ Len(new) = Len(lines) + 1
           /\ new[b + 1] = <<"schema", v>>
           /\ \A i \in 1..b : new[i] = lines[i]
           /\ \A i \in (b + 1)..Len(lines) : new[i + 1] = lines[i]
  <1> DEFINE h == <<"schema", v>>
             X == Range(lines) \cup {h}
             front == SubSeq(lines, 1, b)
             back == SubSeq(lines, b + 1, Len(lines))
  <1>1. lines \in Seq(X) /\ <<h>> \in Seq(X) /\ Len(lines) \in Nat /\ b \in 1..Len(lines)
        /\ e \in 1..Len(lines) /\ b < e
    BY DEF Block
  <1>2. /\ front \in Seq(X) /\ Len(front) = b /\ \A i \in 1..b : front[i] = lines[i]
    <2> HIDE DEF X
    <2> QED
      BY <1>1
  <1>3. /\ back \in Seq(X) /\ Len(back) = Len(lines) - b
        /\ \A i \in 1..(Len(lines) - b) : back[i] = lines[b + i]
    <2> HIDE DEF X
    <2>1. 1 <= b + 1 /\ b + 1 <= Len(lines) /\ b + 1 \in Nat
      BY <1>1
    <2> QED
      BY <1>1, <2>1
  <1>4. new = (front \o <<h>>) \o back
    BY BlockPlaces DEF AddConfigBlockHeader
  <1> HIDE DEF front, back, X
  <1>5. /\ new \in Seq(X) /\ Len(new) = Len(lines) + 1 /\ new[b + 1] = h
        /\ \A i \in 1..b : new[i] = lines[i]
        /\ \A i \in 1..(Len(lines) - b) : new[(b + 1) + i] = lines[b + i]
    <2> DEFINE top == front \o <<h>>
    <2> HIDE DEF h
    <2>1. /\ top \in Seq(X) /\ Len(top) = b + 1 /\ top[b + 1] = h
          /\ \A i \in 1..b : top[i] = lines[i]
      BY <1>1, <1>2
    <2> HIDE DEF top
    <2>2. new = top \o back
      BY <1>4 DEF top
    <2>0. /\ new \in Seq(X) /\ Len(new) = Len(top) + Len(back)
          /\ \A i \in 1..Len(top) : new[i] = top[i]
          /\ \A i \in 1..Len(back) : new[Len(top) + i] = back[i]
      <3>1. top \in Seq(X) /\ back \in Seq(X)
        BY <1>3, <2>1
      <3> QED
        BY ONLY <3>1, <2>2, Joined
    <2>3. new \in Seq(X) /\ Len(new) = Len(top) + Len(back)
      BY <2>0
    <2>4. \A i \in 1..(b + 1) : new[i] = top[i]
      BY <2>0, <2>1
    <2>5. \A i \in 1..(Len(lines) - b) : new[(b + 1) + i] = back[i]
      BY <1>3, <2>0, <2>1
    <2>6. b + 1 \in 1..(b + 1) /\ \A i \in 1..b : i \in 1..(b + 1)
      BY <1>1
    <2>7. Len(new) = Len(lines) + 1
      BY <1>1, <1>3, <2>1, <2>3
    <2> QED
      BY <1>3, <2>1, <2>3, <2>4, <2>5, <2>6, <2>7
  <1>6. \A i \in (b + 1)..Len(lines) : new[i + 1] = lines[i]
    <2> SUFFICES ASSUME NEW i \in (b + 1)..Len(lines) PROVE new[i + 1] = lines[i]
      OBVIOUS
    <2>1. i - b \in 1..(Len(lines) - b) /\ (b + 1) + (i - b) = i + 1 /\ b + (i - b) = i
      BY <1>1
    <2> QED
      BY <1>5, <2>1
  <1>7. Block(new, b, e + 1)
    <2>1. new \in Seq(Range(new))
      BY <1>5, SeqOfRange
    <2>2. b \in 1..Len(new) /\ e + 1 \in 1..Len(new) /\ b < e + 1
      BY <1>1, <1>5
    <2>3. h[1] = "schema"
      OBVIOUS
    <2>4. ASSUME NEW i \in 1..Len(new)
          PROVE  (new[i][1] = "begin" <=> i = b) /\ (new[i][1] = "end" <=> i = e + 1)
      <3>1. CASE i \in 1..b
        <4>1. i \in 1..Len(lines) /\ new[i] = lines[i] /\ i # e + 1 /\ i # e
          BY <1>1, <1>5, <3>1
        <4> QED
          BY <4>1 DEF Block
      <3>2. CASE i = b + 1
        <4>1. i # b /\ i # e + 1
          BY <1>1, <3>2
        <4> QED
          BY <1>5, <2>3, <3>2, <4>1
      <3>3. CASE i \in (b + 2)..Len(new)
        <4>1. /\ i - 1 \in (b + 1)..Len(lines) /\ i - 1 \in 1..Len(lines) /\ (i - 1) + 1 = i
              /\ i - 1 # b /\ i # b /\ (i = e + 1 <=> i - 1 = e)
          BY <1>1, <1>5, <3>3
        <4>2. new[i] = lines[i - 1]
          BY <1>6, <4>1
        <4> QED
          BY <4>1, <4>2 DEF Block
      <3> QED
        BY <1>1, <1>5, <3>1, <3>2, <3>3
    <2> QED
      BY <2>1, <2>2, <2>4 DEF Block
  <1> QED
    BY <1>5, <1>6, <1>7

\* The lines of a block with the defaults' inner part (ReplaceConfigBlock).
LEMMA ReplacedLines ==
    ASSUME NEW lines, NEW b, NEW e, Block(lines, b, e),
           NEW defaults, NEW c, NEW f, Block(defaults, c, f), NEW k, k = (f - c) - 1,
           NEW new, new = ReplaceConfigBlock(lines, defaults)
    PROVE  /\ k \in Nat /\ Block(new, b, b + k + 1)
           /\ Len(new) = (b + k) + ((Len(lines) - e) + 1)
           /\ \A i \in 1..b : new[i] = lines[i]
           /\ \A i \in 1..k : new[b + i] = defaults[c + i]
           /\ \A i \in 0..(Len(lines) - e) : new[(b + k + 1) + i] = lines[e + i]
  <1> DEFINE X == Range(lines) \cup Range(defaults)
             front == SubSeq(lines, 1, b)
             inner == SubSeq(defaults, c + 1, f - 1)
             back == SubSeq(lines, e, Len(lines))
             n == (Len(lines) - e) + 1
  <1>1. /\ lines \in Seq(X) /\ Len(lines) \in Nat /\ b \in 1..Len(lines)
        /\ e \in 1..Len(lines) /\ b < e
        /\ defaults \in Seq(X) /\ Len(defaults) \in Nat /\ c \in 1..Len(defaults)
        /\ f \in 1..Len(defaults) /\ c < f /\ k \in Nat
    BY DEF Block
  <1> HIDE DEF X
  <1>2. /\ front \in Seq(X) /\ Len(front) = b /\ \A i \in 1..b : front[i] = lines[i]
    BY <1>1
  <1>3. inner \in Seq(X) /\ Len(inner) = k /\ \A i \in 1..k : inner[i] = defaults[c + i]
    <2>1. CASE k = 0
      <3>1. c + 1 > f - 1 /\ c + 1 \in Nat /\ f - 1 \in Nat
        BY <1>1, <2>1
      <3>2. inner = <<>>
        BY <1>1, <3>1, SubSeqEmpty
      <3>3. <<>> \in Seq(X) /\ Len(<<>>) = 0 /\ \A i \in 1..0 : FALSE
        OBVIOUS
      <3> QED
        BY <2>1, <3>2, <3>3
    <2>2. CASE k # 0
      <3>1. /\ c + 1 \in 1..Len(defaults) /\ f - 1 \in 1..Len(defaults) /\ c + 1 <= f - 1
            /\ (f - 1) - (c + 1) + 1 = k
        BY <1>1, <2>2
      <3>2. /\ inner \in Seq(X) /\ Len(inner) = (f - 1) - (c + 1) + 1
            /\ \A i \in 1..((f - 1) - (c + 1) + 1) : inner[i] = defaults[(c + 1) + i - 1]
        BY <1>1, <3>1
      <3>3. \A i \in 1..k : (c + 1) + i - 1 = c + i
        BY <1>1
      <3> QED
        BY <3>1, <3>2, <3>3
    <2> QED
      BY <2>1, <2>2
  <1>4. back \in Seq(X) /\ Len(back) = n /\ \A i \in 1..n : back[i] = lines[(e + i) - 1]
    BY <1>1
  <1>5. new = (front \o inner) \o back
    <2>1. InnerStart(lines) = b /\ InnerEnd(lines) = e /\ InnerStart(defaults) = c /\ InnerEnd(defaults) = f
      BY BlockPlaces
    <2> QED
      BY <2>1 DEF ReplaceConfigBlock
  <1> HIDE DEF front, inner, back
  <1>6. n \in Nat
    BY <1>1
  <1> HIDE DEF n
  <1> DEFINE top == front \o inner
  <1>7. /\ top \in Seq(X) /\ Len(top) = b + k /\ \A i \in 1..b : top[i] = lines[i]
        /\ \A i \in 1..k : top[b + i] = defaults[c + i]
    <2>0. front \in Seq(X) /\ inner \in Seq(X)
      BY <1>2, <1>3
    <2>1. /\ top \in Seq(X) /\ Len(top) = Len(front) + Len(inner)
          /\ \A i \in 1..Len(front) : top[i] = front[i]
          /\ \A i \in 1..Len(inner) : top[Len(front) + i] = inner[i]
      BY ONLY <2>0, Joined
    <2> HIDE DEF top
    <2> QED
      BY <1>2, <1>3, <2>1
  <1>8. new = top \o back
    BY <1>5
  <1> HIDE DEF top
  <1>9. /\ new \in Seq(X) /\ Len(new) = (b + k) + n
        /\ \A i \in 1..(b + k) : new[i] = top[i]
        /\ \A i \in 1..n : new[(b + k) + i] = back[i]
    <2>0. top \in Seq(X) /\ back \in Seq(X)
      BY <1>4, <1>7
    <2>1. /\ new \in Seq(X) /\ Len(new) = Len(top) + Len(back)
          /\ \A i \in 1..Len(top) : new[i] = top[i]
          /\ \A i \in 1..Len(back) : new[Len(top) + i] = back[i]
      BY ONLY <1>8, <2>0, Joined
    <2> QED
      BY <1>4, <1>7, <2>1
  <1>10. /\ \A i \in 1..b : i \in 1..(b + k)
         /\ \A i \in 1..k : b + i \in 1..(b + k)
    BY <1>1
  <1>11. \A i \in 1..b : new[i] = lines[i]
    BY <1>7, <1>9, <1>10
  <1>12. \A i \in 1..k : new[b + i] = defaults[c + i]
    BY <1>7, <1>9, <1>10
  <1>13. \A i \in 0..(Len(lines) - e) : new[(b + k + 1) + i] = lines[e + i]
    <2> SUFFICES ASSUME NEW i \in 0..(Len(lines) - e) PROVE new[(b + k + 1) + i] = lines[e + i]
      OBVIOUS
    <2>1. i + 1 \in 1..n /\ (b + k) + (i + 1) = (b + k + 1) + i /\ (e + (i + 1)) - 1 = e + i
      BY <1>1 DEF n
    <2> QED
      BY <1>4, <1>9, <2>1
  <1>14. Block(new, b, b + k + 1)
    <2>1. new \in Seq(Range(new))
      BY <1>9, SeqOfRange
    <2>2. b \in 1..Len(new) /\ b + k + 1 \in 1..Len(new) /\ b < b + k + 1
      BY <1>1, <1>9 DEF n
    <2>3. ASSUME NEW i \in 1..Len(new)
          PROVE  (new[i][1] = "begin" <=> i = b) /\ (new[i][1] = "end" <=> i = b + k + 1)
      <3>1. CASE i \in 1..b
        <4>1. i \in 1..Len(lines) /\ new[i] = lines[i] /\ i # e /\ i # b + k + 1
          BY <1>1, <1>11, <3>1
        <4> QED
          BY <4>1 DEF Block
      <3>2. CASE i \in (b + 1)..(b + k)
        <4> DEFINE j == i - b
        <4>1. /\ j \in 1..k /\ b + j = i /\ c + j \in 1..Len(defaults) /\ c + j # c /\ c + j # f
              /\ i # b /\ i # b + k + 1
          BY <1>1, <3>2
        <4>2. new[i] = defaults[c + j]
          <5> HIDE DEF j
          <5> QED
            BY <1>12, <4>1
        <4> QED
          BY <4>1, <4>2 DEF Block
      <3>3. CASE i \in (b + k + 1)..Len(new)
        <4> DEFINE j == i - (b + k + 1)
        <4>1. /\ j \in 0..(Len(lines) - e) /\ (b + k + 1) + j = i /\ e + j \in 1..Len(lines)
              /\ e + j # b /\ i # b /\ (e + j = e <=> i = b + k + 1)
          <5>1. i \in Int /\ i >= b + k + 1 /\ i <= (b + k) + ((Len(lines) - e) + 1)
            BY <1>1, <1>9, <3>3 DEF n
          <5> QED
            BY <1>1, <5>1
        <4>2. new[i] = lines[e + j]
          <5> HIDE DEF j
          <5> QED
            BY <1>13, <4>1
        <4> QED
          BY <4>1, <4>2 DEF Block
      <3>4. i \in 1..b \/ i \in (b + 1)..(b + k) \/ i \in (b + k + 1)..Len(new)
        BY <1>1, <1>9
      <3> QED
        BY <3>1, <3>2, <3>3, <3>4
    <2> QED
      BY <2>1, <2>2, <2>3 DEF Block
  <1> QED
    BY <1>1, <1>9, <1>11, <1>12, <1>13, <1>14 DEF n

\* A part of a file, possibly empty.
LEMMA PartLines ==
    ASSUME NEW X, NEW s \in Seq(X), NEW i \in Nat, NEW j \in Nat, 1 <= i, i <= j + 1, j <= Len(s)
    PROVE  /\ SubSeq(s, i, j) \in Seq(X) /\ Len(SubSeq(s, i, j)) = (j - i) + 1
           /\ \A k \in 1..((j - i) + 1) : SubSeq(s, i, j)[k] = s[(i + k) - 1]
  <1>0. Len(s) \in Nat
    OBVIOUS
  <1>1. CASE i = j + 1
    <2>1. SubSeq(s, i, j) = <<>> /\ (j - i) + 1 = 0
      <3>1. i > j /\ (j - i) + 1 = 0
        BY <1>1
      <3> QED
        BY <3>1, SubSeqEmpty
    <2>2. <<>> \in Seq(X) /\ Len(<<>>) = 0 /\ \A k \in 1..0 : FALSE
      OBVIOUS
    <2> QED
      BY <2>1, <2>2
  <1>2. CASE i # j + 1
    <2>1. i \in 1..Len(s) /\ j \in 1..Len(s) /\ i <= j
      BY <1>0, <1>2
    <2> QED
      BY <2>1
  <1> QED
    BY <1>1, <1>2

\* Two files with the same lines.
LEMMA SameLines ==
    ASSUME NEW X, NEW s \in Seq(X), NEW Y, NEW t \in Seq(Y), Len(s) = Len(t),
           \A i \in 1..Len(s) : s[i] = t[i]
    PROVE  s = t
  <1>1. s = [i \in 1..Len(s) |-> s[i]] /\ t = [i \in 1..Len(t) |-> t[i]]
    OBVIOUS
  <1> QED
    BY <1>1

LEMMA BlockSays ==
    ASSUME NEW lines, NEW b, NEW e, Block(lines, b, e)
    PROVE  /\ Says("ConfigManagedBlock", lines) = Unheaded(SubSeq(lines, b + 1, e - 1))
           /\ Unowned("ConfigManagedBlock", lines)
                = <<SubSeq(lines, 1, b), SubSeq(lines, e, Len(lines))>>
  BY BlockPlaces DEF Says, Unowned, Unheaded

LEMMA HeaderedSays ==
    ASSUME NEW lines, NEW b, NEW e, Block(lines, b, e), NEW v,
           NEW new, new = AddConfigBlockHeader(lines, v)
    PROVE  /\ Says("ConfigManagedBlock", new) = Says("ConfigManagedBlock", lines)
           /\ Unowned("ConfigManagedBlock", new) = Unowned("ConfigManagedBlock", lines)
  <1> DEFINE h == <<"schema", v>>
             X == Range(lines)
             Y == Range(new)
             inner == SubSeq(lines, b + 1, e - 1)
  <1>1. /\ Block(new, b, e + 1) /\ Len(new) = Len(lines) + 1 /\ new[b + 1] = h
        /\ \A i \in 1..b : new[i] = lines[i]
        /\ \A i \in (b + 1)..Len(lines) : new[i + 1] = lines[i]
    BY HeaderedLines
  <1>2. /\ lines \in Seq(X) /\ new \in Seq(Y) /\ Len(lines) \in Nat /\ Len(new) \in Nat
        /\ b \in 1..Len(lines) /\ e \in 1..Len(lines) /\ b < e
    BY <1>1 DEF Block
  <1> HIDE DEF X, Y, h
  <1>3. SubSeq(new, 1, b) = SubSeq(lines, 1, b)
    <2>1. /\ SubSeq(lines, 1, b) \in Seq(X) /\ Len(SubSeq(lines, 1, b)) = b
          /\ \A k \in 1..b : SubSeq(lines, 1, b)[k] = lines[k]
      BY <1>2
    <2>2. /\ SubSeq(new, 1, b) \in Seq(Y) /\ Len(SubSeq(new, 1, b)) = b
          /\ \A k \in 1..b : SubSeq(new, 1, b)[k] = new[k]
      BY <1>1, <1>2
    <2>3. \A k \in 1..Len(SubSeq(new, 1, b)) : SubSeq(new, 1, b)[k] = SubSeq(lines, 1, b)[k]
      BY <1>1, <2>1, <2>2
    <2> QED
      BY <2>1, <2>2, <2>3, SameLines
  <1>4. SubSeq(new, e + 1, Len(new)) = SubSeq(lines, e, Len(lines))
    <2> DEFINE n == (Len(lines) - e) + 1
               old == SubSeq(lines, e, Len(lines))
               now == SubSeq(new, e + 1, Len(new))
    <2>1. /\ old \in Seq(X) /\ Len(old) = n /\ \A k \in 1..n : old[k] = lines[(e + k) - 1]
      BY <1>2
    <2>2. /\ now \in Seq(Y) /\ Len(now) = (Len(new) - (e + 1)) + 1
          /\ \A k \in 1..((Len(new) - (e + 1)) + 1) : now[k] = new[((e + 1) + k) - 1]
      <3>1. e + 1 \in Nat /\ 1 <= e + 1 /\ e + 1 <= Len(new) + 1 /\ Len(new) <= Len(new)
        BY <1>1, <1>2
      <3> QED
        BY ONLY <1>2, <3>1, PartLines
    <2>3. (Len(new) - (e + 1)) + 1 = n
      BY <1>1, <1>2
    <2>4. ASSUME NEW k \in 1..n PROVE now[k] = old[k]
      <3>1. /\ (e + k) - 1 \in (b + 1)..Len(lines) /\ ((e + k) - 1) + 1 = ((e + 1) + k) - 1
        BY <1>2
      <3>2. new[((e + 1) + k) - 1] = lines[(e + k) - 1]
        BY <1>1, <3>1
      <3> QED
        BY <2>1, <2>2, <2>3, <3>2
    <2> HIDE DEF n, old, now
    <2>5. now = old
      BY <2>1, <2>2, <2>3, <2>4, SameLines
    <2> QED
      BY <2>5 DEF old, now
  <1>5. SubSeq(new, b + 1, (e + 1) - 1) = PrefixTextSchema(inner, v)
    <2> DEFINE m == (e - b) - 1
               now == SubSeq(new, b + 1, (e + 1) - 1)
               Z == X \cup {h}
    <2>0. m \in Nat
      BY <1>2
    <2>1. /\ inner \in Seq(X) /\ Len(inner) = m
          /\ \A k \in 1..m : inner[k] = lines[((b + 1) + k) - 1]
      <3>1. /\ b + 1 \in Nat /\ e - 1 \in Nat /\ 1 <= b + 1 /\ b + 1 <= (e - 1) + 1
            /\ e - 1 <= Len(lines) /\ ((e - 1) - (b + 1)) + 1 = m
        BY <1>2
      <3> QED
        BY <1>2, <3>1, PartLines
    <2>2. /\ now \in Seq(Y) /\ Len(now) = m + 1
          /\ \A k \in 1..(m + 1) : now[k] = new[((b + 1) + k) - 1]
      <3>1. /\ b + 1 \in Nat /\ (e + 1) - 1 \in Nat /\ 1 <= b + 1 /\ b + 1 <= ((e + 1) - 1) + 1
            /\ (e + 1) - 1 <= Len(new) /\ (((e + 1) - 1) - (b + 1)) + 1 = m + 1
        BY <1>1, <1>2
      <3> QED
        BY <1>2, <3>1, PartLines
    <2>3. inner \in Seq(Z) /\ <<h>> \in Seq(Z)
      <3> HIDE DEF inner
      <3> QED
        BY <2>1
    <2> HIDE DEF inner, now, m, Z
    <2> DEFINE new2 == <<h>> \o inner
    <2>4. /\ new2 \in Seq(Z) /\ Len(new2) = 1 + m /\ new2[1] = h
          /\ \A k \in 1..m : new2[1 + k] = inner[k]
      <3>1. /\ new2 \in Seq(Z) /\ Len(new2) = Len(<<h>>) + Len(inner)
            /\ \A i \in 1..Len(<<h>>) : new2[i] = <<h>>[i]
            /\ \A i \in 1..Len(inner) : new2[Len(<<h>>) + i] = inner[i]
        BY ONLY <2>3, Joined
      <3>2. Len(<<h>>) = 1 /\ <<h>>[1] = h
        OBVIOUS
      <3> HIDE DEF new2
      <3> QED
        BY <2>1, <3>1, <3>2
    <2> HIDE DEF new2
    <2>5. ASSUME NEW k \in 1..(m + 1) PROVE now[k] = new2[k]
      <3>1. CASE k = 1
        <4>1. ((b + 1) + k) - 1 = b + 1
          BY <1>2, <3>1
        <4> QED
          BY <1>1, <2>2, <2>4, <3>1, <4>1
      <3>2. CASE k # 1
        <4> DEFINE j == k - 1
        <4>1. /\ j \in 1..m /\ 1 + j = k /\ ((b + 1) + j) - 1 \in (b + 1)..Len(lines)
              /\ (((b + 1) + j) - 1) + 1 = ((b + 1) + k) - 1
          BY <1>2, <2>0, <3>2 DEF m
        <4> HIDE DEF j
        <4>2. now[k] = lines[((b + 1) + j) - 1]
          BY <1>1, <2>2, <4>1
        <4> QED
          BY <2>1, <2>4, <4>1, <4>2
      <3> QED
        BY <3>1, <3>2
    <2>6. now = new2
      <3>1. Len(now) = Len(new2)
        BY <2>0, <2>2, <2>4
      <3>2. \A k \in 1..Len(now) : now[k] = new2[k]
        BY <2>2, <2>5
      <3> QED
        BY ONLY <2>2, <2>4, <3>1, <3>2, SameLines
    <2> QED
      BY <2>6 DEF new2, now, PrefixTextSchema, h
  <1>6. Unheaded(PrefixTextSchema(inner, v)) = Unheaded(inner)
    <2>1. inner \in Seq(X)
      <3>1. /\ b + 1 \in Nat /\ e - 1 \in Nat /\ 1 <= b + 1 /\ b + 1 <= (e - 1) + 1
            /\ e - 1 <= Len(lines)
        BY <1>2
      <3> QED
        BY <1>2, <3>1, PartLines
    <2>2. IsText(inner)
      BY <2>1, SeqOfRange DEF IsText
    <2> HIDE DEF inner
    <2> QED
      BY <2>2, HeaderAside
  <1>7. (e + 1) - 1 = e
    BY <1>2
  <1> QED
    BY <1>1, <1>3, <1>4, <1>5, <1>6, BlockSays

LEMMA ReplacedUnowned ==
    ASSUME NEW lines, NEW b, NEW e, Block(lines, b, e),
           NEW defaults, NEW c, NEW f, Block(defaults, c, f),
           NEW new, new = ReplaceConfigBlock(lines, defaults)
    PROVE  Unowned("ConfigManagedBlock", new) = Unowned("ConfigManagedBlock", lines)
  <1> DEFINE k == (f - c) - 1
             X == Range(lines)
             Y == Range(new)
             d == b + k + 1
             n == (Len(lines) - e) + 1
  <1>1. /\ k \in Nat /\ Block(new, b, d) /\ Len(new) = (b + k) + n
        /\ \A i \in 1..b : new[i] = lines[i]
        /\ \A i \in 0..(Len(lines) - e) : new[d + i] = lines[e + i]
    <2>1. k = (f - c) - 1
      OBVIOUS
    <2> HIDE DEF k
    <2>2. /\ k \in Nat /\ Block(new, b, b + k + 1)
          /\ Len(new) = (b + k) + ((Len(lines) - e) + 1)
          /\ \A i \in 1..b : new[i] = lines[i]
          /\ \A i \in 0..(Len(lines) - e) : new[(b + k + 1) + i] = lines[e + i]
      BY <2>1, ReplacedLines
    <2> QED
      BY <2>2
  <1>2. /\ lines \in Seq(X) /\ new \in Seq(Y) /\ Len(lines) \in Nat /\ Len(new) \in Nat
        /\ b \in 1..Len(lines) /\ e \in 1..Len(lines) /\ b < e
        /\ b \in 1..Len(new) /\ d \in 1..Len(new)
    BY <1>1 DEF Block
  <1>0. n \in Nat /\ (Len(new) - d) + 1 = n
    BY <1>1, <1>2
  <1> HIDE DEF X, Y, k
  <1>3. SubSeq(new, 1, b) = SubSeq(lines, 1, b)
    <2>1. /\ SubSeq(lines, 1, b) \in Seq(X) /\ Len(SubSeq(lines, 1, b)) = b
          /\ \A i \in 1..b : SubSeq(lines, 1, b)[i] = lines[i]
      BY <1>2
    <2>2. /\ SubSeq(new, 1, b) \in Seq(Y) /\ Len(SubSeq(new, 1, b)) = b
          /\ \A i \in 1..b : SubSeq(new, 1, b)[i] = new[i]
      BY <1>2
    <2>3. \A i \in 1..Len(SubSeq(new, 1, b)) : SubSeq(new, 1, b)[i] = SubSeq(lines, 1, b)[i]
      BY <1>1, <2>1, <2>2
    <2> QED
      BY <2>1, <2>2, <2>3, SameLines
  <1>4. SubSeq(new, d, Len(new)) = SubSeq(lines, e, Len(lines))
    <2> DEFINE old == SubSeq(lines, e, Len(lines))
               now == SubSeq(new, d, Len(new))
    <2>1. /\ old \in Seq(X) /\ Len(old) = n /\ \A i \in 1..n : old[i] = lines[(e + i) - 1]
      BY <1>2
    <2>2. /\ now \in Seq(Y) /\ Len(now) = n /\ \A i \in 1..n : now[i] = new[(d + i) - 1]
      <3>1. d \in Nat /\ 1 <= d /\ d <= Len(new) + 1 /\ Len(new) <= Len(new)
        BY <1>2
      <3> QED
        BY <1>0, <1>2, <3>1, PartLines
    <2>3. ASSUME NEW i \in 1..n PROVE now[i] = old[i]
      <3> DEFINE j == i - 1
      <3>1. j \in 0..(Len(lines) - e) /\ (d + i) - 1 = d + j /\ (e + i) - 1 = e + j
        BY <1>2
      <3> HIDE DEF j
      <3>2. new[(d + i) - 1] = lines[(e + i) - 1]
        BY <1>1, <3>1
      <3> QED
        BY <2>1, <2>2, <3>2
    <2> HIDE DEF n, old, now
    <2>4. now = old
      BY <2>1, <2>2, <2>3, SameLines
    <2> QED
      BY <2>4 DEF old, now
  <1> QED
    BY <1>1, <1>3, <1>4, BlockSays

-----------------------------------------------------------------------------
(* The rewriting of cmdline.txt. *)

CmdlineAreas == {"CmdlineManagedKeys", "Network"}

\* Naming the wanted lines within a larger set of lines.
LEMMA KeepWithin ==
    ASSUME NEW X, NEW s \in Seq(X), NEW W, NEW V,
           \A t \in Range(s) : t \in W <=> t \in V
    PROVE  Keep(s, W) = Keep(s, V)
  <1>1. \A i \in 1..Len(s) : s[i] \in Range(s)
    BY DEF Range
  <1>2. \A i \in 1..Len(s) : s[i] \in W <=> s[i] \in V
    BY <1>1
  <1> QED
    BY <1>2, KeepSame

\* The three parts of a command line that is rewritten for area a.
KeptTokens(tokens, a, only) ==
    {t \in Range(tokens) : /\ t[2] # CmdlineSchemaKey(a)
                           /\ only \/ ~KeyBelongsToCmdlineArea(a, t[2])}
AddedTokens(defaults, a, only) ==
    {t \in Range(defaults) : ~only /\ KeyBelongsToCmdlineArea(a, t[2]) /\ t[2] # CmdlineSchemaKey(a)}
NewMarker(a, v) == <<"token", CmdlineSchemaKey(a), v>>

LEMMA RewriteParts ==
    ASSUME NEW tokens, NEW defaults, NEW a, NEW v, NEW only
    PROVE  RewriteCmdlineArea(tokens, defaults, a, v, only)
             = (Keep(tokens, KeptTokens(tokens, a, only))
                  \o Keep(defaults, AddedTokens(defaults, a, only))) \o <<NewMarker(a, v)>>
  BY DEF RewriteCmdlineArea, KeptTokens, AddedTokens, NewMarker

\* Lines that the rewriting neither removes nor adds are the same after it.
Untouched(tokens, defaults, a, v, only, W) ==
    /\ IsText(tokens) /\ IsText(defaults)
    /\ \A t \in Range(tokens) : t \in W => t \in KeptTokens(tokens, a, only)
    /\ \A t \in Range(defaults) : t \in W => t \notin AddedTokens(defaults, a, only)
    /\ NewMarker(a, v) \notin W

LEMMA RewriteKeeps ==
    ASSUME NEW tokens, NEW defaults, NEW a, NEW v, NEW only, NEW W,
           Untouched(tokens, defaults, a, v, only, W),
           NEW new, new = RewriteCmdlineArea(tokens, defaults, a, v, only)
    PROVE  /\ Keep(new, W) = Keep(tokens, W)
           /\ new \in Seq(Range(tokens) \cup Range(defaults) \cup {NewMarker(a, v)})
  <1> DEFINE X == Range(tokens) \cup Range(defaults) \cup {NewMarker(a, v)}
             K == KeptTokens(tokens, a, only)
             A == AddedTokens(defaults, a, only)
             h == NewMarker(a, v)
  <1>1. tokens \in Seq(X) /\ defaults \in Seq(X) /\ <<h>> \in Seq(X)
    <2>1. tokens \in Seq(Range(tokens)) /\ defaults \in Seq(Range(defaults))
      BY DEF IsText, Untouched
    <2>2. Seq(Range(tokens)) \subseteq Seq(X) /\ Seq(Range(defaults)) \subseteq Seq(X)
      <3>1. Range(tokens) \subseteq X /\ Range(defaults) \subseteq X
        OBVIOUS
      <3> HIDE DEF X
      <3> QED
        BY <3>1
    <2>3. <<h>> \in Seq(X)
      <3>1. h \in X
        OBVIOUS
      <3> HIDE DEF X, h
      <3> QED
        BY <3>1
    <2> HIDE DEF h, X
    <2> QED
      BY <2>1, <2>2, <2>3
  <1>2. new = (Keep(tokens, K) \o Keep(defaults, A)) \o <<h>>
    BY RewriteParts
  <1> HIDE DEF X, K, A, h
  <1>3. Keep(tokens, K) \in Seq(X) /\ Keep(defaults, A) \in Seq(X)
    BY <1>1, KeepType
  <1>4. Keep(tokens, K) \o Keep(defaults, A) \in Seq(X)
    BY <1>3
  <1>5. new \in Seq(X)
    BY <1>1, <1>2, <1>4
  <1>6. \A s, t \in Seq(X) : Keep(s \o t, W) = Keep(s, W) \o Keep(t, W)
    BY KeepConcat
  <1>7. Keep(new, W) = (Keep(Keep(tokens, K), W) \o Keep(Keep(defaults, A), W)) \o Keep(<<h>>, W)
    BY <1>1, <1>2, <1>3, <1>4, <1>6
  <1>8. Keep(Keep(tokens, K), W) = Keep(tokens, W)
    <2>1. Keep(Keep(tokens, K), W) = Keep(tokens, K \cap W)
      BY <1>1, KeepTwice
    <2>2. \A t \in Range(tokens) : t \in K \cap W <=> t \in W
      BY DEF K, Untouched
    <2> QED
      BY <1>1, <2>1, <2>2, KeepWithin
  <1>9. Keep(Keep(defaults, A), W) = <<>>
    <2>1. Keep(Keep(defaults, A), W) = Keep(defaults, A \cap W)
      BY <1>1, KeepTwice
    <2>2. \A i \in 1..Len(defaults) : defaults[i] \notin A \cap W
      <3>1. \A i \in 1..Len(defaults) : defaults[i] \in Range(defaults)
        BY <1>1 DEF Range
      <3> QED
        BY <3>1 DEF A, Untouched
    <2> QED
      BY <1>1, <2>1, <2>2, KeepNone
  <1>10. Keep(<<h>>, W) = <<>>
    BY KeepOne DEF h, Untouched
  <1>11. Keep(tokens, W) \in Seq(X)
    BY <1>1, KeepType
  <1>12. Keep(new, W) = Keep(tokens, W)
    <2>1. Keep(tokens, W) \o <<>> = Keep(tokens, W)
      BY <1>11, ConcatEmptySeq
    <2> QED
      BY ONLY <1>7, <1>8, <1>9, <1>10, <2>1, Zenon
  <1> QED
    BY <1>5, <1>12 DEF X, h

LEMMA KeysApart == MachineKeys \cap NetworkKeys = {}
  BY DEF MachineKeys, NetworkKeys

\* What one of the two areas owns, and what neither does.
LEMMA RewriteSays ==
    ASSUME NEW tokens, IsText(tokens), NEW defaults, IsText(defaults),
           NEW b \in CmdlineAreas, NEW v, NEW only \in BOOLEAN,
           NEW a \in CmdlineAreas,
           NEW new, new = RewriteCmdlineArea(tokens, defaults, b, v, only)
    PROVE  /\ a # b \/ only => Says(a, new) = Says(a, tokens)
           /\ Unowned(a, new) = Unowned(a, tokens)
  <1> DEFINE X == Range(tokens) \cup Range(defaults) \cup {NewMarker(b, v)}
             S == {t \in X : KeyBelongsToCmdlineArea(a, t[2]) /\ t[2] # CmdlineSchemaKey(a)}
             U == {t \in X : t[2] \notin MachineKeys \cup NetworkKeys}
  <1>0. \A c \in CmdlineAreas : CmdlineSchemaKey(c) \in MachineKeys \cup NetworkKeys
                                /\ KeyBelongsToCmdlineArea(c, CmdlineSchemaKey(c))
    BY DEF CmdlineAreas, CmdlineSchemaKey, KeyBelongsToCmdlineArea, MachineKeys, NetworkKeys
  <1>1. NewMarker(b, v)[2] = CmdlineSchemaKey(b)
    BY DEF NewMarker
  <1>2. \A x : KeyBelongsToCmdlineArea(b, x) => x \in MachineKeys \cup NetworkKeys
    BY DEF KeyBelongsToCmdlineArea
  <1>3. Keep(new, U) = Keep(tokens, U) /\ new \in Seq(X)
    <2>1. \A t \in Range(tokens) : t \in U => t \in KeptTokens(tokens, b, only)
      BY <1>0, <1>2 DEF KeptTokens
    <2>2. \A t \in Range(defaults) : t \in U => t \notin AddedTokens(defaults, b, only)
      BY <1>2 DEF AddedTokens
    <2>3. NewMarker(b, v) \notin U
      BY <1>0, <1>1
    <2>4. Untouched(tokens, defaults, b, v, only, U)
      BY <2>1, <2>2, <2>3 DEF Untouched
    <2> HIDE DEF U
    <2> QED
      BY <2>4, RewriteKeeps
  <1>4. Untouched(tokens, defaults, b, v, only, S) =>
          Keep(new, S) = Keep(tokens, S) /\ new \in Seq(X)
    <2> HIDE DEF S
    <2> QED
      BY RewriteKeeps
  <1>5. a # b \/ only => Keep(new, S) = Keep(tokens, S)
    <2> SUFFICES ASSUME a # b \/ only PROVE Keep(new, S) = Keep(tokens, S)
      OBVIOUS
    <2>0. a # b => \A x : ~(KeyBelongsToCmdlineArea(a, x) /\ KeyBelongsToCmdlineArea(b, x))
      BY KeysApart DEF CmdlineAreas, KeyBelongsToCmdlineArea
    <2>1. \A t \in Range(tokens) : t \in S => t \in KeptTokens(tokens, b, only)
      BY <1>0, <2>0 DEF KeptTokens
    <2>2. \A t \in Range(defaults) : t \in S => t \notin AddedTokens(defaults, b, only)
      BY <2>0 DEF AddedTokens
    <2>3. NewMarker(b, v) \notin S
      BY <1>0, <1>1, <2>0
    <2>4. Untouched(tokens, defaults, b, v, only, S)
      BY <2>1, <2>2, <2>3 DEF Untouched
    <2> HIDE DEF S
    <2> QED
      BY <1>4, <2>4, Zenon
  <1>6. tokens \in Seq(X)
    <2>1. tokens \in Seq(Range(tokens))
      BY DEF IsText
    <2> QED
      BY <2>1
  <1>7. \A s \in Seq(X) : Says(a, s) = Keep(s, S) /\ Unowned(a, s) = Keep(s, U)
    <2> SUFFICES ASSUME NEW s \in Seq(X) PROVE Says(a, s) = Keep(s, S) /\ Unowned(a, s) = Keep(s, U)
      OBVIOUS
    <2> DEFINE S1 == {t \in Range(s) : KeyBelongsToCmdlineArea(a, t[2]) /\ t[2] # CmdlineSchemaKey(a)}
               U1 == {t \in Range(s) : t[2] \notin MachineKeys \cup NetworkKeys}
    <2>0. Range(s) \subseteq X
      <3> HIDE DEF X
      <3> QED
        BY DEF Range
    <2>1. Says(a, s) = Keep(s, S1)
      BY DEF Says, CmdlineAreas
    <2>2. Unowned(a, s) = Keep(s, U1)
      BY DEF Unowned, CmdlineAreas
    <2>3. \A t \in Range(s) : (t \in S1 <=> t \in S) /\ (t \in U1 <=> t \in U)
      BY <2>0
    <2> HIDE DEF S, U, S1, U1, X
    <2>4. Keep(s, S1) = Keep(s, S)
      BY <2>3, KeepWithin
    <2>5. Keep(s, U1) = Keep(s, U)
      BY <2>3, KeepWithin
    <2> QED
      BY <2>1, <2>2, <2>4, <2>5
  <1> HIDE DEF S, U, X
  <1> QED
    BY <1>3, <1>5, <1>6, <1>7

-----------------------------------------------------------------------------
(* What the user wrote is kept. *)

DefaultsAreTexts(rel) == \A p \in DOMAIN rel.templates : IsText(rel.templates[p])

\* The content that a change gives to a file it started from.
Rewritten(a, class, old, default) ==
    CASE a \in {"Machines", "Settings"} ->
           IF class = "ResetRequired" THEN default ELSE PrefixTextSchema(old, 2)
      [] a = "ConfigManagedBlock" ->
           IF class = "ResetRequired" THEN ReplaceConfigBlock(old, default)
           ELSE AddConfigBlockHeader(old, 2)
      [] a \in CmdlineAreas ->
           IF class = "ResetRequired" THEN RewriteCmdlineArea(old, default, a, 2, FALSE)
           ELSE RewriteCmdlineArea(old, <<>>, a, 2, TRUE)

LEMMA NewContent ==
    ASSUME NEW plan, NEW rel, Agreed(plan, rel), NEW a \in Areas, Changed(plan, a),
           NEW p \in AreaPaths[a] \cap Templates(rel), p \in DOMAIN plan[a].content
    PROVE  /\ p \in DOMAIN NewFiles(a, plan, rel)
           /\ NewFiles(a, plan, rel)[p]
                = Rewritten(a, plan[a].classification, plan[a].content[p], rel.templates[p])
  <1> DEFINE resets == plan[a].classification = "ResetRequired"
             old == plan[a].content[p]
             new == NewFiles(a, plan, rel)[p]
             m == MigrationOf(plan, a, rel)
             source == plan[a].content
             defaults == Defaults(a, rel)
  <1>1. m.area = a /\ m.to = 2 /\ m.transform = Transforms(a, m.lossy)
        /\ (m.lossy <=> resets)
    BY MigrationFound
  <1>2. NewFiles(a, plan, rel) = Transformed(m, source, defaults)
    BY DEF NewFiles
  <1>3. p \in DOMAIN defaults /\ defaults[p] = rel.templates[p]
    BY DEF Defaults
  <1> HIDE DEF m, defaults, source
  <1>4. p \in DOMAIN source /\ old = source[p]
    BY DEF source
  <1>5. CASE a \in {"Machines", "Settings"}
    <2>1. m.transform = IF resets THEN "ResetDefaults" ELSE "TextHeader"
      BY <1>1, <1>5 DEF Transforms
    <2>2. Transformed(m, source, defaults)
            = IF resets THEN defaults ELSE [q \in DOMAIN source |-> PrefixTextSchema(source[q], 2)]
      BY <1>1, <2>1 DEF Transformed
    <2> QED
      BY <1>1, <1>2, <1>3, <1>4, <1>5, <2>2 DEF CmdlineAreas, Rewritten
  <1>6. CASE a = "ConfigManagedBlock"
    <2>1. m.transform = IF resets THEN "ResetConfigBlock" ELSE "ConfigBlockHeader"
      BY <1>1, <1>6 DEF Transforms
    <2>2. Transformed(m, source, defaults)
            = IF resets THEN [q \in DOMAIN source |-> ReplaceConfigBlock(source[q], defaults[q])]
              ELSE [q \in DOMAIN source |-> AddConfigBlockHeader(source[q], 2)]
      BY <1>1, <2>1 DEF Transformed
    <2> QED
      BY <1>1, <1>2, <1>3, <1>4, <1>6, <2>2 DEF CmdlineAreas, Rewritten
  <1>7. CASE a \in CmdlineAreas
    <2>1. m.transform = IF resets THEN "ResetCmdlineKeys" ELSE "CmdlineMarker"
      BY <1>1, <1>7 DEF Transforms, CmdlineAreas
    <2>2. Transformed(m, source, defaults)
            = IF resets THEN [q \in DOMAIN source |-> RewriteCmdlineArea(source[q], defaults[q], a, 2, FALSE)]
              ELSE [q \in DOMAIN source |-> RewriteCmdlineArea(source[q], <<>>, a, 2, TRUE)]
      BY <1>1, <2>1 DEF Transformed
    <2> QED
      BY <1>1, <1>2, <1>3, <1>4, <1>7, <2>2 DEF CmdlineAreas, Rewritten
  <1>8. CASE a = "UpdateState"
    <2>1. AreaPaths[a] \cap TemplatePaths = {}
      BY <1>8 DEF AreaPaths, TemplatePaths
    <2>2. p \in AreaPaths[a] /\ p \in TemplatePaths
      BY DEF Agreed
    <2> QED
      BY <2>1, <2>2
  <1> QED
    BY <1>5, <1>6, <1>7, <1>8 DEF Areas, CmdlineAreas

\* A file of an area and what the change of that area, or of the other area of the
\* same file, leaves in it.
LEMMA ChangeKeeps ==
    ASSUME NEW plan, NEW rel, Agreed(plan, rel), ChangesApply(plan, rel), DefaultsAreTexts(rel),
           NEW a \in Areas, NEW b \in Areas, Changed(plan, b),
           NEW p \in AreaPaths[a] \cap AreaPaths[b] \cap Templates(rel),
           p \in DOMAIN plan[a].content,
           NEW old, old = plan[a].content[p], NEW new, new = NewFiles(b, plan, rel)[p]
    PROVE  /\ p \in DOMAIN NewFiles(b, plan, rel)
           /\ a \notin ResetAreas(plan) => Says(a, new) = Says(a, old)
           /\ Unowned(a, new) = Unowned(a, old)
  <1> DEFINE resets == plan[b].classification = "ResetRequired"
  <1>1. plan[a].content = plan[b].content
    <2>1. CASE a = b
      BY <2>1
    <2>2. CASE a # b
      <3>1. {a, b} = {"CmdlineManagedKeys", "Network"}
        BY <2>2, AreasApart
      <3>2. plan["CmdlineManagedKeys"].content = plan["Network"].content
        BY DEF Agreed
      <3>3. \/ a = "CmdlineManagedKeys" /\ b = "Network"
            \/ b = "CmdlineManagedKeys" /\ a = "Network"
        BY <2>2, <3>1
      <3> QED
        BY <3>2, <3>3
    <2> QED
      BY <2>1, <2>2
  <1>2. /\ DetectArea(b, plan[b].content) = Valid(1)
    BY MigrationFound
  <1>3. IsText(old) /\ IsText(rel.templates[p])
    BY DEF Agreed, Texts, DefaultsAreTexts, Templates
  <1>4. \/ a = "Machines" /\ p \in {"machines.ini", "machines.defaults.ini"}
        \/ a = "ConfigManagedBlock" /\ p = "config.txt"
        \/ a \in CmdlineAreas /\ p = "cmdline.txt"
    BY TemplateKinds DEF Agreed, CmdlineAreas
  <1>5. /\ p \in DOMAIN NewFiles(b, plan, rel)
        /\ new = Rewritten(b, plan[b].classification, old, rel.templates[p])
    <2>1. p \in AreaPaths[b] \cap Templates(rel) /\ p \in DOMAIN plan[b].content /\ old = plan[b].content[p]
      BY <1>1
    <2> QED
      BY <2>1, NewContent
  <1>6. a \notin ResetAreas(plan) => a # b \/ ~resets
    BY <1>2 DEF ResetAreas
  <1> HIDE DEF resets
  <1>7. CASE a = "Machines"
    <2>1. b = "Machines"
      BY <1>7, AreasApart
    <2>2. \A l : Unowned(a, l) = <<>> /\ Says(a, l) = Unheaded(l)
      BY <1>7 DEF Unowned, Says, Unheaded
    <2>3. ~resets => Unheaded(new) = Unheaded(old)
      <3>1. ~resets => new = PrefixTextSchema(old, 2)
        BY <1>5, <2>1 DEF Rewritten, resets, CmdlineAreas
      <3> QED
        BY <1>3, <3>1, HeaderAside
    <2> QED
      BY <1>5, <1>6, <1>7, <2>1, <2>2, <2>3
  <1>8. CASE a = "ConfigManagedBlock"
    <2>1. b = "ConfigManagedBlock" /\ p = "config.txt"
      BY <1>4, <1>8, AreasApart DEF CmdlineAreas
    <2>2. ConfigBlockOk(old)
      <3>1. DetectConfigBlock(plan[a].content) = Valid(1)
        BY <1>1, <1>2, <2>1 DEF DetectArea
      <3> QED
        BY <2>1, <3>1 DEF DetectConfigBlock, Valid, Missing, Rejected
    <2>3. Block(old, InnerStart(old), InnerEnd(old))
      BY <1>3, <2>2, BlockExists
    <2>4. CASE ~resets
      <3>1. new = AddConfigBlockHeader(old, 2)
        BY <1>5, <2>1, <2>4 DEF Rewritten, resets, CmdlineAreas
      <3> QED
        BY <1>5, <1>8, <2>1, <2>3, <3>1, HeaderedSays
    <2>5. CASE resets
      <3> DEFINE defaults == rel.templates[p]
      <3>1. ConfigBlockOk(defaults)
        <4>1. DetectArea(b, Defaults(b, rel)) = Valid(2)
          BY <2>5, ChangeMade DEF resets
        <4>2. DetectConfigBlock(Defaults(b, rel)) = Valid(2)
          BY <2>1, <4>1 DEF DetectArea
        <4>3. Defaults(b, rel)[p] = rel.templates[p]
          BY DEF Defaults
        <4> QED
          BY <2>1, <4>2, <4>3 DEF DetectConfigBlock, Valid, Missing, Rejected
      <3>2. Block(defaults, InnerStart(defaults), InnerEnd(defaults))
        BY <1>3, <3>1, BlockExists
      <3>3. new = ReplaceConfigBlock(old, defaults)
        BY <1>5, <2>1, <2>5 DEF Rewritten, resets, CmdlineAreas
      <3>4. Unowned(a, new) = Unowned(a, old)
        BY <1>8, <2>3, <3>2, <3>3, ReplacedUnowned
      <3> QED
        BY <1>5, <1>6, <1>8, <2>1, <2>5, <3>4
    <2> QED
      BY <1>2, <2>4, <2>5
  <1>9. CASE a \in CmdlineAreas
    <2>1. b \in CmdlineAreas
      BY <1>9, AreasApart DEF CmdlineAreas
    <2>2. IsText(<<>>)
      BY DEF IsText, Range
    <2>3. ASSUME NEW d, IsText(d), NEW only \in BOOLEAN, new = RewriteCmdlineArea(old, d, b, 2, only)
          PROVE  (a # b \/ only => Says(a, new) = Says(a, old)) /\ Unowned(a, new) = Unowned(a, old)
      BY <1>3, <1>9, <2>1, <2>3, RewriteSays
    <2>4. CASE ~resets
      <3>1. new = RewriteCmdlineArea(old, <<>>, b, 2, TRUE)
        BY <1>5, <2>1, <2>4 DEF Rewritten, resets, CmdlineAreas
      <3>2. (a # b \/ TRUE => Says(a, new) = Says(a, old)) /\ Unowned(a, new) = Unowned(a, old)
        BY <2>2, <2>3, <3>1
      <3> QED
        BY <1>5, <3>2
    <2>5. CASE resets
      <3>1. new = RewriteCmdlineArea(old, rel.templates[p], b, 2, FALSE)
        BY <1>5, <2>1, <2>5 DEF Rewritten, resets, CmdlineAreas
      <3>2. (a # b \/ FALSE => Says(a, new) = Says(a, old)) /\ Unowned(a, new) = Unowned(a, old)
        BY <1>3, <2>3, <3>1
      <3> QED
        BY <1>5, <1>6, <2>5, <3>2
    <2> QED
      BY <2>4, <2>5
  <1> QED
    BY <1>4, <1>7, <1>8, <1>9

LEMMA SetKeeps ==
    ASSUME BuiltInv, ConfigInv
    PROVE  UserDataKept
  <1> SUFFICES ASSUME published # NotYet, NEW a \in Areas,
                      NEW p \in AreaPaths[a] \cap Templates(release) \cap DOMAIN consent[a].content,
                      NEW old, old = consent[a].content[p],
                      NEW new, new = published.prepared[p]
               PROVE  /\ a \notin ResetAreas(consent) => Says(a, new) = Says(a, old)
                      /\ Unowned(a, new) = Unowned(a, old)
    BY DEF UserDataKept
  <1>1. /\ Agreed(consent, release) /\ Built(published, consent, release)
        /\ ChangesApply(consent, release)
    BY DEF BuiltInv, Built
  <1>2. p \in DOMAIN published.current /\ published.current[p] = old
    BY DEF ConfigInv, MatchesConsent
  <1>3. DefaultsAreTexts(release)
    BY FilesAssumption DEF BuiltInv, DefaultsAreTexts
  <1>4. CASE \A b \in Areas : p \in AreaPaths[b] => ~Changed(consent, b)
    <2>1. new = old
      BY <1>1, <1>2, <1>4, FileStays
    <2> QED
      BY <2>1
  <1>5. CASE \E b \in Areas : p \in AreaPaths[b] /\ Changed(consent, b)
    <2>1. PICK b \in Areas : p \in AreaPaths[b] /\ Changed(consent, b)
      BY <1>5
    <2> DEFINE made == NewFiles(b, consent, release)[p]
    <2>2. /\ p \in DOMAIN NewFiles(b, consent, release)
          /\ a \notin ResetAreas(consent) => Says(a, made) = Says(a, old)
          /\ Unowned(a, made) = Unowned(a, old)
      BY <1>1, <1>3, <2>1, ChangeKeeps
    <2>3. new = made
      BY <1>1, <2>1, <2>2, FileChanges
    <2> QED
      BY <2>2, <2>3
  <1> QED
    BY <1>4, <1>5

\* The plan and what was built by it (PrepareForStage, RestoreForResume): every set was made
\* by the steps of the code from the plan that the menu has checked.
THEOREM BuiltInvariant == Spec => []BuiltInv
  <1>1. Init => BuiltInv
    <2> SUFFICES ASSUME Init PROVE BuiltInv
      OBVIOUS
    <2>1. release \in Releases /\ Texts(disk)
      BY FilesAssumption DEF Init, Texts
    <2>2. pc = "menu" /\ consent = NotYet /\ evidence = NotYet /\ published = NotYet
      BY DEF Init
    <2> QED
      BY <2>1, <2>2 DEF BuiltInv
  <1> QED
    BY <1>1, BuiltStep, PTL DEF Spec

\* Whatever the user wrote stays, in order: in the areas that are not reset, in the part of
\* cmdline.txt that the other area owns, and in what no area owns (ApplyConfigChange).
THEOREM UserDataAlwaysKept == Spec => []UserDataKept
  BY BuiltInvariant, ConfigInvariant, SetKeeps, PTL

-----------------------------------------------------------------------------
(* Reading a command line. *)

OwnedAt(a, tokens) == {i \in DOMAIN tokens : KeyBelongsToCmdlineArea(a, tokens[i][2])}
MarkersAt(a, tokens) == {i \in OwnedAt(a, tokens) : tokens[i][2] = CmdlineSchemaKey(a)}

\* What is asked of the tokens of an area, and the version they have.
TokensOk(a, tokens) ==
    /\ \A i \in OwnedAt(a, tokens) : tokens[i][3] # 0
    /\ \A i, j \in OwnedAt(a, tokens) : tokens[i][2] = tokens[j][2] => i = j

TokensVersion(a, tokens) ==
    IF MarkersAt(a, tokens) = {} THEN 1 ELSE tokens[First(MarkersAt(a, tokens))][3]

LEMMA Parsing ==
    ASSUME NEW files, DOMAIN files # {}, NEW a, NEW tokens, tokens = files["cmdline.txt"]
    PROVE  ParseCmdline(files, a) = IF Kinds(tokens, "junk") = {} /\ TokensOk(a, tokens)
                                    THEN Valid(TokensVersion(a, tokens)) ELSE Rejected
  BY DEF ParseCmdline, TokensOk, TokensVersion, OwnedAt, MarkersAt

\* The one marker among tokens of distinct keys.
LEMMA OneMarker ==
    ASSUME NEW X, NEW tokens \in Seq(X), NEW a, TokensOk(a, tokens), NEW i \in MarkersAt(a, tokens)
    PROVE  TokensVersion(a, tokens) = tokens[i][3]
  <1>1. \A j \in MarkersAt(a, tokens) : j = i
    BY DEF MarkersAt, TokensOk
  <1>2. MarkersAt(a, tokens) = {i}
    BY <1>1
  <1>3. i \in Int
    BY DEF MarkersAt, OwnedAt
  <1>4. First({i}) = i
    BY <1>3 DEF First
  <1> QED
    BY <1>2, <1>4 DEF TokensVersion

\* Only the tokens of the area matter.
LEMMA OwnTokens ==
    ASSUME NEW X, NEW s \in Seq(X), NEW a, NEW W,
           \A t \in X : t \in W <=> KeyBelongsToCmdlineArea(a, t[2]),
           NEW k, k = Keep(s, W)
    PROVE  /\ TokensOk(a, s) <=> TokensOk(a, k)
           /\ TokensOk(a, s) => TokensVersion(a, s) = TokensVersion(a, k)
  <1>1. k \in Seq(X)
    BY KeepType
  <1>2. PICK e : Places(e, s, W, k)
    BY KeepPlaces
  <1>3. /\ e \in [1..Len(k) -> 1..Len(s)]
        /\ \A j \in 1..Len(k) : k[j] = s[e[j]] /\ s[e[j]] \in W
        /\ \A j, l \in 1..Len(k) : e[j] = e[l] => j = l
        /\ \A i \in 1..Len(s) : s[i] \in W => \E j \in 1..Len(k) : e[j] = i
    BY <1>2 DEF Places
  <1>4. DOMAIN s = 1..Len(s) /\ DOMAIN k = 1..Len(k)
    BY <1>1
  <1>5. \A j \in 1..Len(k) : j \in OwnedAt(a, k) /\ e[j] \in OwnedAt(a, s) /\ k[j] = s[e[j]]
    <2> TAKE j \in 1..Len(k)
    <2>1. e[j] \in 1..Len(s) /\ s[e[j]] \in W /\ k[j] = s[e[j]]
      BY <1>3
    <2>2. KeyBelongsToCmdlineArea(a, k[j][2])
      BY <2>1
    <2> QED
      BY <1>4, <2>1, <2>2 DEF OwnedAt
  <1>6. \A i \in OwnedAt(a, s) : \E j \in 1..Len(k) : e[j] = i
    <2> TAKE i \in OwnedAt(a, s)
    <2>1. i \in 1..Len(s) /\ s[i] \in X /\ KeyBelongsToCmdlineArea(a, s[i][2])
      BY <1>4 DEF OwnedAt
    <2> QED
      BY <1>3, <2>1
  <1>7. OwnedAt(a, k) = 1..Len(k)
    BY <1>4, <1>5 DEF OwnedAt
  <1>8. ASSUME TokensOk(a, s) PROVE TokensOk(a, k)
    <2>1. \A j \in 1..Len(k) : k[j][3] # 0
      BY <1>5, <1>8 DEF TokensOk
    <2>2. ASSUME NEW j \in 1..Len(k), NEW l \in 1..Len(k), k[j][2] = k[l][2] PROVE j = l
      <3>1. e[j] = e[l]
        BY <1>5, <1>8, <2>2 DEF TokensOk
      <3> QED
        BY <1>3, <3>1
    <2> QED
      BY <1>7, <2>1, <2>2 DEF TokensOk
  <1>9. ASSUME TokensOk(a, k) PROVE TokensOk(a, s)
    <2>1. ASSUME NEW i \in OwnedAt(a, s) PROVE s[i][3] # 0
      <3>1. PICK j \in 1..Len(k) : e[j] = i
        BY <1>6
      <3>2. k[j][3] # 0 /\ k[j] = s[i]
        BY <1>5, <1>9, <3>1 DEF TokensOk
      <3> QED
        BY <3>2
    <2>2. ASSUME NEW i \in OwnedAt(a, s), NEW h \in OwnedAt(a, s), s[i][2] = s[h][2] PROVE i = h
      <3>1. PICK j \in 1..Len(k) : e[j] = i
        BY <1>6
      <3>2. PICK l \in 1..Len(k) : e[l] = h
        BY <1>6
      <3>3. k[j] = s[i] /\ k[l] = s[h] /\ j \in OwnedAt(a, k) /\ l \in OwnedAt(a, k)
        BY <1>5, <3>1, <3>2
      <3>4. j = l
        BY <1>9, <2>2, <3>3 DEF TokensOk
      <3> QED
        BY <3>1, <3>2, <3>4
    <2> QED
      BY <2>1, <2>2 DEF TokensOk
  <1>10. ASSUME TokensOk(a, s) PROVE TokensVersion(a, s) = TokensVersion(a, k)
    <2>1. TokensOk(a, k)
      BY <1>8, <1>10
    <2>2. CASE MarkersAt(a, s) = {}
      <3>1. MarkersAt(a, k) = {}
        BY <1>5, <1>7, <2>2 DEF MarkersAt
      <3> QED
        BY <2>2, <3>1 DEF TokensVersion
    <2>3. CASE MarkersAt(a, s) # {}
      <3>1. PICK i \in MarkersAt(a, s) : TRUE
        BY <2>3
      <3>2. PICK j \in 1..Len(k) : e[j] = i
        BY <1>6, <3>1 DEF MarkersAt
      <3>3. k[j] = s[i] /\ j \in MarkersAt(a, k)
        BY <1>5, <3>1, <3>2 DEF MarkersAt
      <3>4. TokensVersion(a, s) = s[i][3]
        BY <1>10, <3>1, OneMarker
      <3>5. TokensVersion(a, k) = k[j][3]
        BY <1>1, <2>1, <3>3, OneMarker
      <3> QED
        BY <3>3, <3>4, <3>5
    <2> QED
      BY <2>2, <2>3
  <1> QED
    BY <1>8, <1>9, <1>10

\* The other area reads the same as before in a command line that was rewritten.
LEMMA OtherAreaReads ==
    ASSUME NEW tokens, IsText(tokens), NEW defaults, IsText(defaults),
           NEW a \in CmdlineAreas, NEW b \in CmdlineAreas, a # b, NEW v, NEW only \in BOOLEAN,
           NEW new, new = RewriteCmdlineArea(tokens, defaults, b, v, only)
    PROVE  /\ TokensOk(a, tokens) <=> TokensOk(a, new)
           /\ TokensOk(a, tokens) => TokensVersion(a, new) = TokensVersion(a, tokens)
  <1> DEFINE X == Range(tokens) \cup Range(defaults) \cup {NewMarker(b, v)}
             W == {t \in X : KeyBelongsToCmdlineArea(a, t[2])}
  <1>0. \A x : ~(KeyBelongsToCmdlineArea(a, x) /\ KeyBelongsToCmdlineArea(b, x))
    BY KeysApart DEF CmdlineAreas, KeyBelongsToCmdlineArea
  <1>1. KeyBelongsToCmdlineArea(b, CmdlineSchemaKey(b)) /\ NewMarker(b, v)[2] = CmdlineSchemaKey(b)
    BY DEF CmdlineAreas, CmdlineSchemaKey, KeyBelongsToCmdlineArea, MachineKeys, NetworkKeys, NewMarker
  <1>2. \A t \in Range(tokens) : t \in W => t \in KeptTokens(tokens, b, only)
    BY <1>0, <1>1 DEF KeptTokens
  <1>3. \A t \in Range(defaults) : t \in W => t \notin AddedTokens(defaults, b, only)
    BY <1>0 DEF AddedTokens
  <1>4. NewMarker(b, v) \notin W
    BY <1>0, <1>1
  <1>5. \A t \in X : t \in W <=> KeyBelongsToCmdlineArea(a, t[2])
    OBVIOUS
  <1>6. tokens \in Seq(X)
    <2>1. tokens \in Seq(Range(tokens)) /\ Range(tokens) \subseteq X
      BY DEF IsText
    <2> HIDE DEF X
    <2> QED
      BY <2>1
  <1> HIDE DEF W
  <1>7. Keep(new, W) = Keep(tokens, W) /\ new \in Seq(X)
    <2>1. Untouched(tokens, defaults, b, v, only, W)
      BY <1>2, <1>3, <1>4 DEF Untouched
    <2> QED
      BY <2>1, RewriteKeeps
  <1> HIDE DEF X
  <1>8. PICK k : k = Keep(tokens, W)
    OBVIOUS
  <1>9. /\ TokensOk(a, tokens) <=> TokensOk(a, k)
        /\ TokensOk(a, tokens) => TokensVersion(a, tokens) = TokensVersion(a, k)
    BY <1>5, <1>6, <1>8, OwnTokens
  <1>10. /\ TokensOk(a, new) <=> TokensOk(a, k)
         /\ TokensOk(a, new) => TokensVersion(a, new) = TokensVersion(a, k)
    BY <1>5, <1>7, <1>8, OwnTokens
  <1> QED
    BY <1>9, <1>10

-----------------------------------------------------------------------------
(* The installed set is in order. *)

\* No template belongs to the settings or to the metadata.
LEMMA KeptAreas ==
    ASSUME NEW plan, NEW rel, Agreed(plan, rel), NEW a \in {"Settings", "UpdateState"}
    PROVE  ~Changed(plan, a) /\ AreaPaths[a] \cap Templates(rel) = {}
  <1>1. AreaPaths[a] \cap TemplatePaths = {} /\ a \in Areas
    BY DEF AreaPaths, TemplatePaths, SettingsPaths, Areas
  <1>2. AreaPaths[a] \cap Templates(rel) = {}
    BY <1>1 DEF Agreed
  <1> QED
    BY <1>1, <1>2 DEF Agreed

LEMMA PreparedDomain ==
    ASSUME NEW plan, NEW rel, NEW set, Built(set, plan, rel)
    PROVE  DOMAIN set.prepared = Templates(rel)
  BY DEF Built, BootTemplates, ApplyRepresentableChanges, ReadTemplates

\* The files that a change makes.
LEMMA NewDomain ==
    ASSUME NEW plan, NEW rel, Agreed(plan, rel), NEW a \in Areas, Changed(plan, a),
           NEW made, made = NewFiles(a, plan, rel)
    PROVE  /\ made = [p \in DOMAIN made |-> made[p]]
           /\ DOMAIN made = IF plan[a].classification = "ResetRequired"
                            THEN AreaPaths[a] \cap Templates(rel) ELSE DOMAIN plan[a].content
  <1> DEFINE resets == plan[a].classification = "ResetRequired"
             m == MigrationOf(plan, a, rel)
             source == plan[a].content
             defaults == Defaults(a, rel)
  <1>1. m.area = a /\ m.to = 2 /\ m.transform = Transforms(a, m.lossy) /\ (m.lossy <=> resets)
    BY MigrationFound
  <1>2. made = Transformed(m, source, defaults)
    BY DEF NewFiles
  <1>3. DOMAIN defaults = AreaPaths[a] \cap Templates(rel) /\ defaults = [p \in DOMAIN defaults |-> defaults[p]]
    BY DEF Defaults
  <1>4. DOMAIN source # {} /\ DOMAIN source \subseteq AreaPaths[a] /\ DOMAIN source \subseteq Templates(rel)
    BY DEF Agreed
  <1> HIDE DEF m, defaults, source
  <1>5. CASE a = "Machines"
    <2>1. m.transform = IF resets THEN "ResetDefaults" ELSE "TextHeader"
      BY <1>1, <1>5 DEF Transforms
    <2>2. made = IF resets THEN defaults ELSE [q \in DOMAIN source |-> PrefixTextSchema(source[q], 2)]
      BY <1>1, <1>2, <2>1 DEF Transformed
    <2> QED
      BY <1>3, <2>2 DEF source
  <1>6. CASE a = "ConfigManagedBlock"
    <2>1. m.transform = IF resets THEN "ResetConfigBlock" ELSE "ConfigBlockHeader"
      BY <1>1, <1>6 DEF Transforms
    <2>2. made = IF resets THEN [q \in DOMAIN source |-> ReplaceConfigBlock(source[q], defaults[q])]
                 ELSE [q \in DOMAIN source |-> AddConfigBlockHeader(source[q], 2)]
      BY <1>1, <1>2, <2>1 DEF Transformed
    <2>3. DOMAIN source = AreaPaths[a] \cap Templates(rel)
      BY <1>4, <1>6 DEF AreaPaths
    <2> QED
      BY <2>2, <2>3 DEF source
  <1>7. CASE a \in CmdlineAreas
    <2>1. m.transform = IF resets THEN "ResetCmdlineKeys" ELSE "CmdlineMarker"
      BY <1>1, <1>7 DEF Transforms, CmdlineAreas
    <2>2. made = IF resets
                 THEN [q \in DOMAIN source |-> RewriteCmdlineArea(source[q], defaults[q], a, 2, FALSE)]
                 ELSE [q \in DOMAIN source |-> RewriteCmdlineArea(source[q], <<>>, a, 2, TRUE)]
      BY <1>1, <1>2, <2>1 DEF Transformed
    <2>3. DOMAIN source = AreaPaths[a] \cap Templates(rel)
      BY <1>4, <1>7 DEF AreaPaths, CmdlineAreas
    <2> QED
      BY <2>2, <2>3 DEF source
  <1> QED
    BY <1>5, <1>6, <1>7, KeptAreas DEF Areas, CmdlineAreas

\* The situation in which the candidate looks at the configuration.
Ready ==
    /\ BuiltInv /\ ConfigInv /\ published # NotYet
    /\ ~AddsToArea(published) /\ ~KeepsOlder(consent) /\ ~LacksBuildInfo(consent)
    /\ \A a \in Areas : consent[a].content = Snapshot(disk, a)

LEMMA ReadyFacts ==
    ASSUME Ready
    PROVE  /\ Agreed(consent, release) /\ Built(published, consent, release)
           /\ ChangesApply(consent, release) /\ DefaultsAreTexts(release)
           /\ DOMAIN published.prepared = Templates(release)
           /\ MatchesConsent(published)
  <1>1. Agreed(consent, release) /\ Built(published, consent, release)
    BY DEF Ready, BuiltInv
  <1>2. DefaultsAreTexts(release)
    BY FilesAssumption DEF Ready, BuiltInv, DefaultsAreTexts
  <1>3. MatchesConsent(published)
    BY DEF Ready, ConfigInv
  <1> QED
    BY <1>1, <1>2, <1>3, PreparedDomain DEF Built

LEMMA InstalledDomain ==
    ASSUME Ready, NEW a \in Areas
    PROVE  DOMAIN Snapshot(Installed(published), a)
             = IF consent[a].classification = "ResetRequired"
               THEN AreaPaths[a] \cap Templates(release) ELSE DOMAIN consent[a].content
  <1> DEFINE shot == Snapshot(Installed(published), a)
  <1>1. DOMAIN Installed(published) = DOMAIN disk \cup Templates(release)
    BY ReadyFacts DEF Installed
  <1>2. DOMAIN shot = AreaPaths[a] \cap (DOMAIN disk \cup Templates(release))
    BY <1>1 DEF Snapshot
  <1>3. DOMAIN consent[a].content = AreaPaths[a] \cap DOMAIN disk
    BY DEF Ready, Snapshot
  <1>4. CASE consent[a].classification = "ResetRequired"
    <2>1. DOMAIN consent[a].content \subseteq Templates(release)
      BY <1>4, ReadyFacts DEF Agreed, Changed
    <2> QED
      BY <1>2, <1>3, <1>4, <2>1
  <1>5. CASE consent[a].classification # "ResetRequired"
    <2>1. \A p \in AreaPaths[a] \cap Templates(release) : p \in DOMAIN published.current
      BY <1>5 DEF Ready, AddsToArea, ResetAreas
    <2>2. \A p \in AreaPaths[a] \cap Templates(release) : p \in DOMAIN consent[a].content
      BY <2>1, ReadyFacts DEF MatchesConsent
    <2> QED
      BY <1>2, <1>3, <1>5, <2>2
  <1> QED
    BY <1>4, <1>5

LEMMA InstalledContent ==
    ASSUME Ready, NEW a \in Areas, NEW p \in DOMAIN Snapshot(Installed(published), a)
    PROVE  Snapshot(Installed(published), a)[p]
             = IF p \in Templates(release) THEN published.prepared[p] ELSE disk[p]
  BY ReadyFacts DEF Snapshot, Installed

\* A changed area has the files that its change made.
LEMMA InstalledChange ==
    ASSUME Ready, NEW a \in Areas, Changed(consent, a)
    PROVE  Snapshot(Installed(published), a) = NewFiles(a, consent, release)
  <1> DEFINE shot == Snapshot(Installed(published), a)
             made == NewFiles(a, consent, release)
  <1>1. /\ made = [p \in DOMAIN made |-> made[p]] /\ DOMAIN made = DOMAIN shot
    <2>1. Agreed(consent, release)
      BY ReadyFacts
    <2>2. /\ made = [p \in DOMAIN made |-> made[p]]
          /\ DOMAIN made = IF consent[a].classification = "ResetRequired"
                           THEN AreaPaths[a] \cap Templates(release) ELSE DOMAIN consent[a].content
      <3>1. made = NewFiles(a, consent, release)
        OBVIOUS
      <3> HIDE DEF made, shot
      <3>2. PICK plan, rel : plan = consent /\ rel = release
        OBVIOUS
      <3>3. /\ made = [p \in DOMAIN made |-> made[p]]
            /\ DOMAIN made = IF plan[a].classification = "ResetRequired"
                             THEN AreaPaths[a] \cap Templates(rel) ELSE DOMAIN plan[a].content
        BY <2>1, <3>1, <3>2, NewDomain
      <3> QED
        BY <3>2, <3>3
    <2>3. DOMAIN shot = DOMAIN made
      <3> HIDE DEF made
      <3> QED
        BY <2>2, InstalledDomain
    <2> QED
      BY <2>2, <2>3
  <1>2. shot = [p \in DOMAIN shot |-> shot[p]]
    BY DEF Snapshot
  <1>3. ASSUME NEW p \in DOMAIN shot PROVE shot[p] = made[p]
    <2>1. p \in AreaPaths[a] \cap Templates(release)
      <3>1. DOMAIN shot \subseteq AreaPaths[a]
        BY DEF Snapshot
      <3>2. DOMAIN consent[a].content \subseteq Templates(release)
        BY ReadyFacts DEF Agreed
      <3> QED
        BY <3>1, <3>2, InstalledDomain
    <2>2. shot[p] = published.prepared[p]
      BY <2>1, InstalledContent
    <2>3. published.prepared[p] = made[p]
      BY <1>1, <2>1, ReadyFacts, FileChanges
    <2> QED
      BY <2>2, <2>3
  <1> HIDE DEF shot, made
  <1>4. shot = made
    BY <1>1, <1>2, <1>3
  <1> QED
    BY <1>4 DEF shot, made

\* An area that shares no file with a changed one is as it was.
LEMMA InstalledSame ==
    ASSUME Ready, NEW a \in Areas,
           \A b \in Areas : AreaPaths[a] \cap AreaPaths[b] # {} => ~Changed(consent, b)
    PROVE  Snapshot(Installed(published), a) = consent[a].content
  <1> DEFINE shot == Snapshot(Installed(published), a)
             old == consent[a].content
  <1>1. consent[a].classification # "ResetRequired"
    <2>1. AreaPaths[a] # {}
      BY DEF AreaPaths, Areas, SettingsPaths
    <2>2. ~Changed(consent, a)
      BY <2>1
    <2> QED
      BY <2>2 DEF Changed
  <1>2. DOMAIN shot = DOMAIN old
    BY <1>1, InstalledDomain
  <1>3. old = [p \in AreaPaths[a] \cap DOMAIN disk |-> disk[p]]
    BY DEF Ready, Snapshot
  <1>4. shot = [p \in DOMAIN shot |-> shot[p]] /\ old = [p \in DOMAIN old |-> old[p]]
    BY <1>3 DEF Snapshot
  <1>5. ASSUME NEW p \in DOMAIN shot PROVE shot[p] = old[p]
    <2>1. p \in AreaPaths[a] /\ p \in DOMAIN old /\ old[p] = disk[p]
      BY <1>2, <1>3
    <2>2. CASE p \notin Templates(release)
      BY <2>1, <2>2, InstalledContent
    <2>3. CASE p \in Templates(release)
      <3>1. p \in DOMAIN published.current /\ published.current[p] = old[p]
        BY <2>1, <2>3, ReadyFacts DEF MatchesConsent
      <3>2. published.prepared[p] = published.current[p]
        <4>1. \A b \in Areas : p \in AreaPaths[b] => ~Changed(consent, b)
          BY <2>1
        <4> QED
          BY <2>1, <2>3, <3>1, <4>1, ReadyFacts, FileStays
      <3> QED
        BY <2>3, <3>1, <3>2, InstalledContent
    <2> QED
      BY <2>2, <2>3
  <1> HIDE DEF shot, old
  <1>6. shot = old
    BY <1>2, <1>4, <1>5
  <1> QED
    BY <1>6 DEF shot, old

\* The other area of a command line that was rewritten is read as before.
LEMMA InstalledOther ==
    ASSUME Ready, NEW a \in CmdlineAreas, NEW b \in CmdlineAreas, a # b, Changed(consent, b)
    PROVE  DetectArea(a, Snapshot(Installed(published), a)) = DetectArea(a, consent[a].content)
  <1> DEFINE shot == Snapshot(Installed(published), a)
             old == consent[b].content["cmdline.txt"]
             new == NewFiles(b, consent, release)["cmdline.txt"]
             default == release.templates["cmdline.txt"]
  <1>0. a \in Areas /\ b \in Areas /\ AreaPaths[a] = {"cmdline.txt"} /\ AreaPaths[b] = {"cmdline.txt"}
    BY DEF CmdlineAreas, Areas, AreaPaths
  <1>1. /\ Agreed(consent, release) /\ Built(published, consent, release)
        /\ ChangesApply(consent, release) /\ DefaultsAreTexts(release)
    BY ReadyFacts
  <1>2. ~Changed(consent, a) /\ consent[a].content = consent[b].content
    BY <1>1 DEF Agreed, CmdlineAreas
  <1>3. /\ "cmdline.txt" \in DOMAIN consent[b].content /\ "cmdline.txt" \in Templates(release)
        /\ IsText(old) /\ IsText(default)
    <2>1. /\ DOMAIN consent[b].content # {} /\ DOMAIN consent[b].content \subseteq AreaPaths[b]
          /\ DOMAIN consent[b].content \subseteq Templates(release) /\ Texts(consent[b].content)
      BY <1>0, <1>1 DEF Agreed
    <2>2. "cmdline.txt" \in DOMAIN consent[b].content /\ "cmdline.txt" \in Templates(release)
      BY <1>0, <2>1
    <2> QED
      BY <1>1, <2>1, <2>2 DEF Texts, DefaultsAreTexts, Templates
  <1>4. DOMAIN shot = DOMAIN consent[b].content /\ shot["cmdline.txt"] = new
    <2>1. consent[a].classification # "ResetRequired"
      BY <1>2 DEF Changed
    <2>2. DOMAIN shot = DOMAIN consent[a].content
      BY <1>0, <2>1, InstalledDomain
    <2>3. shot["cmdline.txt"] = published.prepared["cmdline.txt"]
      BY <1>0, <1>2, <1>3, <2>2, InstalledContent
    <2>4. "cmdline.txt" \in DOMAIN NewFiles(b, consent, release)
      BY <1>0, <1>1, <1>3, NewContent
    <2>5. published.prepared["cmdline.txt"] = new
      BY <1>0, <1>1, <1>3, <2>4, FileChanges
    <2> QED
      BY <1>2, <2>2, <2>3, <2>5
  <1>5. new = Rewritten(b, consent[b].classification, old, default)
    BY <1>0, <1>1, <1>3, NewContent
  <1>6. /\ TokensOk(a, old) <=> TokensOk(a, new)
        /\ TokensOk(a, old) => TokensVersion(a, new) = TokensVersion(a, old)
    <2>1. ASSUME NEW d, IsText(d), NEW only \in BOOLEAN, new = RewriteCmdlineArea(old, d, b, 2, only)
          PROVE  /\ TokensOk(a, old) <=> TokensOk(a, new)
                 /\ TokensOk(a, old) => TokensVersion(a, new) = TokensVersion(a, old)
      <3> HIDE DEF old, new
      <3> QED
        BY <1>3, <2>1, OtherAreaReads
    <2>2. IsText(<<>>)
      BY DEF IsText, Range
    <2>3. new = RewriteCmdlineArea(old, default, b, 2, FALSE) \/ new = RewriteCmdlineArea(old, <<>>, b, 2, TRUE)
      <3> HIDE DEF old, new, default
      <3> QED
        BY <1>5 DEF Rewritten, CmdlineAreas
    <2>4. FALSE \in BOOLEAN /\ TRUE \in BOOLEAN
      OBVIOUS
    <2> HIDE DEF old, new, default
    <2> QED
      BY <1>3, <2>1, <2>2, <2>3, <2>4, Zenon
  <1>7. Kinds(old, "junk") = {} /\ Kinds(new, "junk") = {}
    <2>1. DetectArea(b, consent[b].content) = Valid(1)
      BY <1>0, <1>1, MigrationFound
    <2>2. DetectArea(b, NewFiles(b, consent, release)) = Valid(2)
      BY <1>0, <1>1, ChangeMade
    <2>3. \A files : DetectArea(b, files) = ParseCmdline(files, b)
      BY DEF DetectArea, CmdlineAreas
    <2>4. \A files, v : ParseCmdline(files, b) = Valid(v) => Kinds(files["cmdline.txt"], "junk") = {}
      BY DEF ParseCmdline, Valid, Missing, Rejected
    <2> QED
      BY <2>1, <2>2, <2>3, <2>4
  <1>8. DetectArea(a, shot) = ParseCmdline(shot, a)
        /\ DetectArea(a, consent[a].content) = ParseCmdline(consent[a].content, a)
    BY DEF DetectArea, CmdlineAreas
  <1> HIDE DEF shot, new, old
  <1>9. ParseCmdline(shot, a) = IF TokensOk(a, new) THEN Valid(TokensVersion(a, new)) ELSE Rejected
    BY <1>3, <1>4, <1>7, Parsing
  <1>10. ParseCmdline(consent[a].content, a)
           = IF TokensOk(a, old) THEN Valid(TokensVersion(a, old)) ELSE Rejected
    BY <1>2, <1>3, <1>7, Parsing DEF old
  <1> QED
    BY <1>6, <1>8, <1>9, <1>10 DEF shot

\* An area of the installed configuration is at the version the release writes, or it is
\* as the plan found it.
LEMMA InstalledDetected ==
    ASSUME Ready, NEW a \in Areas
    PROVE  \/ /\ Changed(consent, a)
              /\ DetectArea(a, Snapshot(Installed(published), a)) = Valid(release.requirements[a].target)
           \/ /\ ~Changed(consent, a)
              /\ DetectArea(a, Snapshot(Installed(published), a)) = DetectArea(a, consent[a].content)
  <1>1. Agreed(consent, release) /\ ChangesApply(consent, release)
    BY ReadyFacts
  <1>2. CASE Changed(consent, a)
    <2>1. DetectArea(a, NewFiles(a, consent, release)) = Valid(2)
      BY <1>1, <1>2, ChangeMade
    <2>2. release.requirements[a].target = 2
      BY <1>1, <1>2, MigrationFound
    <2> QED
      BY <1>2, <2>1, <2>2, InstalledChange
  <1>3. CASE ~Changed(consent, a) /\ \E b \in Areas : AreaPaths[a] \cap AreaPaths[b] # {} /\ Changed(consent, b)
    <2>1. PICK b \in Areas : AreaPaths[a] \cap AreaPaths[b] # {} /\ Changed(consent, b)
      BY <1>3
    <2>2. PICK p \in AreaPaths[a] : p \in AreaPaths[b]
      BY <2>1
    <2>3. a # b
      BY <1>3, <2>1
    <2>4. {a, b} = {"CmdlineManagedKeys", "Network"}
      BY <2>2, <2>3, AreasApart
    <2>5. a \in CmdlineAreas /\ b \in CmdlineAreas
      BY <2>4 DEF CmdlineAreas
    <2> QED
      BY <1>3, <2>1, <2>3, <2>5, InstalledOther
  <1>4. CASE ~Changed(consent, a) /\ \A b \in Areas : AreaPaths[a] \cap AreaPaths[b] # {} => ~Changed(consent, b)
    BY <1>4, InstalledSame
  <1> QED
    BY <1>2, <1>3, <1>4

\* Hence the candidate accepts it (PlanIsStagedTarget).
LEMMA InstalledPlan ==
    ASSUME Ready
    PROVE  PlanIsStagedTarget(Plan(Installed(published), release))
  <1> DEFINE plan == Plan(Installed(published), release)
             D(a) == DetectArea(a, Snapshot(Installed(published), a))
  <1>1. Agreed(consent, release)
    BY ReadyFacts
  <1>2. \A a \in Areas :
          /\ plan[a].classification = Classify(a, D(a), release.requirements, release.migrations)
          /\ plan[a].source_version = D(a).version
          /\ plan[a].target_version = release.requirements[a].target
    BY DEF Plan, AssessConfigSnapshot
  <1> HIDE DEF plan
  <1>3. ASSUME NEW a \in Areas
        PROVE  /\ plan[a].classification = "Compatible"
               /\ a # "UpdateState" => plan[a].source_version \in {0, plan[a].target_version}
               /\ a = "UpdateState" => plan[a].source_version # 0
    <2>1. CASE Changed(consent, a) /\ D(a) = Valid(release.requirements[a].target)
      <3>1. /\ release.requirements[a].target > 0
            /\ release.requirements[a].target \in release.requirements[a].accepted
        BY <1>1 DEF Agreed, ValidateConfigMigrationDeclarations, RequirementIsValid
      <3>2. release.requirements[a].target \in Nat
        BY FilesAssumption DEF Ready, BuiltInv
      <3>3. a # "UpdateState"
        BY <1>1, <2>1, KeptAreas
      <3>4. D(a).version = release.requirements[a].target /\ D(a).detail = "Valid"
        BY <2>1 DEF Valid
      <3> HIDE DEF D
      <3>5. Classify(a, D(a), release.requirements, release.migrations) = "Compatible"
        <4>1. ~(D(a).version > release.requirements[a].target)
          BY <3>2, <3>4
        <4>2. D(a).version \in release.requirements[a].accepted
          BY <3>1, <3>4
        <4> QED
          BY <3>4, <4>1, <4>2 DEF Classify
      <3> QED
        BY <1>2, <3>3, <3>4, <3>5
    <2>2. CASE ~Changed(consent, a) /\ D(a) = DetectArea(a, consent[a].content)
      <3>1. consent[a].classification = "Compatible"
        BY <1>1, <2>2 DEF Agreed, BlockedAreas
      <3> HIDE DEF D
      <3>2. /\ plan[a].classification = consent[a].classification
            /\ plan[a].source_version = consent[a].source_version
            /\ plan[a].target_version = consent[a].target_version
        BY <1>1, <1>2, <2>2 DEF Agreed
      <3>3. a # "UpdateState" => consent[a].source_version \in {0, consent[a].target_version}
        BY <3>1 DEF Ready, KeepsOlder
      <3>4. a = "UpdateState" => consent[a].source_version # 0
        BY DEF Ready, LacksBuildInfo
      <3> QED
        BY <3>1, <3>2, <3>3, <3>4
    <2> QED
      BY <2>1, <2>2, InstalledDetected
  <1>4. BlockedAreas(plan) = {}
    BY <1>3 DEF BlockedAreas
  <1>5. PlanIsStagedTarget(plan)
    BY <1>3, <1>4 DEF PlanIsStagedTarget
  <1> QED
    BY <1>5 DEF plan

LEMMA InstalledBuildInfo ==
    ASSUME Ready
    PROVE  BuildInfoMatchesActiveSource(Installed(published), consent)
  <1> DEFINE p == "BMX-BUILD.json"
             files == consent["UpdateState"].content
  <1>0. "UpdateState" \in Areas
    BY DEF Areas
  <1>1. Agreed(consent, release) /\ DOMAIN published.prepared = Templates(release)
    BY ReadyFacts
  <1>2. ~Changed(consent, "UpdateState") /\ AreaPaths["UpdateState"] \cap Templates(release) = {}
    BY <1>1, KeptAreas
  <1>3. consent["UpdateState"].classification = "Compatible"
    BY <1>0, <1>1, <1>2 DEF Agreed, BlockedAreas
  <1>4. DetectUpdateState(files).version # 0
    <2>1. consent["UpdateState"].source_version = DetectArea("UpdateState", files).version
      BY <1>0, <1>1 DEF Agreed
    <2>2. DetectArea("UpdateState", files) = DetectUpdateState(files)
      BY DEF DetectArea
    <2> QED
      BY <2>1, <2>2 DEF Ready, LacksBuildInfo
  <1>5. p \in DOMAIN files
    BY <1>4 DEF DetectUpdateState, Missing, Rejected
  <1>6. files = [q \in AreaPaths["UpdateState"] \cap DOMAIN disk |-> disk[q]]
    BY <1>0 DEF Ready, Snapshot
  <1>7. p \in AreaPaths["UpdateState"] /\ p \in DOMAIN disk /\ files[p] = disk[p]
    BY <1>5, <1>6
  <1>8. p \notin DOMAIN published.prepared
    BY <1>1, <1>2, <1>7
  <1>9. p \in DOMAIN Installed(published) /\ Installed(published)[p] = disk[p]
    BY <1>7, <1>8 DEF Installed
  <1> QED
    BY <1>7, <1>9 DEF BuildInfoMatchesActiveSource

LEMMA InstalledAccepted ==
    ASSUME BuiltInv, ConfigInv
    PROVE  StaysAccepted
  <1> SUFFICES ASSUME Ready PROVE ValidateLocalConfiguration(Installed(published))
    BY DEF StaysAccepted, Ready
  <1>1. ValidateConfigMigrationDeclarations(release.requirements, release.migrations)
    BY ReadyFacts DEF Agreed
  <1> QED
    BY <1>1, InstalledPlan, InstalledBuildInfo DEF ValidateLocalConfiguration

\* The candidate that boots with a set installed, on the configuration that was approved,
\* finds every area at the version it wants, the file that two areas share included
\* (ProductionCandidateConfigurationHealthSource).
THEOREM AlwaysStaysAccepted == Spec => []StaysAccepted
  BY BuiltInvariant, ConfigInvariant, InstalledAccepted, PTL

-----------------------------------------------------------------------------
(* A rewritten file is well-formed. *)

\* Counting the lines of a kind.
LEMMA AtMostOne ==
    ASSUME NEW lines, IsText(lines), NEW S, S \subseteq DOMAIN lines
    PROVE  /\ Cardinality(S) <= 1 <=> \A x, y \in S : x = y
           /\ Cardinality(S) = 1 <=> \E x : S = {x}
  <1>1. DOMAIN lines = 1..Len(lines) /\ Len(lines) \in Nat
    BY DEF IsText
  <1>2. IsFiniteSet(S)
    <2>1. IsFiniteSet(1..Len(lines)) /\ S \in SUBSET (1..Len(lines))
      BY <1>1, FS_Interval
    <2> QED
      BY <2>1, FS_Subset
  <1>3. Cardinality(S) \in Nat /\ (Cardinality(S) = 0 <=> S = {}) /\ (Cardinality(S) = 1 <=> \E x : S = {x})
    BY <1>2, FS_CardinalityType, FS_EmptySet, FS_Singleton
  <1>4. (\A x, y \in S : x = y) <=> (S = {} \/ \E x : S = {x})
    OBVIOUS
  <1>5. Cardinality(S) <= 1 <=> Cardinality(S) = 0 \/ Cardinality(S) = 1
    BY <1>3
  <1> QED
    BY <1>3, <1>4, <1>5

\* The lines of a machines file with a new header (PrefixTextSchema).
LEMMA PrefixedLines ==
    ASSUME NEW lines, IsText(lines), NEW v, NEW new, new = PrefixTextSchema(lines, v)
    PROVE  /\ IsText(new) /\ Len(lines) \in Nat /\ DOMAIN lines = 1..Len(lines)
           /\ DOMAIN new = 1..(Len(lines) + 1) /\ new[1] = <<"schema", v>>
           /\ \A i \in 1..Len(lines) : new[i + 1] = lines[i]
  <1> DEFINE h == <<"schema", v>>
             X == Range(lines) \cup {h}
  <1>1. lines \in Seq(X) /\ <<h>> \in Seq(X)
    BY DEF IsText
  <1> HIDE DEF X, h
  <1>2. new = <<h>> \o lines
    BY DEF PrefixTextSchema, h
  <1>3. /\ new \in Seq(X) /\ Len(new) = Len(<<h>>) + Len(lines)
        /\ \A i \in 1..Len(<<h>>) : new[i] = <<h>>[i]
        /\ \A i \in 1..Len(lines) : new[Len(<<h>>) + i] = lines[i]
    BY ONLY <1>1, <1>2, Joined
  <1>4. Len(<<h>>) = 1 /\ <<h>>[1] = h
    OBVIOUS
  <1>5. Len(lines) \in Nat /\ DOMAIN lines = 1..Len(lines) /\ DOMAIN new = 1..Len(new)
    BY <1>1, <1>3
  <1>6. IsText(new)
    BY <1>3, SeqOfRange DEF IsText
  <1>7. \A i \in 1..Len(lines) : new[i + 1] = lines[i]
    BY <1>3, <1>4, <1>5
  <1>8. Len(new) = Len(lines) + 1 /\ new[1] = h
    BY <1>3, <1>4, <1>5
  <1> QED
    BY <1>5, <1>6, <1>7, <1>8 DEF h

\* A machines file without a header, of format 1, takes one (DetectMachines).
LEMMA HeadedMachines ==
    ASSUME NEW lines, IsText(lines), MachinesFileOk(lines), Headers(lines) = {},
           MachinesFileVersion(lines) = 1,
           NEW new, new = PrefixTextSchema(lines, 2)
    PROVE  MachinesFileOk(new) /\ MachinesFileVersion(new) = 2
  <1> DEFINE n == Len(lines)
             Early(s) == {i \in DOMAIN s : \A j \in Kinds(s, "section") : i < j}
             Formats(s) == Kinds(s, "format") \cap Early(s)
  <1>1. /\ IsText(new) /\ n \in Nat /\ DOMAIN lines = 1..n
        /\ DOMAIN new = 1..(n + 1) /\ new[1] = <<"schema", 2>>
        /\ \A i \in 1..n : new[i + 1] = lines[i]
    BY PrefixedLines
  <1> HIDE DEF n
  <1>2. /\ Kinds(lines, "junk") = {}
        /\ Kinds(lines, "key") \cap Early(lines) = {}
        /\ Cardinality(Formats(lines)) = 1
        /\ lines[First(Formats(lines))][2] > 0
        /\ \A i \in Kinds(lines, "section") : lines[i][2] \in {"video", "scaling", "machine"}
        /\ \A k \in {"video", "machine"} : \E i \in Kinds(lines, "section") : lines[i][2] = k
    BY DEF MachinesFileOk
  <1>3. new[1][1] = "schema" /\ new[1][2] = 2
    BY <1>1
  <1>4. \A j \in 1..(n + 1) : j = 1 \/ \E i \in 1..n : j = i + 1
    <2> TAKE j \in 1..(n + 1)
    <2>1. j # 1 => j - 1 \in 1..n /\ j = (j - 1) + 1
      BY <1>1
    <2> QED
      BY <2>1
  <1>5. \A i \in 1..n : i + 1 \in 1..(n + 1) /\ i + 1 # 1
    BY <1>1
  <1>6. \A k : k # "schema" =>
          /\ 1 \notin Kinds(new, k)
          /\ \A i \in 1..n : i + 1 \in Kinds(new, k) <=> i \in Kinds(lines, k)
    BY <1>1, <1>3, <1>5 DEF Kinds
  <1>7. Headers(new) = {1}
    <2>1. 1 \in Headers(new)
      BY <1>1, <1>3 DEF Headers, Kinds
    <2>2. \A j \in Headers(new) : j = 1
      <3> SUFFICES ASSUME NEW j \in Headers(new), j # 1 PROVE FALSE
        OBVIOUS
      <3>1. PICK i \in 1..n : j = i + 1
        BY <1>1, <1>4 DEF Headers, Kinds
      <3>2. i \in Headers(lines)
        BY <1>1, <3>1 DEF Headers, Kinds
      <3> QED
        BY <3>2
    <2> QED
      BY <2>1, <2>2
  <1>8. First({1}) = 1
    BY DEF First
  <1>9. HeaderOk(new)
    <2>1. Cardinality(Headers(new)) <= 1
      <3>1. Headers(new) \subseteq DOMAIN new
        BY DEF Headers, Kinds
      <3> QED
        BY <1>1, <1>7, <3>1, AtMostOne
    <2> QED
      BY <1>3, <1>7, <2>1 DEF HeaderOk
  <1>10. \A i \in 1..n : i + 1 \in Early(new) <=> i \in Early(lines)
    <2> TAKE i \in 1..n
    <2>1. ASSUME i \in Early(lines) PROVE i + 1 \in Early(new)
      <3> SUFFICES ASSUME NEW j \in Kinds(new, "section") PROVE i + 1 < j
        BY <1>1, <1>5
      <3>1. PICK l \in 1..n : j = l + 1
        BY <1>1, <1>4, <1>6 DEF Kinds
      <3>2. l \in Kinds(lines, "section")
        BY <1>6, <3>1
      <3>3. i < l
        BY <2>1, <3>2
      <3> QED
        BY <1>1, <3>1, <3>3
    <2>2. ASSUME i + 1 \in Early(new) PROVE i \in Early(lines)
      <3> SUFFICES ASSUME NEW l \in Kinds(lines, "section") PROVE i < l
        BY <1>1
      <3>1. l \in 1..n
        BY <1>1 DEF Kinds
      <3>2. l + 1 \in Kinds(new, "section")
        BY <1>6, <3>1
      <3>3. i + 1 < l + 1
        BY <2>2, <3>2
      <3> QED
        BY <1>1, <3>1, <3>3
    <2> QED
      BY <2>1, <2>2
  <1>11. PICK f : Formats(lines) = {f}
    <2>1. Formats(lines) \subseteq DOMAIN lines
      OBVIOUS
    <2> HIDE DEF Formats
    <2> QED
      BY <1>2, <2>1, AtMostOne
  <1>12. f \in 1..n /\ f \in Kinds(lines, "format") /\ f \in Early(lines)
    <2>1. f \in Formats(lines)
      BY <1>11
    <2> QED
      BY <1>1, <2>1 DEF Kinds
  <1>13. Formats(new) = {f + 1}
    <2>1. f + 1 \in Formats(new)
      BY <1>6, <1>10, <1>12
    <2>2. ASSUME NEW j \in Formats(new) PROVE j = f + 1
      <3>1. PICK i \in 1..n : j = i + 1
        BY <1>1, <1>4, <1>6 DEF Kinds
      <3>2. i \in Kinds(lines, "format") /\ i \in Early(lines)
        BY <1>6, <1>10, <3>1
      <3>3. i \in Formats(lines)
        BY <3>2
      <3> HIDE DEF Formats
      <3>4. i = f
        BY <1>11, <3>3
      <3> QED
        BY <3>1, <3>4
    <2> HIDE DEF Formats
    <2> QED
      BY <2>1, <2>2
  <1>14. First({f + 1}) = f + 1 /\ First({f}) = f
    <2>1. f \in Int /\ f + 1 \in Int
      BY <1>1, <1>12
    <2>2. \A x \in Int : First({x}) = x
      BY DEF First
    <2> QED
      BY <2>1, <2>2
  <1>15. lines[f][2] = 1
    <2>1. First(Kinds(lines, "format")) = f
      <3>1. \A i \in Kinds(lines, "format") : i \in 1..n
        BY <1>1 DEF Kinds
      <3>2. ASSUME NEW i \in Kinds(lines, "format") PROVE f <= i
        <4>1. CASE i \in Early(lines)
          <5>1. i \in Formats(lines)
            BY <4>1
          <5> HIDE DEF Formats
          <5>2. i = f
            BY <1>11, <5>1
          <5> QED
            BY <1>1, <1>12, <5>2
        <4>2. CASE i \notin Early(lines)
          <5>1. PICK j \in Kinds(lines, "section") : ~(i < j)
            BY <1>1, <3>1, <4>2
          <5>2. f < j /\ j \in 1..n
            BY <1>1, <1>12 DEF Kinds
          <5>3. f \in Int /\ j \in Int
            BY <1>1, <1>12, <5>2
          <5>4. i \in Int
            <6>1. i \in 1..n
              BY <3>1
            <6> QED
              BY <1>1, <6>1
          <5> QED
            BY ONLY <5>1, <5>2, <5>3, <5>4
        <4> QED
          BY <4>1, <4>2
      <3>3. \A i \in Kinds(lines, "format") : (\A j \in Kinds(lines, "format") : i <= j) => i = f
        <4> TAKE i \in Kinds(lines, "format")
        <4> HAVE \A j \in Kinds(lines, "format") : i <= j
        <4>1. i <= f /\ f <= i /\ i \in 1..n
          BY <1>12, <3>1, <3>2
        <4> QED
          BY <1>1, <1>12, <4>1
      <3> QED
        BY <1>12, <3>2, <3>3 DEF First
    <2> QED
      BY <2>1 DEF MachinesFileVersion, HeaderVersion
  <1>16. new[f + 1][2] = 1
    BY <1>1, <1>12, <1>15
  <1>17. Kinds(new, "junk") = {}
    <2> SUFFICES ASSUME NEW j \in Kinds(new, "junk") PROVE FALSE
      OBVIOUS
    <2>1. PICK i \in 1..n : j = i + 1
      BY <1>1, <1>4, <1>6 DEF Kinds
    <2> QED
      BY <1>2, <1>6, <2>1
  <1>18. Kinds(new, "key") \cap Early(new) = {}
    <2> SUFFICES ASSUME NEW j \in Kinds(new, "key"), j \in Early(new) PROVE FALSE
      OBVIOUS
    <2>1. PICK i \in 1..n : j = i + 1
      BY <1>1, <1>4, <1>6 DEF Kinds
    <2>2. i \in Kinds(lines, "key") /\ i \in Early(lines)
      BY <1>6, <1>10, <2>1
    <2> QED
      BY <1>2, <2>2
  <1>19. \A j \in Kinds(new, "section") : new[j][2] \in {"video", "scaling", "machine"}
    <2> TAKE j \in Kinds(new, "section")
    <2>1. PICK i \in 1..n : j = i + 1
      BY <1>1, <1>4, <1>6 DEF Kinds
    <2>2. i \in Kinds(lines, "section") /\ new[j] = lines[i]
      BY <1>1, <1>6, <2>1
    <2> QED
      BY <1>2, <2>2
  <1>20. \A k \in {"video", "machine"} : \E j \in Kinds(new, "section") : new[j][2] = k
    <2> TAKE k \in {"video", "machine"}
    <2>1. PICK i \in Kinds(lines, "section") : lines[i][2] = k
      BY <1>2
    <2>2. i \in 1..n
      BY <1>1 DEF Kinds
    <2>3. i + 1 \in Kinds(new, "section") /\ new[i + 1] = lines[i]
      BY <1>1, <1>6, <2>2
    <2> QED
      BY <2>1, <2>3
  <1>21. Cardinality(Formats(new)) = 1
    <2>1. Formats(new) \subseteq DOMAIN new
      OBVIOUS
    <2> HIDE DEF Formats
    <2> QED
      BY <1>1, <1>13, <2>1, AtMostOne
  <1>22. new[First(Formats(new))][2] = 1
    <2> HIDE DEF Formats
    <2> QED
      BY <1>13, <1>14, <1>16
  <1>23. MachinesFileOk(new)
    <2>1. new[First(Formats(new))][2] > 0
      BY ONLY <1>22
    <2>2. new[First(Formats(new))][2] \in {1, new[First(Headers(new))][2]}
      BY ONLY <1>22
    <2> QED
      BY <1>9, <1>17, <1>18, <1>19, <1>20, <1>21, <2>1, <2>2 DEF MachinesFileOk
  <1>24. MachinesFileVersion(new) = 2
    BY <1>3, <1>7, <1>8 DEF MachinesFileVersion, HeaderVersion
  <1> QED
    BY <1>23, <1>24

\* The managed block, place by place (ConfigBlockOk).
Inner(lines, b, e) ==
    LET here == (b + 1)..(e - 1)
    IN  /\ \A i, j \in Headers(lines) : i = j
        /\ \A i \in Headers(lines) : lines[i][2] > 0 /\ i \in here
        /\ \E i \in here : lines[i][1] = "key"
        /\ \A i, j \in here : lines[i][1] = "key" /\ lines[j][1] = "key"
                              /\ lines[i][2] = lines[j][2] => i = j
        /\ \A i \in here : lines[i][1] # "junk"
        /\ \A i, j \in here : lines[i][1] = "include" /\ lines[j][1] = "include" => i = j
        /\ \A i \in here : lines[i][1] = "include" => lines[i][2] = "active"

LEMMA InnerOk ==
    ASSUME NEW lines, NEW b, NEW e, Block(lines, b, e)
    PROVE  ConfigBlockOk(lines) <=> Inner(lines, b, e)
  <1> DEFINE here == (b + 1)..(e - 1)
             inside == {i \in DOMAIN lines : i > b /\ i < e}
  <1>1. /\ Kinds(lines, "begin") = {b} /\ Kinds(lines, "end") = {e}
        /\ First(Kinds(lines, "begin")) = b /\ First(Kinds(lines, "end")) = e
    BY BlockPlaces DEF InnerStart, InnerEnd
  <1>2. /\ IsText(lines) /\ DOMAIN lines = 1..Len(lines) /\ Len(lines) \in Nat
        /\ b \in 1..Len(lines) /\ e \in 1..Len(lines) /\ b < e
    BY DEF Block, IsText
  <1>3. inside = here
    BY <1>2
  <1>4. \A S : S \subseteq DOMAIN lines => /\ Cardinality(S) <= 1 <=> \A x, y \in S : x = y
                                           /\ Cardinality(S) = 1 <=> \E x : S = {x}
    BY <1>2, AtMostOne
  <1>5. Cardinality({b}) = 1 /\ Cardinality({e}) = 1
    <2>1. {b} \subseteq DOMAIN lines /\ {e} \subseteq DOMAIN lines
      BY <1>2
    <2> QED
      BY <1>4, <2>1
  <1>6. Headers(lines) \subseteq DOMAIN lines /\ Kinds(lines, "include") \cap inside \subseteq DOMAIN lines
    BY DEF Headers, Kinds
  <1>7. ConfigBlockOk(lines) <=>
          /\ HeaderOk(lines) /\ Headers(lines) \subseteq inside
          /\ Kinds(lines, "key") \cap inside # {}
          /\ \A i, j \in Kinds(lines, "key") \cap inside : lines[i][2] = lines[j][2] => i = j
          /\ inside \cap Kinds(lines, "junk") = {}
          /\ Cardinality(Kinds(lines, "include") \cap inside) <= 1
          /\ \A i \in Kinds(lines, "include") \cap inside : lines[i][2] = "active"
    <2>1. Cardinality(Kinds(lines, "begin")) = 1 /\ Cardinality(Kinds(lines, "end")) = 1
      BY <1>1, <1>5
    <2> QED
      BY <1>1, <1>2, <2>1 DEF ConfigBlockOk
  <1> HIDE DEF inside
  <1>8. HeaderOk(lines) <=> (\A i, j \in Headers(lines) : i = j) /\ \A i \in Headers(lines) : lines[i][2] > 0
    BY <1>4, <1>6 DEF HeaderOk
  <1>9. Cardinality(Kinds(lines, "include") \cap inside) <= 1
          <=> \A i, j \in Kinds(lines, "include") \cap inside : i = j
    BY <1>4, <1>6
  <1>10. \A k, i : i \in Kinds(lines, k) \cap inside <=> i \in here /\ lines[i][1] = k
    <2>1. inside \subseteq DOMAIN lines
      BY DEF inside
    <2> QED
      BY <1>3, <2>1 DEF Kinds
  <1> HIDE DEF here
  <1>11. Kinds(lines, "key") \cap inside # {} <=> \E i \in here : lines[i][1] = "key"
    BY <1>10
  <1>12. (\A i, j \in Kinds(lines, "key") \cap inside : lines[i][2] = lines[j][2] => i = j)
          <=> \A i, j \in here : lines[i][1] = "key" /\ lines[j][1] = "key"
                                 /\ lines[i][2] = lines[j][2] => i = j
    BY <1>10
  <1>13. inside \cap Kinds(lines, "junk") = {} <=> \A i \in here : lines[i][1] # "junk"
    BY <1>10
  <1>14. (\A i, j \in Kinds(lines, "include") \cap inside : i = j)
           <=> \A i, j \in here : lines[i][1] = "include" /\ lines[j][1] = "include" => i = j
    BY <1>10
  <1>15. (\A i \in Kinds(lines, "include") \cap inside : lines[i][2] = "active")
           <=> \A i \in here : lines[i][1] = "include" => lines[i][2] = "active"
    BY <1>10
  <1>16. Headers(lines) \subseteq inside <=> \A i \in Headers(lines) : i \in here
    BY <1>3
  <1>17. Inner(lines, b, e) <=>
           /\ \A i, j \in Headers(lines) : i = j
           /\ \A i \in Headers(lines) : lines[i][2] > 0 /\ i \in here
           /\ \E i \in here : lines[i][1] = "key"
           /\ \A i, j \in here : lines[i][1] = "key" /\ lines[j][1] = "key"
                                 /\ lines[i][2] = lines[j][2] => i = j
           /\ \A i \in here : lines[i][1] # "junk"
           /\ \A i, j \in here : lines[i][1] = "include" /\ lines[j][1] = "include" => i = j
           /\ \A i \in here : lines[i][1] = "include" => lines[i][2] = "active"
    BY DEF Inner, here
  <1> QED
    BY ONLY <1>7, <1>8, <1>9, <1>11, <1>12, <1>13, <1>14, <1>15, <1>16, <1>17

\* The version of a file with one header.
LEMMA OneHeader ==
    ASSUME NEW lines, NEW i \in Int, Headers(lines) = {i}
    PROVE  HeaderVersion(lines, 1) = lines[i][2]
  <1>1. First({i}) = i
    BY DEF First
  <1> QED
    BY <1>1 DEF HeaderVersion

LEMMA HeaderedOk ==
    ASSUME NEW lines, NEW b, NEW e, Block(lines, b, e), Inner(lines, b, e), Headers(lines) = {},
           NEW new, new = AddConfigBlockHeader(lines, 2)
    PROVE  ConfigBlockOk(new) /\ HeaderVersion(new, 1) = 2
  <1> DEFINE n == Len(lines)
  <1>1. /\ Block(new, b, e + 1) /\ Len(new) = n + 1 /\ new[b + 1] = <<"schema", 2>>
        /\ \A i \in 1..b : new[i] = lines[i]
        /\ \A i \in (b + 1)..n : new[i + 1] = lines[i]
    BY HeaderedLines
  <1>2. /\ DOMAIN lines = 1..n /\ n \in Nat /\ DOMAIN new = 1..(n + 1)
        /\ b \in 1..n /\ e \in 1..n /\ b < e
    BY <1>1 DEF Block
  <1> HIDE DEF n
  <1>3. new[b + 1][1] = "schema" /\ new[b + 1][2] = 2
    BY <1>1
  <1>4. Headers(new) = {b + 1}
    <2>1. b + 1 \in Headers(new)
      BY <1>2, <1>3 DEF Headers, Kinds
    <2>2. ASSUME NEW i \in 1..(n + 1), i # b + 1 PROVE new[i][1] # "schema"
      <3>1. CASE i \in 1..b
        <4>1. i \in 1..n /\ new[i] = lines[i]
          BY <1>1, <1>2, <3>1
        <4> QED
          BY <1>2, <4>1 DEF Headers, Kinds
      <3>2. CASE i \notin 1..b
        <4>1. i - 1 \in (b + 1)..n /\ i - 1 \in 1..n /\ (i - 1) + 1 = i
          BY <1>2, <2>2, <3>2
        <4>2. new[i] = lines[i - 1]
          BY <1>1, <4>1
        <4> QED
          BY <1>2, <4>1, <4>2 DEF Headers, Kinds
      <3> QED
        BY <3>1, <3>2
    <2> QED
      BY <1>2, <2>1, <2>2 DEF Headers, Kinds
  <1>5. \A j \in (b + 1)..((e + 1) - 1) :
          j = b + 1 \/ \E i \in (b + 1)..(e - 1) : j = i + 1 /\ new[j] = lines[i]
    <2> TAKE j \in (b + 1)..((e + 1) - 1)
    <2>1. j # b + 1 => /\ j - 1 \in (b + 1)..(e - 1) /\ j = (j - 1) + 1 /\ j - 1 \in (b + 1)..n
      BY <1>2
    <2> QED
      BY <1>1, <2>1
  <1>6. \A i \in (b + 1)..(e - 1) : i + 1 \in (b + 1)..((e + 1) - 1) /\ new[i + 1] = lines[i]
    <2> TAKE i \in (b + 1)..(e - 1)
    <2>1. i + 1 \in (b + 1)..((e + 1) - 1) /\ i \in (b + 1)..n
      BY <1>2
    <2> QED
      BY <1>1, <2>1
  <1>7. b + 1 \in (b + 1)..((e + 1) - 1)
    BY <1>2
  <1> DEFINE here == (b + 1)..(e - 1)
             there == (b + 1)..((e + 1) - 1)
  <1> HIDE DEF here, there
  <1>8. /\ \E i \in here : lines[i][1] = "key"
        /\ \A i, j \in here : lines[i][1] = "key" /\ lines[j][1] = "key"
                              /\ lines[i][2] = lines[j][2] => i = j
        /\ \A i \in here : lines[i][1] # "junk"
        /\ \A i, j \in here : lines[i][1] = "include" /\ lines[j][1] = "include" => i = j
        /\ \A i \in here : lines[i][1] = "include" => lines[i][2] = "active"
    BY DEF Inner, here
  <1>9. \A j \in there : new[j][1] # "schema" => \E i \in here : j = i + 1 /\ new[j] = lines[i]
    BY <1>3, <1>5 DEF here, there
  <1>10. \E j \in there : new[j][1] = "key"
    BY <1>6, <1>8 DEF here, there
  <1>11. \A i, j \in there : new[i][1] = "key" /\ new[j][1] = "key"
                             /\ new[i][2] = new[j][2] => i = j
    <2> SUFFICES ASSUME NEW i \in there, NEW j \in there, new[i][1] = "key", new[j][1] = "key",
                        new[i][2] = new[j][2] PROVE i = j
      OBVIOUS
    <2>1. PICK k \in here : i = k + 1 /\ new[i] = lines[k]
      BY <1>9
    <2>2. PICK l \in here : j = l + 1 /\ new[j] = lines[l]
      BY <1>9
    <2> QED
      BY <1>8, <2>1, <2>2
  <1>12. \A j \in there : new[j][1] # "junk"
    BY <1>8, <1>9
  <1>13. \A i, j \in there : new[i][1] = "include" /\ new[j][1] = "include" => i = j
    <2> SUFFICES ASSUME NEW i \in there, NEW j \in there, new[i][1] = "include", new[j][1] = "include"
                 PROVE i = j
      OBVIOUS
    <2>1. PICK k \in here : i = k + 1 /\ new[i] = lines[k]
      BY <1>9
    <2>2. PICK l \in here : j = l + 1 /\ new[j] = lines[l]
      BY <1>9
    <2> QED
      BY <1>8, <2>1, <2>2
  <1>14. \A j \in there : new[j][1] = "include" => new[j][2] = "active"
    BY <1>8, <1>9
  <1>15. Inner(new, b, e + 1)
    <2>1. /\ \A i, j \in Headers(new) : i = j
          /\ \A i \in Headers(new) : new[i][2] > 0 /\ i \in there
      BY <1>3, <1>4, <1>7 DEF there
    <2> QED
      BY <1>10, <1>11, <1>12, <1>13, <1>14, <2>1 DEF Inner, there
  <1>16. b + 1 \in Int
    BY <1>2
  <1> QED
    BY <1>1, <1>3, <1>4, <1>15, <1>16, InnerOk, OneHeader

LEMMA ReplacedOk ==
    ASSUME NEW lines, NEW b, NEW e, Block(lines, b, e), Headers(lines) = {},
           NEW defaults, NEW c, NEW f, Block(defaults, c, f), Inner(defaults, c, f),
           HeaderVersion(defaults, 1) = 2,
           NEW new, new = ReplaceConfigBlock(lines, defaults)
    PROVE  ConfigBlockOk(new) /\ HeaderVersion(new, 1) = 2
  <1> DEFINE k == (f - c) - 1
             d == b + k + 1
             n == Len(lines)
  <1>1. /\ k \in Nat /\ Block(new, b, d) /\ Len(new) = (b + k) + ((n - e) + 1)
        /\ \A i \in 1..b : new[i] = lines[i]
        /\ \A i \in 1..k : new[b + i] = defaults[c + i]
        /\ \A i \in 0..(n - e) : new[d + i] = lines[e + i]
    <2>1. k = (f - c) - 1
      OBVIOUS
    <2> HIDE DEF k
    <2>2. /\ k \in Nat /\ Block(new, b, b + k + 1)
          /\ Len(new) = (b + k) + ((Len(lines) - e) + 1)
          /\ \A i \in 1..b : new[i] = lines[i]
          /\ \A i \in 1..k : new[b + i] = defaults[c + i]
          /\ \A i \in 0..(Len(lines) - e) : new[(b + k + 1) + i] = lines[e + i]
      BY <2>1, ReplacedLines
    <2> QED
      BY <2>2
  <1>2. /\ DOMAIN lines = 1..n /\ n \in Nat /\ b \in 1..n /\ e \in 1..n /\ b < e
        /\ DOMAIN defaults = 1..Len(defaults) /\ Len(defaults) \in Nat
        /\ c \in 1..Len(defaults) /\ f \in 1..Len(defaults) /\ c < f
        /\ DOMAIN new = 1..Len(new)
    BY <1>1 DEF Block
  <1>3. c + k = f - 1 /\ (c + k) + 1 = f /\ d - 1 = b + k
    BY <1>1, <1>2
  <1> HIDE DEF n
  <1> DEFINE here == (c + 1)..(f - 1)
             there == (b + 1)..(d - 1)
  <1>4. \A j \in there : \E i \in here : j - b = i - c /\ new[j] = defaults[i]
    <2> TAKE j \in there
    <2>1. /\ j - b \in 1..k /\ b + (j - b) = j /\ c + (j - b) \in here /\ j - b = (c + (j - b)) - c
      BY <1>1, <1>2, <1>3
    <2>2. new[b + (j - b)] = defaults[c + (j - b)]
      BY ONLY <1>1, <2>1
    <2> QED
      BY ONLY <2>1, <2>2
  <1>5. \A i \in here : \E j \in there : j - b = i - c /\ new[j] = defaults[i]
    <2> TAKE i \in here
    <2>1. /\ i - c \in 1..k /\ c + (i - c) = i /\ b + (i - c) \in there /\ (b + (i - c)) - b = i - c
      BY <1>1, <1>2, <1>3
    <2>2. new[b + (i - c)] = defaults[c + (i - c)]
      BY ONLY <1>1, <2>1
    <2> QED
      BY ONLY <2>1, <2>2
  <1>6. /\ \A i \in here : i \in Int /\ i \in DOMAIN defaults
        /\ \A j \in there : j \in Int /\ j \in DOMAIN new
    <2>1. \A i \in here : i \in Int /\ i \in 1..Len(defaults)
      BY <1>2
    <2>2. \A j \in there : j \in Int /\ j \in 1..Len(new)
      BY <1>1, <1>2
    <2> QED
      BY <1>2, <2>1, <2>2
  <1>7. \A j \in DOMAIN new : j \notin there => new[j][1] # "schema"
    <2> SUFFICES ASSUME NEW j \in 1..Len(new), j \notin there PROVE new[j][1] # "schema"
      BY <1>2
    <2>1. CASE j \in 1..b
      <3>1. j \in 1..n /\ new[j] = lines[j]
        BY <1>1, <1>2, <2>1
      <3> QED
        BY <1>2, <3>1 DEF Headers, Kinds
    <2>2. CASE j \notin 1..b
      <3>1. j - d \in 0..(n - e) /\ d + (j - d) = j /\ e + (j - d) \in 1..n
        <4>1. j \in Int /\ j >= d /\ j <= (b + k) + ((n - e) + 1)
          BY <1>1, <1>2, <2>2
        <4> QED
          BY <1>1, <1>2, <4>1
      <3>2. new[d + (j - d)] = lines[e + (j - d)]
        BY ONLY <1>1, <3>1
      <3>3. new[j] = lines[e + (j - d)]
        BY ONLY <3>1, <3>2
      <3> QED
        BY <1>2, <3>1, <3>3 DEF Headers, Kinds
    <2> QED
      BY <2>1, <2>2
  <1>0. c \in Int /\ b \in Int
    BY <1>2
  <1> HIDE DEF here, there, d, k
  <1>8. /\ \A i, j \in Headers(defaults) : i = j
        /\ \A i \in Headers(defaults) : defaults[i][2] > 0 /\ i \in here
        /\ \E i \in here : defaults[i][1] = "key"
        /\ \A i, j \in here : defaults[i][1] = "key" /\ defaults[j][1] = "key"
                              /\ defaults[i][2] = defaults[j][2] => i = j
        /\ \A i \in here : defaults[i][1] # "junk"
        /\ \A i, j \in here : defaults[i][1] = "include" /\ defaults[j][1] = "include" => i = j
        /\ \A i \in here : defaults[i][1] = "include" => defaults[i][2] = "active"
    BY DEF Inner, here
  <1>9. \A i, j \in there, l, m \in here : i - b = l - c /\ j - b = m - c => (i = j <=> l = m)
    <2> SUFFICES ASSUME NEW i \in there, NEW j \in there, NEW l \in here, NEW m \in here,
                        i - b = l - c, j - b = m - c
                 PROVE  i = j <=> l = m
      OBVIOUS
    <2>1. i \in Int /\ j \in Int /\ l \in Int /\ m \in Int
      BY <1>6
    <2> QED
      BY <1>0, <2>1
  <1>10. PICK h : Headers(defaults) = {h}
    <2>1. Headers(defaults) # {}
      BY DEF HeaderVersion
    <2> QED
      BY <1>8, <2>1
  <1>11. h \in here /\ defaults[h][1] = "schema"
    <2>1. h \in Headers(defaults)
      BY <1>10
    <2> QED
      BY <1>8, <2>1 DEF Headers, Kinds
  <1>12. defaults[h][2] = 2
    <2>1. h \in Int
      BY <1>6, <1>11
    <2> QED
      BY <1>10, <2>1, OneHeader
  <1>13. PICK g \in there : g - b = h - c /\ new[g] = defaults[h]
    BY <1>5, <1>11
  <1>14. Headers(new) = {g}
    <2>1. g \in Headers(new)
      BY <1>6, <1>11, <1>13 DEF Headers, Kinds
    <2>2. ASSUME NEW j \in Headers(new) PROVE j = g
      <3>1. j \in DOMAIN new /\ new[j][1] = "schema"
        BY DEF Headers, Kinds
      <3>2. j \in there
        BY <1>7, <3>1
      <3>3. PICK i \in here : j - b = i - c /\ new[j] = defaults[i]
        BY <1>4, <3>2
      <3>4. i \in Headers(defaults)
        BY <1>6, <3>1, <3>3 DEF Headers, Kinds
      <3>5. i = h
        BY <1>10, <3>4
      <3> QED
        BY <1>9, <1>11, <1>13, <3>2, <3>3, <3>5
    <2> QED
      BY <2>1, <2>2
  <1>15. new[g][2] = 2 /\ g \in Int
    BY <1>6, <1>12, <1>13
  <1>16. \E j \in there : new[j][1] = "key"
    BY <1>5, <1>8
  <1>17. \A i, j \in there : new[i][1] = "key" /\ new[j][1] = "key" /\ new[i][2] = new[j][2] => i = j
    <2> SUFFICES ASSUME NEW i \in there, NEW j \in there, new[i][1] = "key", new[j][1] = "key",
                        new[i][2] = new[j][2] PROVE i = j
      OBVIOUS
    <2>1. PICK l \in here : i - b = l - c /\ new[i] = defaults[l]
      BY <1>4
    <2>2. PICK m \in here : j - b = m - c /\ new[j] = defaults[m]
      BY <1>4
    <2>3. l = m
      BY <1>8, <2>1, <2>2
    <2> QED
      BY <1>9, <2>1, <2>2, <2>3
  <1>18. \A j \in there : new[j][1] # "junk" /\ (new[j][1] = "include" => new[j][2] = "active")
    <2> TAKE j \in there
    <2>1. PICK m \in here : new[j] = defaults[m]
      BY <1>4
    <2> QED
      BY <1>8, <2>1
  <1>19. \A i, j \in there : new[i][1] = "include" /\ new[j][1] = "include" => i = j
    <2> SUFFICES ASSUME NEW i \in there, NEW j \in there, new[i][1] = "include", new[j][1] = "include"
                 PROVE i = j
      OBVIOUS
    <2>1. PICK l \in here : i - b = l - c /\ new[i] = defaults[l]
      BY <1>4
    <2>2. PICK m \in here : j - b = m - c /\ new[j] = defaults[m]
      BY <1>4
    <2>3. l = m
      BY <1>8, <2>1, <2>2
    <2> QED
      BY <1>9, <2>1, <2>2, <2>3
  <1>20. Inner(new, b, d)
    <2>1. /\ \A i, j \in Headers(new) : i = j
          /\ \A i \in Headers(new) : new[i][2] > 0 /\ i \in there
      BY <1>14, <1>15
    <2> QED
      BY <1>16, <1>17, <1>18, <1>19, <2>1 DEF Inner, there
  <1> QED
    BY <1>1, <1>14, <1>15, <1>20, InnerOk, OneHeader

\* No token of a rewritten command line is junk.
LEMMA RewrittenClean ==
    ASSUME NEW tokens, IsText(tokens), Kinds(tokens, "junk") = {},
           NEW defaults, IsText(defaults), Kinds(defaults, "junk") = {},
           NEW b, NEW v, NEW only,
           NEW new, new = RewriteCmdlineArea(tokens, defaults, b, v, only)
    PROVE  Kinds(new, "junk") = {}
  <1> DEFINE X == Range(tokens) \cup Range(defaults) \cup {NewMarker(b, v)}
  <1>1. Untouched(tokens, defaults, b, v, only, {})
    BY DEF Untouched
  <1>2. new \in Seq(X)
    BY <1>1, RewriteKeeps
  <1>3. \A t \in X : t[1] # "junk"
    <2>1. NewMarker(b, v)[1] # "junk"
      BY DEF NewMarker
    <2>2. \A t \in Range(tokens) : t[1] # "junk"
      BY DEF Range, Kinds
    <2>3. \A t \in Range(defaults) : t[1] # "junk"
      BY DEF Range, Kinds
    <2> QED
      BY <2>1, <2>2, <2>3
  <1> HIDE DEF X
  <1>4. \A i \in DOMAIN new : new[i] \in X
    BY <1>2
  <1> QED
    BY <1>3, <1>4 DEF Kinds

\* The tokens of an area, without its marker, and a new marker.
LEMMA MarkedTokens ==
    ASSUME NEW X, NEW s \in Seq(X), NEW a \in CmdlineAreas, TokensOk(a, s), NEW V,
           \A t \in X : t \in V => KeyBelongsToCmdlineArea(a, t[2]) /\ t[2] # CmdlineSchemaKey(a),
           NewMarker(a, 2) \in X,
           NEW k, k = Keep(s, V) \o <<NewMarker(a, 2)>>
    PROVE  TokensOk(a, k) /\ TokensVersion(a, k) = 2
  <1> DEFINE h == NewMarker(a, 2)
             r == Keep(s, V)
  <1>1. h[2] = CmdlineSchemaKey(a) /\ h[3] = 2 /\ KeyBelongsToCmdlineArea(a, h[2])
    BY DEF NewMarker, CmdlineAreas, CmdlineSchemaKey, KeyBelongsToCmdlineArea, MachineKeys, NetworkKeys
  <1>2. r \in Seq(X) /\ <<h>> \in Seq(X)
    BY KeepType
  <1>3. PICK e : Places(e, s, V, r)
    BY KeepPlaces
  <1> HIDE DEF h, r
  <1>4. /\ k \in Seq(X) /\ Len(k) = Len(r) + 1 /\ k[Len(r) + 1] = h
        /\ \A j \in 1..Len(r) : k[j] = r[j]
    <2>1. k = r \o <<h>>
      BY DEF h, r
    <2>2. /\ k \in Seq(X) /\ Len(k) = Len(r) + Len(<<h>>)
          /\ \A i \in 1..Len(r) : k[i] = r[i]
          /\ \A i \in 1..Len(<<h>>) : k[Len(r) + i] = <<h>>[i]
      BY ONLY <1>2, <2>1, Joined
    <2>3. Len(<<h>>) = 1 /\ <<h>>[1] = h
      OBVIOUS
    <2> QED
      BY <2>2, <2>3
  <1>5. Len(r) \in Nat /\ DOMAIN k = 1..(Len(r) + 1) /\ DOMAIN s = 1..Len(s)
    BY <1>2, <1>4
  <1>6. /\ e \in [1..Len(r) -> 1..Len(s)]
        /\ \A j \in 1..Len(r) : r[j] = s[e[j]] /\ s[e[j]] \in V
        /\ \A j, l \in 1..Len(r) : e[j] = e[l] => j = l
    BY <1>3 DEF Places
  <1>7. ASSUME NEW j \in 1..Len(r)
        PROVE  /\ k[j] = s[e[j]] /\ e[j] \in OwnedAt(a, s) /\ k[j][2] # CmdlineSchemaKey(a)
    <2>0. e[j] \in 1..Len(s) /\ s[e[j]] \in V /\ k[j] = s[e[j]]
      BY ONLY <1>4, <1>6, j \in 1..Len(r)
    <2>1. e[j] \in 1..Len(s) /\ s[e[j]] \in V /\ k[j] = s[e[j]] /\ s[e[j]] \in X
      BY <2>0, ElementOfSeq
    <2> QED
      BY <1>5, <2>1 DEF OwnedAt
  <1>8. \A j \in 1..(Len(r) + 1) : j \in 1..Len(r) \/ j = Len(r) + 1
    BY <1>5
  <1>9. \A j \in 1..(Len(r) + 1) : k[j][3] # 0
    <2> TAKE j \in 1..(Len(r) + 1)
    <2>1. CASE j \in 1..Len(r)
      <3>1. k[j] = s[e[j]] /\ e[j] \in OwnedAt(a, s)
        BY <1>7, <2>1
      <3>2. s[e[j]][3] # 0
        BY <3>1 DEF TokensOk
      <3> QED
        BY <3>1, <3>2
    <2>2. CASE j = Len(r) + 1
      BY <1>1, <1>4, <2>2
    <2> QED
      BY <1>8, <2>1, <2>2
  <1>10. \A j, l \in 1..(Len(r) + 1) : k[j][2] = k[l][2] => j = l
    <2> SUFFICES ASSUME NEW j \in 1..(Len(r) + 1), NEW l \in 1..(Len(r) + 1), k[j][2] = k[l][2]
                 PROVE  j = l
      OBVIOUS
    <2>1. CASE j \in 1..Len(r) /\ l \in 1..Len(r)
      <3>1. e[j] = e[l]
        <4>1. /\ k[j] = s[e[j]] /\ e[j] \in OwnedAt(a, s)
              /\ k[l] = s[e[l]] /\ e[l] \in OwnedAt(a, s)
          BY <1>7, <2>1
        <4>2. s[e[j]][2] = s[e[l]][2]
          BY <4>1
        <4> QED
          BY <4>1, <4>2 DEF TokensOk
      <3> QED
        BY <1>6, <2>1, <3>1
    <2>2. CASE j = Len(r) + 1 /\ l \in 1..Len(r)
      BY <1>1, <1>4, <1>7, <2>2
    <2>3. CASE l = Len(r) + 1 /\ j \in 1..Len(r)
      BY <1>1, <1>4, <1>7, <2>3
    <2> QED
      BY <1>8, <2>1, <2>2, <2>3
  <1>11. OwnedAt(a, k) \subseteq 1..(Len(r) + 1)
    BY <1>5 DEF OwnedAt
  <1>12. TokensOk(a, k)
    BY <1>9, <1>10, <1>11 DEF TokensOk
  <1>13. Len(r) + 1 \in MarkersAt(a, k)
    BY <1>1, <1>4, <1>5 DEF MarkersAt, OwnedAt
  <1>14. TokensVersion(a, k) = k[Len(r) + 1][3]
    <2>1. k \in Seq(X)
      BY <1>4
    <2>2. PICK i : i = Len(r) + 1
      OBVIOUS
    <2>3. TokensVersion(a, k) = k[i][3]
      BY ONLY <1>12, <1>13, <2>1, <2>2, OneMarker
    <2> QED
      BY <2>2, <2>3
  <1> QED
    BY <1>1, <1>4, <1>12, <1>14

\* The area itself reads well in a command line that was rewritten for it: its tokens are
\* those of the source, or of the defaults when it is reset, and the new marker.
LEMMA OwnAreaReads ==
    ASSUME NEW tokens, IsText(tokens), NEW defaults, IsText(defaults),
           NEW a \in CmdlineAreas, NEW only \in BOOLEAN,
           only => TokensOk(a, tokens), ~only => TokensOk(a, defaults),
           NEW new, new = RewriteCmdlineArea(tokens, defaults, a, 2, only)
    PROVE  TokensOk(a, new) /\ TokensVersion(a, new) = 2
  <1> DEFINE X == Range(tokens) \cup Range(defaults) \cup {NewMarker(a, 2)}
             W == {t \in X : KeyBelongsToCmdlineArea(a, t[2])}
             K == KeptTokens(tokens, a, only)
             A == AddedTokens(defaults, a, only)
             h == NewMarker(a, 2)
  <1>1. tokens \in Seq(X) /\ defaults \in Seq(X) /\ <<h>> \in Seq(X)
    <2>1. tokens \in Seq(Range(tokens)) /\ defaults \in Seq(Range(defaults))
      BY DEF IsText
    <2>2. Range(tokens) \subseteq X /\ Range(defaults) \subseteq X /\ h \in X
      OBVIOUS
    <2> HIDE DEF h, X
    <2> QED
      BY <2>1, <2>2
  <1>2. new = (Keep(tokens, K) \o Keep(defaults, A)) \o <<h>>
    BY RewriteParts
  <1>3. h \in X /\ h \in W
    BY DEF NewMarker, CmdlineAreas, CmdlineSchemaKey, KeyBelongsToCmdlineArea, MachineKeys, NetworkKeys
  <1>4. \A t \in X : t \in W <=> KeyBelongsToCmdlineArea(a, t[2])
    OBVIOUS
  <1>5. \A t : t \in K => t[2] # CmdlineSchemaKey(a)
    BY DEF KeptTokens
  <1>6. \A t : t \in A => KeyBelongsToCmdlineArea(a, t[2]) /\ t[2] # CmdlineSchemaKey(a)
    BY DEF AddedTokens
  <1>7. only => \A t : t \notin A
    BY DEF AddedTokens
  <1>8. ~only => \A t : t \in K => ~KeyBelongsToCmdlineArea(a, t[2])
    BY DEF KeptTokens
  <1> HIDE DEF X, W, K, A, h
  <1>9. /\ Keep(tokens, K) \in Seq(X) /\ Keep(defaults, A) \in Seq(X)
        /\ Keep(tokens, K) \o Keep(defaults, A) \in Seq(X) /\ new \in Seq(X)
    <2>1. Keep(tokens, K) \in Seq(X) /\ Keep(defaults, A) \in Seq(X)
      BY <1>1, KeepType
    <2>2. Keep(tokens, K) \o Keep(defaults, A) \in Seq(X)
      BY <2>1
    <2>3. new \in Seq(X)
      BY ONLY <1>1, <1>2, <2>2, Joined
    <2> QED
      BY <2>1, <2>2, <2>3
  <1>10. \A s, t \in Seq(X) : Keep(s \o t, W) = Keep(s, W) \o Keep(t, W)
    BY KeepConcat
  <1>11. Keep(<<h>>, W) = <<h>>
    BY <1>3, KeepOne
  <1>12. Keep(new, W) = (Keep(tokens, K \cap W) \o Keep(defaults, A \cap W)) \o <<h>>
    <2>1. Keep(new, W) = Keep(Keep(tokens, K) \o Keep(defaults, A), W) \o Keep(<<h>>, W)
      BY <1>1, <1>2, <1>9, <1>10
    <2>2. Keep(Keep(tokens, K) \o Keep(defaults, A), W) = Keep(Keep(tokens, K), W) \o Keep(Keep(defaults, A), W)
      BY <1>9, <1>10
    <2>3. Keep(Keep(tokens, K), W) = Keep(tokens, K \cap W) /\ Keep(Keep(defaults, A), W) = Keep(defaults, A \cap W)
      BY <1>1, KeepTwice
    <2> QED
      BY ONLY <1>11, <2>1, <2>2, <2>3, Zenon
  <1>13. \A s \in Seq(X) : <<>> \o s = s /\ s \o <<>> = s
    BY ConcatEmptySeq
  <1>14. PICK k : k = Keep(new, W)
    OBVIOUS
  <1>15. TokensOk(a, k) /\ TokensVersion(a, k) = 2
    <2>1. CASE only
      <3> DEFINE V == K \cap W
      <3>1. Keep(defaults, A \cap W) = <<>>
        <4>1. \A i \in 1..Len(defaults) : defaults[i] \notin A \cap W
          BY <1>7, <2>1
        <4> QED
          BY <1>1, <4>1, KeepNone
      <3>2. \A t \in X : t \in V => KeyBelongsToCmdlineArea(a, t[2]) /\ t[2] # CmdlineSchemaKey(a)
        BY <1>4, <1>5
      <3> HIDE DEF V
      <3>3. Keep(tokens, V) \in Seq(X)
        BY <1>1, KeepType
      <3>4. k = Keep(tokens, V) \o <<h>>
        <4>1. Keep(tokens, V) \o <<>> = Keep(tokens, V)
          BY <1>13, <3>3
        <4> QED
          BY ONLY <1>12, <1>14, <3>1, <4>1, Zenon DEF V
      <3>5. TokensOk(a, tokens)
        BY <2>1
      <3> QED
        BY ONLY <1>1, <1>3, <3>2, <3>4, <3>5, MarkedTokens, a \in CmdlineAreas DEF h
    <2>2. CASE ~only
      <3> DEFINE V == A \cap W
      <3>1. Keep(tokens, K \cap W) = <<>>
        <4>1. \A i \in 1..Len(tokens) : tokens[i] \notin K \cap W
          <5>1. \A i \in 1..Len(tokens) : tokens[i] \in X
            BY <1>1
          <5> QED
            BY <1>4, <1>8, <2>2, <5>1
        <4> QED
          BY <1>1, <4>1, KeepNone
      <3>2. \A t \in X : t \in V => KeyBelongsToCmdlineArea(a, t[2]) /\ t[2] # CmdlineSchemaKey(a)
        BY <1>6
      <3> HIDE DEF V
      <3>3. Keep(defaults, V) \in Seq(X)
        BY <1>1, KeepType
      <3>4. k = Keep(defaults, V) \o <<h>>
        <4>1. <<>> \o Keep(defaults, V) = Keep(defaults, V)
          BY <1>13, <3>3
        <4> QED
          BY ONLY <1>12, <1>14, <3>1, <4>1, Zenon DEF V
      <3>5. TokensOk(a, defaults)
        BY <2>2
      <3> QED
        BY ONLY <1>1, <1>3, <3>2, <3>4, <3>5, MarkedTokens, a \in CmdlineAreas DEF h
    <2> QED
      BY <2>1, <2>2
  <1>16. /\ TokensOk(a, new) <=> TokensOk(a, k)
         /\ TokensOk(a, new) => TokensVersion(a, new) = TokensVersion(a, k)
    BY <1>4, <1>9, <1>14, OwnTokens
  <1> QED
    BY <1>15, <1>16

-----------------------------------------------------------------------------
(* What was approved can be carried out. *)

\* No file that is to be migrated carries a header already.
Headerless(plan) ==
    \A a \in {"Machines", "ConfigManagedBlock", "Settings"} : Changed(plan, a) =>
      \A p \in DOMAIN plan[a].content : Headers(plan[a].content[p]) = {}

\* The signed defaults of a changed area have the version that is wanted.
LEMMA DefaultsRead ==
    ASSUME NEW plan, NEW rel, Agreed(plan, rel), DefaultsSound(rel), NEW a \in Areas, Changed(plan, a)
    PROVE  /\ DetectArea(a, Defaults(a, rel)) = Valid(2)
           /\ AreaPaths[a] \cap Templates(rel) # {}
  <1>1. /\ DOMAIN plan[a].content # {} /\ DOMAIN plan[a].content \subseteq AreaPaths[a]
        /\ DOMAIN plan[a].content \subseteq Templates(rel)
    BY DEF Agreed
  <1>2. PICK p \in AreaPaths[a] \cap Templates(rel) : TRUE
    BY <1>1
  <1>3. DetectArea(a, Defaults(a, rel)) = Valid(rel.requirements[a].target)
    BY <1>2 DEF DefaultsSound, Defaults
  <1>4. rel.requirements[a].target = 2
    BY MigrationFound
  <1> QED
    BY <1>2, <1>3, <1>4

LEMMA MachinesRead ==
    ASSUME NEW plan, NEW rel, Agreed(plan, rel), DefaultsSound(rel), Headerless(plan),
           Changed(plan, "Machines")
    PROVE  DetectArea("Machines", NewFiles("Machines", plan, rel)) = Valid(2)
  <1> DEFINE source == plan["Machines"].content
             made == NewFiles("Machines", plan, rel)
             resets == plan["Machines"].classification = "ResetRequired"
             m == MigrationOf(plan, "Machines", rel)
  <1>0. "Machines" \in Areas
    BY DEF Areas
  <1>1. m.to = 2 /\ m.transform = Transforms("Machines", m.lossy) /\ (m.lossy <=> resets)
        /\ DetectArea("Machines", source) = Valid(1)
    BY <1>0, MigrationFound
  <1>2. m.transform = IF resets THEN "ResetDefaults" ELSE "TextHeader"
    BY <1>1 DEF Transforms
  <1>3. made = IF resets THEN Defaults("Machines", rel)
               ELSE [p \in DOMAIN source |-> PrefixTextSchema(source[p], 2)]
    <2> HIDE DEF m, source
    <2> QED
      BY <1>1, <1>2 DEF NewFiles, Transformed, m, source
  <1>4. CASE resets
    BY <1>0, <1>3, <1>4, DefaultsRead
  <1>5. CASE ~resets
    <2>1. DetectMachines(source) = Valid(1)
      BY <1>1 DEF DetectArea
    <2>2. /\ DOMAIN source # {} /\ \A p \in DOMAIN source : MachinesFileOk(source[p])
          /\ SameVersion(source, MachinesFileVersion) /\ "machines.ini" \in DOMAIN source
          /\ MachinesFileVersion(source["machines.ini"]) = 1
      BY <2>1 DEF DetectMachines, Valid, Missing, Rejected
    <2>3. \A p \in DOMAIN source : MachinesFileVersion(source[p]) = 1
      BY <2>2 DEF SameVersion
    <2>4. \A p \in DOMAIN source : IsText(source[p]) /\ Headers(source[p]) = {}
      BY <1>0 DEF Agreed, Texts, Headerless
    <2> HIDE DEF source, made
    <2>5. DOMAIN made = DOMAIN source /\ \A p \in DOMAIN source : made[p] = PrefixTextSchema(source[p], 2)
      BY <1>3, <1>5
    <2>6. \A p \in DOMAIN made : MachinesFileOk(made[p]) /\ MachinesFileVersion(made[p]) = 2
      <3> SUFFICES ASSUME NEW p \in DOMAIN made
                   PROVE MachinesFileOk(made[p]) /\ MachinesFileVersion(made[p]) = 2
        OBVIOUS
      <3>1. /\ IsText(source[p]) /\ MachinesFileOk(source[p]) /\ Headers(source[p]) = {}
            /\ MachinesFileVersion(source[p]) = 1 /\ made[p] = PrefixTextSchema(source[p], 2)
        BY <2>2, <2>3, <2>4, <2>5
      <3> QED
        BY <3>1, HeadedMachines
    <2>7. SameVersion(made, MachinesFileVersion)
      BY <2>6 DEF SameVersion
    <2>8. DetectMachines(made) = Valid(2)
      BY <2>2, <2>5, <2>6, <2>7 DEF DetectMachines
    <2> QED
      BY <2>8 DEF DetectArea, made
  <1> QED
    BY <1>4, <1>5

LEMMA ConfigRead ==
    ASSUME NEW plan, NEW rel, Agreed(plan, rel), DefaultsSound(rel), DefaultsAreTexts(rel),
           Headerless(plan), Changed(plan, "ConfigManagedBlock")
    PROVE  DetectArea("ConfigManagedBlock", NewFiles("ConfigManagedBlock", plan, rel)) = Valid(2)
  <1> DEFINE a == "ConfigManagedBlock"
             p == "config.txt"
             old == plan["ConfigManagedBlock"].content["config.txt"]
             made == NewFiles("ConfigManagedBlock", plan, rel)
             new == made["config.txt"]
             default == rel.templates["config.txt"]
             resets == plan["ConfigManagedBlock"].classification = "ResetRequired"
  <1>0. a \in Areas /\ AreaPaths[a] = {p}
    BY DEF Areas, AreaPaths
  <1>1. /\ DetectArea(a, plan[a].content) = Valid(1) /\ DetectArea(a, Defaults(a, rel)) = Valid(2)
        /\ \A files : DetectArea(a, files) = DetectConfigBlock(files)
    <2>1. DetectArea(a, plan[a].content) = Valid(1)
      BY <1>0, MigrationFound
    <2>2. DetectArea(a, Defaults(a, rel)) = Valid(2)
      BY <1>0, DefaultsRead
    <2>3. \A files : DetectArea(a, files) = DetectConfigBlock(files)
      BY DEF DetectArea
    <2> QED
      BY <2>1, <2>2, <2>3
  <1>2. p \in DOMAIN plan[a].content /\ p \in Templates(rel) /\ IsText(old) /\ IsText(default)
        /\ Headers(old) = {}
    <2>1. /\ DOMAIN plan[a].content # {} /\ DOMAIN plan[a].content \subseteq AreaPaths[a]
          /\ DOMAIN plan[a].content \subseteq Templates(rel) /\ Texts(plan[a].content)
      BY <1>0 DEF Agreed
    <2>2. p \in DOMAIN plan[a].content /\ p \in Templates(rel)
      BY <1>0, <2>1
    <2> QED
      BY <2>1, <2>2 DEF Texts, DefaultsAreTexts, Templates, Headerless
  <1>3. p \in DOMAIN made /\ new = Rewritten(a, plan[a].classification, old, default)
    BY <1>0, <1>2, NewContent
  <1>4. ConfigBlockOk(old)
    BY <1>1, <1>2 DEF DetectConfigBlock, Valid, Missing, Rejected
  <1>5. ConfigBlockOk(default) /\ HeaderVersion(default, 1) = 2
    <2>1. Defaults(a, rel)[p] = default
      BY <1>0, <1>2 DEF Defaults
    <2>2. DetectConfigBlock(Defaults(a, rel)) = Valid(2)
      BY <1>1
    <2> HIDE DEF default
    <2> QED
      BY <2>1, <2>2 DEF DetectConfigBlock, Valid, Missing, Rejected
  <1> HIDE DEF old, default, new
  <1>6. PICK b, e : Block(old, b, e)
    BY <1>2, <1>4, BlockExists
  <1>7. PICK c, f : Block(default, c, f)
    BY <1>2, <1>5, BlockExists
  <1>8. Inner(old, b, e) /\ Inner(default, c, f)
    BY <1>4, <1>5, <1>6, <1>7, InnerOk
  <1>9. ConfigBlockOk(new) /\ HeaderVersion(new, 1) = 2
    <2>1. CASE resets
      <3>1. new = ReplaceConfigBlock(old, default)
        BY <1>3, <2>1 DEF Rewritten, CmdlineAreas
      <3> QED
        BY <1>2, <1>5, <1>6, <1>7, <1>8, <3>1, ReplacedOk
    <2>2. CASE ~resets
      <3>1. new = AddConfigBlockHeader(old, 2)
        BY <1>3, <2>2 DEF Rewritten, CmdlineAreas
      <3> QED
        BY <1>2, <1>6, <1>8, <3>1, HeaderedOk
    <2> QED
      BY <2>1, <2>2
  <1>10. DetectConfigBlock(made) = Valid(2)
    <2>1. DOMAIN made # {}
      BY <1>3
    <2> HIDE DEF made
    <2>2. made["config.txt"] = new
      BY DEF new, made
    <2> QED
      BY <1>9, <2>1, <2>2 DEF DetectConfigBlock
  <1> QED
    BY <1>1, <1>10

LEMMA CmdlineRead ==
    ASSUME NEW plan, NEW rel, Agreed(plan, rel), DefaultsSound(rel), DefaultsAreTexts(rel),
           NEW a \in CmdlineAreas, Changed(plan, a)
    PROVE  DetectArea(a, NewFiles(a, plan, rel)) = Valid(2)
  <1> DEFINE p == "cmdline.txt"
             old == plan[a].content["cmdline.txt"]
             made == NewFiles(a, plan, rel)
             new == made["cmdline.txt"]
             default == rel.templates["cmdline.txt"]
             resets == plan[a].classification = "ResetRequired"
  <1>0. a \in Areas /\ AreaPaths[a] = {p}
    BY DEF Areas, AreaPaths, CmdlineAreas
  <1>1. /\ ParseCmdline(plan[a].content, a) = Valid(1) /\ ParseCmdline(Defaults(a, rel), a) = Valid(2)
        /\ \A files : DetectArea(a, files) = ParseCmdline(files, a)
    <2>1. DetectArea(a, plan[a].content) = Valid(1)
      BY <1>0, MigrationFound
    <2>2. DetectArea(a, Defaults(a, rel)) = Valid(2)
      BY <1>0, DefaultsRead
    <2>3. \A files : DetectArea(a, files) = ParseCmdline(files, a)
      BY DEF DetectArea, CmdlineAreas
    <2> QED
      BY <2>1, <2>2, <2>3
  <1>2. p \in DOMAIN plan[a].content /\ p \in Templates(rel) /\ IsText(old) /\ IsText(default)
    <2>1. /\ DOMAIN plan[a].content # {} /\ DOMAIN plan[a].content \subseteq AreaPaths[a]
          /\ DOMAIN plan[a].content \subseteq Templates(rel) /\ Texts(plan[a].content)
      BY <1>0 DEF Agreed
    <2>2. p \in DOMAIN plan[a].content /\ p \in Templates(rel)
      BY <1>0, <2>1
    <2> QED
      BY <2>1, <2>2 DEF Texts, DefaultsAreTexts, Templates
  <1>3. p \in DOMAIN made /\ new = Rewritten(a, plan[a].classification, old, default)
    BY <1>0, <1>2, NewContent
  <1>4. \A files, tokens, v : /\ DOMAIN files # {} /\ tokens = files["cmdline.txt"]
                              /\ ParseCmdline(files, a) = Valid(v)
                              => Kinds(tokens, "junk") = {} /\ TokensOk(a, tokens)
    <2> SUFFICES ASSUME NEW files, NEW tokens, NEW v, DOMAIN files # {}, tokens = files["cmdline.txt"],
                        ParseCmdline(files, a) = Valid(v)
                 PROVE  Kinds(tokens, "junk") = {} /\ TokensOk(a, tokens)
      OBVIOUS
    <2>1. ParseCmdline(files, a) = IF Kinds(tokens, "junk") = {} /\ TokensOk(a, tokens)
                                   THEN Valid(TokensVersion(a, tokens)) ELSE Rejected
      BY Parsing
    <2>2. Rejected # Valid(v)
      BY DEF Rejected, Valid
    <2> QED
      BY <2>1, <2>2
  <1>5. Kinds(old, "junk") = {} /\ TokensOk(a, old)
    BY <1>1, <1>2, <1>4
  <1>6. Kinds(default, "junk") = {} /\ TokensOk(a, default)
    <2>1. p \in DOMAIN Defaults(a, rel) /\ Defaults(a, rel)[p] = default
      BY <1>0, <1>2 DEF Defaults
    <2>2. DOMAIN Defaults(a, rel) # {}
      BY <2>1
    <2> QED
      BY <1>1, <1>4, <2>1, <2>2
  <1> HIDE DEF old, default, new, made, resets
  <1>7. ASSUME NEW d, IsText(d), Kinds(d, "junk") = {}, NEW only \in BOOLEAN,
               ~only => TokensOk(a, d), new = RewriteCmdlineArea(old, d, a, 2, only)
        PROVE  Kinds(new, "junk") = {} /\ TokensOk(a, new) /\ TokensVersion(a, new) = 2
    <2>1. Kinds(new, "junk") = {}
      BY <1>2, <1>5, <1>7, RewrittenClean
    <2>2. TokensOk(a, new) /\ TokensVersion(a, new) = 2
      BY <1>2, <1>5, <1>7, OwnAreaReads
    <2> QED
      BY <2>1, <2>2
  <1>8. Kinds(new, "junk") = {} /\ TokensOk(a, new) /\ TokensVersion(a, new) = 2
    <2>1. CASE resets
      <3>1. new = RewriteCmdlineArea(old, default, a, 2, FALSE)
        BY <1>3, <2>1 DEF Rewritten, CmdlineAreas, resets
      <3> QED
        BY <1>2, <1>6, <1>7, <3>1
    <2>2. CASE ~resets
      <3>1. new = RewriteCmdlineArea(old, <<>>, a, 2, TRUE)
        BY <1>3, <2>2 DEF Rewritten, CmdlineAreas, resets
      <3>2. IsText(<<>>) /\ Kinds(<<>>, "junk") = {}
        BY DEF IsText, Range, Kinds
      <3> QED
        BY <1>7, <3>1, <3>2
    <2> QED
      BY <2>1, <2>2
  <1>9. ParseCmdline(made, a) = Valid(2)
    <2>1. DOMAIN made # {} /\ new = made["cmdline.txt"]
      BY <1>3 DEF new
    <2>2. ParseCmdline(made, a) = IF Kinds(new, "junk") = {} /\ TokensOk(a, new)
                                  THEN Valid(TokensVersion(a, new)) ELSE Rejected
      BY <2>1, Parsing
    <2> QED
      BY <1>8, <2>2
  <1> QED
    BY <1>1, <1>9 DEF made

LEMMA ChangeOk ==
    ASSUME NEW plan, NEW rel, Agreed(plan, rel), DefaultsSound(rel), DefaultsAreTexts(rel),
           Headerless(plan), NEW a \in Areas, Changed(plan, a)
    PROVE  ChangeOf(a, plan, rel).status = "Ok"
  <1> DEFINE m == MigrationOf(plan, a, rel)
             source == plan[a].content
             resets == plan[a].classification = "ResetRequired"
             outputs == IF resets THEN DOMAIN Defaults(a, rel) ELSE DOMAIN source
             result == Transformed(m, source, Defaults(a, rel))
  <1>1. /\ m \in CompiledMigrations /\ m.area = a /\ m.from = 1 /\ m.to = 2
        /\ m.lossy \in BOOLEAN /\ (m.lossy <=> resets) /\ m.transform = Transforms(a, m.lossy)
        /\ DetectArea(a, source) = Valid(1)
    BY MigrationFound
  <1>2. DetectArea(a, Defaults(a, rel)) = Valid(2) /\ AreaPaths[a] \cap Templates(rel) # {}
    BY DefaultsRead
  <1>3. a \in {"Machines", "ConfigManagedBlock"} \cup CmdlineAreas
    BY KeptAreas DEF Areas, CmdlineAreas
  <1>4. DetectArea(a, result) = Valid(2)
    <2>1. DetectArea(a, NewFiles(a, plan, rel)) = Valid(2)
      BY <1>3, MachinesRead, ConfigRead, CmdlineRead
    <2> QED
      BY <2>1 DEF NewFiles
  <1>5. /\ DOMAIN source # {} /\ DOMAIN source \subseteq AreaPaths[a]
        /\ DOMAIN source \subseteq Templates(rel)
    BY DEF Agreed
  <1>6. DOMAIN Defaults(a, rel) = AreaPaths[a] \cap Templates(rel)
    BY DEF Defaults
  <1>7. outputs # {} /\ outputs \subseteq Templates(rel)
    BY <1>2, <1>5, <1>6
  <1> HIDE DEF m, source, result
  <1>8. outputs = IF m.transform = "ResetDefaults" THEN DOMAIN Defaults(a, rel) ELSE DOMAIN source
    <2>1. CASE a = "Machines"
      <3>1. m.transform = "ResetDefaults" <=> resets
        BY <1>1, <2>1 DEF Transforms
      <3> QED
        BY <3>1
    <2>2. CASE a # "Machines"
      <3>1. DOMAIN Defaults(a, rel) = DOMAIN source
        <4>1. \E q : AreaPaths[a] = {q}
          <5>1. AreaPaths[a] = {"config.txt"} \/ AreaPaths[a] = {"cmdline.txt"}
            BY <1>3, <2>2 DEF AreaPaths, CmdlineAreas
          <5> QED
            BY <5>1
        <4> QED
          BY <1>5, <1>6, <4>1
      <3> QED
        BY <3>1
    <2> QED
      BY <2>1, <2>2
  <1>9. ApplyConfigChange(m, source, Defaults(a, rel), outputs, resets) = [status |-> "Ok", files |-> result]
    <2>1. resets = m.lossy
      BY <1>1
    <2> HIDE DEF outputs, resets
    <2> QED
      BY <1>1, <1>2, <1>4, <1>8, <2>1 DEF ApplyConfigChange, result
  <1>10. ChangeOf(a, plan, rel) = ApplyConfigChange(m, source, Defaults(a, rel), outputs, resets)
    BY <1>5, <1>7 DEF ChangeOf, Defaults, m, source
  <1> QED
    BY <1>9, <1>10

LEMMA ApprovedApplies ==
    ASSUME BuiltInv
    PROVE  ApprovedIsApplicable
  <1> SUFFICES ASSUME consent # NotYet, DefaultsSound(release), Headerless(consent)
               PROVE  ChangesApply(consent, release)
    BY DEF ApprovedIsApplicable, Headerless
  <1>1. Agreed(consent, release)
    BY DEF BuiltInv
  <1>2. DefaultsAreTexts(release)
    BY FilesAssumption DEF BuiltInv, DefaultsAreTexts
  <1>3. \A a \in Areas : Changed(consent, a) => ChangeOf(a, consent, release).status = "Ok"
    BY <1>1, <1>2, ChangeOk
  <1>4. ~(Changed(consent, "CmdlineManagedKeys") /\ Changed(consent, "Network"))
    BY <1>1 DEF Agreed
  <1> QED
    BY <1>3, <1>4 DEF ChangesApply

\* What the menu has shown can be done: no transform of an approved plan refuses its result
\* after the download (CheckPreparedConfigRepresentability against ApplyConfigChange).
THEOREM ApprovedAlwaysApplicable == Spec => []ApprovedIsApplicable
  BY BuiltInvariant, ApprovedApplies, PTL
=============================================================================
