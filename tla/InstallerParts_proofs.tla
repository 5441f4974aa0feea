----------------------- MODULE InstallerParts_proofs -----------------------
(***************************************************************************)
(* Two parts of the installer that have a module of their own: the kernel  *)
(* selectors (CandidateSelector) and the space on the card and the work    *)
(* that is announced (StorageBudget).                                      *)
(*                                                                         *)
(* The selectors, for either kind of replace: the argument is SelectorInv, *)
(* what each step of ArmCandidate, CommitCandidate and DisarmCandidate may *)
(* rely on, next to the three properties.                                  *)
(*                                                                         *)
(* The space, for any release, card and number of power cuts: the first    *)
(* check of the stage admits the sum of what every file may ever occupy    *)
(* (Share), and every file stays within its share. What goes beyond it is  *)
(* one temporary file, and what interrupted restores leave behind.         *)
(***************************************************************************)
EXTENDS CandidateSelector, StorageBudget, FiniteSetTheorems, SequenceTheorems,
        WellFoundedInduction, TLAPS


-----------------------------------------------------------------------------
(* The selectors *)

LEMMA InitType == Init => TypeOK
  BY SelectorAssumption
  DEF Init, TypeOK, Paths, Selectors, Originals, PCs, PublishSteps

\* The name that PublishSelector writes is that of a kernel.
LEMMA ContentName ==
    /\ Content \in Selectors
    /\ op # "arm" => Content = "stable"
  BY DEF Content, Selectors

\* Every step keeps the types: PublishSelector renames only what it has
\* written and synced, so no selector is ever torn.
LEMMA TypeStep ==
    ASSUME TypeOK, PublishExact, [Next]_vars
    PROVE  TypeOK'
  <1> USE SelectorAssumption DEF TypeOK, Paths, Selectors, Originals, PCs,
          PublishSteps, disk, record, memory, context
  <1>1. CASE ClearNext \/ CreateNext \/ UnlinkSelector \/ SyncDirectory
    BY <1>1 DEF ClearNext, CreateNext, UnlinkSelector, SyncDirectory
  <1>2. CASE WriteNext
    BY <1>2, ContentName DEF WriteNext
  <1>3. CASE RenameNext
    BY <1>3, ContentName DEF RenameNext, PublishExact
  <1>4. CASE PublishFails
    BY <1>4 DEF PublishFails
  <1>5. CASE BeginArm
    BY <1>5, ZenonT(40) DEF BeginArm
  <1>6. CASE CopyKernel
    BY <1>6 DEF CopyKernel
  <1>7. CASE MarkPending
    BY <1>7 DEF MarkPending
  <1>8. CASE BeginCommit
    BY <1>8 DEF BeginCommit
  <1>9. CASE ActivateKernel
    BY <1>9 DEF ActivateKernel
  <1>10. CASE CommitCandidate
    BY <1>10 DEF CommitCandidate
  <1>11. CASE RemoveCandidateKernel
    BY <1>11 DEF RemoveCandidateKernel
  <1>12. CASE MarkCommitted
    BY <1>12 DEF MarkCommitted
  <1>13. CASE BeginRollback
    BY <1>13 DEF BeginRollback
  <1>14. CASE DisarmCandidate
    BY <1>14 DEF DisarmCandidate
  <1>15. CASE MarkIdle
    <2>1. armed' \in BOOLEAN
      BY <1>15, Zenon DEF MarkIdle
    <2> QED
      BY <1>15, <2>1 DEF MarkIdle
  <1>16. CASE Restore
    BY <1>16 DEF Restore
  <1>17. CASE NextTransaction
    BY <1>17 DEF NextTransaction
  <1>18. CASE Stop
    BY <1>18 DEF Stop
  <1>19. CASE UNCHANGED vars
    BY <1>19 DEF vars
  <1> QED
    BY <1>1, <1>2, <1>3, <1>4, <1>5, <1>6, <1>7, <1>8, <1>9, <1>10, <1>11,
       <1>12, <1>13, <1>14, <1>15, <1>16, <1>17, <1>18, <1>19
    DEF Next, Step

LEMMA InitInv == Init => SelectorInv
  BY SelectorAssumption
  DEF Init, SelectorInv, ArmExact, CommitExact, DisarmExact, PublishExact,
      ActiveStable, CandidateStands, OneSelectorStands, PublishSteps, Paths

\* Every step of every operation, a failing call and a power cut preserve the
\* invariant.
LEMMA InvStep ==
    ASSUME TypeOK, SelectorInv, [Next]_vars
    PROVE  SelectorInv'
  <1> USE SelectorAssumption DEF TypeOK, Paths, Selectors, PublishSteps,
          disk, record, memory, context, SelectorInv, ArmExact, CommitExact,
          DisarmExact, PublishExact, ActiveStable, CandidateStands,
          OneSelectorStands, Boots, Content
  <1>1. CASE ClearNext
    BY <1>1 DEF ClearNext
  <1>2. CASE CreateNext
    BY <1>2 DEF CreateNext
  <1>3. CASE WriteNext
    BY <1>3 DEF WriteNext
  <1>4. CASE UnlinkSelector
    BY <1>4 DEF UnlinkSelector
  <1>5. CASE RenameNext
    BY <1>5 DEF RenameNext
  <1>6. CASE SyncDirectory
    BY <1>6 DEF SyncDirectory
  <1>7. CASE PublishFails
    BY <1>7 DEF PublishFails
  <1>8. CASE BeginArm
    BY <1>8 DEF BeginArm
  <1>9. CASE CopyKernel
    BY <1>9 DEF CopyKernel
  <1>10. CASE MarkPending
    BY <1>10 DEF MarkPending
  <1>11. CASE BeginCommit
    BY <1>11 DEF BeginCommit
  <1>12. CASE ActivateKernel
    BY <1>12 DEF ActivateKernel
  <1>13. CASE CommitCandidate
    BY <1>13 DEF CommitCandidate
  <1>14. CASE RemoveCandidateKernel
    BY <1>14 DEF RemoveCandidateKernel
  <1>15. CASE MarkCommitted
    BY <1>15 DEF MarkCommitted
  <1>16. CASE BeginRollback
    BY <1>16 DEF BeginRollback
  <1>17. CASE DisarmCandidate
    BY <1>17 DEF DisarmCandidate
  <1>18. CASE Restore
    BY <1>18 DEF Restore
  <1>19. CASE MarkIdle
    BY <1>19 DEF MarkIdle
  <1>20. CASE NextTransaction
    BY <1>20 DEF NextTransaction
  <1>21. CASE Stop \/ UNCHANGED vars
    BY <1>21 DEF Stop, vars
  <1> QED
    BY <1>1, <1>2, <1>3, <1>4, <1>5, <1>6, <1>7, <1>8, <1>9, <1>10, <1>11,
       <1>12, <1>13, <1>14, <1>15, <1>16, <1>17, <1>18, <1>19, <1>20, <1>21
    DEF Next, Step

\* The inductive invariant: in every reachable state the types hold and every
\* step finds what it relies on.
THEOREM SelectorInvariant == Spec => [](TypeOK /\ SelectorInv)
  <1>1. Init => TypeOK /\ SelectorInv
    BY InitType, InitInv
  <1>2. TypeOK /\ SelectorInv /\ [Next]_vars => (TypeOK /\ SelectorInv)'
    BY TypeStep, InvStep DEF SelectorInv
  <1> QED
    BY <1>1, <1>2, PTL DEF Spec

\* Where replacing a file is atomic, the active selector always names the
\* stable kernel, through any sequence of updates, failures and power cuts.
THEOREM ActiveAlwaysStable == Spec => []ActiveStable
  <1>1. SelectorInv => ActiveStable
    BY DEF SelectorInv
  <1> QED
    BY <1>1, SelectorInvariant, PTL

\* From CandidatePending to the end of the commit the candidate selector boots
\* the whole new kernel, or is being replaced while the active one boots it.
THEOREM CandidateAlwaysStands == Spec => []CandidateStands
  <1>1. SelectorInv => CandidateStands
    BY DEF SelectorInv
  <1> QED
    BY <1>1, SelectorInvariant, PTL

\* The two selectors are never lost together.
THEOREM OneSelectorAlwaysStands == Spec => []OneSelectorStands
  <1>1. SelectorInv => OneSelectorStands
    BY DEF SelectorInv
  <1> QED
    BY <1>1, SelectorInvariant, PTL

-----------------------------------------------------------------------------
(* Sums *)

\* A set of natural numbers has a least element.
LEMMA LeastNatural ==
    ASSUME NEW T \in SUBSET Nat, T # {}
    PROVE  \E x \in T : \A y \in T : x <= y
  <1>1. PICK x \in T : \A y \in T : ~(<<y, x>> \in OpToRel(<, Nat))
    BY NatLessThanWellFounded, WFMin
  <1>2. \A y \in T : ~(y < x)
    BY <1>1 DEF OpToRel
  <1> QED
    BY <1>2

\* The sums of the first numbers, up to k of them.
IsSum(s, f, k) == s = [n \in 0..k |-> IF n = 0 THEN 0 ELSE s[n - 1] + f[n]]

LEMMA SumExists ==
    ASSUME NEW f, NEW k \in Nat
    PROVE  \E s : IsSum(s, f, k)
  <1> DEFINE T == {n \in Nat : ~\E s : IsSum(s, f, n)}
  <1> SUFFICES ASSUME T # {} PROVE FALSE
    OBVIOUS
  <1>1. PICK m \in T : \A n \in T : m <= n
    <2>1. T \in SUBSET Nat
      OBVIOUS
    <2> HIDE DEF T
    <2> QED
      BY <2>1, LeastNatural
  <1>2. CASE m = 0
    <2> DEFINE g == [n \in 0..0 |-> 0]
    <2>1. g = [n \in 0..0 |-> IF n = 0 THEN 0 ELSE g[n - 1] + f[n]]
      <3>1. \A n \in 0..0 : n = 0
        OBVIOUS
      <3> QED
        BY <3>1
    <2>2. IsSum(g, f, 0)
      BY <2>1 DEF IsSum
    <2> QED
      BY <1>1, <1>2, <2>2
  <1>3. CASE m # 0
    <2>1. m - 1 \in Nat /\ m - 1 \notin T
      BY <1>1, <1>3
    <2>2. PICK s : IsSum(s, f, m - 1)
      BY <2>1
    <2> DEFINE g == [n \in 0..m |-> IF n = m THEN s[m - 1] + f[m] ELSE s[n]]
    <2>3. \A n \in 0..m : n = m \/ (n \in 0..(m - 1) /\ n # m)
      BY <1>1
    <2>4. \A n \in 0..(m - 1) : /\ s[n] = IF n = 0 THEN 0 ELSE s[n - 1] + f[n]
                               /\ g[n] = s[n] /\ (n # 0 => g[n - 1] = s[n - 1])
      BY <1>1, <2>2 DEF IsSum
    <2>5. g[m] = s[m - 1] + f[m] /\ g[m - 1] = s[m - 1]
      BY <1>1, <1>3
    <2>6. \A n \in 0..m : g[n] = IF n = 0 THEN 0 ELSE g[n - 1] + f[n]
      BY <1>3, <2>3, <2>4, <2>5
    <2>7. g = [n \in 0..m |-> g[n]]
      OBVIOUS
    <2>8. IsSum(g, f, m)
      <3> HIDE DEF g
      <3> QED
        BY <2>6, <2>7 DEF IsSum
    <2> QED
      BY <1>1, <2>8
  <1> QED
    BY <1>2, <1>3

\* Sum is the last of them.
LEMMA SumEquation ==
    ASSUME NEW n \in Nat, NEW f \in [1..n -> Int]
    PROVE  \E s \in [0..n -> Int] : /\ s[0] = 0 /\ Sum(f) = s[n]
                                    /\ \A m \in 1..n : s[m] = s[m - 1] + f[m]
  <1>1. Len(f) = n
    BY LenProperties
  <1>2. PICK s : IsSum(s, f, n) /\ Sum(f) = s[n]
    <2>1. \E s : IsSum(s, f, n)
      BY SumExists
    <2>2. Sum(f) = (CHOOSE s : IsSum(s, f, n))[n]
      BY <1>1 DEF Sum, IsSum
    <2> QED
      BY <2>1, <2>2
  <1>3. \A m \in 0..n : s[m] = IF m = 0 THEN 0 ELSE s[m - 1] + f[m]
    BY <1>2 DEF IsSum
  <1>7. s = [m \in 0..n |-> s[m]]
    BY <1>2 DEF IsSum
  <1> DEFINE T == {m \in 0..n : s[m] \notin Int}
  <1>4. T = {}
    <2> SUFFICES ASSUME T # {} PROVE FALSE
      OBVIOUS
    <2>1. PICK m \in T : \A k \in T : m <= k
      <3>1. T \in SUBSET Nat
        OBVIOUS
      <3> HIDE DEF T
      <3> QED
        BY <3>1, LeastNatural
    <2>2. m # 0 /\ m - 1 \in 0..n /\ m - 1 \notin T
      BY <1>3, <2>1
    <2>3. s[m] = s[m - 1] + f[m]
      BY <1>3, <2>1, <2>2
    <2>4. s[m - 1] \in Int /\ f[m] \in Int
      BY <2>1, <2>2
    <2> QED
      BY <2>1, <2>3, <2>4
  <1>5. s \in [0..n -> Int]
    BY <1>7, <1>4
  <1>6. s[0] = 0 /\ \A m \in 1..n : s[m] = s[m - 1] + f[m]
    BY <1>3
  <1> QED
    BY <1>2, <1>5, <1>6

LEMMA SumType ==
    ASSUME NEW n \in Nat, NEW f \in [1..n -> Int]
    PROVE  Sum(f) \in Int
  BY SumEquation

\* Sums add up file by file.
LEMMA SumAdds ==
    ASSUME NEW n \in Nat, NEW f \in [1..n -> Int], NEW g \in [1..n -> Int],
           NEW h \in [1..n -> Int], \A i \in 1..n : h[i] = f[i] + g[i]
    PROVE  Sum(h) = Sum(f) + Sum(g)
  <1>1. PICK s \in [0..n -> Int] : /\ s[0] = 0 /\ Sum(f) = s[n]
                                   /\ \A m \in 1..n : s[m] = s[m - 1] + f[m]
    BY SumEquation
  <1>2. PICK t \in [0..n -> Int] : /\ t[0] = 0 /\ Sum(g) = t[n]
                                   /\ \A m \in 1..n : t[m] = t[m - 1] + g[m]
    BY SumEquation
  <1>3. PICK u \in [0..n -> Int] : /\ u[0] = 0 /\ Sum(h) = u[n]
                                   /\ \A m \in 1..n : u[m] = u[m - 1] + h[m]
    BY SumEquation
  <1> DEFINE T == {m \in 0..n : u[m] # s[m] + t[m]}
  <1>4. T = {}
    <2> SUFFICES ASSUME T # {} PROVE FALSE
      OBVIOUS
    <2>1. PICK m \in T : \A k \in T : m <= k
      <3>1. T \in SUBSET Nat
        OBVIOUS
      <3> HIDE DEF T
      <3> QED
        BY <3>1, LeastNatural
    <2>2. m \in 1..n /\ m - 1 \in 0..n /\ m - 1 \notin T
      BY <1>1, <1>2, <1>3, <2>1
    <2>3. u[m - 1] = s[m - 1] + t[m - 1]
      BY <2>2
    <2>4. u[m] = u[m - 1] + h[m] /\ s[m] = s[m - 1] + f[m] /\ t[m] = t[m - 1] + g[m]
      BY <1>1, <1>2, <1>3, <2>2
    <2>5. /\ h[m] = f[m] + g[m] /\ f[m] \in Int /\ g[m] \in Int
          /\ s[m - 1] \in Int /\ t[m - 1] \in Int
      BY <2>2
    <2>6. u[m] # s[m] + t[m]
      BY <2>1
    <2>7. m \in 1..n
      BY <2>2
    <2> HIDE DEF T
    <2> QED
      BY <2>3, <2>4, <2>5, <2>6, <2>7
  <1>5. u[n] = s[n] + t[n]
    <2>1. n \in 0..n
      OBVIOUS
    <2> QED
      BY <1>4, <2>1
  <1> QED
    BY <1>1, <1>2, <1>3, <1>5

\* Sums of smaller numbers are smaller.
LEMMA SumMonotone ==
    ASSUME NEW n \in Nat, NEW f \in [1..n -> Int], NEW g \in [1..n -> Int],
           \A i \in 1..n : f[i] <= g[i]
    PROVE  Sum(f) <= Sum(g)
  <1>1. PICK s \in [0..n -> Int] : /\ s[0] = 0 /\ Sum(f) = s[n]
                                   /\ \A m \in 1..n : s[m] = s[m - 1] + f[m]
    BY SumEquation
  <1>2. PICK t \in [0..n -> Int] : /\ t[0] = 0 /\ Sum(g) = t[n]
                                   /\ \A m \in 1..n : t[m] = t[m - 1] + g[m]
    BY SumEquation
  <1> DEFINE T == {m \in 0..n : ~(s[m] <= t[m])}
  <1>4. T = {}
    <2> SUFFICES ASSUME T # {} PROVE FALSE
      OBVIOUS
    <2>1. PICK m \in T : \A k \in T : m <= k
      <3>1. T \in SUBSET Nat
        OBVIOUS
      <3> HIDE DEF T
      <3> QED
        BY <3>1, LeastNatural
    <2>2. m \in 1..n /\ m - 1 \in 0..n /\ m - 1 \notin T
      BY <1>1, <1>2, <2>1
    <2>3. s[m - 1] <= t[m - 1]
      BY <2>2
    <2>4. s[m] = s[m - 1] + f[m] /\ t[m] = t[m - 1] + g[m]
      BY <1>1, <1>2, <2>2
    <2>5. /\ f[m] <= g[m] /\ f[m] \in Int /\ g[m] \in Int
          /\ s[m - 1] \in Int /\ t[m - 1] \in Int
      BY <2>2
    <2>6. ~(s[m] <= t[m])
      BY <2>1
    <2>7. m \in 1..n
      BY <2>2
    <2> HIDE DEF T
    <2> QED
      BY <2>3, <2>4, <2>5, <2>6, <2>7
  <1>5. s[n] <= t[n]
    <2>1. n \in 0..n
      OBVIOUS
    <2> QED
      BY <1>4, <2>1
  <1> QED
    BY <1>1, <1>2, <1>5

\* A single file's number.
LEMMA SumSingle ==
    ASSUME NEW n \in Nat, NEW f \in [1..n -> Int], NEW k \in 1..n,
           \A i \in 1..n : i # k => f[i] = 0
    PROVE  Sum(f) = f[k]
  <1>1. PICK s \in [0..n -> Int] : /\ s[0] = 0 /\ Sum(f) = s[n]
                                   /\ \A m \in 1..n : s[m] = s[m - 1] + f[m]
    BY SumEquation
  <1> DEFINE T == {m \in 0..n : s[m] # IF m < k THEN 0 ELSE f[k]}
  <1>4. T = {}
    <2> SUFFICES ASSUME T # {} PROVE FALSE
      OBVIOUS
    <2>1. PICK m \in T : \A j \in T : m <= j
      <3>1. T \in SUBSET Nat
        OBVIOUS
      <3> HIDE DEF T
      <3> QED
        BY <3>1, LeastNatural
    <2>2. m \in 1..n /\ m - 1 \in 0..n /\ m - 1 \notin T
      <3>1. m \in 0..n /\ (m = 0 => s[m] = 0 /\ m < k)
        BY <1>1, <2>1
      <3>2. m # 0
        BY <2>1, <3>1
      <3> QED
        BY <2>1, <3>1, <3>2
    <2>3. s[m - 1] = IF m - 1 < k THEN 0 ELSE f[k]
      BY <2>2
    <2>4. s[m] = s[m - 1] + f[m]
      BY <1>1, <2>2
    <2>5. f[m] \in Int /\ f[k] \in Int /\ (m # k => f[m] = 0)
      BY <2>2
    <2>6. s[m] # IF m < k THEN 0 ELSE f[k]
      BY <2>1
    <2>7. m < k \/ m = k \/ m > k
      BY <2>2
    <2> HIDE DEF T
    <2> QED
      BY <2>2, <2>3, <2>4, <2>5, <2>6, <2>7
  <1>5. s[n] = f[k]
    <2>1. n \in 0..n
      OBVIOUS
    <2> QED
      BY <1>4, <2>1
  <1> QED
    BY <1>1, <1>5

LEMMA SumZero ==
    ASSUME NEW n \in Nat, NEW f \in [1..n -> Int], \A i \in 1..n : f[i] = 0
    PROVE  Sum(f) = 0
  <1>1. CASE n = 0
    BY <1>1, SumEquation
  <1>2. CASE n # 0
    <2>1. 1 \in 1..n
      BY <1>2
    <2> QED
      BY <2>1, SumSingle
  <1> QED
    BY <1>1, <1>2

\* Changing one file's number changes the sum by as much.
LEMMA SumOne ==
    ASSUME NEW n \in Nat, NEW f \in [1..n -> Int], NEW g \in [1..n -> Int], NEW k \in 1..n,
           \A i \in 1..n : i # k => g[i] = f[i]
    PROVE  Sum(g) = Sum(f) + g[k] - f[k]
  <1> DEFINE d == [i \in 1..n |-> IF i = k THEN g[k] - f[k] ELSE 0]
  <1>1. d \in [1..n -> Int]
    OBVIOUS
  <1>2. Sum(d) = g[k] - f[k]
    <2>1. d[k] = g[k] - f[k] /\ \A i \in 1..n : i # k => d[i] = 0
      OBVIOUS
    <2> HIDE DEF d
    <2> QED
      BY <1>1, <2>1, SumSingle
  <1>3. \A i \in 1..n : g[i] = f[i] + d[i]
    OBVIOUS
  <1>4. Sum(g) = Sum(f) + Sum(d)
    <2> HIDE DEF d
    <2> QED
      BY <1>1, <1>3, SumAdds
  <1> QED
    BY <1>2, <1>4, SumType


-----------------------------------------------------------------------------
(* Sums over the files of the release *)

LEMMA FileSumType ==
    ASSUME Len(files) \in Nat, NEW f \in [Indices -> Int]
    PROVE  Sum(f) \in Int
  <1>1. f \in [1..Len(files) -> Int]
    BY DEF Indices
  <1> QED
    BY <1>1, SumType

LEMMA FileSumAdds ==
    ASSUME Len(files) \in Nat, NEW f \in [Indices -> Int], NEW g \in [Indices -> Int],
           NEW h \in [Indices -> Int], \A i \in Indices : h[i] = f[i] + g[i]
    PROVE  Sum(h) = Sum(f) + Sum(g)
  <1>1. /\ f \in [1..Len(files) -> Int] /\ g \in [1..Len(files) -> Int]
        /\ h \in [1..Len(files) -> Int]
    BY DEF Indices
  <1>2. \A i \in 1..Len(files) : h[i] = f[i] + g[i]
    BY DEF Indices
  <1> QED
    BY <1>1, <1>2, SumAdds, Zenon

LEMMA FileSumMonotone ==
    ASSUME Len(files) \in Nat, NEW f \in [Indices -> Int], NEW g \in [Indices -> Int],
           \A i \in Indices : f[i] <= g[i]
    PROVE  Sum(f) <= Sum(g)
  <1>1. f \in [1..Len(files) -> Int] /\ g \in [1..Len(files) -> Int]
    BY DEF Indices
  <1>2. \A i \in 1..Len(files) : f[i] <= g[i]
    BY DEF Indices
  <1> QED
    BY <1>1, <1>2, SumMonotone, Zenon

LEMMA FileSumOne ==
    ASSUME Len(files) \in Nat, NEW f \in [Indices -> Int], NEW g \in [Indices -> Int],
           NEW k \in Indices, \A i \in Indices : i # k => g[i] = f[i]
    PROVE  Sum(g) = Sum(f) + g[k] - f[k]
  <1>1. /\ f \in [1..Len(files) -> Int] /\ g \in [1..Len(files) -> Int]
        /\ k \in 1..Len(files)
    BY DEF Indices
  <1>2. \A i \in 1..Len(files) : i # k => g[i] = f[i]
    BY DEF Indices
  <1> QED
    BY <1>1, <1>2, SumOne, Zenon

LEMMA FileSumZero ==
    ASSUME Len(files) \in Nat, NEW f \in [Indices -> Int], \A i \in Indices : f[i] = 0
    PROVE  Sum(f) = 0
  <1>1. f \in [1..Len(files) -> Int] /\ \A i \in 1..Len(files) : f[i] = 0
    BY DEF Indices
  <1> QED
    BY <1>1, SumZero, Zenon
-----------------------------------------------------------------------------
(* Space: what every file may occupy *)

\* The update writes file i; it keeps a snapshot of what was there.
Staging(i) == ~IsNoop(i) /\ ~Kept(i)
Saved(i) == i \in Snapshots /\ ~IsNoop(i) /\ Old(i) # Absent

NewBytes(i) == Allocated(EffectiveSize(i))
OldBytes(i) == Allocated(Old(i))

\* What the preflight counts for file i, and what the file occupies beyond what
\* was there, apart from a part file.
Share(i) == (IF Saved(i) THEN OldBytes(i) ELSE 0) + (IF Staging(i) THEN NewBytes(i) ELSE 0)
Held(i) ==
    (IF i \in card.snapshot THEN OldBytes(i) ELSE 0)
      + (IF i \in card.staged THEN NewBytes(i) ELSE 0) + Allocated(live[i]) - OldBytes(i)
Fits(i) == Held(i) + card.part[i] <= Share(i)

\* The archive, the prepared files and the plan.
Base ==
    RoundUp(ZipSize) + RoundUp(Fixed)
      + SumAllocated({i \in Indices : files[i].policy = "ConfigTemplate"}, EffectiveSize)
CandidateBytes == SumAllocated(card.candidate, EffectiveSize)

\* The check that succeeded first, with room for one temporary file of t bytes.
Admits(t) ==
    /\ \A i \in Indices : /\ Staging(i) => NewBytes(i) <= t
                          /\ Saved(i) => OldBytes(i) <= t
    /\ capacity >= Base + Sum([i \in Indices |-> Share(i)]) + t + MetadataBytes + Reserve
Admitted == \E t \in Nat : Admits(t)

Early == {"preflight", "snapshot", "snapshot_part", "stage", "stage_part"}
Late == {"staged", "arming", "armed"}
Forward == Early \cup {"activate"} \cup Late
Back == {"rollback", "restore_part"}

Cards ==
    [zip : BOOLEAN, prepared : BOOLEAN, plan : BOOLEAN,
     dirs : {0, 2 * Directories, 4 * Directories},
     snapshot : SUBSET Indices, evidence : SUBSET Indices, staged : SUBSET Indices,
     candidate : SUBSET Indices, part : [Indices -> Nat]]

BudgetType ==
    /\ files \in Releases /\ capacity \in Int /\ card \in Cards
    /\ live \in [Indices -> Nat \cup {Absent}]
    /\ durable \in Nat /\ high \in Nat /\ cuts \in Nat
    /\ phase \in Forward \cup Back \cup
         {"probe", "download", "refused", "committed", "rolled_back", "full"}

-----------------------------------------------------------------------------
(* Space: the invariant *)

\* Nothing has been written yet.
Fresh ==
    /\ card.snapshot = {} /\ card.staged = {} /\ card.candidate = {} /\ card.dirs = 0
    /\ card.evidence = {} /\ durable = 0
    /\ \A i \in Indices : card.part[i] = 0 /\ live[i] = Old(i)

\* What is known of a file of a running transaction.
FileInv(i) ==
    /\ i \in card.staged => Staging(i) /\ live[i] = Old(i)
    /\ i \in card.snapshot => IF i \in Snapshots THEN Saved(i)
                              ELSE Staging(i) /\ live[i] = EffectiveSize(i) /\ i \notin card.staged
    /\ live[i] = Old(i) \/ (live[i] = EffectiveSize(i) /\ Staging(i))

\* A part file that a power cut left before the checkpoint.
PartInv(i) ==
    \/ card.part[i] = 0
    \/ Saved(i) /\ i \notin card.snapshot /\ card.part[i] = OldBytes(i)
    \/ Staging(i) /\ i \notin card.staged /\ card.part[i] = NewBytes(i)

\* Before the checkpoint nothing is activated; the snapshots come first.
PrivateInv ==
    /\ card.snapshot \subseteq Snapshots
    /\ \A i \in Indices : live[i] = Old(i) /\ PartInv(i)
    /\ phase \in {"snapshot", "snapshot_part"} =>
         \A i \in Indices : i < high /\ Saved(i) => i \in card.snapshot
    /\ phase \in {"stage", "stage_part"} =>
         \A i \in Indices : /\ Saved(i) => i \in card.snapshot
                            /\ i < high /\ Staging(i) => i \in card.staged
    /\ phase \notin Late \cup {"activate"}

\* After it every file is staged or in place.
PublicInv ==
    /\ \A i \in Indices : /\ card.part[i] = 0
                          /\ Staging(i) => i \in card.staged \/ live[i] = EffectiveSize(i)
    /\ phase \notin {"snapshot_part", "stage_part"}

\* The copy that is being made.
CopyInv ==
    /\ phase \in {"snapshot_part", "stage_part", "restore_part"} => high \in Indices
    /\ phase = "snapshot_part" => Saved(high) /\ high \notin card.snapshot
    /\ phase = "stage_part" => Staging(high) /\ high \notin card.staged

\* There is room to restore file i beside the candidate kernel.
Restorable(i) ==
    i \in card.snapshot \cap Snapshots /\ i \notin card.staged => Held(i) + OldBytes(i) <= Share(i)

\* The rollback of a transaction past its checkpoint.
RestoreInv ==
    /\ \A i \in Indices :
         /\ card.part[i] # 0 => /\ i \in card.snapshot \cap Snapshots /\ i \notin card.staged
                                /\ ~IsNoop(i) /\ card.part[i] = OldBytes(i)
         /\ phase = "restore_part" /\ i = high => i \in card.snapshot \cap Snapshots
         /\ cuts = 0 /\ ~(phase = "restore_part" /\ i = high) => card.part[i] = 0
         /\ cuts <= 1 /\ ~(phase = "restore_part" /\ i = high) => Fits(i)
         /\ cuts <= 1 /\ (cuts = 0 \/ card.candidate # {}) /\ i <= high => Restorable(i)
    /\ cuts = 0 => card.candidate = {}

CandidateInv ==
    /\ phase \in Early \cup {"activate"} => card.candidate = {}
    /\ card.candidate # {} => \E c \in Indices : Staging(c) /\ card.candidate = {c}

RunningInv ==
    /\ card.zip /\ card.prepared /\ card.plan
    /\ Admitted \/ (phase = "preflight" /\ Fresh) \/ (phase = "rollback" /\ durable = 0)
    /\ \A i \in Indices : FileInv(i)
    /\ CandidateInv /\ CopyInv
    /\ phase \in Forward /\ durable = 0 => PrivateInv
    /\ phase \in Forward /\ durable # 0 => PublicInv
    /\ phase \in Back /\ durable # 0 => RestoreInv
    /\ phase = "restore_part" => durable # 0

BudgetInv ==
    /\ BudgetType
    /\ phase \in {"probe", "download"} => card = EmptyCard /\ Fresh /\ cuts = 0
    /\ phase \in Forward \cup Back => RunningInv
    /\ phase = "preflight" /\ cuts = 0 => Fresh
    /\ NeverFull

-----------------------------------------------------------------------------

\* What a release is.
LEMMA ReleaseType ==
    ASSUME files \in Releases
    PROVE  /\ Len(files) \in Nat /\ DOMAIN files = 1..Len(files)
           /\ \A i \in Indices : /\ Size(i) \in Nat /\ EffectiveSize(i) \in Nat
                                 /\ Old(i) \in Nat \cup {Absent}
  BY ReleasesAssumption DEF Indices, Size, EffectiveSize, Old

LEMMA RoundUpType ==
    ASSUME NEW b \in Nat
    PROVE  RoundUp(b) \in Nat
  <1>1. Unit \in Nat /\ Unit > 0 /\ b + Unit - 1 \in Nat
    BY BudgetAssumption
  <1>2. (b + Unit - 1) \div Unit \in Nat
    BY <1>1
  <1> QED
    BY <1>1, <1>2 DEF RoundUp

LEMMA AllocatedType ==
    ASSUME NEW b \in Nat \cup {Absent}
    PROVE  Allocated(b) \in Nat
  BY RoundUpType DEF Allocated

LEMMA FileTypes ==
    ASSUME BudgetType, NEW i \in Indices
    PROVE  /\ NewBytes(i) \in Nat /\ OldBytes(i) \in Nat /\ Allocated(live[i]) \in Nat
           /\ Share(i) \in Nat /\ Held(i) \in Int /\ card.part[i] \in Nat
  <1>1. files \in Releases /\ live[i] \in Nat \cup {Absent} /\ card.part[i] \in Nat
    BY DEF BudgetType, Cards
  <1>2. NewBytes(i) \in Nat /\ OldBytes(i) \in Nat /\ Allocated(live[i]) \in Nat
    BY <1>1, ReleaseType, AllocatedType DEF NewBytes, OldBytes
  <1> QED
    BY <1>1, <1>2 DEF Share, Held

LEMMA BaseType ==
    ASSUME BudgetType
    PROVE  Base \in Int /\ CandidateBytes \in Int
  <1> DEFINE f(S) == [i \in Indices |-> IF i \in S THEN Allocated(EffectiveSize(i)) ELSE 0]
  <1>1. \A S : f(S) \in [Indices -> Int]
    BY FileTypes DEF NewBytes
  <1>2. \A S : Sum(f(S)) \in Int
    <2>1. Len(files) \in Nat
      BY ReleaseType DEF BudgetType, Cards
    <2> HIDE DEF f
    <2> QED
      BY <1>1, <2>1, SumType DEF Indices
  <1>3. RoundUp(ZipSize) \in Nat /\ RoundUp(Fixed) \in Nat
    BY RoundUpType, BudgetAssumption
  <1>4. PICK x, y : /\ x = Sum(f({i \in Indices : files[i].policy = "ConfigTemplate"}))
                    /\ y = Sum(f(card.candidate))
    OBVIOUS
  <1>5. Base = RoundUp(ZipSize) + RoundUp(Fixed) + x /\ CandidateBytes = y
    BY <1>4 DEF Base, CandidateBytes, SumAllocated
  <1>6. x \in Int /\ y \in Int
    <2> HIDE DEF f
    <2> QED
      BY <1>2, <1>4
  <1> QED
    BY <1>3, <1>5, <1>6

\* The evidence files are at most as many as files.
LEMMA EvidenceCount ==
    ASSUME BudgetType
    PROVE  /\ Cardinality(card.evidence) \in Nat
           /\ Cardinality(card.evidence) <= Len(files)
  <1>1. Len(files) \in Nat
    BY ReleaseType DEF BudgetType, Cards
  <1>2. IsFiniteSet(1..Len(files)) /\ Cardinality(1..Len(files)) = Len(files)
    <2>1. 1 \in Int /\ Len(files) \in Int
      BY <1>1
    <2>2. /\ IsFiniteSet(1..Len(files))
          /\ Cardinality(1..Len(files)) = IF 1 > Len(files) THEN 0 ELSE Len(files) - 1 + 1
      BY <2>1, FS_Interval, Zenon
    <2> QED
      BY <1>1, <2>2
  <1>3. card.evidence \in SUBSET (1..Len(files))
    BY DEF BudgetType, Cards, Indices
  <1>4. IsFiniteSet(card.evidence) /\ Cardinality(card.evidence) <= Cardinality(1..Len(files))
    BY <1>2, <1>3, FS_Subset
  <1> QED
    BY <1>2, <1>4, FS_CardinalityType

\* What is used, file by file.
LEMMA UsedByFiles ==
    ASSUME BudgetType, card.zip, card.prepared, card.plan
    PROVE  Used = Base + card.dirs * Unit + Cardinality(card.evidence) * Unit
                    + Sum([i \in Indices |-> Held(i)]) + CandidateBytes + Sum(card.part)
  <1> DEFINE a == [i \in Indices |-> IF i \in card.snapshot THEN Allocated(Old(i)) ELSE 0]
             b == [i \in Indices |-> IF i \in card.staged THEN Allocated(EffectiveSize(i)) ELSE 0]
             c == [i \in Indices |-> Allocated(live[i]) - Allocated(files[i].old)]
             ab == [i \in Indices |-> a[i] + b[i]]
             h == [i \in Indices |-> Held(i)]
             templates == {i \in Indices : files[i].policy = "ConfigTemplate"}
             d == [i \in Indices |-> IF i \in templates THEN Allocated(EffectiveSize(i)) ELSE 0]
             e == [i \in Indices |-> IF i \in card.candidate THEN Allocated(EffectiveSize(i)) ELSE 0]
  <1>1. Len(files) \in Nat
    BY ReleaseType DEF BudgetType, Cards
  <1>2. \A i \in Indices : OldBytes(i) \in Nat /\ NewBytes(i) \in Nat /\ Allocated(live[i]) \in Nat
    BY FileTypes
  <1>3. \A i \in Indices : /\ a[i] \in Int /\ b[i] \in Int /\ c[i] \in Int
                           /\ Held(i) = a[i] + b[i] + c[i]
    BY <1>2 DEF Held, OldBytes, NewBytes, Old
  <1>4. /\ a \in [Indices -> Int] /\ b \in [Indices -> Int] /\ c \in [Indices -> Int]
        /\ ab \in [Indices -> Int] /\ h \in [Indices -> Int]
    BY <1>3
  <1>5. \A i \in Indices : ab[i] = a[i] + b[i]
    BY <1>3
  <1>6. \A i \in Indices : h[i] = ab[i] + c[i]
    BY <1>3
  <1>7. Sum(h) = Sum(a) + Sum(b) + Sum(c)
    <2> HIDE DEF a, b, c, ab, h
    <2>3. Sum(ab) = Sum(a) + Sum(b)
      BY <1>1, <1>4, <1>5, FileSumAdds, Zenon
    <2>4. Sum(h) = Sum(ab) + Sum(c)
      BY <1>1, <1>4, <1>6, FileSumAdds, Zenon
    <2>5. Sum(a) \in Int /\ Sum(b) \in Int /\ Sum(c) \in Int
      BY <1>1, <1>4, FileSumType, Zenon
    <2> QED
      BY <2>3, <2>4, <2>5
  <1>8. Used = RoundUp(ZipSize) + Sum(d) + RoundUp(Fixed) + card.dirs * Unit
                + Cardinality(card.evidence) * Unit + Sum(a) + Sum(b) + Sum(e)
                + Sum(card.part) + Sum(c)
    BY DEF Used, SumAllocated
  <1>9. Base = RoundUp(ZipSize) + RoundUp(Fixed) + Sum(d) /\ CandidateBytes = Sum(e)
    BY DEF Base, CandidateBytes, SumAllocated
  <1>10. Sum(a) \in Int /\ Sum(b) \in Int /\ Sum(c) \in Int
    <2> HIDE DEF a, b, c
    <2> QED
      BY <1>1, <1>4, FileSumType, Zenon
  <1>11. Sum(d) \in Int /\ Sum(e) \in Int
    <2>1. d \in [Indices -> Int] /\ e \in [Indices -> Int]
      BY <1>2 DEF NewBytes
    <2> HIDE DEF d, e
    <2> QED
      BY <1>1, <2>1, FileSumType, Zenon
  <1>12. Sum(card.part) \in Int
    <2>1. card.part \in [Indices -> Int]
      BY DEF BudgetType, Cards
    <2> QED
      BY <1>1, <2>1, FileSumType, Zenon
  <1>13. /\ RoundUp(ZipSize) \in Nat /\ RoundUp(Fixed) \in Nat
         /\ card.dirs * Unit \in Int /\ Cardinality(card.evidence) * Unit \in Int
    <2>1. card.dirs \in Nat /\ Unit \in Nat
      BY BudgetAssumption DEF BudgetType, Cards
    <2>2. RoundUp(ZipSize) \in Nat /\ RoundUp(Fixed) \in Nat
      BY RoundUpType, BudgetAssumption
    <2> QED
      BY <2>1, <2>2, EvidenceCount
  <1> SUFFICES Used = Base + card.dirs * Unit + Cardinality(card.evidence) * Unit
                        + Sum(h) + CandidateBytes + Sum(card.part)
    OBVIOUS
  <1> HIDE DEF a, b, c, d, e, ab, h
  <1> QED
    BY <1>7, <1>8, <1>9, <1>10, <1>11, <1>12, <1>13


\* What one file may hold.
LEMMA FileHeld ==
    ASSUME BudgetType, NEW i \in Indices, FileInv(i)
    PROVE  Held(i) <= Share(i)
  <1>1. NewBytes(i) \in Nat /\ OldBytes(i) \in Nat
    BY FileTypes
  <1>2. Saved(i) => Staging(i)
    BY DEF Saved, Staging, Kept, Snapshots, Snapshotted
  <1>3. \/ live[i] = Old(i) /\ Allocated(live[i]) = OldBytes(i)
        \/ live[i] = EffectiveSize(i) /\ Staging(i) /\ Allocated(live[i]) = NewBytes(i)
    BY DEF FileInv, OldBytes, NewBytes
  <1>4. i \in card.staged => Allocated(live[i]) = OldBytes(i) /\ Staging(i)
    BY DEF FileInv, OldBytes
  <1>5. i \in card.snapshot => Saved(i) \/ (Staging(i) /\ i \notin card.staged /\ Allocated(live[i]) = NewBytes(i))
    BY DEF FileInv, NewBytes
  <1> QED
    BY <1>1, <1>2, <1>3, <1>4, <1>5 DEF Held, Share

\* Before the checkpoint a part file fits as well.
LEMMA PrivateFits ==
    ASSUME BudgetType, NEW i \in Indices, FileInv(i), live[i] = Old(i), PartInv(i),
           card.snapshot \subseteq Snapshots
    PROVE  Fits(i)
  <1>1. NewBytes(i) \in Nat /\ OldBytes(i) \in Nat /\ card.part[i] \in Nat
    BY FileTypes
  <1>2. Allocated(live[i]) = OldBytes(i) /\ Held(i) <= Share(i)
    BY FileHeld DEF OldBytes
  <1>3. Saved(i) => Staging(i)
    BY DEF Saved, Staging, Kept, Snapshots, Snapshotted
  <1>4. i \in card.staged => Staging(i)
    BY DEF FileInv
  <1>5. i \in card.snapshot => Saved(i)
    BY DEF FileInv
  <1>6. CASE card.part[i] = 0
    BY <1>1, <1>2, <1>6, FileTypes DEF Fits
  <1>7. CASE Saved(i) /\ i \notin card.snapshot /\ card.part[i] = OldBytes(i)
    BY <1>1, <1>2, <1>3, <1>4, <1>7 DEF Fits, Held, Share
  <1>8. CASE Staging(i) /\ i \notin card.staged /\ card.part[i] = NewBytes(i)
    BY <1>1, <1>2, <1>5, <1>8 DEF Fits, Held, Share
  <1> QED
    BY <1>6, <1>7, <1>8 DEF PartInv

\* Directories and evidence take at most three units a directory more than the
\* metadata that is counted.
LEMMA Overhead ==
    ASSUME BudgetType
    PROVE  /\ card.dirs * Unit + Cardinality(card.evidence) * Unit
                <= (Len(files) + Directories) * Unit + 3 * Directories * Unit
           /\ card.dirs * Unit \in Nat /\ Cardinality(card.evidence) * Unit \in Nat
           /\ (Len(files) + Directories) * Unit \in Nat
           /\ 3 * Directories * Unit \in Nat
  <1>1. Unit \in Nat /\ Directories \in Nat /\ Reserve \in Nat
    BY BudgetAssumption
  <1>2. Len(files) \in Nat
    BY ReleaseType DEF BudgetType, Cards
  <1>3. PICK e \in Nat : e = Cardinality(card.evidence) /\ e <= Len(files)
    BY EvidenceCount
  <1>4. e * Unit <= Len(files) * Unit
    <2>1. PICK r \in Nat : Len(files) = e + r
      <3>1. Len(files) - e \in Nat /\ Len(files) = e + (Len(files) - e)
        BY <1>2, <1>3
      <3> QED
        BY <3>1
    <2>2. Len(files) * Unit = e * Unit + r * Unit
      BY <1>1, <2>1
    <2>3. r * Unit \in Nat /\ e * Unit \in Nat
      BY <1>1
    <2> QED
      BY <2>2, <2>3
  <1>5. PICK d \in Nat : d = Directories * Unit
    BY <1>1
  <1>6. /\ (Len(files) + Directories) * Unit = Len(files) * Unit + d
        /\ 3 * Directories * Unit = 3 * d
    BY <1>1, <1>2, <1>5
  <1>7. card.dirs * Unit \in {0, 2 * d, 4 * d}
    <2>1. card.dirs \in {0, 2 * Directories, 4 * Directories}
      BY DEF BudgetType, Cards
    <2>2. 0 * Unit = 0 /\ (2 * Directories) * Unit = 2 * d /\ (4 * Directories) * Unit = 4 * d
      BY <1>1, <1>5
    <2> QED
      BY <2>1, <2>2
  <1>8. PICK x, y, z \in Nat : x = e * Unit /\ y = Len(files) * Unit /\ z = card.dirs * Unit
    <2>1. e * Unit \in Nat /\ Len(files) * Unit \in Nat
      BY <1>1, <1>2
    <2>2. card.dirs * Unit \in Nat
      BY <1>5, <1>7
    <2> QED
      BY <2>1, <2>2
  <1>9. x <= y /\ z \in {0, 2 * d, 4 * d}
    BY <1>4, <1>7, <1>8
  <1>10. z + x <= y + d + 3 * d /\ y + d \in Nat /\ 3 * d \in Nat
    <2>1. d \in Nat /\ x \in Nat /\ y \in Nat /\ z \in Nat
      BY <1>5, <1>8
    <2> QED
      BY <1>9, <2>1
  <1>11. /\ Cardinality(card.evidence) * Unit = x /\ card.dirs * Unit = z
         /\ (Len(files) + Directories) * Unit = y + d /\ 3 * Directories * Unit = 3 * d
    BY <1>3, <1>6, <1>8
  <1> QED
    BY <1>8, <1>10, <1>11

\* The sums that the space is counted in.
LEMMA SumTypes ==
    ASSUME BudgetType
    PROVE  /\ Sum([i \in Indices |-> Held(i)]) \in Int
           /\ Sum([i \in Indices |-> Share(i)]) \in Int
           /\ Sum(card.part) \in Int
  <1> DEFINE h == [i \in Indices |-> Held(i)]
             s == [i \in Indices |-> Share(i)]
  <1>1. h \in [Indices -> Int] /\ s \in [Indices -> Int]
    BY FileTypes
  <1>2. card.part \in [Indices -> Int] /\ Len(files) \in Nat
    BY ReleaseType DEF BudgetType, Cards
  <1>3. Sum(h) \in Int /\ Sum(s) \in Int
    <2> HIDE DEF h, s
    <2> QED
      BY <1>1, <1>2, FileSumType, Zenon
  <1> QED
    BY <1>2, <1>3, FileSumType

\* What is free once the update was admitted.
LEMMA FreeSpace ==
    ASSUME BudgetType, card.zip, card.prepared, card.plan, NEW t \in Nat, Admits(t)
    PROVE  /\ Free \in Int
           /\ Free >= Sum([i \in Indices |-> Share(i)]) - Sum([i \in Indices |-> Held(i)])
                        + t + Reserve - 3 * Directories * Unit - CandidateBytes - Sum(card.part)
  <1>1. PICK h, s, p \in Int : /\ h = Sum([i \in Indices |-> Held(i)])
                               /\ s = Sum([i \in Indices |-> Share(i)])
                               /\ p = Sum(card.part)
    BY SumTypes
  <1>2. Used = Base + card.dirs * Unit + Cardinality(card.evidence) * Unit + h + CandidateBytes + p
    BY UsedByFiles, <1>1
  <1>3. capacity >= Base + s + t + MetadataBytes + Reserve
    BY <1>1 DEF Admits
  <1>4. MetadataBytes = RoundUp(Fixed) + (Len(files) + Directories) * Unit /\ RoundUp(Fixed) \in Nat
    BY RoundUpType, BudgetAssumption DEF MetadataBytes
  <1>5. capacity \in Int /\ Base \in Int /\ CandidateBytes \in Int /\ Reserve \in Nat
    BY BaseType, BudgetAssumption DEF BudgetType, Cards
  <1>6. Free = capacity - Used
    BY DEF Free
  <1>7. PICK x, y, z, w \in Nat :
          /\ x = card.dirs * Unit /\ y = Cardinality(card.evidence) * Unit
          /\ z = (Len(files) + Directories) * Unit /\ w = 3 * Directories * Unit
          /\ x + y <= z + w
    BY Overhead
  <1>8. Free >= s - h + t + Reserve - w - CandidateBytes - p /\ Free \in Int
    <2>1. Used = Base + x + y + h + CandidateBytes + p
      BY <1>2, <1>7
    <2>2. PICK r \in Nat : r = RoundUp(Fixed) /\ MetadataBytes = r + z
      BY <1>4, <1>7
    <2>3. PICK b, c \in Int : b = Base /\ c = CandidateBytes
      BY <1>5
    <2>4. Free = capacity - (b + x + y + h + c + p)
      BY <1>6, <2>1, <2>3
    <2>5. capacity >= b + s + t + (r + z) + Reserve
      BY <1>3, <2>2, <2>3
    <2>6. PICK v, f \in Int : v = capacity /\ f = v - (b + x + y + h + c + p)
      BY <1>5
    <2>7. x + y <= z + w /\ Reserve \in Nat
      BY <1>5, <1>7
    <2>8. f >= s - h + t + Reserve - w - c - p
      BY <2>5, <2>6, <2>7
    <2> QED
      BY <2>3, <2>4, <2>6, <2>8
  <1> QED
    BY <1>1, <1>7, <1>8

\* Room for a copy of file k, when every other file fits and the candidate
\* kernel and what k exceeds its share by are covered.
LEMMA Room ==
    ASSUME DirectoriesFit, BudgetType, card.zip, card.prepared, card.plan, NEW t \in Nat, Admits(t),
           NEW k \in Indices, NEW need \in Nat, NEW e \in Nat,
           \A i \in Indices : i # k => Fits(i),
           Held(k) + need <= Share(k) + e,
           e + CandidateBytes <= t
    PROVE  Free + card.part[k] >= need
  <1> DEFINE h == [i \in Indices |-> Held(i)]
             s == [i \in Indices |-> Share(i)]
             o == [i \in Indices |-> IF i = k THEN 0 ELSE card.part[i]]
             u == [i \in Indices |-> Held(i) + (IF i = k THEN 0 ELSE card.part[i])]
             v == [i \in Indices |-> IF i = k THEN Held(i) ELSE Share(i)]
  <1>1. \A i \in Indices : Held(i) \in Int /\ Share(i) \in Nat /\ card.part[i] \in Nat
    BY FileTypes
  <1>2. /\ h \in [Indices -> Int] /\ s \in [Indices -> Int] /\ o \in [Indices -> Int]
        /\ u \in [Indices -> Int] /\ v \in [Indices -> Int] /\ card.part \in [Indices -> Int]
    BY <1>1 DEF BudgetType, Cards
  <1>3. Len(files) \in Nat
    BY ReleaseType DEF BudgetType, Cards
  <1>4. \A i \in Indices : u[i] = h[i] + o[i]
    BY <1>1
  <1>5. \A i \in Indices : u[i] <= v[i]
    BY <1>1 DEF Fits
  <1>6. /\ \A i \in Indices : i # k => v[i] = s[i]
        /\ \A i \in Indices : i # k => o[i] = card.part[i]
        /\ v[k] = Held(k) /\ s[k] = Share(k) /\ o[k] = 0
    OBVIOUS
  <1>7. /\ Free \in Int
        /\ Free >= Sum(s) - Sum(h) + t + Reserve - 3 * Directories * Unit - CandidateBytes - Sum(card.part)
    BY FreeSpace
  <1>8. CandidateBytes \in Int
    BY BaseType
  <1>9. Reserve \in Nat /\ 3 * Directories * Unit \in Nat /\ 3 * Directories * Unit <= Reserve
    BY Overhead, BudgetAssumption DEF DirectoriesFit
  <1> HIDE DEF h, s, o, u, v
  <1>10. Sum(u) = Sum(h) + Sum(o)
    BY <1>2, <1>3, <1>4, FileSumAdds, Zenon
  <1>11. Sum(u) <= Sum(v)
    BY <1>2, <1>3, <1>5, FileSumMonotone, Zenon
  <1>12. Sum(v) = Sum(s) + v[k] - s[k]
    BY <1>2, <1>3, <1>6, FileSumOne, Zenon
  <1>13. Sum(o) = Sum(card.part) + o[k] - card.part[k]
    BY <1>2, <1>3, <1>6, FileSumOne, Zenon
  <1>14. /\ Sum(u) \in Int /\ Sum(h) \in Int /\ Sum(o) \in Int /\ Sum(v) \in Int /\ Sum(s) \in Int
         /\ Sum(card.part) \in Int
    BY <1>2, <1>3, FileSumType, Zenon
  <1>15. Sum(h) + Sum(card.part) - card.part[k] <= Sum(s) + Held(k) - Share(k)
    BY <1>1, <1>6, <1>10, <1>11, <1>12, <1>13, <1>14
  <1>16. PICK w \in Nat : w = 3 * Directories * Unit /\ w <= Reserve
    BY <1>9
  <1> QED
    BY <1>1, <1>7, <1>8, <1>9, <1>14, <1>15, <1>16

\* The sum of what is held stays within the sum of the shares.
LEMMA HeldWithinShares ==
    ASSUME BudgetType, \A i \in Indices : Held(i) <= Share(i)
    PROVE  Sum([i \in Indices |-> Held(i)]) <= Sum([i \in Indices |-> Share(i)])
  <1> DEFINE h == [i \in Indices |-> Held(i)]
             s == [i \in Indices |-> Share(i)]
  <1>1. \A i \in Indices : Held(i) \in Int /\ Share(i) \in Nat
    BY FileTypes
  <1>2. h \in [Indices -> Int] /\ s \in [Indices -> Int] /\ \A i \in Indices : h[i] <= s[i]
    BY <1>1
  <1>3. Len(files) \in Nat
    BY ReleaseType DEF BudgetType, Cards
  <1>4. Sum(h) <= Sum(s)
    <2> HIDE DEF h, s
    <2> QED
      BY <1>2, <1>3, FileSumMonotone, Zenon
  <1> QED
    BY <1>4

\* Room for one temporary file, when the candidate kernel and the part files
\* stay within what the directories leave of the reserve.
LEMMA RoomForOne ==
    ASSUME BudgetType, card.zip, card.prepared, card.plan, NEW t \in Nat, Admits(t),
           \A i \in Indices : Held(i) <= Share(i)
    PROVE  Free + CandidateBytes + Sum(card.part) >= t + Reserve - 3 * Directories * Unit
  <1>1. PICK h, s, p \in Int : /\ h = Sum([i \in Indices |-> Held(i)])
                               /\ s = Sum([i \in Indices |-> Share(i)])
                               /\ p = Sum(card.part)
    BY SumTypes
  <1>2. h <= s
    BY <1>1, HeldWithinShares
  <1>3. PICK w \in Nat : w = 3 * Directories * Unit
    BY Overhead
  <1>4. /\ Free \in Int
        /\ Free >= s - h + t + Reserve - w - CandidateBytes - p
    BY <1>1, <1>3, FreeSpace
  <1>5. CandidateBytes \in Int /\ Reserve \in Nat
    BY BaseType, BudgetAssumption
  <1>6. Free + CandidateBytes + p >= t + Reserve - w
    BY <1>1, <1>2, <1>4, <1>5
  <1> QED
    BY <1>1, <1>3, <1>6

\* The bytes of the candidate kernel.
LEMMA CandidateSize ==
    ASSUME BudgetType
    PROVE  /\ card.candidate = {} => CandidateBytes = 0
           /\ \A c \in Indices : card.candidate = {c} => CandidateBytes = NewBytes(c)
  <1> DEFINE f == [i \in Indices |-> IF i \in card.candidate THEN Allocated(EffectiveSize(i)) ELSE 0]
             z == [i \in Indices |-> 0]
  <1>1. Len(files) \in Nat
    BY ReleaseType DEF BudgetType, Cards
  <1>2. \A i \in Indices : NewBytes(i) \in Nat
    BY FileTypes
  <1>3. f \in [Indices -> Int] /\ z \in [Indices -> Int]
    BY <1>2 DEF NewBytes
  <1>4. CandidateBytes = Sum(f)
    BY DEF CandidateBytes, SumAllocated
  <1>5. \A i \in Indices : z[i] = 0
    OBVIOUS
  <1>6. ASSUME card.candidate = {}
        PROVE  CandidateBytes = 0
    <2>1. \A i \in Indices : f[i] = 0
      BY <1>6
    <2> HIDE DEF f, z
    <2> QED
      BY <1>1, <1>3, <1>4, <2>1, FileSumZero
  <1>7. ASSUME NEW c \in Indices, card.candidate = {c}
        PROVE  CandidateBytes = NewBytes(c)
    <2>1. \A i \in Indices : i # c => f[i] = z[i]
      BY <1>7
    <2>2. f[c] = NewBytes(c) /\ z[c] = 0
      BY <1>7 DEF NewBytes
    <2> HIDE DEF f, z
    <2>3. Sum(f) = Sum(z) + f[c] - z[c]
      BY <1>1, <1>3, <2>1, FileSumOne, Zenon
    <2>4. Sum(z) = 0
      BY <1>1, <1>3, <1>5, FileSumZero
    <2> QED
      BY <1>2, <1>4, <2>2, <2>3, <2>4
  <1> QED
    BY <1>6, <1>7

-----------------------------------------------------------------------------
(* Space: the check that admits the update *)

\* The largest number of a bounded set.
LEMMA Largest ==
    ASSUME NEW n \in Nat, NEW S \in SUBSET (0..n), S # {}
    PROVE  Max(S) \in S /\ \A p \in S : Max(S) >= p
  <1> DEFINE T == {n - o : o \in S}
  <1>1. T \in SUBSET Nat /\ T # {}
    <2>1. \A o \in S : n - o \in Nat
      OBVIOUS
    <2>2. PICK o \in S : TRUE
      OBVIOUS
    <2> QED
      BY <2>1, <2>2
  <1>2. PICK x \in T : \A y \in T : x <= y
    <2> HIDE DEF T
    <2> QED
      BY <1>1, LeastNatural
  <1>3. PICK o \in S : x = n - o
    BY <1>2
  <1>4. \A p \in S : o >= p
    BY <1>2, <1>3
  <1> QED
    BY <1>4 DEF Max

\* No file has more than all files together.
LEMMA BelowSum ==
    ASSUME Len(files) \in Nat, NEW f \in [Indices -> Int], \A i \in Indices : f[i] >= 0
    PROVE  Sum(f) \in Nat /\ \A k \in Indices : f[k] <= Sum(f)
  <1> DEFINE z == [i \in Indices |-> 0]
  <1>1. z \in [Indices -> Int] /\ \A i \in Indices : z[i] = 0
    OBVIOUS
  <1>2. Sum(z) = 0
    <2> HIDE DEF z
    <2> QED
      BY <1>1, FileSumZero
  <1>3. Sum(f) \in Int
    BY FileSumType
  <1>4. Sum(z) <= Sum(f)
    <2>1. \A i \in Indices : z[i] <= f[i]
      OBVIOUS
    <2> HIDE DEF z
    <2> QED
      BY <1>1, <2>1, FileSumMonotone, Zenon
  <1>5. ASSUME NEW k \in Indices
        PROVE  f[k] <= Sum(f)
    <2> DEFINE g == [i \in Indices |-> IF i = k THEN f[k] ELSE 0]
    <2>1. g \in [Indices -> Int] /\ g[k] = f[k] /\ \A i \in Indices : i # k => g[i] = z[i]
      OBVIOUS
    <2>2. \A i \in Indices : g[i] <= f[i]
      OBVIOUS
    <2> HIDE DEF g, z
    <2>3. Sum(g) = Sum(z) + g[k] - z[k]
      BY <1>1, <2>1, FileSumOne, Zenon
    <2>4. Sum(g) <= Sum(f)
      BY <2>1, <2>2, FileSumMonotone, Zenon
    <2> QED
      BY <1>1, <1>2, <1>3, <2>1, <2>3, <2>4
  <1> QED
    BY <1>2, <1>3, <1>4, <1>5

\* LargestAllocated is as large as each of its files.
LEMMA LargestOfFiles ==
    ASSUME Len(files) \in Nat, NEW f \in [Indices -> Int], \A i \in Indices : f[i] >= 0,
           NEW S \in SUBSET Indices
    PROVE  /\ Max({0} \cup {f[i] : i \in S}) \in Nat
           /\ \A i \in S : f[i] <= Max({0} \cup {f[j] : j \in S})
  <1> DEFINE M == {0} \cup {f[i] : i \in S}
  <1>1. PICK n \in Nat : n = Sum(f) /\ \A k \in Indices : f[k] <= n
    BY BelowSum
  <1>2. M \in SUBSET (0..n) /\ M # {}
    BY <1>1
  <1>3. Max(M) \in M /\ \A p \in M : Max(M) >= p
    <2> HIDE DEF M
    <2> QED
      BY <1>2, Largest
  <1> QED
    BY <1>2, <1>3

\* The first check that succeeds admits the share of every file and a temporary
\* file as large as the largest that is written.
LEMMA AdmittedFirst ==
    ASSUME BudgetType, card.zip, card.prepared, card.plan, Fresh, Sufficient(Free, Demand)
    PROVE  Admitted
  <1> DEFINE a == [i \in Indices |-> IF i \in StagePending THEN NewBytes(i) ELSE 0]
             b == [i \in Indices |-> IF i \in SnapshotPending THEN OldBytes(i) ELSE 0]
             s == [i \in Indices |-> Share(i)]
             h == [i \in Indices |-> Held(i)]
             n == [i \in Indices |-> NewBytes(i)]
             o == [i \in Indices |-> OldBytes(i)]
             x == LargestAllocated(StagePending, EffectiveSize)
             y == LargestAllocated(SnapshotPending, Old)
             t == Max({x, y})
  <1>1. Len(files) \in Nat
    BY ReleaseType DEF BudgetType, Cards
  <1>2. \A i \in Indices : NewBytes(i) \in Nat /\ OldBytes(i) \in Nat /\ Share(i) \in Nat /\ Held(i) \in Int
    BY FileTypes
  <1>3. /\ StagePending = {i \in Indices : Staging(i)} /\ SnapshotPending = {i \in Indices : Saved(i)}
    BY DEF Fresh, StagePending, SnapshotPending, Staging, Saved, Snapshots, Old
  <1>4. /\ a \in [Indices -> Int] /\ b \in [Indices -> Int] /\ s \in [Indices -> Int]
        /\ h \in [Indices -> Int] /\ n \in [Indices -> Int] /\ o \in [Indices -> Int]
    BY <1>2
  <1>5. \A i \in Indices : s[i] = a[i] + b[i]
    BY <1>2, <1>3 DEF Share
  <1>6. \A i \in Indices : h[i] = 0
    BY <1>2 DEF Held, Fresh, OldBytes, Old
  <1>7. Sum(s) = Sum(a) + Sum(b) /\ Sum(h) = 0
    <2> HIDE DEF a, b, s, h
    <2>1. Sum(s) = Sum(a) + Sum(b)
      BY <1>1, <1>4, <1>5, FileSumAdds, Zenon
    <2>2. Sum(h) = 0
      BY <1>1, <1>4, <1>6, FileSumZero, Zenon
    <2> QED
      BY <2>1, <2>2
  <1>8. Sum(card.part) = 0
    <2>1. card.part \in [Indices -> Int] /\ \A i \in Indices : card.part[i] = 0
      BY DEF BudgetType, Cards, Fresh
    <2> QED
      BY <1>1, <2>1, FileSumZero
  <1>9. CandidateBytes = 0
    BY CandidateSize DEF Fresh
  <1>10. Used = Base
    <2>1. Used = Base + card.dirs * Unit + Cardinality(card.evidence) * Unit
                   + Sum(h) + CandidateBytes + Sum(card.part)
      BY UsedByFiles
    <2>2. card.dirs * Unit = 0 /\ Cardinality(card.evidence) * Unit = 0
      BY FS_EmptySet, BudgetAssumption DEF Fresh
    <2>3. Base \in Int
      BY BaseType
    <2> HIDE DEF h
    <2> QED
      BY <1>7, <1>8, <1>9, <2>1, <2>2, <2>3
  <1>11. x \in Nat /\ \A i \in StagePending : NewBytes(i) <= x
    <2>1. n \in [Indices -> Int] /\ \A i \in Indices : n[i] >= 0
      BY <1>2
    <2>2. StagePending \in SUBSET Indices
      BY DEF StagePending
    <2>3. {n[i] : i \in StagePending} = {Allocated(EffectiveSize(i)) : i \in StagePending}
      BY <2>2 DEF NewBytes
    <2>4. \A i \in StagePending : n[i] = NewBytes(i)
      BY <2>2
    <2> HIDE DEF n
    <2>5. /\ Max({0} \cup {n[i] : i \in StagePending}) \in Nat
          /\ \A i \in StagePending : n[i] <= Max({0} \cup {n[j] : j \in StagePending})
      BY <1>1, <2>1, <2>2, LargestOfFiles
    <2>6. x = Max({0} \cup {n[i] : i \in StagePending})
      BY <2>3 DEF LargestAllocated
    <2> QED
      BY <2>4, <2>5, <2>6
  <1>12. y \in Nat /\ \A i \in SnapshotPending : OldBytes(i) <= y
    <2>1. o \in [Indices -> Int] /\ \A i \in Indices : o[i] >= 0
      BY <1>2
    <2>2. SnapshotPending \in SUBSET Indices
      BY DEF SnapshotPending, Snapshots
    <2>3. {o[i] : i \in SnapshotPending} = {Allocated(Old(i)) : i \in SnapshotPending}
      BY <2>2 DEF OldBytes
    <2>4. \A i \in SnapshotPending : o[i] = OldBytes(i)
      BY <2>2
    <2> HIDE DEF o
    <2>5. /\ Max({0} \cup {o[i] : i \in SnapshotPending}) \in Nat
          /\ \A i \in SnapshotPending : o[i] <= Max({0} \cup {o[j] : j \in SnapshotPending})
      BY <1>1, <2>1, <2>2, LargestOfFiles
    <2>6. y = Max({0} \cup {o[i] : i \in SnapshotPending})
      BY <2>3 DEF LargestAllocated
    <2> QED
      BY <2>4, <2>5, <2>6
  <1>13. t \in Nat /\ x <= t /\ y <= t
    <2> HIDE DEF x, y
    <2>1. PICK m \in Nat : {x, y} \in SUBSET (0..m)
      <3>1. x + y \in Nat /\ {x, y} \in SUBSET (0..(x + y))
        BY <1>11, <1>12
      <3> QED
        BY <3>1
    <2>2. Max({x, y}) \in {x, y} /\ \A p \in {x, y} : Max({x, y}) >= p
      <3>1. {x, y} # {}
        OBVIOUS
      <3> QED
        BY <2>1, <3>1, Largest
    <2> QED
      BY <1>11, <1>12, <2>2
  <1>14. RequiredPeak(Demand) = Sum(a) + Sum(b) + t + MetadataBytes + Reserve
    <2>1. SumAllocated(StagePending, EffectiveSize) = Sum(a)
      BY DEF SumAllocated, NewBytes
    <2>2. SumAllocated(SnapshotPending, Old) = Sum(b)
      BY DEF SumAllocated, OldBytes
    <2>3. Sum(a) \in Int /\ Sum(b) \in Int
      <3> HIDE DEF a, b
      <3> QED
        BY <1>1, <1>4, FileSumType, Zenon
    <2>4. /\ Demand.zip = 0 /\ Demand.staged = SumAllocated(StagePending, EffectiveSize)
          /\ Demand.snapshot = SumAllocated(SnapshotPending, Old) /\ Demand.temporary = t
      BY DEF Demand
    <2> HIDE DEF a, b, t
    <2> QED
      BY <2>1, <2>2, <2>3, <2>4 DEF RequiredPeak
  <1>15. capacity - Base >= Sum(s) + t + MetadataBytes + Reserve
    <2> HIDE DEF a, b, s, t
    <2> QED
      BY <1>7, <1>10, <1>14 DEF Sufficient, Free
  <1>16. /\ capacity \in Int /\ Base \in Int /\ Sum(s) \in Int /\ MetadataBytes \in Int /\ Reserve \in Nat
    <2>1. Sum(s) \in Int
      BY SumTypes
    <2>2. MetadataBytes \in Int
      BY Overhead, RoundUpType, BudgetAssumption DEF MetadataBytes
    <2> HIDE DEF s
    <2> QED
      BY <2>1, <2>2, BaseType, BudgetAssumption DEF BudgetType, Cards
  <1>17. capacity >= Base + Sum(s) + t + MetadataBytes + Reserve
    <2> HIDE DEF s, t
    <2> QED
      BY <1>13, <1>15, <1>16
  <1>18. \A i \in Indices : (Staging(i) => NewBytes(i) <= t) /\ (Saved(i) => OldBytes(i) <= t)
    <2> HIDE DEF x, y, t
    <2> QED
      BY <1>2, <1>3, <1>11, <1>12, <1>13
  <1>19. Admits(t)
    <2> HIDE DEF t
    <2> QED
      BY <1>17, <1>18 DEF Admits
  <1> HIDE DEF t
  <1> QED
    BY <1>13, <1>19 DEF Admitted

-----------------------------------------------------------------------------
(* Space: what a step leaves alone *)

LEMMA SameRelease ==
    ASSUME files' = files
    PROVE  /\ Indices' = Indices /\ Snapshots' = Snapshots /\ Activated' = Activated
           /\ \A i : /\ Staging(i)' = Staging(i) /\ Saved(i)' = Saved(i) /\ Old(i)' = Old(i)
                     /\ EffectiveSize(i)' = EffectiveSize(i) /\ NewBytes(i)' = NewBytes(i)
                     /\ OldBytes(i)' = OldBytes(i) /\ Share(i)' = Share(i)
                     /\ IsNoop(i)' = IsNoop(i)
  <1>1. Indices' = Indices /\ Snapshots' = Snapshots /\ Activated' = Activated
    BY DEF Indices, Snapshots, Activated
  <1>2. \A i : /\ Old(i)' = Old(i) /\ EffectiveSize(i)' = EffectiveSize(i) /\ IsNoop(i)' = IsNoop(i)
               /\ Kept(i)' = Kept(i)
    BY DEF Old, EffectiveSize, IsNoop, Kept
  <1>3. \A i : Staging(i)' = Staging(i) /\ Saved(i)' = Saved(i)
    BY <1>1, <1>2 DEF Staging, Saved
  <1>4. \A i : NewBytes(i)' = NewBytes(i) /\ OldBytes(i)' = OldBytes(i)
    BY <1>2 DEF NewBytes, OldBytes
  <1> QED
    BY <1>1, <1>2, <1>3, <1>4 DEF Share

LEMMA SameHeld ==
    ASSUME files' = files, NEW i, card.snapshot' = card.snapshot, card.staged' = card.staged,
           live'[i] = live[i]
    PROVE  Held(i)' = Held(i)
  BY SameRelease DEF Held

LEMMA SameFits ==
    ASSUME files' = files, NEW i, card.snapshot' = card.snapshot, card.staged' = card.staged,
           live'[i] = live[i], card'.part[i] = card.part[i]
    PROVE  Fits(i)' = Fits(i)
  BY SameRelease, SameHeld DEF Fits

LEMMA SameFile ==
    ASSUME files' = files, NEW i, card.snapshot' = card.snapshot, card.staged' = card.staged,
           live'[i] = live[i]
    PROVE  FileInv(i)' = FileInv(i)
  BY SameRelease DEF FileInv

LEMMA SameAdmission ==
    ASSUME files' = files, capacity' = capacity
    PROVE  Admitted' = Admitted
  <1>1. /\ Indices' = Indices
        /\ \A i : /\ Staging(i)' = Staging(i) /\ Saved(i)' = Saved(i) /\ NewBytes(i)' = NewBytes(i)
                  /\ OldBytes(i)' = OldBytes(i) /\ Share(i)' = Share(i)
                  /\ EffectiveSize(i)' = EffectiveSize(i)
    BY SameRelease
  <1>2. MetadataBytes' = MetadataBytes
    BY DEF MetadataBytes
  <1>3. Base' = Base
    BY <1>1 DEF Base, SumAllocated
  <1>4. Sum([i \in Indices |-> Share(i)])' = Sum([i \in Indices |-> Share(i)])
    BY <1>1
  <1>5. \A t : Admits(t)' = Admits(t)
    BY <1>1, <1>2, <1>3, <1>4 DEF Admits
  <1> QED
    BY <1>5 DEF Admitted

-----------------------------------------------------------------------------
(* Space: types *)

LEMMA CardTypes ==
    ASSUME BudgetType
    PROVE  /\ EmptyCard \in Cards
           /\ \A k \in Indices, b \in Nat : [card EXCEPT !.part[k] = b] \in Cards
  BY BudgetAssumption DEF BudgetType, Cards, EmptyCard

LEMMA BeginType ==
    ASSUME BudgetType, high \in Indices, NEW b \in Nat \cup {Absent}, NEW then, Begin(b, then)
    PROVE  card' \in Cards /\ phase' \in {"full", then}
  <1>1. Allocated(b) \in Nat
    BY AllocatedType
  <1>2. card \in Cards
    BY DEF BudgetType
  <1> QED
    BY <1>1, <1>2, CardTypes DEF Begin

LEMMA ReleaseFixed ==
    ASSUME BudgetNext
    PROVE  files' = files /\ capacity' = capacity
  BY DEF BudgetNext, ProbeUpdateInstallReadiness, Download, PreflightStorage, SnapshotFile,
         SnapshotDone, FinalizeContentPlan, StageFile, StageDone, ActivateDirectories,
         ActivateFile, Staged, ArmCandidate, Armed, Commit, Committed, Rollback, RestoreFile,
         RestoreDone, RolledBack, PowerCut, Ended, budgetVars

LEMMA BudgetTypeStep ==
    ASSUME BudgetType, phase \in {"snapshot_part", "stage_part", "restore_part"} => high \in Indices,
           BudgetNext
    PROVE  BudgetType'
  <1> DEFINE Phases == Forward \cup Back \cup
                         {"probe", "download", "refused", "committed", "rolled_back", "full"}
  <1>0. files' = files /\ capacity' = capacity /\ Indices' = Indices /\ Cards' = Cards
    BY ReleaseFixed DEF Indices, Cards
  <1>1. Len(files) \in Nat /\ \A i \in Indices : EffectiveSize(i) \in Nat /\ Old(i) \in Nat \cup {Absent}
    BY ReleaseType DEF BudgetType
  <1>2. /\ files \in Releases /\ capacity \in Int /\ card \in Cards
        /\ live \in [Indices -> Nat \cup {Absent}]
        /\ durable \in Nat /\ high \in Nat /\ cuts \in Nat /\ phase \in Phases
    BY DEF BudgetType
  <1>3. Indices = 1..Len(files)
    BY DEF Indices
  <1> SUFFICES /\ card' \in Cards /\ live' \in [Indices -> Nat \cup {Absent}]
               /\ durable' \in Nat /\ high' \in Nat /\ cuts' \in Nat /\ phase' \in Phases
    BY <1>0, <1>2 DEF BudgetType
  <1> USE <1>1, <1>2
  <1>4. CASE ProbeUpdateInstallReadiness
    BY <1>4 DEF ProbeUpdateInstallReadiness
  <1>5. CASE Download
    <2>1. [EmptyCard EXCEPT !.zip = TRUE, !.prepared = TRUE, !.plan = TRUE] \in Cards
      BY CardTypes DEF Cards
    <2> QED
      BY <1>5, <2>1 DEF Download, Forward, Early
  <1>6. CASE PreflightStorage
    BY <1>6 DEF PreflightStorage, Forward, Early, Back
  <1>7. CASE SnapshotFile
    <2>1. CASE SnapshotNeeded /\ live[high] # Absent /\ high \notin card.snapshot
      <3>1. high \in Indices /\ Begin(live[high], "snapshot_part") /\ high' = high
        BY <1>7, <2>1 DEF SnapshotFile
      <3>2. live[high] \in Nat \cup {Absent}
        BY <3>1
      <3>3. card' \in Cards /\ phase' \in {"full", "snapshot_part"}
        BY <3>1, <3>2, BeginType
      <3> QED
        BY <1>7, <3>1, <3>3 DEF SnapshotFile, Forward, Early
    <2>2. CASE ~(SnapshotNeeded /\ live[high] # Absent /\ high \notin card.snapshot)
      BY <1>7, <2>2 DEF SnapshotFile
    <2> QED
      BY <2>1, <2>2
  <1>8. CASE SnapshotDone
    <2>1. high \in Indices
      BY <1>8 DEF SnapshotDone
    <2>2. card' \in Cards
      BY <1>8, <2>1 DEF SnapshotDone, Cards
    <2> QED
      BY <1>8, <2>2 DEF SnapshotDone, Forward, Early
  <1>9. CASE FinalizeContentPlan
    <2>1. card' \in Cards
      BY <1>9 DEF FinalizeContentPlan, Cards
    <2> QED
      BY <1>9, <2>1 DEF FinalizeContentPlan, Forward, Early
  <1>10. CASE StageFile
    <2>1. CASE StageNeeded /\ high \notin card.staged
      <3>1. high \in Indices /\ Begin(EffectiveSize(high), "stage_part") /\ high' = high
        BY <1>10, <2>1 DEF StageFile
      <3>2. EffectiveSize(high) \in Nat \cup {Absent}
        BY <3>1
      <3>3. card' \in Cards /\ phase' \in {"full", "stage_part"}
        BY <3>1, <3>2, BeginType
      <3> QED
        BY <1>10, <3>1, <3>3 DEF StageFile, Forward, Early
    <2>2. CASE ~(StageNeeded /\ high \notin card.staged)
      BY <1>10, <2>2 DEF StageFile
    <2> QED
      BY <2>1, <2>2
  <1>11. CASE StageDone
    <2>1. high \in Indices
      BY <1>11 DEF StageDone
    <2>2. card' \in Cards
      BY <1>11, <2>1 DEF StageDone, Cards
    <2> QED
      BY <1>11, <2>2 DEF StageDone, Forward, Early
  <1>12. CASE ActivateDirectories
    <2>1. card' \in Cards
      BY <1>12 DEF ActivateDirectories, Cards
    <2> QED
      BY <1>12, <2>1 DEF ActivateDirectories, Forward, Checkpoint
  <1>13. CASE ActivateFile
    <2>1. high \in Indices /\ high' = high + 1 /\ phase' = phase /\ cuts' = cuts
      BY <1>13 DEF ActivateFile
    <2>2. durable' \in Nat
      <3>1. PICK m \in Nat : {durable, Checkpoint + high} \in SUBSET (0..m)
        <4>1. /\ durable + (Checkpoint + high) \in Nat
              /\ {durable, Checkpoint + high} \in SUBSET (0..(durable + (Checkpoint + high)))
          BY DEF Checkpoint
        <4> QED
          BY <4>1
      <3>2. {durable, Checkpoint + high} # {}
        OBVIOUS
      <3>3. Max({durable, Checkpoint + high}) \in {durable, Checkpoint + high}
        BY <3>1, <3>2, Largest
      <3> QED
        BY <1>13, <3>1, <3>3 DEF ActivateFile, Checkpoint
    <2>3. card' \in Cards /\ live' \in [Indices -> Nat \cup {Absent}]
      <3>1. [card EXCEPT !.staged = @ \ {high}] \in Cards
        BY DEF Cards
      <3>2. [live EXCEPT ![high] = EffectiveSize(high)] \in [Indices -> Nat \cup {Absent}]
        BY <2>1
      <3> QED
        BY <1>13, <3>1, <3>2 DEF ActivateFile
    <2> QED
      BY <2>1, <2>2, <2>3
  <1>14. CASE Staged
    BY <1>14 DEF Staged, Forward, Late
  <1>15. CASE ArmCandidate
    <2>1. \A k \in card.staged : [card EXCEPT !.candidate = {k}] \in Cards
      BY DEF Cards
    <2> QED
      BY <1>15, <2>1 DEF ArmCandidate, Forward, Late
  <1>16. CASE Armed
    BY <1>16 DEF Armed, Forward, Late
  <1>17. CASE Commit
    <2>1. PICK i \in card.staged :
            /\ live' = [live EXCEPT ![i] = EffectiveSize(i)]
            /\ card' = [card EXCEPT !.staged = @ \ {i},
                                    !.snapshot = IF files[i].old = Absent THEN @ ELSE @ \cup {i}]
      BY <1>17 DEF Commit
    <2>2. i \in Indices
      BY DEF Cards
    <2>3. card' \in Cards /\ live' \in [Indices -> Nat \cup {Absent}]
      BY <2>1, <2>2 DEF Cards
    <2> QED
      BY <1>17, <2>3 DEF Commit
  <1>18. CASE Committed
    <2>1. card' \in Cards
      BY <1>18 DEF Committed, Cards
    <2> QED
      BY <1>18, <2>1 DEF Committed
  <1>19. CASE Rollback
    <2>1. card' \in Cards
      BY <1>19 DEF Rollback, Cards
    <2> QED
      BY <1>19, <2>1 DEF Rollback, Back
  <1>20. CASE RestoreFile
    <2>1. high \in Indices
      BY <1>20 DEF RestoreFile
    <2>2. CASE /\ durable >= Checkpoint /\ ~IsNoop(high) /\ high \notin card.staged
               /\ high \in card.snapshot \cap Snapshots
      <3>1. Begin(Old(high), "restore_part") /\ high' = high /\ live' = live
        BY <1>20, <2>2 DEF RestoreFile
      <3>2. card' \in Cards /\ phase' \in {"full", "restore_part"}
        BY <2>1, <3>1, BeginType
      <3> QED
        BY <1>20, <3>1, <3>2 DEF RestoreFile, Back
    <2>3. CASE ~(/\ durable >= Checkpoint /\ ~IsNoop(high) /\ high \notin card.staged
                 /\ high \in card.snapshot \cap Snapshots)
      <3>1. /\ high' = high - 1 /\ live' = [live EXCEPT ![high] = Old(high)]
            /\ card' = IF high \in Snapshots THEN card
                       ELSE [card EXCEPT !.snapshot = @ \ {high}]
            /\ phase' = phase /\ durable' = durable /\ cuts' = cuts
        BY <1>20, <2>3 DEF RestoreFile
      <3>2. [card EXCEPT !.snapshot = @ \ {high}] \in Cards
        BY DEF Cards
      <3> QED
        BY <1>3, <2>1, <3>1, <3>2
    <2> QED
      BY <2>2, <2>3
  <1>21. CASE RestoreDone
    <2>1. high \in Indices
      BY <1>21 DEF RestoreDone
    <2>2. card' \in Cards /\ live' \in [Indices -> Nat \cup {Absent}]
      BY <1>21, <2>1 DEF RestoreDone, Cards
    <2> QED
      BY <1>3, <1>21, <2>1, <2>2 DEF RestoreDone, Back
  <1>22. CASE RolledBack
    BY <1>22, CardTypes DEF RolledBack
  <1>23. CASE PowerCut
    <2>1. phase' \in {"rollback", "staged", "armed", "preflight"}
      BY <1>23 DEF PowerCut
    <2> QED
      BY <1>23, <2>1 DEF PowerCut, Forward, Early, Late, Back
  <1>24. CASE Ended
    BY <1>24 DEF Ended, budgetVars
  <1> QED
    BY <1>4, <1>5, <1>6, <1>7, <1>8, <1>9, <1>10, <1>11, <1>12, <1>13, <1>14, <1>15, <1>16,
       <1>17, <1>18, <1>19, <1>20, <1>21, <1>22, <1>23, <1>24 DEF BudgetNext

-----------------------------------------------------------------------------
(* Space: every copy finds room *)

LEMMA EarlyRoom ==
    ASSUME DirectoriesFit, BudgetType, RunningInv, Admitted, phase \in {"snapshot", "stage"}, durable = 0,
           high \in Indices, NEW need \in Nat,
           \/ Saved(high) /\ high \notin card.snapshot /\ need = OldBytes(high)
           \/ Staging(high) /\ high \notin card.staged /\ need = NewBytes(high)
    PROVE  Free + card.part[high] >= need
  <1>1. PICK t \in Nat : Admits(t)
    BY DEF Admitted
  <1>2. /\ card.zip /\ card.prepared /\ card.plan /\ PrivateInv /\ card.candidate = {}
        /\ \A i \in Indices : FileInv(i)
    BY DEF RunningInv, CandidateInv, Forward, Early
  <1>3. \A i \in Indices : Fits(i)
    BY <1>2, PrivateFits DEF PrivateInv
  <1>4. Held(high) + need <= Share(high)
    <2>1. NewBytes(high) \in Nat /\ OldBytes(high) \in Nat
      BY FileTypes
    <2>2. live[high] = Old(high) /\ FileInv(high) /\ (high \in card.snapshot => high \in Snapshots)
      BY <1>2 DEF PrivateInv
    <2>3. /\ Allocated(live[high]) = OldBytes(high)
          /\ high \in card.staged => Staging(high)
          /\ high \in card.snapshot => Saved(high)
      BY <2>2 DEF FileInv, OldBytes
    <2> QED
      BY <2>1, <2>3 DEF Held, Share
  <1>5. CandidateBytes = 0
    BY <1>2, CandidateSize
  <1>6. Held(high) + need <= Share(high) + 0
    BY <1>4, FileTypes
  <1>7. 0 + CandidateBytes <= t
    BY <1>1, <1>5
  <1>8. \A i \in Indices : i # high => Fits(i)
    BY <1>3
  <1> QED
    BY <1>1, <1>2, <1>6, <1>7, <1>8, Room

LEMMA ArmRoom ==
    ASSUME DirectoriesFit, BudgetType, RunningInv, phase = "staged", NEW k \in card.staged
    PROVE  Free + CandidateBytes >= NewBytes(k)
  <1>1. durable # 0 /\ PublicInv /\ Admitted /\ card.zip /\ card.prepared /\ card.plan
    BY DEF RunningInv, Forward, Late, PrivateInv
  <1>2. PICK t \in Nat : Admits(t)
    BY <1>1 DEF Admitted
  <1>3. k \in Indices /\ Staging(k) /\ NewBytes(k) <= t /\ NewBytes(k) \in Nat
    <2>1. k \in Indices
      BY DEF BudgetType, Cards
    <2>2. Staging(k)
      BY <2>1 DEF RunningInv, FileInv
    <2> QED
      BY <1>2, <2>1, <2>2, FileTypes DEF Admits
  <1>4. \A i \in Indices : Held(i) <= Share(i)
    BY FileHeld DEF RunningInv
  <1>5. Free + CandidateBytes + Sum(card.part) >= t + Reserve - 3 * Directories * Unit
    BY <1>1, <1>2, <1>4, RoomForOne
  <1>6. Sum(card.part) = 0
    <2>1. Len(files) \in Nat /\ card.part \in [Indices -> Int] /\ \A i \in Indices : card.part[i] = 0
      BY <1>1, ReleaseType DEF BudgetType, Cards, PublicInv
    <2> QED
      BY <2>1, FileSumZero
  <1>7. PICK w \in Nat : w = 3 * Directories * Unit /\ w <= Reserve /\ Reserve \in Nat
    BY Overhead, BudgetAssumption DEF DirectoriesFit
  <1>8. Free \in Int /\ CandidateBytes \in Int
    BY <1>1, <1>2, FreeSpace, BaseType
  <1>9. Free + CandidateBytes + 0 >= t + Reserve - w
    BY <1>5, <1>6, <1>7
  <1>10. w <= Reserve /\ Reserve \in Nat
    BY <1>7
  <1> QED
    BY <1>2, <1>3, <1>8, <1>9, <1>10

LEMMA RestoreRoom ==
    ASSUME DirectoriesFit, BudgetType, RunningInv, phase = "rollback", durable # 0, high \in Indices,
           high \in card.snapshot \cap Snapshots, high \notin card.staged
    PROVE  \/ Free + card.part[high] >= OldBytes(high)
           \/ cuts > 1 /\ CandidateBytes + Sum(card.part) > Reserve - 3 * Directories * Unit
  <1>1. /\ Admitted /\ RestoreInv /\ card.zip /\ card.prepared /\ card.plan
        /\ \A i \in Indices : FileInv(i)
    BY DEF RunningInv, Back
  <1>2. PICK t \in Nat : Admits(t)
    BY <1>1 DEF Admitted
  <1>3. Saved(high) /\ OldBytes(high) \in Nat /\ OldBytes(high) <= t
    <2>1. Saved(high)
      BY <1>1 DEF FileInv
    <2> QED
      BY <1>2, <2>1, FileTypes DEF Admits
  <1>4. \A i \in Indices : Held(i) <= Share(i)
    BY <1>1, FileHeld
  <1>5. Held(high) \in Int /\ Share(high) \in Nat /\ card.part[high] \in Nat /\ cuts \in Nat
    BY FileTypes DEF BudgetType
  <1>6. CASE cuts <= 1
    <2>1. \A i \in Indices : i # high => Fits(i)
      BY <1>1, <1>6 DEF RestoreInv
    <2>2. CASE card.candidate = {}
      <3>1. CandidateBytes = 0
        BY <2>2, CandidateSize
      <3>2. Held(high) + OldBytes(high) <= Share(high) + OldBytes(high)
        BY <1>3, <1>4, <1>5
      <3>3. OldBytes(high) + CandidateBytes <= t
        BY <1>3, <3>1
      <3> QED
        BY <1>1, <1>2, <1>3, <2>1, <3>2, <3>3, Room
    <2>3. CASE card.candidate # {}
      <3>1. PICK c \in Indices : Staging(c) /\ card.candidate = {c}
        BY <2>3 DEF RunningInv, CandidateInv
      <3>2. CandidateBytes = NewBytes(c) /\ NewBytes(c) <= t /\ NewBytes(c) \in Nat
        BY <1>2, <3>1, CandidateSize, FileTypes DEF Admits
      <3>3. Held(high) + OldBytes(high) <= Share(high) + 0
        <4>1. Restorable(high)
          BY <1>1, <1>5, <1>6, <2>3 DEF RestoreInv, BudgetType
        <4> QED
          BY <1>5, <4>1 DEF Restorable
      <3>4. 0 + CandidateBytes <= t
        BY <3>2
      <3> QED
        BY <1>1, <1>2, <1>3, <2>1, <3>3, <3>4, Room
    <2> QED
      BY <2>2, <2>3
  <1>7. CASE cuts > 1 /\ ~(CandidateBytes + Sum(card.part) > Reserve - 3 * Directories * Unit)
    <2>1. PICK w \in Nat : w = 3 * Directories * Unit /\ w <= Reserve /\ Reserve \in Nat
      BY Overhead, BudgetAssumption DEF DirectoriesFit
    <2>2. Free \in Int /\ CandidateBytes \in Int /\ Sum(card.part) \in Int
      BY <1>1, <1>2, FreeSpace, BaseType, SumTypes
    <2>3. Free + CandidateBytes + Sum(card.part) >= t + Reserve - w
      BY <1>1, <1>2, <1>4, <2>1, RoomForOne
    <2>4. CandidateBytes + Sum(card.part) <= Reserve - w
      BY <1>7, <2>1, <2>2
    <2>5. Reserve \in Nat
      BY <2>1
    <2>6. Free >= t
      BY <2>2, <2>3, <2>4, <2>5
    <2> QED
      BY <1>2, <1>3, <1>5, <2>2, <2>6
  <1> QED
    BY <1>5, <1>6, <1>7

-----------------------------------------------------------------------------
(* Space: the steps of the stage *)

\* Past the checkpoint everything fits, and every file that was replaced can be
\* restored beside a candidate kernel.
LEMMA PublicFits ==
    ASSUME BudgetType, PublicInv, NEW i \in Indices, FileInv(i)
    PROVE  Fits(i) /\ Restorable(i)
  <1>1. NewBytes(i) \in Nat /\ OldBytes(i) \in Nat /\ Held(i) \in Int /\ Share(i) \in Nat
    BY FileTypes
  <1>2. card.part[i] = 0 /\ (Staging(i) => i \in card.staged \/ live[i] = EffectiveSize(i))
    BY DEF PublicInv
  <1>3. Fits(i)
    BY <1>1, <1>2, FileHeld DEF Fits
  <1>4. ASSUME i \in card.snapshot \cap Snapshots, i \notin card.staged
        PROVE  Held(i) + OldBytes(i) <= Share(i)
    <2>1. Saved(i) /\ Staging(i)
      BY <1>4 DEF FileInv, Saved, Staging, Kept, Snapshots, Snapshotted
    <2>2. Allocated(live[i]) = NewBytes(i)
      BY <1>2, <1>4, <2>1 DEF NewBytes
    <2> QED
      BY <1>1, <1>4, <2>1, <2>2 DEF Held, Share
  <1> QED
    BY <1>3, <1>4 DEF Restorable

\* A rollback that starts.
LEMMA RollbackStarts ==
    ASSUME BudgetType, RunningInv, files' = files, phase \in Forward, phase' = "rollback",
           card'.snapshot = card.snapshot, card'.staged = card.staged, card'.part = card.part,
           live' = live, durable # 0, cuts' = 0 => card'.candidate = {}
    PROVE  RestoreInv'
  <1>1. PublicInv /\ \A i \in Indices : FileInv(i)
    BY DEF RunningInv
  <1>2. \A i \in Indices : Fits(i) /\ Restorable(i) /\ card.part[i] = 0
    BY <1>1, PublicFits DEF PublicInv
  <1>3. /\ Indices' = Indices /\ Snapshots' = Snapshots
        /\ \A i : OldBytes(i)' = OldBytes(i) /\ Share(i)' = Share(i)
    BY SameRelease
  <1>4. \A i : Held(i)' = Held(i)
    BY SameHeld
  <1>5. \A i \in Indices : Fits(i)' /\ Restorable(i)'
    BY <1>2, <1>3, <1>4 DEF Fits, Restorable
  <1> QED
    BY <1>2, <1>3, <1>5 DEF RestoreInv

\* Steps that leave the files alone keep what is known of them.
LEMMA SameFiles ==
    ASSUME RunningInv, files' = files, live' = live, card'.snapshot = card.snapshot,
           card'.staged = card.staged
    PROVE  \A i \in Indices' : FileInv(i)'
  BY SameRelease, SameFile DEF RunningInv

LEMMA PreflightKeeps ==
    ASSUME BudgetInv, PreflightStorage
    PROVE  RunningInv'
  <1>1. BudgetType /\ RunningInv /\ phase = "preflight"
    BY DEF BudgetInv, PreflightStorage, Forward, Early
  <1>2. /\ files' = files /\ capacity' = capacity /\ card' = card /\ live' = live
        /\ durable' = durable /\ cuts' = cuts
        /\ \/ Sufficient(Free, Demand) /\ phase' = "snapshot" /\ high' = 1
           \/ phase' = "rollback"
    BY DEF PreflightStorage
  <1>3. Admitted' = Admitted
    BY <1>2, SameAdmission
  <1>4. /\ Admitted \/ Fresh
        /\ card.zip /\ card.prepared /\ card.plan /\ card.candidate = {}
    BY <1>1 DEF RunningInv, CandidateInv, Early
  <1>5. \A i \in Indices' : FileInv(i)'
    BY <1>1, <1>2, SameFiles
  <1>6. /\ Indices' = Indices /\ Snapshots' = Snapshots
        /\ \A i : /\ Staging(i)' = Staging(i) /\ Saved(i)' = Saved(i) /\ Old(i)' = Old(i)
                  /\ EffectiveSize(i)' = EffectiveSize(i) /\ NewBytes(i)' = NewBytes(i)
                  /\ OldBytes(i)' = OldBytes(i)
    BY <1>2, SameRelease
  <1>7. CASE Sufficient(Free, Demand) /\ phase' = "snapshot" /\ high' = 1
    <2>1. Admitted'
      BY <1>1, <1>3, <1>4, <1>7, AdmittedFirst
    <2>2. durable = 0 => PrivateInv'
      <3>1. \A i \in Indices : ~(i < 1)
        BY DEF Indices
      <3> QED
        BY <1>1, <1>2, <1>6, <1>7, <3>1 DEF RunningInv, PrivateInv, PartInv, Forward, Early, Late
    <2>3. durable # 0 => PublicInv'
      BY <1>1, <1>2, <1>6, <1>7 DEF RunningInv, PublicInv, Forward, Early
    <2> QED
      BY <1>2, <1>4, <1>5, <1>7, <2>1, <2>2, <2>3
      DEF RunningInv, CandidateInv, CopyInv, Forward, Early, Late, Back
  <1>8. CASE phase' = "rollback"
    <2>1. Admitted' \/ durable = 0
      BY <1>3, <1>4 DEF Fresh
    <2>2. durable # 0 => RestoreInv'
      BY <1>1, <1>2, <1>4, <1>8, RollbackStarts DEF Forward, Early
    <2> QED
      BY <1>2, <1>4, <1>5, <1>8, <2>1, <2>2
      DEF RunningInv, CandidateInv, CopyInv, Forward, Early, Late, Back
  <1> QED
    BY <1>2, <1>7, <1>8

LEMMA SnapshotFileKeeps ==
    ASSUME BudgetInv, SnapshotFile
    PROVE  \/ phase' = "full" /\ ~DirectoriesFit
           \/ phase' \in {"snapshot", "snapshot_part"} /\ RunningInv'
  <1> SUFFICES ASSUME phase' # "full" \/ DirectoriesFit
               PROVE  phase' \in {"snapshot", "snapshot_part"} /\ RunningInv'
    OBVIOUS
  <1>1. BudgetType /\ RunningInv /\ phase = "snapshot" /\ high \in Indices
    BY DEF BudgetInv, SnapshotFile, Forward, Early
  <1>2. files' = files /\ capacity' = capacity /\ live' = live /\ durable' = durable /\ cuts' = cuts
    BY DEF SnapshotFile
  <1>3. Admitted /\ Admitted'
    BY <1>1, <1>2, SameAdmission DEF RunningInv
  <1>4. /\ card.zip /\ card.prepared /\ card.plan /\ card.candidate = {}
        /\ durable = 0 => PrivateInv
        /\ durable # 0 => PublicInv
        /\ \A i \in Indices : FileInv(i)
    BY <1>1 DEF RunningInv, CandidateInv, Forward, Early
  <1>5. /\ Indices' = Indices /\ Snapshots' = Snapshots
        /\ \A i : /\ Staging(i)' = Staging(i) /\ Saved(i)' = Saved(i) /\ Old(i)' = Old(i)
                  /\ EffectiveSize(i)' = EffectiveSize(i) /\ NewBytes(i)' = NewBytes(i)
                  /\ OldBytes(i)' = OldBytes(i)
    BY <1>2, SameRelease
  <1>6. high \in Nat /\ Indices \subseteq Nat /\ card \in Cards
    BY <1>1 DEF Indices, BudgetType
  <1>7. CASE SnapshotNeeded /\ live[high] # Absent /\ high \notin card.snapshot
    <2>1. durable = 0 /\ live[high] = Old(high) /\ Saved(high) /\ high' = high
      BY <1>1, <1>4, <1>7 DEF SnapshotNeeded, PrivateInv, Saved, SnapshotFile
    <2>2. Allocated(live[high]) = OldBytes(high) /\ OldBytes(high) \in Nat
      BY <1>1, <2>1, FileTypes DEF OldBytes
    <2>3. DirectoriesFit => Free + card.part[high] >= OldBytes(high)
      BY <1>1, <1>3, <1>7, <2>1, <2>2, EarlyRoom
    <2>4. Free \in Int /\ card.part[high] \in Nat
      BY <1>1, <1>3, <1>4, FreeSpace, FileTypes DEF Admitted
    <2>5. phase' = "snapshot_part" /\ card' = [card EXCEPT !.part[high] = OldBytes(high)]
      BY <1>7, <2>2, <2>3, <2>4 DEF SnapshotFile, Begin
    <2>6. /\ card'.zip = card.zip /\ card'.prepared = card.prepared /\ card'.plan = card.plan
          /\ card'.candidate = card.candidate /\ card'.snapshot = card.snapshot
          /\ card'.staged = card.staged
          /\ card'.part = [card.part EXCEPT ![high] = OldBytes(high)]
      BY <1>6, <2>5 DEF Cards
    <2>7. \A i \in Indices' : FileInv(i)'
      BY <1>1, <1>2, <2>6, SameFiles
    <2>8. \A i \in Indices : card'.part[i] = IF i = high THEN OldBytes(high) ELSE card.part[i]
      BY <1>6, <2>6 DEF Cards
    <2>9. PrivateInv'
      BY <1>2, <1>4, <1>5, <1>7, <2>1, <2>5, <2>6, <2>8, <1>1 DEF PrivateInv, PartInv, Late
    <2> QED
      BY <1>1, <1>2, <1>3, <1>4, <1>5, <1>7, <2>1, <2>5, <2>6, <2>7, <2>9
      DEF RunningInv, CandidateInv, CopyInv, Forward, Early, Late, Back
  <1>8. CASE ~(SnapshotNeeded /\ live[high] # Absent /\ high \notin card.snapshot)
    <2>1. high' = high + 1 /\ card' = card /\ phase' = "snapshot"
      BY <1>1, <1>8 DEF SnapshotFile
    <2>2. \A i \in Indices' : FileInv(i)'
      BY <1>1, <1>2, <2>1, SameFiles
    <2>3. durable = 0 => PrivateInv'
      <3>1. ASSUME durable = 0, Saved(high)
            PROVE  high \in card.snapshot
        BY <1>1, <1>4, <1>8, <3>1 DEF Saved, SnapshotNeeded, PrivateInv
      <3>2. \A i \in Indices : i < high' => i < high \/ i = high
        BY <1>6, <2>1
      <3> QED
        BY <1>1, <1>2, <1>4, <1>5, <2>1, <3>1, <3>2 DEF PrivateInv, PartInv, Late
    <2>4. durable # 0 => PublicInv'
      BY <1>2, <1>4, <1>5, <2>1 DEF PublicInv
    <2> QED
      BY <1>2, <1>3, <1>4, <1>5, <2>1, <2>2, <2>3, <2>4
      DEF RunningInv, CandidateInv, CopyInv, Forward, Early, Late, Back
  <1> QED
    BY <1>7, <1>8

LEMMA SnapshotDoneKeeps ==
    ASSUME BudgetInv, SnapshotDone
    PROVE  phase' = "snapshot" /\ RunningInv'
  <1>1. BudgetType /\ RunningInv /\ phase = "snapshot_part"
    BY DEF BudgetInv, SnapshotDone, Forward, Early
  <1>2. /\ files' = files /\ capacity' = capacity /\ live' = live /\ durable' = durable /\ cuts' = cuts
        /\ high' = high + 1 /\ phase' = "snapshot"
    BY DEF SnapshotDone
  <1>3. Admitted'
    BY <1>1, <1>2, SameAdmission DEF RunningInv
  <1>4. /\ card.zip /\ card.prepared /\ card.plan /\ card.candidate = {}
        /\ durable = 0 /\ PrivateInv /\ high \in Indices /\ Saved(high)
        /\ \A i \in Indices : FileInv(i)
    BY <1>1 DEF RunningInv, CandidateInv, CopyInv, PublicInv, Forward, Early
  <1>5. /\ Indices' = Indices /\ Snapshots' = Snapshots
        /\ \A i : /\ Staging(i)' = Staging(i) /\ Saved(i)' = Saved(i) /\ Old(i)' = Old(i)
                  /\ EffectiveSize(i)' = EffectiveSize(i) /\ NewBytes(i)' = NewBytes(i)
                  /\ OldBytes(i)' = OldBytes(i)
    BY <1>2, SameRelease
  <1>6. high \in Nat /\ Indices \subseteq Nat /\ card \in Cards
    BY <1>1 DEF Indices, BudgetType
  <1>7. /\ card'.zip = card.zip /\ card'.prepared = card.prepared /\ card'.plan = card.plan
        /\ card'.candidate = card.candidate /\ card'.snapshot = card.snapshot \cup {high}
        /\ card'.staged = card.staged
        /\ \A i \in Indices : card'.part[i] = IF i = high THEN 0 ELSE card.part[i]
    BY <1>6 DEF SnapshotDone, Cards
  <1>8. \A i \in Indices' : FileInv(i)'
    <2>1. high \in Snapshots
      BY <1>4 DEF Saved
    <2> QED
      BY <1>2, <1>4, <1>5, <1>7, <2>1 DEF FileInv
  <1>9. PrivateInv'
    <2>1. \A i \in Indices : i < high' => i < high \/ i = high
      BY <1>2, <1>6
    <2>2. high \in Snapshots
      BY <1>4 DEF Saved
    <2> QED
      BY <1>1, <1>2, <1>4, <1>5, <1>7, <2>1, <2>2 DEF PrivateInv, PartInv, Late
  <1> QED
    BY <1>2, <1>3, <1>4, <1>7, <1>8, <1>9
    DEF RunningInv, CandidateInv, CopyInv, Forward, Early, Late, Back

LEMMA FinalizeKeeps ==
    ASSUME BudgetInv, FinalizeContentPlan
    PROVE  phase' = "stage" /\ RunningInv'
  <1>1. BudgetType /\ RunningInv /\ phase = "snapshot" /\ high > Len(files)
    BY DEF BudgetInv, FinalizeContentPlan, Forward, Early
  <1>2. /\ files' = files /\ capacity' = capacity /\ live' = live /\ durable' = durable /\ cuts' = cuts
        /\ high' = 1 /\ phase' = "stage"
    BY DEF FinalizeContentPlan
  <1>3. Admitted'
    BY <1>1, <1>2, SameAdmission DEF RunningInv
  <1>4. /\ card.zip /\ card.prepared /\ card.plan /\ card.candidate = {}
        /\ durable = 0 => PrivateInv
        /\ durable # 0 => PublicInv
    BY <1>1 DEF RunningInv, CandidateInv, Forward, Early
  <1>5. /\ Indices' = Indices /\ Snapshots' = Snapshots
        /\ \A i : /\ Staging(i)' = Staging(i) /\ Saved(i)' = Saved(i) /\ Old(i)' = Old(i)
                  /\ EffectiveSize(i)' = EffectiveSize(i) /\ NewBytes(i)' = NewBytes(i)
                  /\ OldBytes(i)' = OldBytes(i)
    BY <1>2, SameRelease
  <1>6. card \in Cards
    BY <1>1 DEF BudgetType
  <1>7. /\ card'.zip = card.zip /\ card'.prepared = card.prepared /\ card'.plan = card.plan
        /\ card'.candidate = card.candidate /\ card'.snapshot = card.snapshot
        /\ card'.staged = card.staged /\ card'.part = card.part
    BY <1>6 DEF FinalizeContentPlan, Cards
  <1>8. \A i \in Indices' : FileInv(i)'
    BY <1>1, <1>2, <1>7, SameFiles
  <1>9. \A i \in Indices : i < high /\ ~(i < 1)
    <2>1. Len(files) \in Nat /\ high \in Nat
      BY <1>1, ReleaseType DEF BudgetType
    <2> QED
      BY <1>1, <2>1 DEF Indices
  <1>10. durable = 0 => PrivateInv'
    BY <1>1, <1>2, <1>4, <1>5, <1>7, <1>9 DEF PrivateInv, PartInv, Late
  <1>11. durable # 0 => PublicInv'
    BY <1>2, <1>4, <1>5, <1>7 DEF PublicInv
  <1> QED
    BY <1>2, <1>3, <1>4, <1>7, <1>8, <1>10, <1>11
    DEF RunningInv, CandidateInv, CopyInv, Forward, Early, Late, Back

LEMMA StageFileKeeps ==
    ASSUME BudgetInv, StageFile
    PROVE  \/ phase' = "full" /\ ~DirectoriesFit
           \/ phase' \in {"stage", "stage_part"} /\ RunningInv'
  <1> SUFFICES ASSUME phase' # "full" \/ DirectoriesFit
               PROVE  phase' \in {"stage", "stage_part"} /\ RunningInv'
    OBVIOUS
  <1>1. BudgetType /\ RunningInv /\ phase = "stage" /\ high \in Indices
    BY DEF BudgetInv, StageFile, Forward, Early
  <1>2. files' = files /\ capacity' = capacity /\ live' = live /\ durable' = durable /\ cuts' = cuts
    BY DEF StageFile
  <1>3. Admitted /\ Admitted'
    BY <1>1, <1>2, SameAdmission DEF RunningInv
  <1>4. /\ card.zip /\ card.prepared /\ card.plan /\ card.candidate = {}
        /\ durable = 0 => PrivateInv
        /\ durable # 0 => PublicInv
        /\ \A i \in Indices : FileInv(i)
    BY <1>1 DEF RunningInv, CandidateInv, Forward, Early
  <1>5. /\ Indices' = Indices /\ Snapshots' = Snapshots
        /\ \A i : /\ Staging(i)' = Staging(i) /\ Saved(i)' = Saved(i) /\ Old(i)' = Old(i)
                  /\ EffectiveSize(i)' = EffectiveSize(i) /\ NewBytes(i)' = NewBytes(i)
                  /\ OldBytes(i)' = OldBytes(i)
    BY <1>2, SameRelease
  <1>6. high \in Nat /\ Indices \subseteq Nat /\ card \in Cards
    BY <1>1 DEF Indices, BudgetType
  <1>7. CASE StageNeeded /\ high \notin card.staged
    <2>1. durable = 0 /\ Staging(high) /\ high' = high
      BY <1>1, <1>7 DEF StageNeeded, Staging, StageFile
    <2>2. Allocated(EffectiveSize(high)) = NewBytes(high) /\ NewBytes(high) \in Nat
      BY <1>1, FileTypes DEF NewBytes
    <2>3. DirectoriesFit => Free + card.part[high] >= NewBytes(high)
      BY <1>1, <1>3, <1>7, <2>1, <2>2, EarlyRoom
    <2>4. Free \in Int /\ card.part[high] \in Nat
      BY <1>1, <1>3, <1>4, FreeSpace, FileTypes DEF Admitted
    <2>5. phase' = "stage_part" /\ card' = [card EXCEPT !.part[high] = NewBytes(high)]
      BY <1>7, <2>2, <2>3, <2>4 DEF StageFile, Begin
    <2>6. /\ card'.zip = card.zip /\ card'.prepared = card.prepared /\ card'.plan = card.plan
          /\ card'.candidate = card.candidate /\ card'.snapshot = card.snapshot
          /\ card'.staged = card.staged
          /\ \A i \in Indices : card'.part[i] = IF i = high THEN NewBytes(high) ELSE card.part[i]
      BY <1>6, <2>5 DEF Cards
    <2>7. \A i \in Indices' : FileInv(i)'
      BY <1>1, <1>2, <2>6, SameFiles
    <2>9. PrivateInv'
      BY <1>2, <1>4, <1>5, <1>7, <2>1, <2>5, <2>6, <1>1 DEF PrivateInv, PartInv, Late
    <2> QED
      BY <1>1, <1>2, <1>3, <1>4, <1>5, <1>7, <2>1, <2>5, <2>6, <2>7, <2>9
      DEF RunningInv, CandidateInv, CopyInv, Forward, Early, Late, Back
  <1>8. CASE ~(StageNeeded /\ high \notin card.staged)
    <2>1. high' = high + 1 /\ card' = card /\ phase' = "stage"
      BY <1>1, <1>8 DEF StageFile
    <2>2. \A i \in Indices' : FileInv(i)'
      BY <1>1, <1>2, <2>1, SameFiles
    <2>3. durable = 0 => PrivateInv'
      <3>1. ASSUME durable = 0, Staging(high)
            PROVE  high \in card.staged
        BY <1>1, <1>8, <3>1 DEF Staging, StageNeeded
      <3>2. \A i \in Indices : i < high' => i < high \/ i = high
        BY <1>6, <2>1
      <3> QED
        BY <1>1, <1>2, <1>4, <1>5, <2>1, <3>1, <3>2 DEF PrivateInv, PartInv, Late
    <2>4. durable # 0 => PublicInv'
      BY <1>2, <1>4, <1>5, <2>1 DEF PublicInv
    <2> QED
      BY <1>2, <1>3, <1>4, <1>5, <2>1, <2>2, <2>3, <2>4
      DEF RunningInv, CandidateInv, CopyInv, Forward, Early, Late, Back
  <1> QED
    BY <1>7, <1>8

LEMMA StageDoneKeeps ==
    ASSUME BudgetInv, StageDone
    PROVE  phase' = "stage" /\ RunningInv'
  <1>1. BudgetType /\ RunningInv /\ phase = "stage_part"
    BY DEF BudgetInv, StageDone, Forward, Early
  <1>2. /\ files' = files /\ capacity' = capacity /\ live' = live /\ durable' = durable /\ cuts' = cuts
        /\ high' = high + 1 /\ phase' = "stage"
    BY DEF StageDone
  <1>3. Admitted'
    BY <1>1, <1>2, SameAdmission DEF RunningInv
  <1>4. /\ card.zip /\ card.prepared /\ card.plan /\ card.candidate = {}
        /\ durable = 0 /\ PrivateInv /\ high \in Indices /\ Staging(high)
        /\ \A i \in Indices : FileInv(i)
    BY <1>1 DEF RunningInv, CandidateInv, CopyInv, PublicInv, Forward, Early
  <1>5. /\ Indices' = Indices /\ Snapshots' = Snapshots
        /\ \A i : /\ Staging(i)' = Staging(i) /\ Saved(i)' = Saved(i) /\ Old(i)' = Old(i)
                  /\ EffectiveSize(i)' = EffectiveSize(i) /\ NewBytes(i)' = NewBytes(i)
                  /\ OldBytes(i)' = OldBytes(i)
    BY <1>2, SameRelease
  <1>6. high \in Nat /\ Indices \subseteq Nat /\ card \in Cards
    BY <1>1 DEF Indices, BudgetType
  <1>7. /\ card'.zip = card.zip /\ card'.prepared = card.prepared /\ card'.plan = card.plan
        /\ card'.candidate = card.candidate /\ card'.snapshot = card.snapshot
        /\ card'.staged = card.staged \cup {high}
        /\ \A i \in Indices : card'.part[i] = IF i = high THEN 0 ELSE card.part[i]
    BY <1>6 DEF StageDone, Cards
  <1>8. \A i \in Indices' : FileInv(i)'
    BY <1>2, <1>4, <1>5, <1>7 DEF FileInv, PrivateInv
  <1>9. PrivateInv'
    <2>1. \A i \in Indices : i < high' => i < high \/ i = high
      BY <1>2, <1>6
    <2> QED
      BY <1>1, <1>2, <1>4, <1>5, <1>7, <2>1 DEF PrivateInv, PartInv, Late
  <1> QED
    BY <1>2, <1>3, <1>4, <1>7, <1>8, <1>9
    DEF RunningInv, CandidateInv, CopyInv, Forward, Early, Late, Back

\* The checkpoint: no part file is left, and every file is staged.
LEMMA ActivateDirectoriesKeeps ==
    ASSUME BudgetInv, ActivateDirectories
    PROVE  phase' = "activate" /\ RunningInv'
  <1>1. BudgetType /\ RunningInv /\ phase = "stage" /\ high > Len(files)
    BY DEF BudgetInv, ActivateDirectories, Forward, Early
  <1>2. /\ files' = files /\ capacity' = capacity /\ live' = live /\ cuts' = cuts
        /\ high' = 1 /\ phase' = "activate" /\ durable' # 0
    BY DEF ActivateDirectories, Checkpoint
  <1>3. Admitted'
    BY <1>1, <1>2, SameAdmission DEF RunningInv
  <1>4. /\ card.zip /\ card.prepared /\ card.plan /\ card.candidate = {}
        /\ durable = 0 => PrivateInv
        /\ durable # 0 => PublicInv
    BY <1>1 DEF RunningInv, CandidateInv, Forward, Early
  <1>5. /\ Indices' = Indices /\ Snapshots' = Snapshots
        /\ \A i : /\ Staging(i)' = Staging(i) /\ EffectiveSize(i)' = EffectiveSize(i)
    BY <1>2, SameRelease
  <1>6. card \in Cards
    BY <1>1 DEF BudgetType
  <1>7. /\ card'.zip = card.zip /\ card'.prepared = card.prepared /\ card'.plan = card.plan
        /\ card'.candidate = card.candidate /\ card'.snapshot = card.snapshot
        /\ card'.staged = card.staged /\ card'.part = card.part
    BY <1>6 DEF ActivateDirectories, Cards
  <1>8. \A i \in Indices' : FileInv(i)'
    BY <1>1, <1>2, <1>7, SameFiles
  <1>9. \A i \in Indices : i < high
    <2>1. Len(files) \in Nat /\ high \in Nat
      BY <1>1, ReleaseType DEF BudgetType
    <2> QED
      BY <1>1, <2>1 DEF Indices
  <1>10. \A i \in Indices : /\ card.part[i] = 0
                            /\ Staging(i) => i \in card.staged \/ live[i] = EffectiveSize(i)
    BY <1>1, <1>4, <1>9 DEF PrivateInv, PartInv, PublicInv
  <1>11. PublicInv'
    BY <1>2, <1>5, <1>7, <1>10 DEF PublicInv
  <1> QED
    BY <1>2, <1>3, <1>4, <1>7, <1>8, <1>11
    DEF RunningInv, CandidateInv, CopyInv, Forward, Early, Late, Back

LEMMA ActivateFileKeeps ==
    ASSUME BudgetInv, ActivateFile
    PROVE  phase' = "activate" /\ RunningInv'
  <1>1. BudgetType /\ RunningInv /\ phase = "activate" /\ high \in Indices
    BY DEF BudgetInv, ActivateFile, Forward
  <1>2. /\ files' = files /\ capacity' = capacity /\ cuts' = cuts /\ phase' = "activate"
        /\ durable' = Max({durable, Checkpoint + high})
    BY <1>1 DEF ActivateFile
  <1>3. Admitted'
    BY <1>1, <1>2, SameAdmission DEF RunningInv
  <1>4. /\ card.zip /\ card.prepared /\ card.plan /\ card.candidate = {}
        /\ durable # 0 /\ PublicInv
        /\ \A i \in Indices : FileInv(i)
    BY <1>1 DEF RunningInv, CandidateInv, PrivateInv, Forward
  <1>5. /\ Indices' = Indices /\ Snapshots' = Snapshots
        /\ \A i : /\ Staging(i)' = Staging(i) /\ Saved(i)' = Saved(i) /\ Old(i)' = Old(i)
                  /\ EffectiveSize(i)' = EffectiveSize(i)
    BY <1>2, SameRelease
  <1>6. card \in Cards /\ live \in [Indices -> Nat \cup {Absent}] /\ durable \in Nat /\ high \in Nat
    BY <1>1 DEF BudgetType
  <1>7. durable' # 0
    <2>1. PICK m \in Nat : m = durable + (Checkpoint + high) /\ {durable, Checkpoint + high} \in SUBSET (0..m)
      BY <1>6 DEF Checkpoint
    <2>2. {durable, Checkpoint + high} # {}
      OBVIOUS
    <2>3. Max({durable, Checkpoint + high}) \in {durable, Checkpoint + high}
      BY <2>1, <2>2, Largest
    <2> QED
      BY <1>2, <1>4, <1>6, <2>3 DEF Checkpoint
  <1>8. CASE high \in Activated \ card.staged \/ high \notin Activated
    <2>1. card' = card /\ live' = live
      BY <1>8 DEF ActivateFile
    <2>2. \A i \in Indices' : FileInv(i)'
      BY <1>1, <1>2, <2>1, SameFiles
    <2>3. PublicInv'
      BY <1>2, <1>4, <1>5, <2>1 DEF PublicInv
    <2> QED
      BY <1>2, <1>3, <1>4, <1>7, <2>1, <2>2, <2>3
      DEF RunningInv, CandidateInv, CopyInv, Forward, Early, Late, Back
  <1>9. CASE high \in Activated /\ high \in card.staged
    <2>1. /\ live' = [live EXCEPT ![high] = EffectiveSize(high)]
          /\ card' = [card EXCEPT !.staged = @ \ {high}]
      BY <1>9 DEF ActivateFile
    <2>2. /\ card'.zip = card.zip /\ card'.prepared = card.prepared /\ card'.plan = card.plan
          /\ card'.candidate = card.candidate /\ card'.snapshot = card.snapshot
          /\ card'.staged = card.staged \ {high} /\ card'.part = card.part
          /\ \A i \in Indices : live'[i] = IF i = high THEN EffectiveSize(high) ELSE live[i]
      BY <1>6, <2>1 DEF Cards
    <2>3. Staging(high) /\ (high \in card.snapshot => high \in Snapshots)
      BY <1>1, <1>4, <1>9 DEF FileInv
    <2>4. \A i \in Indices' : FileInv(i)'
      BY <1>1, <1>4, <1>5, <2>2, <2>3 DEF FileInv
    <2>5. PublicInv'
      BY <1>2, <1>4, <1>5, <2>2 DEF PublicInv
    <2> QED
      BY <1>2, <1>3, <1>4, <1>7, <2>2, <2>4, <2>5
      DEF RunningInv, CandidateInv, CopyInv, Forward, Early, Late, Back
  <1> QED
    BY <1>8, <1>9

LEMMA StagedKeeps ==
    ASSUME BudgetInv, Staged
    PROVE  phase' = "staged" /\ RunningInv'
  <1>1. BudgetType /\ RunningInv /\ phase = "activate"
    BY DEF BudgetInv, Staged, Forward
  <1>2. /\ files' = files /\ capacity' = capacity /\ live' = live /\ durable' = durable /\ cuts' = cuts
        /\ card' = card /\ phase' = "staged"
    BY DEF Staged
  <1>3. Admitted'
    BY <1>1, <1>2, SameAdmission DEF RunningInv
  <1>4. /\ card.zip /\ card.prepared /\ card.plan /\ card.candidate = {} /\ durable # 0 /\ PublicInv
    BY <1>1 DEF RunningInv, CandidateInv, PrivateInv, Forward
  <1>5. \A i \in Indices' : FileInv(i)'
    BY <1>1, <1>2, SameFiles
  <1>6. PublicInv'
    BY <1>2, <1>4, SameRelease DEF PublicInv
  <1> QED
    BY <1>2, <1>3, <1>4, <1>5, <1>6
    DEF RunningInv, CandidateInv, CopyInv, Forward, Early, Late, Back

-----------------------------------------------------------------------------
(* Space: the candidate, the commit and the rollback *)

LEMMA ArmKeeps ==
    ASSUME BudgetInv, ArmCandidate
    PROVE  \/ phase' = "full" /\ ~DirectoriesFit
           \/ phase' = "arming" /\ RunningInv'
  <1> SUFFICES ASSUME phase' # "full" \/ DirectoriesFit
               PROVE  phase' = "arming" /\ RunningInv'
    OBVIOUS
  <1>1. BudgetType /\ RunningInv /\ phase = "staged"
    BY DEF BudgetInv, ArmCandidate, Forward, Late
  <1>2. files' = files /\ capacity' = capacity /\ live' = live /\ durable' = durable /\ cuts' = cuts
    BY DEF ArmCandidate
  <1>3. Admitted /\ Admitted'
    BY <1>1, <1>2, SameAdmission DEF RunningInv
  <1>4. /\ card.zip /\ card.prepared /\ card.plan /\ durable # 0 /\ PublicInv /\ CandidateInv
        /\ \A i \in Indices : FileInv(i)
    BY <1>1 DEF RunningInv, PrivateInv, Forward, Late
  <1>5. card \in Cards
    BY <1>1 DEF BudgetType
  <1>6. Indices' = Indices /\ \A i : Staging(i)' = Staging(i) /\ EffectiveSize(i)' = EffectiveSize(i)
    BY <1>2, SameRelease
  <1>7. /\ phase' = "arming"
        /\ card' = card \/ \E k \in card.staged : card' = [card EXCEPT !.candidate = {k}]
    <2>1. CASE phase' = "arming" /\ card' = card
      BY <2>1
    <2>2. ASSUME NEW k \in card.staged,
                 IF Free + SumAllocated(card.candidate, EffectiveSize) < Allocated(EffectiveSize(k))
                 THEN phase' = "full" /\ UNCHANGED card
                 ELSE phase' = "arming" /\ card' = [card EXCEPT !.candidate = {k}]
          PROVE  phase' = "arming" /\ card' = [card EXCEPT !.candidate = {k}]
      <3>1. DirectoriesFit => Free + CandidateBytes >= NewBytes(k)
        BY <1>1, ArmRoom
      <3>2. Free \in Int /\ CandidateBytes \in Int /\ NewBytes(k) \in Nat
        <4>1. k \in Indices
          BY <1>5 DEF Cards
        <4> QED
          BY <1>1, <1>3, <1>4, <4>1, FreeSpace, BaseType, FileTypes DEF Admitted
      <3>3. ~(Free + SumAllocated(card.candidate, EffectiveSize) < Allocated(EffectiveSize(k)))
        <4>1. DirectoriesFit => ~(Free + CandidateBytes < NewBytes(k))
          BY <3>1, <3>2
        <4>2. CASE phase' # "full"
          BY <2>2, <4>2
        <4> QED
          BY <4>1, <4>2 DEF CandidateBytes, NewBytes
      <3> QED
        BY <2>2, <3>3
    <2> QED
      BY <2>1, <2>2 DEF ArmCandidate
  <1>8. /\ card'.zip = card.zip /\ card'.prepared = card.prepared /\ card'.plan = card.plan
        /\ card'.snapshot = card.snapshot /\ card'.staged = card.staged /\ card'.part = card.part
        /\ card'.candidate = card.candidate \/ \E k \in card.staged : card'.candidate = {k}
    BY <1>5, <1>7 DEF Cards
  <1>9. \A i \in Indices' : FileInv(i)'
    BY <1>1, <1>2, <1>8, SameFiles
  <1>10. CandidateInv'
    <2>1. \A k \in card.staged : k \in Indices /\ Staging(k)
      BY <1>4, <1>5 DEF Cards, FileInv
    <2> QED
      BY <1>4, <1>6, <1>7, <1>8, <2>1 DEF CandidateInv, Early
  <1>11. PublicInv'
    BY <1>2, <1>4, <1>6, <1>7, <1>8 DEF PublicInv
  <1> QED
    BY <1>2, <1>3, <1>4, <1>7, <1>8, <1>9, <1>10, <1>11
    DEF RunningInv, CopyInv, Forward, Early, Late, Back

LEMMA ArmedKeeps ==
    ASSUME BudgetInv, Armed
    PROVE  phase' = "armed" /\ RunningInv'
  <1>1. BudgetType /\ RunningInv /\ phase = "arming"
    BY DEF BudgetInv, Armed, Forward, Late
  <1>2. /\ files' = files /\ capacity' = capacity /\ live' = live /\ durable' = durable /\ cuts' = cuts
        /\ card' = card /\ phase' = "armed"
    BY DEF Armed
  <1>3. Admitted'
    BY <1>1, <1>2, SameAdmission DEF RunningInv
  <1>4. /\ card.zip /\ card.prepared /\ card.plan /\ durable # 0 /\ PublicInv /\ CandidateInv
    BY <1>1 DEF RunningInv, PrivateInv, Forward, Late
  <1>5. \A i \in Indices' : FileInv(i)'
    BY <1>1, <1>2, SameFiles
  <1>6. PublicInv' /\ CandidateInv'
    BY <1>2, <1>4, SameRelease DEF PublicInv, CandidateInv, Early
  <1> QED
    BY <1>2, <1>3, <1>4, <1>5, <1>6
    DEF RunningInv, CopyInv, Forward, Early, Late, Back

LEMMA CommitKeeps ==
    ASSUME BudgetInv, Commit
    PROVE  phase' = "armed" /\ RunningInv'
  <1>1. BudgetType /\ RunningInv /\ phase = "armed"
    BY DEF BudgetInv, Commit, Forward, Late
  <1>2. /\ files' = files /\ capacity' = capacity /\ durable' = durable /\ cuts' = cuts
        /\ phase' = "armed"
    BY <1>1 DEF Commit
  <1>3. Admitted'
    BY <1>1, <1>2, SameAdmission DEF RunningInv
  <1>4. /\ card.zip /\ card.prepared /\ card.plan /\ durable # 0 /\ PublicInv /\ CandidateInv
        /\ \A i \in Indices : FileInv(i)
    BY <1>1 DEF RunningInv, PrivateInv, Forward, Late
  <1>5. /\ Indices' = Indices /\ Snapshots' = Snapshots
        /\ \A i : /\ Staging(i)' = Staging(i) /\ Saved(i)' = Saved(i) /\ Old(i)' = Old(i)
                  /\ EffectiveSize(i)' = EffectiveSize(i)
    BY <1>2, SameRelease
  <1>6. card \in Cards /\ live \in [Indices -> Nat \cup {Absent}]
    BY <1>1 DEF BudgetType
  <1>7. PICK k \in card.staged :
          /\ live' = [live EXCEPT ![k] = EffectiveSize(k)]
          /\ card' = [card EXCEPT !.staged = @ \ {k},
                                  !.snapshot = IF files[k].old = Absent THEN @ ELSE @ \cup {k}]
    BY DEF Commit
  <1>8. /\ card'.zip = card.zip /\ card'.prepared = card.prepared /\ card'.plan = card.plan
        /\ card'.candidate = card.candidate /\ card'.part = card.part
        /\ card'.snapshot = IF Old(k) = Absent THEN card.snapshot ELSE card.snapshot \cup {k}
        /\ card'.staged = card.staged \ {k}
        /\ \A i \in Indices : live'[i] = IF i = k THEN EffectiveSize(k) ELSE live[i]
    BY <1>6, <1>7 DEF Cards, Old
  <1>9. k \in Indices /\ Staging(k)
    BY <1>4, <1>6 DEF Cards, FileInv
  <1>10. k \in Snapshots /\ Old(k) # Absent => Saved(k)
    BY <1>9 DEF Saved, Staging
  <1>11. \A i \in Indices' : FileInv(i)'
    <2> SUFFICES ASSUME NEW i \in Indices PROVE FileInv(i)'
      BY <1>5
    <2>1. CASE i = k
      BY <1>4, <1>5, <1>8, <1>9, <1>10, <2>1 DEF FileInv
    <2>2. CASE i # k
      BY <1>4, <1>5, <1>8, <2>2 DEF FileInv
    <2> QED
      BY <2>1, <2>2
  <1>12. PublicInv' /\ CandidateInv'
    BY <1>2, <1>4, <1>5, <1>8 DEF PublicInv, CandidateInv, Early
  <1> QED
    BY <1>2, <1>3, <1>4, <1>8, <1>11, <1>12
    DEF RunningInv, CopyInv, Forward, Early, Late, Back

LEMMA RollbackKeeps ==
    ASSUME BudgetInv, Rollback
    PROVE  phase' = "rollback" /\ RunningInv'
  <1>1. BudgetType /\ RunningInv /\ phase \in {"staged", "armed"}
    BY DEF BudgetInv, Rollback, Forward, Late
  <1>2. /\ files' = files /\ capacity' = capacity /\ live' = live /\ durable' = durable /\ cuts' = cuts
        /\ phase' = "rollback" /\ card' = [card EXCEPT !.candidate = {}]
    BY DEF Rollback
  <1>3. Admitted'
    BY <1>1, <1>2, SameAdmission DEF RunningInv
  <1>4. /\ card.zip /\ card.prepared /\ card.plan /\ durable # 0
    BY <1>1 DEF RunningInv, PrivateInv, Forward, Late
  <1>5. card \in Cards
    BY <1>1 DEF BudgetType
  <1>6. /\ card'.zip = card.zip /\ card'.prepared = card.prepared /\ card'.plan = card.plan
        /\ card'.snapshot = card.snapshot /\ card'.staged = card.staged /\ card'.part = card.part
        /\ card'.candidate = {}
    BY <1>2, <1>5 DEF Cards
  <1>7. \A i \in Indices' : FileInv(i)'
    BY <1>1, <1>2, <1>6, SameFiles
  <1>8. RestoreInv'
    BY <1>1, <1>2, <1>4, <1>6, RollbackStarts DEF Forward, Late
  <1> QED
    BY <1>2, <1>3, <1>4, <1>6, <1>7, <1>8
    DEF RunningInv, CandidateInv, CopyInv, Forward, Early, Late, Back

LEMMA RestoreFileKeeps ==
    ASSUME BudgetInv, RestoreFile
    PROVE  \/ phase' = "full" /\ NeverFull'
           \/ phase' \in {"rollback", "restore_part"} /\ RunningInv'
  <1>1. BudgetType /\ RunningInv /\ phase = "rollback" /\ high \in Indices
    BY DEF BudgetInv, RestoreFile, Back
  <1>2. files' = files /\ capacity' = capacity /\ durable' = durable /\ cuts' = cuts
    BY DEF RestoreFile
  <1>3. /\ Admitted' = Admitted
        /\ Admitted \/ durable = 0
        /\ card.zip /\ card.prepared /\ card.plan
        /\ CandidateInv /\ (durable # 0 => RestoreInv)
        /\ \A i \in Indices : FileInv(i)
    BY <1>1, <1>2, SameAdmission DEF RunningInv, Back
  <1>4. /\ Indices' = Indices /\ Snapshots' = Snapshots
        /\ \A i : /\ Staging(i)' = Staging(i) /\ Saved(i)' = Saved(i) /\ Old(i)' = Old(i)
                  /\ EffectiveSize(i)' = EffectiveSize(i) /\ NewBytes(i)' = NewBytes(i)
                  /\ OldBytes(i)' = OldBytes(i) /\ Share(i)' = Share(i) /\ IsNoop(i)' = IsNoop(i)
    BY <1>2, SameRelease
  <1>5. /\ card \in Cards /\ live \in [Indices -> Nat \cup {Absent}] /\ durable \in Nat /\ cuts \in Nat
        /\ high \in Nat /\ Indices \subseteq Nat
    BY <1>1 DEF BudgetType, Indices
  <1>6. CASE /\ durable >= Checkpoint /\ ~IsNoop(high) /\ high \notin card.staged
             /\ high \in card.snapshot \cap Snapshots
    <2>1. Begin(Old(high), "restore_part") /\ high' = high /\ live' = live
      BY <1>6 DEF RestoreFile
    <2>2. durable # 0 /\ RestoreInv /\ Admitted
      BY <1>3, <1>6 DEF Checkpoint
    <2>3. CASE phase' = "full"
      <3>1. card' = card /\ Free + card.part[high] < OldBytes(high)
        BY <2>1, <2>3 DEF Begin, OldBytes
      <3>2. Free \in Int /\ card.part[high] \in Nat /\ OldBytes(high) \in Nat
        BY <1>1, <1>3, <2>2, FreeSpace, FileTypes DEF Admitted
      <3>3. \/ ~DirectoriesFit
            \/ cuts > 1 /\ CandidateBytes + Sum(card.part) > Reserve - 3 * Directories * Unit
        BY <1>1, <1>6, <2>2, <3>1, <3>2, RestoreRoom
      <3>4. /\ SumAllocated(card.candidate, EffectiveSize)' = CandidateBytes
            /\ Sum(card.part)' = Sum(card.part)
        BY <1>2, <1>4, <3>1 DEF SumAllocated, CandidateBytes
      <3> QED
        BY <1>2, <2>3, <3>3, <3>4 DEF NeverFull
    <2>4. CASE phase' # "full"
      <3>1. phase' = "restore_part" /\ card' = [card EXCEPT !.part[high] = OldBytes(high)]
        BY <2>1, <2>4 DEF Begin, OldBytes
      <3>2. /\ card'.zip = card.zip /\ card'.prepared = card.prepared /\ card'.plan = card.plan
            /\ card'.candidate = card.candidate /\ card'.snapshot = card.snapshot
            /\ card'.staged = card.staged
            /\ \A i \in Indices : card'.part[i] = IF i = high THEN OldBytes(high) ELSE card.part[i]
        BY <1>5, <3>1 DEF Cards
      <3>3. \A i \in Indices' : FileInv(i)'
        BY <1>1, <1>2, <2>1, <3>2, SameFiles
      <3>4. \A i : Held(i)' = Held(i)
        BY <1>2, <2>1, <3>2, SameHeld
      <3>5. \A i \in Indices : (i # high /\ Fits(i) => Fits(i)') /\ (Restorable(i) => Restorable(i)')
        BY <1>4, <3>2, <3>4 DEF Fits, Restorable
      <3>6. RestoreInv'
        BY <1>1, <1>2, <1>4, <1>6, <2>1, <2>2, <3>1, <3>2, <3>5 DEF RestoreInv
      <3>7. CandidateInv' /\ CopyInv'
        BY <1>1, <1>3, <1>4, <2>1, <3>1, <3>2 DEF CandidateInv, CopyInv, Early
      <3> QED
        BY <1>2, <1>3, <2>2, <3>1, <3>2, <3>3, <3>6, <3>7
        DEF RunningInv, Forward, Early, Late, Back
    <2> QED
      BY <2>3, <2>4
  <1>7. CASE ~(/\ durable >= Checkpoint /\ ~IsNoop(high) /\ high \notin card.staged
               /\ high \in card.snapshot \cap Snapshots)
    <2>1. /\ high' = high - 1 /\ live' = [live EXCEPT ![high] = Old(high)]
          /\ card' = IF high \in Snapshots THEN card
                     ELSE [card EXCEPT !.snapshot = @ \ {high}]
          /\ phase' = "rollback"
      BY <1>1, <1>7 DEF RestoreFile
    <2>2. /\ card'.zip = card.zip /\ card'.prepared = card.prepared /\ card'.plan = card.plan
          /\ card'.candidate = card.candidate /\ card'.staged = card.staged
          /\ card'.part = card.part
          /\ card'.snapshot = IF high \in Snapshots THEN card.snapshot ELSE card.snapshot \ {high}
          /\ \A i \in Indices : live'[i] = IF i = high THEN Old(high) ELSE live[i]
      BY <1>5, <2>1 DEF Cards
    <2>3. \A i \in Indices' : FileInv(i)'
      <3> SUFFICES ASSUME NEW i \in Indices PROVE FileInv(i)'
        BY <1>4
      <3>1. CASE i = high
        BY <1>3, <1>4, <2>2, <3>1 DEF FileInv
      <3>2. CASE i # high
        BY <1>3, <1>4, <2>2, <3>2 DEF FileInv
      <3> QED
        BY <3>1, <3>2
    <2>4. ASSUME durable # 0
          PROVE  RestoreInv'
      <3>1. \A i \in Indices : i # high => Held(i)' = Held(i)
        BY <1>4, <2>2 DEF Held
      <3>2. \A i \in Indices : i # high => Fits(i)' = Fits(i) /\ Restorable(i)' = Restorable(i)
        BY <1>4, <2>2, <3>1 DEF Fits, Restorable
      <3>3. RestoreInv
        BY <1>3, <2>4
      <3>4. card.part[high] = 0
        BY <1>1, <1>5, <1>7, <2>4, <3>3 DEF RestoreInv, Checkpoint
      <3>5. \A i \in Indices : i = high => Fits(i)'
        <4>1. Allocated(live'[high]) = OldBytes(high) /\ OldBytes(high) \in Nat /\ NewBytes(high) \in Nat
          BY <1>1, <2>2, FileTypes DEF OldBytes
        <4>2. /\ high \in card.staged => Staging(high)
              /\ high \in card'.snapshot => Saved(high)
          BY <1>1, <1>3, <2>2 DEF FileInv
        <4> QED
          BY <1>1, <1>4, <2>2, <3>4, <4>1, <4>2 DEF Fits, Held, Share
      <3>6. \A i \in Indices : i <= high' => i <= high /\ i # high
        BY <1>5, <2>1
      <3>7. \A i \in Indices : i \in card'.snapshot \cap Snapshots <=> i \in card.snapshot \cap Snapshots
        BY <2>2
      <3> QED
        BY <1>1, <1>2, <1>4, <2>1, <2>2, <3>2, <3>3, <3>4, <3>5, <3>6, <3>7 DEF RestoreInv
    <2>5. CandidateInv' /\ CopyInv'
      BY <1>1, <1>3, <1>4, <2>1, <2>2 DEF CandidateInv, CopyInv, Early
    <2> QED
      BY <1>2, <1>3, <2>1, <2>2, <2>3, <2>4, <2>5
      DEF RunningInv, Forward, Early, Late, Back
  <1> QED
    BY <1>6, <1>7

LEMMA RestoreDoneKeeps ==
    ASSUME BudgetInv, RestoreDone
    PROVE  phase' = "rollback" /\ RunningInv'
  <1>1. BudgetType /\ RunningInv /\ phase = "restore_part"
    BY DEF BudgetInv, RestoreDone, Back
  <1>2. /\ files' = files /\ capacity' = capacity /\ durable' = durable /\ cuts' = cuts
        /\ high' = high - 1 /\ phase' = "rollback" /\ live' = [live EXCEPT ![high] = Old(high)]
        /\ card' = [card EXCEPT !.part[high] = 0]
    BY DEF RestoreDone
  <1>3. /\ Admitted' /\ card.zip /\ card.prepared /\ card.plan
        /\ CandidateInv /\ durable # 0 /\ RestoreInv /\ high \in Indices
        /\ \A i \in Indices : FileInv(i)
    BY <1>1, <1>2, SameAdmission DEF RunningInv, CopyInv, Back
  <1>4. /\ Indices' = Indices /\ Snapshots' = Snapshots
        /\ \A i : /\ Staging(i)' = Staging(i) /\ Saved(i)' = Saved(i) /\ Old(i)' = Old(i)
                  /\ EffectiveSize(i)' = EffectiveSize(i) /\ NewBytes(i)' = NewBytes(i)
                  /\ OldBytes(i)' = OldBytes(i) /\ Share(i)' = Share(i) /\ IsNoop(i)' = IsNoop(i)
    BY <1>2, SameRelease
  <1>5. /\ card \in Cards /\ live \in [Indices -> Nat \cup {Absent}] /\ cuts \in Nat
        /\ high \in Nat /\ Indices \subseteq Nat
    BY <1>1 DEF BudgetType, Indices
  <1>6. /\ card'.zip = card.zip /\ card'.prepared = card.prepared /\ card'.plan = card.plan
        /\ card'.candidate = card.candidate /\ card'.staged = card.staged
        /\ card'.snapshot = card.snapshot
        /\ \A i \in Indices : /\ card'.part[i] = IF i = high THEN 0 ELSE card.part[i]
                              /\ live'[i] = IF i = high THEN Old(high) ELSE live[i]
    BY <1>2, <1>5 DEF Cards
  <1>7. high \in card.snapshot \cap Snapshots
    BY <1>1, <1>3 DEF RestoreInv
  <1>8. \A i \in Indices' : FileInv(i)'
    <2> SUFFICES ASSUME NEW i \in Indices PROVE FileInv(i)'
      BY <1>4
    <2>1. CASE i = high
      BY <1>3, <1>4, <1>6, <1>7, <2>1 DEF FileInv
    <2>2. CASE i # high
      BY <1>3, <1>4, <1>6, <2>2 DEF FileInv
    <2> QED
      BY <2>1, <2>2
  <1>9. RestoreInv'
    <2>1. \A i \in Indices : i # high => Held(i)' = Held(i)
      BY <1>4, <1>6 DEF Held
    <2>2. \A i \in Indices : i # high => Fits(i)' = Fits(i) /\ Restorable(i)' = Restorable(i)
      BY <1>4, <1>6, <2>1 DEF Fits, Restorable
    <2>3. \A i \in Indices : i = high => Fits(i)'
      <3>1. Allocated(live'[high]) = OldBytes(high) /\ OldBytes(high) \in Nat /\ NewBytes(high) \in Nat
        BY <1>1, <1>3, <1>6, FileTypes DEF OldBytes
      <3>2. (high \in card.staged => Staging(high)) /\ Saved(high)
        BY <1>3, <1>7 DEF FileInv
      <3> QED
        BY <1>3, <1>4, <1>6, <1>7, <3>1, <3>2 DEF Fits, Held, Share
    <2>4. \A i \in Indices : i <= high' => i <= high /\ i # high
      BY <1>2, <1>5
    <2> QED
      BY <1>1, <1>2, <1>3, <1>4, <1>6, <2>2, <2>3, <2>4 DEF RestoreInv
  <1>10. CandidateInv' /\ CopyInv'
    BY <1>2, <1>3, <1>4, <1>6 DEF CandidateInv, CopyInv, Early
  <1> QED
    BY <1>2, <1>3, <1>6, <1>8, <1>9, <1>10
    DEF RunningInv, Forward, Early, Late, Back

\* After a power cut during a restore there is still room: the copy that was
\* cut fits beside the new file.
LEMMA CutRestore ==
    ASSUME BudgetType, RunningInv, phase \in Back, durable # 0, files' = files, card' = card,
           live' = live, phase' = "rollback", cuts' = cuts + 1
    PROVE  RestoreInv'
  <1>1. RestoreInv /\ \A i \in Indices : FileInv(i)
    BY DEF RunningInv
  <1>2. /\ Indices' = Indices /\ Snapshots' = Snapshots
        /\ \A i : /\ OldBytes(i)' = OldBytes(i) /\ Share(i)' = Share(i) /\ IsNoop(i)' = IsNoop(i)
    BY SameRelease
  <1>3. \A i : Fits(i)' = Fits(i)
    BY SameFits
  <1>4. cuts \in Nat /\ high \in Nat /\ Indices \subseteq Nat
    BY DEF BudgetType, Indices
  <1>5. ASSUME cuts = 0, NEW i \in Indices
        PROVE  Fits(i)
    <2>1. CASE phase = "restore_part" /\ i = high
      <3>1. Held(i) <= Share(i) /\ Held(i) \in Int /\ Share(i) \in Nat /\ card.part[i] \in Nat
        BY <1>1, FileHeld, FileTypes
      <3>2. CASE card.part[i] = 0
        BY <3>1, <3>2 DEF Fits
      <3>3. CASE card.part[i] # 0
        <4>1. /\ i \in card.snapshot \cap Snapshots /\ i \notin card.staged
              /\ card.part[i] = OldBytes(i)
          BY <1>1, <3>3 DEF RestoreInv
        <4>2. Restorable(i)
          BY <1>1, <1>4, <1>5, <2>1 DEF RestoreInv
        <4> QED
          BY <4>1, <4>2 DEF Fits, Restorable
      <3> QED
        BY <3>2, <3>3
    <2>2. CASE ~(phase = "restore_part" /\ i = high)
      BY <1>1, <1>5, <2>2 DEF RestoreInv
    <2> QED
      BY <2>1, <2>2
  <1>6. cuts' <= 1 => cuts = 0 /\ card.candidate = {}
    BY <1>1, <1>4 DEF RestoreInv
  <1>7. cuts' # 0
    BY <1>4
  <1>8. \A i \in Indices : card.part[i] # 0 => /\ i \in card.snapshot \cap Snapshots
                                               /\ i \notin card.staged
                                               /\ ~IsNoop(i) /\ card.part[i] = OldBytes(i)
    BY <1>1 DEF RestoreInv
  <1> QED
    BY <1>2, <1>3, <1>5, <1>6, <1>7, <1>8 DEF RestoreInv

LEMMA PowerCutKeeps ==
    ASSUME BudgetInv, PowerCut
    PROVE  phase' \in {"rollback", "staged", "armed", "preflight"} /\ cuts' # 0 /\ RunningInv'
  <1>1. BudgetType /\ RunningInv /\ phase \in Forward \cup Back
    <2>1. BudgetType /\ phase \in Forward \cup Back
      BY DEF BudgetInv, BudgetType, PowerCut
    <2> QED
      BY <2>1 DEF BudgetInv
  <1>2. /\ files' = files /\ capacity' = capacity /\ live' = live /\ durable' = durable
        /\ card' = card /\ cuts' = cuts + 1 /\ cuts \in Nat
    BY <1>1 DEF PowerCut, BudgetType
  <1>3. phase' \in {"rollback", "staged", "armed", "preflight"} /\ cuts' # 0
    BY <1>2 DEF PowerCut
  <1>4. /\ Admitted' = Admitted /\ Fresh' = Fresh
        /\ card.zip /\ card.prepared /\ card.plan /\ CandidateInv
        /\ Admitted \/ (phase = "preflight" /\ Fresh) \/ (phase = "rollback" /\ durable = 0)
    <2>1. Fresh' = Fresh
      BY <1>2, SameRelease DEF Fresh
    <2> QED
      BY <1>1, <1>2, <2>1, SameAdmission DEF RunningInv
  <1>5. \A i \in Indices' : FileInv(i)'
    BY <1>1, <1>2, SameFiles
  <1>6. /\ Indices' = Indices /\ Snapshots' = Snapshots
        /\ \A i : /\ Staging(i)' = Staging(i) /\ Saved(i)' = Saved(i) /\ Old(i)' = Old(i)
                  /\ EffectiveSize(i)' = EffectiveSize(i) /\ NewBytes(i)' = NewBytes(i)
                  /\ OldBytes(i)' = OldBytes(i)
    BY <1>2, SameRelease
  <1>7. CASE phase' = "rollback"
    <2>1. durable # 0 => RestoreInv'
      <3>1. CASE phase \in Back
        BY <1>1, <1>2, <1>7, <3>1, CutRestore
      <3>2. CASE phase \in Forward
        BY <1>1, <1>2, <1>3, <1>7, <3>2, RollbackStarts
      <3> QED
        BY <1>1, <3>1, <3>2
    <2>2. Admitted' \/ durable = 0
      BY <1>4 DEF Fresh
    <2>3. CandidateInv'
      BY <1>2, <1>4, <1>6, <1>7 DEF CandidateInv, Early
    <2> QED
      BY <1>2, <1>3, <1>4, <1>5, <1>7, <2>1, <2>2, <2>3
      DEF RunningInv, CopyInv, Forward, Early, Late, Back
  <1>8. CASE phase' = "preflight"
    <2>1. phase \in Early \cup {"activate"}
      BY <1>1, <1>8 DEF PowerCut, Forward, Back, Late
    <2>2. CandidateInv'
      BY <1>2, <1>4, <1>6, <1>8, <2>1 DEF CandidateInv
    <2>3. phase \in Forward
      BY <2>1 DEF Forward
    <2>4. durable = 0 => PrivateInv'
      BY <1>1, <1>2, <1>6, <1>8, <2>3 DEF RunningInv, PrivateInv, PartInv, Late
    <2>5. durable # 0 => PublicInv'
      BY <1>1, <1>2, <1>6, <1>8, <2>3 DEF RunningInv, PublicInv
    <2>6. Admitted' \/ Fresh'
      BY <1>4, <2>1 DEF Early
    <2> QED
      BY <1>2, <1>3, <1>4, <1>5, <1>8, <2>2, <2>4, <2>5, <2>6
      DEF RunningInv, CopyInv, Forward, Early, Late, Back
  <1>9. CASE phase' \in {"staged", "armed"}
    <2>1. phase \in Late
      BY <1>9 DEF PowerCut, Late
    <2>2. CandidateInv'
      BY <1>2, <1>4, <1>6, <1>9 DEF CandidateInv, Early
    <2>3. durable # 0 /\ PublicInv /\ Admitted
      BY <1>1, <2>1 DEF RunningInv, PrivateInv, Forward, Late
    <2>4. PublicInv'
      BY <1>2, <1>6, <1>9, <2>3 DEF PublicInv
    <2> QED
      BY <1>2, <1>3, <1>4, <1>5, <1>9, <2>2, <2>3, <2>4
      DEF RunningInv, CopyInv, Forward, Early, Late, Back
  <1> QED
    BY <1>3, <1>7, <1>8, <1>9

LEMMA DownloadKeeps ==
    ASSUME BudgetInv, Download
    PROVE  \/ phase' = "refused"
           \/ phase' = "preflight" /\ RunningInv' /\ Fresh'
  <1>1. BudgetType /\ card = EmptyCard /\ Fresh
    BY DEF BudgetInv, Download
  <1>2. /\ files' = files /\ capacity' = capacity /\ live' = live /\ durable' = durable
        /\ \/ phase' = "refused"
           \/ /\ phase' = "preflight"
              /\ card' = [EmptyCard EXCEPT !.zip = TRUE, !.prepared = TRUE, !.plan = TRUE]
    BY DEF Download
  <1>3. /\ Indices' = Indices
        /\ \A i : Old(i)' = Old(i)
    BY <1>2, SameRelease
  <1>4. CASE phase' = "preflight" /\ card' = [EmptyCard EXCEPT !.zip = TRUE, !.prepared = TRUE, !.plan = TRUE]
    <2>1. /\ card'.zip /\ card'.prepared /\ card'.plan /\ card'.snapshot = {} /\ card'.staged = {}
          /\ card'.candidate = {} /\ card'.dirs = 0 /\ card'.evidence = {}
          /\ \A i \in Indices : card'.part[i] = 0
      BY <1>4 DEF EmptyCard
    <2>2. Fresh'
      BY <1>1, <1>2, <1>3, <2>1 DEF Fresh
    <2>3. \A i \in Indices : live'[i] = Old(i)
      BY <1>1, <1>2 DEF Fresh
    <2>4. \A i \in Indices' : FileInv(i)'
      BY <1>3, <2>1, <2>3 DEF FileInv
    <2>5. PrivateInv'
      BY <1>3, <1>4, <2>1, <2>3 DEF PrivateInv, PartInv, Late
    <2>6. durable' = 0
      BY <2>2 DEF Fresh
    <2> QED
      BY <1>4, <2>1, <2>2, <2>4, <2>5, <2>6
      DEF RunningInv, CandidateInv, CopyInv, Forward, Early, Late, Back
  <1> QED
    BY <1>2, <1>4

-----------------------------------------------------------------------------
(* Space: the theorem *)

\* What the first check asks for is a number.
LEMMA PeakType ==
    ASSUME files \in Releases
    PROVE  RequiredPeak(PreDownloadDemand) \in Int
  <1> DEFINE a == [i \in Indices |-> Allocated(Size(i))]
             o == [i \in Indices |-> Allocated(Old(i))]
             u == [i \in Indices |-> IF i \in Indices THEN Allocated(Size(i)) ELSE 0]
             v == [i \in Indices |-> IF i \in Snapshots THEN Allocated(Old(i)) ELSE 0]
             x == LargestAllocated(Indices, Size)
             y == LargestAllocated(Snapshots, Old)
  <1>1. Len(files) \in Nat
    BY ReleaseType
  <1>2. \A i \in Indices : Allocated(Size(i)) \in Nat /\ Allocated(Old(i)) \in Nat
    BY ReleaseType, AllocatedType
  <1>3. /\ a \in [Indices -> Int] /\ o \in [Indices -> Int] /\ u \in [Indices -> Int]
        /\ v \in [Indices -> Int]
        /\ \A i \in Indices : a[i] >= 0 /\ o[i] >= 0
    BY <1>2
  <1>4. Sum(u) \in Int /\ Sum(v) \in Int
    <2> HIDE DEF u, v
    <2> QED
      BY <1>1, <1>3, FileSumType, Zenon
  <1>5. x \in Nat
    <2>1. Indices \in SUBSET Indices /\ {a[i] : i \in Indices} = {Allocated(Size(i)) : i \in Indices}
      OBVIOUS
    <2>2. x = Max({0} \cup {a[i] : i \in Indices})
      BY <2>1 DEF LargestAllocated
    <2> HIDE DEF a, x
    <2> QED
      BY <1>1, <1>3, <2>1, <2>2, LargestOfFiles
  <1>6. y \in Nat
    <2>1. Snapshots \in SUBSET Indices
      BY DEF Snapshots
    <2>2. {o[i] : i \in Snapshots} = {Allocated(Old(i)) : i \in Snapshots}
      BY <2>1
    <2>3. y = Max({0} \cup {o[i] : i \in Snapshots})
      BY <2>2 DEF LargestAllocated
    <2> HIDE DEF o, y
    <2> QED
      BY <1>1, <1>3, <2>1, <2>3, LargestOfFiles
  <1>7. Max({x, y}) \in Nat
    <2> HIDE DEF x, y
    <2>1. PICK m \in Nat : m = x + y /\ {x, y} \in SUBSET (0..m)
      BY <1>5, <1>6
    <2>2. {x, y} # {}
      OBVIOUS
    <2>3. Max({x, y}) \in {x, y}
      BY <2>1, <2>2, Largest
    <2> QED
      BY <1>5, <1>6, <2>3
  <1>8. RoundUp(ZipSize) \in Nat /\ MetadataBytes \in Int /\ Reserve \in Nat
    <2>1. RoundUp(Fixed) \in Nat /\ (Len(files) + Directories) * Unit \in Int
      BY <1>1, RoundUpType, BudgetAssumption
    <2>2. MetadataBytes \in Int
      BY <2>1 DEF MetadataBytes
    <2>3. RoundUp(ZipSize) \in Nat /\ Reserve \in Nat
      BY RoundUpType, BudgetAssumption
    <2> QED
      BY <2>2, <2>3
  <1>9. /\ PreDownloadDemand.zip = RoundUp(ZipSize)
        /\ PreDownloadDemand.staged = Sum(u) /\ PreDownloadDemand.snapshot = Sum(v)
        /\ PreDownloadDemand.temporary = Max({x, y})
    BY DEF PreDownloadDemand, SumAllocated
  <1> HIDE DEF u, v, x, y
  <1> QED
    BY <1>4, <1>7, <1>8, <1>9 DEF RequiredPeak

LEMMA BudgetInitially ==
    ASSUME BudgetInit
    PROVE  BudgetInv
  <1>1. files \in Releases /\ card = EmptyCard /\ live = [i \in Indices |-> files[i].old]
    BY DEF BudgetInit
  <1>2. capacity \in Int
    <2>1. PICK slack \in Slacks : capacity = RequiredPeak(PreDownloadDemand) + slack
      BY DEF BudgetInit
    <2>2. RequiredPeak(PreDownloadDemand) \in Int /\ slack \in Int
      BY <1>1, PeakType, ReleasesAssumption
    <2> QED
      BY <2>1, <2>2
  <1>3. live \in [Indices -> Nat \cup {Absent}] /\ \A i \in Indices : live[i] = Old(i)
    BY <1>1, ReleaseType DEF Old
  <1>4. card \in Cards
    BY <1>1, BudgetAssumption DEF EmptyCard, Cards
  <1>5. BudgetType
    BY <1>1, <1>2, <1>3, <1>4 DEF BudgetInit, BudgetType
  <1>6. Fresh
    BY <1>1, <1>3 DEF Fresh, EmptyCard, BudgetInit
  <1> QED
    BY <1>1, <1>5, <1>6 DEF BudgetInit, BudgetInv, Forward, Early, Late, Back, NeverFull

LEMMA BudgetStep ==
    ASSUME BudgetInv, [BudgetNext]_budgetVars
    PROVE  BudgetInv'
  <1>1. CASE UNCHANGED budgetVars
    <2>1. /\ files' = files /\ capacity' = capacity /\ card' = card /\ live' = live
          /\ durable' = durable /\ high' = high /\ phase' = phase /\ cuts' = cuts
      BY <1>1 DEF budgetVars
    <2>2. /\ Indices' = Indices /\ Snapshots' = Snapshots
          /\ \A i : /\ Staging(i)' = Staging(i) /\ Saved(i)' = Saved(i) /\ Old(i)' = Old(i)
                    /\ EffectiveSize(i)' = EffectiveSize(i) /\ NewBytes(i)' = NewBytes(i)
                    /\ OldBytes(i)' = OldBytes(i) /\ Share(i)' = Share(i) /\ IsNoop(i)' = IsNoop(i)
      BY <2>1, SameRelease
    <2>3. \A i : /\ Held(i)' = Held(i) /\ Fits(i)' = Fits(i) /\ FileInv(i)' = FileInv(i)
                /\ PartInv(i)' = PartInv(i) /\ Restorable(i)' = Restorable(i)
      BY <2>1, <2>2, SameHeld, SameFits, SameFile DEF PartInv, Restorable
    <2>4. Admitted' = Admitted /\ Fresh' = Fresh /\ EmptyCard' = EmptyCard
      BY <2>1, <2>2, SameAdmission DEF Fresh, EmptyCard
    <2>5. PrivateInv' = PrivateInv /\ PublicInv' = PublicInv /\ RestoreInv' = RestoreInv
      BY <2>1, <2>2, <2>3 DEF PrivateInv, PublicInv, RestoreInv
    <2>6. CandidateInv' = CandidateInv /\ CopyInv' = CopyInv
      BY <2>1, <2>2 DEF CandidateInv, CopyInv
    <2>7. RunningInv' = RunningInv
      BY <2>1, <2>2, <2>3, <2>4, <2>5, <2>6 DEF RunningInv
    <2>8. BudgetType' = BudgetType
      BY <2>1, <2>2 DEF BudgetType, Cards
    <2>9. NeverFull' = NeverFull
      BY <2>1, <2>2 DEF NeverFull, SumAllocated
    <2> QED
      BY <2>1, <2>4, <2>7, <2>8, <2>9 DEF BudgetInv
  <1>2. CASE BudgetNext
    <2>1. BudgetType'
      <3>1. phase \in {"snapshot_part", "stage_part", "restore_part"} => high \in Indices
        BY DEF BudgetInv, RunningInv, CopyInv, Forward, Early, Back
      <3> QED
        BY <1>2, <3>1, BudgetTypeStep DEF BudgetInv
    <2> DEFINE Goal == /\ phase' \in {"probe", "download"} => card' = EmptyCard' /\ Fresh' /\ cuts' = 0
                       /\ phase' \in Forward \cup Back => RunningInv'
                       /\ phase' = "preflight" /\ cuts' = 0 => Fresh'
                       /\ NeverFull'
    <2> SUFFICES Goal
      BY <2>1 DEF BudgetInv
    <2>2. CASE ProbeUpdateInstallReadiness
      <3>1. /\ files' = files /\ card' = card /\ live' = live /\ durable' = durable /\ cuts' = cuts
            /\ phase' \in {"download", "refused"} /\ phase = "probe"
        BY <2>2 DEF ProbeUpdateInstallReadiness
      <3>2. card = EmptyCard /\ Fresh /\ cuts = 0
        BY <3>1 DEF BudgetInv
      <3>3. Indices' = Indices /\ \A i : Old(i)' = Old(i)
        BY <3>1, SameRelease
      <3>4. EmptyCard' = EmptyCard /\ Fresh'
        BY <3>1, <3>2, <3>3 DEF EmptyCard, Fresh
      <3> QED
        BY <3>1, <3>2, <3>4 DEF NeverFull, Forward, Early, Late, Back
    <2>3. CASE Download
      BY <2>3, DownloadKeeps DEF NeverFull, Forward, Early, Late, Back
    <2>4. CASE PreflightStorage
      <3>1. phase' \in {"snapshot", "rollback"}
        BY <2>4 DEF PreflightStorage
      <3> QED
        BY <2>4, <3>1, PreflightKeeps DEF NeverFull
    <2>5. CASE SnapshotFile
      BY <2>5, SnapshotFileKeeps DEF NeverFull, Forward, Early, Late, Back
    <2>6. CASE SnapshotDone
      BY <2>6, SnapshotDoneKeeps DEF NeverFull
    <2>7. CASE FinalizeContentPlan
      BY <2>7, FinalizeKeeps DEF NeverFull
    <2>8. CASE StageFile
      BY <2>8, StageFileKeeps DEF NeverFull, Forward, Early, Late, Back
    <2>9. CASE StageDone
      BY <2>9, StageDoneKeeps DEF NeverFull
    <2>10. CASE ActivateDirectories
      BY <2>10, ActivateDirectoriesKeeps DEF NeverFull
    <2>11. CASE ActivateFile
      BY <2>11, ActivateFileKeeps DEF NeverFull
    <2>12. CASE Staged
      BY <2>12, StagedKeeps DEF NeverFull
    <2>13. CASE ArmCandidate
      BY <2>13, ArmKeeps DEF NeverFull, Forward, Early, Late, Back
    <2>14. CASE Armed
      BY <2>14, ArmedKeeps DEF NeverFull
    <2>15. CASE Commit
      BY <2>15, CommitKeeps DEF NeverFull
    <2>16. CASE Committed
      BY <2>16 DEF Committed, NeverFull, Forward, Early, Late, Back
    <2>17. CASE Rollback
      BY <2>17, RollbackKeeps DEF NeverFull
    <2>18. CASE RestoreFile
      BY <2>18, RestoreFileKeeps DEF NeverFull, Forward, Early, Late, Back
    <2>19. CASE RestoreDone
      BY <2>19, RestoreDoneKeeps DEF NeverFull
    <2>20. CASE RolledBack
      BY <2>20 DEF RolledBack, NeverFull, Forward, Early, Late, Back
    <2>21. CASE PowerCut
      BY <2>21, PowerCutKeeps DEF NeverFull
    <2>22. CASE Ended
      <3>1. /\ files' = files /\ card' = card /\ phase' = phase /\ cuts' = cuts
            /\ phase \in {"refused", "committed", "rolled_back", "full"} /\ NeverFull
        BY <2>22 DEF Ended, budgetVars, BudgetInv
      <3>2. NeverFull'
        BY <3>1 DEF NeverFull, SumAllocated, EffectiveSize, Indices
      <3> QED
        BY <3>1, <3>2 DEF Forward, Early, Late, Back
    <2> QED
      BY <1>2, <2>2, <2>3, <2>4, <2>5, <2>6, <2>7, <2>8, <2>9, <2>10, <2>11, <2>12, <2>13, <2>14,
         <2>15, <2>16, <2>17, <2>18, <2>19, <2>20, <2>21, <2>22 DEF BudgetNext
  <1> QED
    BY <1>1, <1>2

\* For every release, card and number of power cuts: no copy of an update that
\* was admitted finds the card full (CopyFileAtomic), unless three units for
\* every directory are more than the reserve, or two cuts left more behind than
\* those units leave of it.
THEOREM NeverFullAlways == BudgetSpec => []NeverFull
  <1>1. BudgetInv => NeverFull
    BY DEF BudgetInv
  <1> QED
    BY BudgetInitially, BudgetStep, <1>1, PTL DEF BudgetSpec

-----------------------------------------------------------------------------
(* The announced work *)

\* What a run without interruption does for file i: its snapshot, its staged
\* file, its activation.
SnapshotPart ==
    [i \in Indices |-> IF Saved(i) THEN Old(i) * (IF files[i].policy = "ConfigTemplate" THEN 4 ELSE 3)
                       ELSE 0]
StagePart == [i \in Indices |-> IF Staging(i) THEN 2 * EffectiveSize(i) ELSE 0]
ActivatePart ==
    [i \in Indices |-> IF Staging(i) /\ i \in Activated THEN EffectiveSize(i) ELSE 0]

\* The sum of the files before k.
Before(f, k) == Sum([i \in Indices |-> IF i < k THEN f[i] ELSE 0])

TotalWork == Sum(SnapshotPart) + Sum(StagePart) + Sum(ActivatePart)

\* After k files of a phase, a clean run has counted what the first k files need.
WorkInv ==
    /\ work \in [done : Int, announced : Int, clean : BOOLEAN]
    /\ work.clean /\ phase \in {"snapshot", "snapshot_part"} =>
         /\ durable = 0 /\ card.staged = {} /\ \A i \in card.snapshot : i < high
         /\ work.announced = TotalWork /\ work.done = Before(SnapshotPart, high)
    /\ work.clean /\ phase \in {"stage", "stage_part"} =>
         /\ durable = 0 /\ \A i \in card.staged : i < high
         /\ work.announced = TotalWork
         /\ work.done = Sum(SnapshotPart) + Before(StagePart, high)
    /\ work.clean /\ phase = "activate" =>
         /\ \A i \in Activated : i >= high /\ Staging(i) => i \in card.staged
         /\ work.announced = TotalWork
         /\ work.done = Sum(SnapshotPart) + Sum(StagePart) + Before(ActivatePart, high)
    /\ work.clean /\ phase \in {"staged", "arming"} => work.done = work.announced

LEMMA BeforeFile ==
    ASSUME Len(files) \in Nat, NEW f \in [Indices -> Int]
    PROVE  /\ Before(f, 1) = 0
           /\ \A k \in Indices : Before(f, k + 1) = Before(f, k) + f[k]
           /\ \A k \in Nat : k > Len(files) => Before(f, k) = Sum(f)
           /\ \A k \in Nat : Before(f, k) \in Int
           /\ Sum(f) \in Int
  <1> DEFINE b(k) == [i \in Indices |-> IF i < k THEN f[i] ELSE 0]
  <1>1. Indices \subseteq Nat /\ \A i \in Indices : i >= 1 /\ i <= Len(files)
    BY DEF Indices
  <1>2. \A k \in Nat : b(k) \in [Indices -> Int]
    OBVIOUS
  <1>3. Before(f, 1) = 0
    <2>1. b(1) \in [Indices -> Int] /\ \A i \in Indices : b(1)[i] = 0
      BY <1>1
    <2>2. Sum(b(1)) = 0
      <3> HIDE DEF b
      <3> QED
        BY <2>1, FileSumZero
    <2> QED
      BY <2>2 DEF Before
  <1>4. ASSUME NEW k \in Indices
        PROVE  Before(f, k + 1) = Before(f, k) + f[k]
    <2>1. /\ b(k) \in [Indices -> Int] /\ b(k + 1) \in [Indices -> Int]
          /\ \A i \in Indices : i # k => b(k + 1)[i] = b(k)[i]
          /\ b(k + 1)[k] = f[k] /\ b(k)[k] = 0
      BY <1>1
    <2>2. Sum(b(k + 1)) = Sum(b(k)) + f[k]
      <3> HIDE DEF b
      <3>1. Sum(b(k + 1)) = Sum(b(k)) + b(k + 1)[k] - b(k)[k]
        BY <2>1, FileSumOne, Zenon
      <3>2. Sum(b(k)) \in Int /\ Sum(b(k + 1)) \in Int
        BY <2>1, FileSumType, Zenon
      <3>3. f[k] \in Int
        OBVIOUS
      <3> QED
        BY <2>1, <3>1, <3>2, <3>3
    <2> QED
      BY <2>2 DEF Before
  <1>5. ASSUME NEW k \in Nat, k > Len(files)
        PROVE  Before(f, k) = Sum(f)
    <2>1. b(k) = f
      BY <1>1, <1>5
    <2> QED
      BY <2>1 DEF Before
  <1>6. ASSUME NEW k \in Nat
        PROVE  Before(f, k) \in Int
    <2>1. Sum(b(k)) \in Int
      <3> HIDE DEF b
      <3> QED
        BY <1>2, FileSumType, Zenon
    <2> QED
      BY <2>1 DEF Before
  <1>7. Sum(f) \in Int
    BY FileSumType
  <1> QED
    BY <1>3, <1>4, <1>5, <1>6, <1>7

LEMMA WorkTypes ==
    ASSUME BudgetType
    PROVE  /\ SnapshotPart \in [Indices -> Int] /\ StagePart \in [Indices -> Int]
           /\ ActivatePart \in [Indices -> Int] /\ Len(files) \in Nat
           /\ Indices \subseteq Nat /\ \A i \in Indices : i >= 1
           /\ \A i \in Indices : EffectiveSize(i) \in Int /\ Old(i) \in Int /\ live[i] \in Int
  <1>1. \A i \in Indices : EffectiveSize(i) \in Int /\ Old(i) \in Int /\ live[i] \in Int
    BY ReleaseType DEF BudgetType, Absent
  <1>2. Len(files) \in Nat
    BY ReleaseType DEF BudgetType
  <1> QED
    BY <1>1, <1>2 DEF SnapshotPart, StagePart, ActivatePart, Indices

LEMMA SameWork ==
    ASSUME files' = files
    PROVE  /\ SnapshotPart' = SnapshotPart /\ StagePart' = StagePart /\ ActivatePart' = ActivatePart
           /\ TotalWork' = TotalWork /\ Indices' = Indices
  <1>1. /\ Indices' = Indices /\ Activated' = Activated
        /\ \A i : /\ Staging(i)' = Staging(i) /\ Saved(i)' = Saved(i) /\ Old(i)' = Old(i)
                  /\ EffectiveSize(i)' = EffectiveSize(i)
    BY SameRelease
  <1>2. SnapshotPart' = SnapshotPart /\ StagePart' = StagePart /\ ActivatePart' = ActivatePart
    BY <1>1 DEF SnapshotPart, StagePart, ActivatePart
  <1> QED
    BY <1>1, <1>2 DEF TotalWork

\* What InitializeStageWork announces on a fresh card.
LEMMA AnnouncedFresh ==
    ASSUME BudgetType
    PROVE  /\ InitializeStageWork \in Int
           /\ Fresh => InitializeStageWork = TotalWork
  <1> DEFINE w == [i \in Indices |-> IF IsNoop(i) THEN 0 ELSE SnapshotWork(i) + StageWork(i)]
             sg == [i \in Indices |-> SnapshotPart[i] + StagePart[i]]
  <1>1. /\ SnapshotPart \in [Indices -> Int] /\ StagePart \in [Indices -> Int]
        /\ ActivatePart \in [Indices -> Int] /\ Len(files) \in Nat
        /\ \A i \in Indices : EffectiveSize(i) \in Int /\ Old(i) \in Int /\ live[i] \in Int
    BY WorkTypes
  <1>2. \A i \in Indices : SnapshotWork(i) \in Int /\ StageWork(i) \in Int
    BY <1>1 DEF SnapshotWork, StageWork
  <1>3. w \in [Indices -> Int] /\ sg \in [Indices -> Int]
    <2>1. \A i \in Indices : SnapshotPart[i] + StagePart[i] \in Int
      BY <1>1
    <2>2. \A i \in Indices : (IF IsNoop(i) THEN 0 ELSE SnapshotWork(i) + StageWork(i)) \in Int
      BY <1>2
    <2> QED
      BY <2>1, <2>2
  <1>4. InitializeStageWork = Sum(w)
    BY DEF InitializeStageWork
  <1>5. Sum(w) \in Int
    <2> HIDE DEF w
    <2> QED
      BY <1>1, <1>3, FileSumType, Zenon
  <1>6. ASSUME Fresh
        PROVE  Sum(w) = TotalWork
    <2>1. ASSUME NEW i \in Indices
          PROVE  w[i] = sg[i] + ActivatePart[i]
      <3>1. i \notin card.snapshot /\ i \notin card.staged /\ live[i] = Old(i)
        BY <1>6 DEF Fresh
      <3>2. CASE IsNoop(i)
        BY <3>2 DEF SnapshotPart, StagePart, ActivatePart, Saved, Staging
      <3>3. CASE ~IsNoop(i)
        <4>1. SnapshotWork(i) = SnapshotPart[i]
          BY <1>1, <3>1, <3>3 DEF SnapshotWork, SnapshotPart, Saved, Snapshots
        <4>2. StageWork(i) = StagePart[i] + ActivatePart[i]
          BY <1>1, <3>1, <3>3 DEF StageWork, StagePart, ActivatePart, Staging, Kept, Old
        <4> QED
          BY <1>1, <3>3, <4>1, <4>2
      <3> QED
        BY <3>2, <3>3
    <2>2. \A i \in Indices : w[i] = sg[i] + ActivatePart[i]
      BY <2>1
    <2>3. \A i \in Indices : sg[i] = SnapshotPart[i] + StagePart[i]
      OBVIOUS
    <2> HIDE DEF w, sg
    <2>4. Sum(w) = Sum(sg) + Sum(ActivatePart)
      BY <1>1, <1>3, <2>2, FileSumAdds, Zenon
    <2>5. Sum(sg) = Sum(SnapshotPart) + Sum(StagePart)
      BY <1>1, <1>3, <2>3, FileSumAdds, Zenon
    <2> QED
      BY <2>4, <2>5 DEF TotalWork
  <1> QED
    BY <1>4, <1>5, <1>6

\* AddStageWork
LEMMA Done ==
    ASSUME work \in [done : Int, announced : Int, clean : BOOLEAN], NEW b \in Int, Did(b)
    PROVE  /\ work' \in [done : Int, announced : Int, clean : BOOLEAN]
           /\ work'.clean = work.clean /\ work'.announced = work.announced
           /\ work'.done = work.done + b
  BY DEF Did

LEMMA WorkStep ==
    ASSUME BudgetInv, BudgetInv', WorkInv, [BudgetNext]_budgetVars
    PROVE  WorkInv'
  <1>1. /\ SnapshotPart \in [Indices -> Int] /\ StagePart \in [Indices -> Int]
        /\ ActivatePart \in [Indices -> Int] /\ Len(files) \in Nat
        /\ Indices \subseteq Nat /\ \A i \in Indices : i >= 1
        /\ \A i \in Indices : EffectiveSize(i) \in Int /\ Old(i) \in Int /\ live[i] \in Int
        /\ high \in Nat /\ card \in Cards
    BY WorkTypes DEF BudgetInv, BudgetType
  <1>2. work \in [done : Int, announced : Int, clean : BOOLEAN]
    BY DEF WorkInv
  <1>3. /\ files' = files
        /\ SnapshotPart' = SnapshotPart /\ StagePart' = StagePart /\ ActivatePart' = ActivatePart
        /\ TotalWork' = TotalWork /\ Indices' = Indices /\ Activated' = Activated
        /\ Activated \subseteq Indices
        /\ \A i : Staging(i)' = Staging(i)
    <2>1. files' = files
      BY ReleaseFixed DEF budgetVars
    <2> QED
      BY <2>1, SameWork, SameRelease DEF Activated
  <1>4. PICK k \in Nat : k = high'
    BY DEF BudgetInv, BudgetType
  <1>5. /\ Before(SnapshotPart, high)' = Before(SnapshotPart, k)
        /\ Before(StagePart, high)' = Before(StagePart, k)
        /\ Before(ActivatePart, high)' = Before(ActivatePart, k)
    BY <1>3, <1>4 DEF Before
  <1>6. ASSUME NEW f \in [Indices -> Int]
        PROVE  /\ Before(f, 1) = 0 /\ Sum(f) \in Int /\ Before(f, high) \in Int
               /\ high \in Indices => Before(f, high + 1) = Before(f, high) + f[high]
               /\ high > Len(files) => Before(f, high) = Sum(f)
    BY <1>1, BeforeFile
  <1>7. CASE (SnapshotFile \/ SnapshotDone) /\ phase' # "full"
    <2>1. \/ /\ phase' = "snapshot_part" /\ high' = high /\ work' = work
             /\ card'.snapshot = card.snapshot /\ card'.staged = card.staged
          \/ /\ phase' = "snapshot" /\ high' = high + 1
      <3>1. CASE SnapshotFile
        <4>1. phase' \in {"snapshot", "snapshot_part"} /\ phase = "snapshot"
          BY <1>7, <3>1, SnapshotFileKeeps DEF SnapshotFile
        <4>2. CASE SnapshotNeeded /\ live[high] # Absent /\ high \notin card.snapshot
          <5>1. Begin(live[high], "snapshot_part") /\ high' = high /\ work' = work
            BY <3>1, <4>2 DEF SnapshotFile
          <5>2. phase' = "snapshot_part" /\ card' = [card EXCEPT !.part[high] = Allocated(live[high])]
            BY <4>1, <5>1 DEF Begin
          <5> QED
            BY <1>1, <5>1, <5>2 DEF Cards
        <4>3. CASE ~(SnapshotNeeded /\ live[high] # Absent /\ high \notin card.snapshot)
          BY <3>1, <4>1, <4>3 DEF SnapshotFile
        <4> QED
          BY <4>2, <4>3
      <3>2. CASE SnapshotDone
        BY <3>2 DEF SnapshotDone
      <3> QED
        BY <1>7, <3>1, <3>2
    <2>2. CASE /\ phase' = "snapshot_part" /\ high' = high /\ work' = work
               /\ card'.snapshot = card.snapshot /\ card'.staged = card.staged
      <3>1. phase = "snapshot" /\ durable' = durable
        BY <1>7, <2>2 DEF SnapshotFile, SnapshotDone
      <3> QED
        BY <1>3, <1>4, <1>5, <2>2, <3>1 DEF WorkInv
    <2>3. CASE phase' = "snapshot" /\ high' = high + 1
      <3>1. /\ phase \in {"snapshot", "snapshot_part"} /\ durable' = durable
            /\ card'.staged = card.staged
            /\ card'.snapshot = card.snapshot \/ card'.snapshot = card.snapshot \cup {high}
            /\ work'.clean = work.clean /\ work'.announced = work.announced
            /\ work' \in [done : Int, announced : Int, clean : BOOLEAN] /\ high \in Indices
        <4>1. CASE SnapshotFile
          <5>1. phase = "snapshot" /\ high \in Indices /\ durable' = durable
            BY <4>1 DEF SnapshotFile
          <5>2. ~(SnapshotNeeded /\ live[high] # Absent /\ high \notin card.snapshot)
            BY <1>1, <2>3, <4>1 DEF SnapshotFile
          <5>3. card' = card /\ (work' = work \/ Did(Old(high) * IF files[high].policy = "ConfigTemplate" THEN 2 ELSE 1))
            BY <4>1, <5>2 DEF SnapshotFile
          <5>4. Old(high) * (IF files[high].policy = "ConfigTemplate" THEN 2 ELSE 1) \in Int
            BY <1>1, <5>1
          <5> QED
            BY <1>2, <5>1, <5>3, <5>4, Done
        <4>2. CASE SnapshotDone
          <5>1. high \in Indices /\ phase = "snapshot_part" /\ durable' = durable
            BY <4>2 DEF SnapshotDone, BudgetInv, RunningInv, CopyInv, Forward, Early
          <5>2. card'.staged = card.staged /\ card'.snapshot = card.snapshot \cup {high}
            BY <1>1, <4>2 DEF SnapshotDone, Cards
          <5>3. Did(live[high] * IF files[high].policy = "ConfigTemplate" THEN 4 ELSE 3)
            BY <4>2 DEF SnapshotDone
          <5>4. live[high] * (IF files[high].policy = "ConfigTemplate" THEN 4 ELSE 3) \in Int
            BY <1>1, <5>1
          <5> QED
            BY <1>2, <5>1, <5>2, <5>3, <5>4, Done
        <4> QED
          BY <1>7, <4>1, <4>2
      <3>2. ASSUME work.clean
            PROVE  work'.done = work.done + SnapshotPart[high]
        <4>1. durable = 0 /\ high \notin card.snapshot
          BY <1>1, <3>1, <3>2 DEF WorkInv
        <4>2. live[high] = Old(high) /\ CopyInv
          BY <3>1, <4>1 DEF BudgetInv, RunningInv, PrivateInv, Forward, Early
        <4>3. CASE SnapshotFile
          <5>1. ~(SnapshotNeeded /\ live[high] # Absent)
            BY <1>1, <2>3, <4>1, <4>3 DEF SnapshotFile
          <5>2. work' = work
            BY <4>1, <4>3, <5>1 DEF SnapshotFile
          <5>3. ~Saved(high)
            BY <4>1, <4>2, <5>1 DEF Saved, SnapshotNeeded
          <5> QED
            BY <1>2, <3>1, <5>2, <5>3 DEF SnapshotPart
        <4>4. CASE SnapshotDone
          <5>1. Saved(high)
            BY <4>2, <4>4 DEF SnapshotDone, CopyInv
          <5>2. Did(live[high] * IF files[high].policy = "ConfigTemplate" THEN 4 ELSE 3)
            BY <4>4 DEF SnapshotDone
          <5> QED
            BY <1>2, <3>1, <4>2, <5>1, <5>2 DEF SnapshotPart, Did
        <4> QED
          BY <1>7, <4>3, <4>4
      <3>3. ASSUME work.clean
            PROVE  work'.done = Before(SnapshotPart, k) /\ \A i \in card'.snapshot : i < k
        <4>1. work.done = Before(SnapshotPart, high) /\ \A i \in card.snapshot : i < high
          BY <3>1, <3>3 DEF WorkInv
        <4>2. card.snapshot \subseteq Nat
          BY <1>1 DEF Cards
        <4>3. Before(SnapshotPart, k) = Before(SnapshotPart, high) + SnapshotPart[high]
          BY <1>1, <1>4, <1>6, <2>3, <3>1
        <4>4. \A i \in card'.snapshot : i < k
          BY <1>1, <1>4, <2>3, <3>1, <4>1, <4>2
        <4> QED
          BY <3>2, <3>3, <4>1, <4>3, <4>4
      <3> QED
        BY <1>3, <1>4, <1>5, <2>3, <3>1, <3>3 DEF WorkInv
    <2> QED
      BY <2>1, <2>2, <2>3
  <1>8. CASE FinalizeContentPlan
    <2>1. /\ phase = "snapshot" /\ high > Len(files) /\ phase' = "stage" /\ high' = 1
          /\ durable' = durable /\ work' = work /\ card'.staged = card.staged
      BY <1>1, <1>8 DEF FinalizeContentPlan, Cards
    <2>2. work.clean => /\ work.done = Sum(SnapshotPart) + Before(StagePart, k)
                        /\ card.staged = {}
      <3>1. Before(StagePart, 1) = 0
        BY <1>1, <1>6
      <3>2. Before(SnapshotPart, high) = Sum(SnapshotPart) /\ Sum(SnapshotPart) \in Int
        BY <1>1, <1>6, <2>1
      <3> QED
        BY <1>4, <2>1, <3>1, <3>2 DEF WorkInv
    <2> QED
      BY <1>2, <1>3, <1>5, <2>1, <2>2 DEF WorkInv
  <1>9. CASE (StageFile \/ StageDone) /\ phase' # "full"
    <2>1. \/ /\ phase' = "stage_part" /\ high' = high /\ work' = work
             /\ card'.staged = card.staged
          \/ /\ phase' = "stage" /\ high' = high + 1
      <3>1. CASE StageFile
        <4>1. phase' \in {"stage", "stage_part"} /\ phase = "stage"
          BY <1>9, <3>1, StageFileKeeps DEF StageFile
        <4>2. CASE StageNeeded /\ high \notin card.staged
          <5>1. Begin(EffectiveSize(high), "stage_part") /\ high' = high /\ work' = work
            BY <3>1, <4>2 DEF StageFile
          <5>2. phase' = "stage_part" /\ card' = [card EXCEPT !.part[high] = Allocated(EffectiveSize(high))]
            BY <4>1, <5>1 DEF Begin
          <5> QED
            BY <1>1, <5>1, <5>2 DEF Cards
        <4>3. CASE ~(StageNeeded /\ high \notin card.staged)
          BY <3>1, <4>1, <4>3 DEF StageFile
        <4> QED
          BY <4>2, <4>3
      <3>2. CASE StageDone
        BY <3>2 DEF StageDone
      <3> QED
        BY <1>9, <3>1, <3>2
    <2>2. CASE /\ phase' = "stage_part" /\ high' = high /\ work' = work
               /\ card'.staged = card.staged
      <3>1. phase = "stage" /\ durable' = durable
        BY <1>9, <2>2 DEF StageFile, StageDone
      <3> QED
        BY <1>3, <1>4, <1>5, <2>2, <3>1 DEF WorkInv
    <2>3. CASE phase' = "stage" /\ high' = high + 1
      <3>1. /\ phase \in {"stage", "stage_part"} /\ durable' = durable
            /\ card'.staged = card.staged \/ card'.staged = card.staged \cup {high}
            /\ work'.clean = work.clean /\ work'.announced = work.announced
            /\ work' \in [done : Int, announced : Int, clean : BOOLEAN] /\ high \in Indices
        <4>1. CASE StageFile
          <5>1. phase = "stage" /\ high \in Indices /\ durable' = durable
            BY <4>1 DEF StageFile
          <5>2. ~(StageNeeded /\ high \notin card.staged)
            BY <1>1, <2>3, <4>1 DEF StageFile
          <5>3. card' = card /\ (work' = work \/ Did(EffectiveSize(high)))
            BY <4>1, <5>2 DEF StageFile
          <5> QED
            BY <1>1, <1>2, <5>1, <5>3 DEF Did
        <4>2. CASE StageDone
          <5>1. high \in Indices /\ phase = "stage_part" /\ durable' = durable
            BY <4>2 DEF StageDone, BudgetInv, RunningInv, CopyInv, Forward, Early
          <5>2. card'.staged = card.staged \cup {high}
            BY <1>1, <4>2 DEF StageDone, Cards
          <5>3. Did(2 * EffectiveSize(high))
            BY <4>2 DEF StageDone
          <5>4. 2 * EffectiveSize(high) \in Int
            BY <1>1, <5>1
          <5> QED
            BY <1>2, <5>1, <5>2, <5>3, <5>4, Done
        <4> QED
          BY <1>9, <4>1, <4>2
      <3>2. ASSUME work.clean
            PROVE  work'.done = work.done + StagePart[high]
        <4>1. durable = 0 /\ high \notin card.staged
          BY <1>1, <3>1, <3>2 DEF WorkInv
        <4>2. CASE StageFile
          <5>1. ~StageNeeded
            BY <1>1, <2>3, <4>1, <4>2 DEF StageFile
          <5>2. work' = work /\ ~Staging(high)
            BY <4>1, <4>2, <5>1 DEF StageFile, StageNeeded, Staging
          <5> QED
            BY <1>2, <3>1, <5>2 DEF StagePart
        <4>3. CASE StageDone
          <5>1. Staging(high)
            BY <4>3 DEF StageDone, CopyInv, BudgetInv, RunningInv, Forward, Early
          <5>2. Did(2 * EffectiveSize(high))
            BY <4>3 DEF StageDone
          <5> QED
            BY <1>2, <3>1, <5>1, <5>2 DEF StagePart, Did
        <4> QED
          BY <1>9, <4>2, <4>3
      <3>3. ASSUME work.clean
            PROVE  /\ work'.done = Sum(SnapshotPart) + Before(StagePart, k)
                   /\ \A i \in card'.staged : i < k
        <4>1. /\ work.done = Sum(SnapshotPart) + Before(StagePart, high)
              /\ \A i \in card.staged : i < high
          BY <3>1, <3>3 DEF WorkInv
        <4>2. card.staged \subseteq Nat
          BY <1>1 DEF Cards
        <4>3. /\ Before(StagePart, k) = Before(StagePart, high) + StagePart[high]
              /\ Before(StagePart, high) \in Int /\ StagePart[high] \in Int /\ Sum(SnapshotPart) \in Int
          BY <1>1, <1>4, <1>6, <2>3, <3>1
        <4>4. \A i \in card'.staged : i < k
          BY <1>1, <1>4, <2>3, <3>1, <4>1, <4>2
        <4> QED
          BY <3>2, <3>3, <4>1, <4>3, <4>4
      <3> QED
        BY <1>3, <1>4, <1>5, <2>3, <3>1, <3>3 DEF WorkInv
    <2> QED
      BY <2>1, <2>2, <2>3
  <1>10. CASE ActivateDirectories
    <2>1. /\ phase = "stage" /\ high > Len(files) /\ phase' = "activate" /\ high' = 1
          /\ work' = work /\ card'.staged = card.staged
      BY <1>1, <1>10 DEF ActivateDirectories, Cards
    <2>2. ASSUME work.clean
          PROVE  /\ work.done = Sum(SnapshotPart) + Sum(StagePart) + Before(ActivatePart, k)
                 /\ \A i \in Activated : Staging(i) => i \in card.staged
      <3>1. durable = 0 /\ work.done = Sum(SnapshotPart) + Before(StagePart, high)
        BY <2>1, <2>2 DEF WorkInv
      <3>2. PrivateInv
        BY <2>1, <3>1 DEF BudgetInv, RunningInv, Forward, Early
      <3>3. /\ Before(StagePart, high) = Sum(StagePart) /\ Before(ActivatePart, 1) = 0
            /\ Sum(SnapshotPart) \in Int /\ Sum(StagePart) \in Int
        BY <1>1, <1>6, <2>1
      <3>4. work.done = Sum(SnapshotPart) + Sum(StagePart) + Before(ActivatePart, k)
        BY <1>4, <2>1, <3>1, <3>3
      <3>5. \A i \in Activated : i \in Indices /\ i < high
        BY <1>1, <1>3, <2>1 DEF Indices
      <3>6. \A i \in Activated : Staging(i) => i \in card.staged
        BY <2>1, <3>2, <3>5 DEF PrivateInv
      <3> QED
        BY <3>4, <3>6
    <2> QED
      BY <1>2, <1>3, <1>5, <2>1, <2>2 DEF WorkInv
  <1>11. CASE ActivateFile
    <2>1. phase = "activate" /\ phase' = "activate" /\ high' = high + 1 /\ high \in Indices
      BY <1>11 DEF ActivateFile
    <2>2. \/ (high \in Activated \ card.staged \/ high \notin Activated) /\ card' = card /\ work' = work
          \/ /\ high \in Activated \cap card.staged /\ Did(EffectiveSize(high))
             /\ card' = [card EXCEPT !.staged = @ \ {high}]
      BY <1>11 DEF ActivateFile
    <2>3. /\ work'.clean = work.clean /\ work'.announced = work.announced
          /\ work' \in [done : Int, announced : Int, clean : BOOLEAN]
          /\ card'.staged = card.staged \/ card'.staged = card.staged \ {high}
      BY <1>1, <1>2, <2>1, <2>2 DEF Did, Cards
    <2>4. ASSUME work.clean
          PROVE  /\ work'.done = Sum(SnapshotPart) + Sum(StagePart) + Before(ActivatePart, k)
                 /\ \A i \in Activated : i >= k /\ Staging(i) => i \in card'.staged
      <3>1. /\ \A i \in Activated : i >= high /\ Staging(i) => i \in card.staged
            /\ work.done = Sum(SnapshotPart) + Sum(StagePart) + Before(ActivatePart, high)
        BY <2>1, <2>4 DEF WorkInv
      <3>2. work'.done = work.done + ActivatePart[high]
        <4>1. CASE (high \in Activated \ card.staged \/ high \notin Activated) /\ work' = work
          <5>1. ~(Staging(high) /\ high \in Activated)
            BY <1>1, <2>1, <3>1, <4>1
          <5> QED
            BY <1>2, <2>1, <4>1, <5>1 DEF ActivatePart
        <4>2. CASE high \in Activated \cap card.staged /\ Did(EffectiveSize(high))
          <5>1. Staging(high)
            BY <2>1, <4>2 DEF BudgetInv, RunningInv, FileInv, Forward
          <5> QED
            BY <1>2, <2>1, <4>2, <5>1 DEF ActivatePart, Did
        <4> QED
          BY <2>2, <4>1, <4>2
      <3>3. /\ Before(ActivatePart, k) = Before(ActivatePart, high) + ActivatePart[high]
            /\ Before(ActivatePart, high) \in Int /\ ActivatePart[high] \in Int
            /\ Sum(SnapshotPart) \in Int /\ Sum(StagePart) \in Int
        BY <1>1, <1>4, <1>6, <2>1
      <3>4. \A i \in Activated : i >= k => i >= high /\ i # high
        BY <1>1, <1>3, <1>4, <2>1
      <3>5. \A i \in Activated : i >= k /\ Staging(i) => i \in card'.staged
        BY <2>3, <3>1, <3>4
      <3> QED
        BY <3>1, <3>2, <3>3, <3>5
    <2> QED
      BY <1>3, <1>4, <1>5, <2>1, <2>3, <2>4 DEF WorkInv
  <1>12. CASE Staged
    <2>1. phase = "activate" /\ high > Len(files) /\ phase' = "staged" /\ work' = work
      BY <1>12 DEF Staged
    <2>2. work.clean => work.done = work.announced
      <3>1. Before(ActivatePart, high) = Sum(ActivatePart)
        BY <1>1, <1>6, <2>1
      <3> QED
        BY <2>1, <3>1 DEF WorkInv, TotalWork
    <2> QED
      BY <1>2, <2>1, <2>2 DEF WorkInv
  <1>13. CASE PreflightStorage
    <2>1. CASE phase' = "rollback" /\ work' = work
      BY <1>2, <2>1 DEF WorkInv
    <2>2. CASE /\ phase' = "snapshot" /\ high' = 1
               /\ work' = [done |-> 0, announced |-> InitializeStageWork, clean |-> cuts = 0]
      <3>1. InitializeStageWork \in Int /\ (Fresh => InitializeStageWork = TotalWork)
        BY AnnouncedFresh DEF BudgetInv
      <3>2. cuts = 0 => Fresh
        BY <1>13 DEF PreflightStorage, BudgetInv
      <3>3. Before(SnapshotPart, k) = 0
        BY <1>1, <1>4, <1>6, <2>2
      <3>4. card' = card /\ durable' = durable
        BY <1>13 DEF PreflightStorage
      <3>5. /\ work' \in [done : Int, announced : Int, clean : BOOLEAN] /\ work'.done = 0
            /\ work'.announced = InitializeStageWork /\ (work'.clean => cuts = 0)
        <4>1. PICK c \in BOOLEAN : c = (cuts = 0)
          OBVIOUS
        <4>2. work' = [done |-> 0, announced |-> InitializeStageWork, clean |-> c]
          BY <2>2, <4>1, Zenon
        <4>3. /\ work' \in [done : Int, announced : Int, clean : BOOLEAN] /\ work'.done = 0
              /\ work'.announced = InitializeStageWork /\ work'.clean = c
          BY <3>1, <4>1, <4>2
        <4> QED
          BY <4>1, <4>3
      <3>6. Fresh => durable' = 0 /\ card'.staged = {} /\ card'.snapshot = {}
        BY <3>4 DEF Fresh
      <3> QED
        BY <1>3, <1>5, <2>2, <3>1, <3>2, <3>3, <3>5, <3>6 DEF WorkInv
    <2> QED
      BY <1>13, <2>1, <2>2 DEF PreflightStorage
  <1>14. CASE ArmCandidate \/ PowerCut
    <2>1. /\ work' = work
          /\ phase' \in {"staged", "arming"} => phase \in {"staged", "arming"}
          /\ phase' \notin {"snapshot", "snapshot_part", "stage", "stage_part", "activate"}
      BY <1>14 DEF ArmCandidate, PowerCut
    <2> QED
      BY <2>1 DEF WorkInv
  <1>15. CASE \/ ProbeUpdateInstallReadiness \/ Download \/ Armed \/ Commit \/ Committed
              \/ Rollback \/ RestoreFile \/ RestoreDone \/ RolledBack \/ Ended
    <2>1. /\ work' = work
          /\ phase' \notin {"snapshot", "snapshot_part", "stage", "stage_part", "activate",
                            "staged", "arming"}
      BY <1>15 DEF ProbeUpdateInstallReadiness, Download, Armed, Commit, Committed, Rollback,
                   RestoreFile, Begin, RestoreDone, RolledBack, Ended, budgetVars
    <2> QED
      BY <2>1 DEF WorkInv
  <1>16. CASE UNCHANGED budgetVars
    <2>1. /\ work' = work /\ phase' = phase /\ card' = card /\ durable' = durable /\ high' = high
      BY <1>16 DEF budgetVars
    <2> QED
      BY <1>3, <1>4, <1>5, <2>1 DEF WorkInv
  <1>17. CASE (SnapshotFile \/ SnapshotDone \/ StageFile \/ StageDone) /\ phase' = "full"
    <2>1. work' = work
      BY <1>17 DEF SnapshotFile, SnapshotDone, StageFile, StageDone, Begin
    <2> QED
      BY <1>17, <2>1 DEF WorkInv
  <1> QED
    BY <1>7, <1>8, <1>9, <1>10, <1>11, <1>12, <1>13, <1>14, <1>15, <1>16, <1>17 DEF BudgetNext

\* For every release and card: a run without interruption does exactly the work
\* that InitializeStageWork announced.
THEOREM WorkIsAnnouncedAlways == BudgetSpec => []WorkIsAnnounced
  <1>1. BudgetInit => WorkInv
    BY DEF BudgetInit, WorkInv, NoWork
  <1>2. WorkInv => WorkIsAnnounced
    BY DEF WorkInv, WorkIsAnnounced
  <1> QED
    BY BudgetInitially, BudgetStep, WorkStep, <1>1, <1>2, PTL DEF BudgetSpec
=============================================================================
