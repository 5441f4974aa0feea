---------------------- MODULE UpdateOrchestrator_proofs ----------------------
(***************************************************************************)
(* What survives the power cuts of an update, for every set of requests    *)
(* and releases, every number of payload files and of failing calls.       *)
(*                                                                         *)
(* The argument is about the list of things to do.  A step relies on a     *)
(* fact that holds already, or that an earlier step of the list will       *)
(* establish: Exposed(list, X, Y) says that some step of X has no step of  *)
(* Y before it.  The steps come in the order of the code (Ordered), so     *)
(* that none spoils what a later one relies on.                            *)
(***************************************************************************)
EXTENDS UpdateOrchestrator, SequenceTheorems, TLAPS

-----------------------------------------------------------------------------
(* The request store. *)

\* What an operation of the store has done by the time it is where it is.
SaveExact ==
    call.op = "Save" =>
       /\ call.request \in Requests
       /\ call.at >= 1 => ~Present("committed") /\ ~Present("retiring")
       /\ \A i \in Payloads : i < call.at => payload[i] = ReleaseOf[call.request]
       /\ call.at > StatePart => record["active"] = call.request

DiscardExact ==
    call.op = "Discard" =>
       /\ call.at >= 1 => ~Present("committed") /\ ~Present("retiring")
       /\ call.at >= 2 => ~Present("active")

DiscardCommittedExact ==
    call.op = "DiscardCommitted" /\ call.at >= 1 =>
       ~Present("active") /\ ~Present("committed")

StoreInv ==
    SaveExact /\ DiscardExact /\ DiscardCommittedExact /\ RecordLoads /\ OneRecord

-----------------------------------------------------------------------------
(* The list of things to do. *)

Executing == pc \in {"start", "resume"}

\* A step of X that no step of Y comes before.
Exposed(s, X, Y) ==
    \E i \in DOMAIN s : s[i] \in X /\ \A j \in 1 .. i - 1 : s[j] \notin Y

\* The steps in the order of the code: retirement and Start, then what boot
\* recovery and the clean-ups do.
Rank ==
    [retire_committed |-> 1, discard_committed |-> 2, identify |-> 3,
     begin |-> 4, persist |-> 5, fetch |-> 6, finish |-> 7, open |-> 8,
     rehash |-> 9, prepare |-> 10, stage |-> 11, close_checked |-> 12,
     arm |-> 13, reboot_candidate |-> 14,
     close |-> 21, abort |-> 22, rollback |-> 23, mark_healthy |-> 24,
     commit |-> 25, discard_archive |-> 26, discard_prepared |-> 27,
     retire_rolled_back |-> 28, discard_request |-> 29, retain |-> 30,
     stop_watchdog |-> 31, deactivate |-> 32, reboot_previous |-> 33]

Ordered(s) == \A i, j \in DOMAIN s : i < j => Rank[s[i]] < Rank[s[j]]

StartSteps == {s \in Steps : Rank[s] < 20}
EndSteps == {s \in Steps : Rank[s] > 20}

\* A list is one of Start or one of recovery and clean-up, never a mixture.
ListInv ==
    /\ Ordered(todo)
    /\ todo \in Seq(EndSteps) \/ (pc = "start" /\ todo \in Seq(StartSteps))
    /\ ~Executing => todo = <<>>

\* An operation of the store runs only for the step at the head of the list.
CallInv ==
    /\ call # NoCall =>
         /\ result = "none"
         /\ \E step \in DOMAIN StoreOperation :
               /\ Do(step)
               /\ call.op = StoreOperation[step]
               /\ call.op = "Save" => call.request = self
    /\ result # "none" => \E step \in DOMAIN StoreOperation : Do(step)
    /\ call = NoCall /\ result = "ok" /\ Do("persist") => record["active"] = self

\* The steps of Start from one rank to another.
Between(m, n) == {s \in Steps : Rank[s] \in m .. n}

\* Whose request it is that runs.
RequestInv ==
    /\ self \in used \cup {NoRequest}
    /\ record["active"] \in used \cup {NoRequest}
    /\ Executing => record["active"] \in {NoRequest, self}
    /\ ~Executing => self = NoRequest /\ handle = "Idle"
    /\ handle = "Writing" => bound = self /\ self # NoRequest
    /\ Exposed(todo, {"identify"}, {}) => self = NoRequest
    /\ Exposed(todo, Between(4, 14), {"identify"}) => self # NoRequest

-----------------------------------------------------------------------------
(* The watchdog. *)

NoCommit(s) == ~Exposed(s, {"commit"}, {})

WatchdogInv ==
    /\ pc = "off" => watchdog = "off"
    /\ boot = "tryboot" /\ watchdog = "off" =>
         /\ pc = "recover" => faults >= 2
         /\ Executing => faults >= 3 \/ (faults >= 2 /\ todo = <<"reboot_previous">>)
         /\ pc = "menu" => faults >= 3
    /\ \/ NoCommit(todo)
       \/ pc = "resume" /\ boot = "tryboot" /\ watchdog = "owned"

-----------------------------------------------------------------------------
(* Owners, as long as no call failed and no configuration is reset. *)

Clean == faults = 0 /\ \A r \in used : ~ResetOf[r]

NoArchive == \A r \in Requests : archiveFinal[r] = "none"
NoPrepared == \A r \in Requests : prepared[r] = "none"
Fresh == journal = NoJournal \/ At({"Anchor"})
Trial == OwnedStates \ {"Committed"}

OwnerInv ==
    /\ ~Orphans
    /\ At(OwnedStates) => ~journal.approved
    /\ At(Trial) => /\ journal.owner = record["active"]
                    /\ prepared[journal.owner] = "ready"

\* What the steps of Start rely on.
StartInv ==
    /\ Exposed(todo, {"discard_committed"}, {"retire_committed"}) => ~At(OwnedStates)
    /\ Exposed(todo, Between(3, 10), {"retire_committed"}) => Fresh
    /\ Exposed(todo, Between(11, 14), {"retire_committed"}) => ~At({"Committed"})
    /\ Exposed(todo, Between(3, 9), {}) => NoPrepared
    /\ Exposed(todo, Between(3, 6), {}) => NoArchive
    /\ Exposed(todo, Between(6, 14), {"persist"}) =>
         self # NoRequest /\ record["active"] = self
    /\ Exposed(todo, {"stage"}, {"prepare"}) =>
         self # NoRequest /\ prepared[self] = "ready"

\* What the steps of recovery and of the clean-ups rely on.
ArchiveFirst(s) == ~Exposed(s, {"discard_request", "retain"}, {"discard_archive"})
PreparedFirst(s) == ~Exposed(s, {"discard_request", "retain"}, {"discard_prepared"})
RetiredFirst(s) == ~Exposed(s, {"discard_request"}, {"retire_rolled_back"})
RollbackFirst(s) == ~Exposed(s, {"retire_rolled_back"}, {"rollback"})
RequestFirst(s) == ~Exposed(s, {"deactivate"}, {"discard_request"})
DecidedFirst(s) == ~Exposed(s, {"discard_prepared"}, {"rollback", "commit"})
NoRollback(s) == ~Exposed(s, {"rollback", "mark_healthy"}, {})
CommitFirst(s) == ~Exposed(s, {"retain"}, {"commit"})

EndInv ==
    /\ ArchiveFirst(todo) \/ NoArchive
    /\ PreparedFirst(todo) \/ NoPrepared
    /\ RetiredFirst(todo) \/ Fresh
    /\ RollbackFirst(todo) \/ ~At(OwnedStates)
    /\ RequestFirst(todo) \/ (NoArchive /\ NoPrepared /\ Fresh)
    /\ DecidedFirst(todo) \/ ~At(Trial)
    /\ NoRollback(todo) \/ ~At({"Committed"})
    /\ CommitFirst(todo) \/ At({"Committed"})
    /\ NoCommit(todo) \/ Present("active")

ArtifactInv == Clean => OwnerInv /\ StartInv /\ EndInv

OrchestratorInv ==
    /\ TypeOK /\ StoreInv /\ ListInv /\ CallInv /\ RequestInv /\ WatchdogInv
    /\ ArtifactInv

-----------------------------------------------------------------------------
(* Lists. *)

LEMMA ExposedEmpty ==
    ASSUME NEW X, NEW Y
    PROVE  ~Exposed(<<>>, X, Y)
  BY DEF Exposed

LEMMA ExposedHead ==
    ASSUME NEW S, NEW s \in Seq(S), s # <<>>, NEW X, NEW Y, Head(s) \in X
    PROVE  Exposed(s, X, Y)
  BY DEF Exposed

LEMMA ExposedTail ==
    ASSUME NEW S, NEW s \in Seq(S), s # <<>>, NEW X, NEW Y,
           Exposed(Tail(s), X, Y)
    PROVE  Exposed(s, X, Y) \/ Head(s) \in Y
  <1> SUFFICES ASSUME s[1] \notin Y
               PROVE  Exposed(s, X, Y)
    OBVIOUS
  <1>1. PICK i \in DOMAIN Tail(s) :
           Tail(s)[i] \in X /\ \A j \in 1 .. i - 1 : Tail(s)[j] \notin Y
    BY DEF Exposed
  <1>2. i \in 1 .. Len(s) - 1 /\ i + 1 \in DOMAIN s /\ s[i + 1] \in X
    BY <1>1
  <1>3. ASSUME NEW j \in 1 .. i
        PROVE  s[j] \notin Y
    <2>1. CASE j = 1
      BY <2>1
    <2>2. CASE j # 1
      <3>1. j - 1 \in 1 .. i - 1 /\ Tail(s)[j - 1] = s[j]
        BY <1>2, <2>2
      <3> QED
        BY <1>1, <3>1
    <2> QED
      BY <2>1, <2>2
  <1> QED
    BY <1>2, <1>3 DEF Exposed

LEMMA ExposedFree ==
    ASSUME NEW S, NEW s \in Seq(S), NEW X, NEW Y, S \cap X = {}
    PROVE  ~Exposed(s, X, Y)
  BY DEF Exposed

LEMMA OrderedTail ==
    ASSUME NEW S, NEW s \in Seq(S), s # <<>>, Ordered(s)
    PROVE  Ordered(Tail(s))
  BY DEF Ordered

LEMMA RankNat == \A s \in Steps : Rank[s] \in Nat
  BY DEF Rank, Steps, StoreOperation

\* Only the head of a list has the rank of its head, or a smaller one.
LEMMA ExposedOrdered ==
    ASSUME NEW s \in Seq(Steps), s # <<>>, Ordered(s), NEW X, NEW Y,
           Exposed(s, X, Y),
           \A x \in X : Rank[x] < Rank[Head(s)]
    PROVE  FALSE
  <1>1. PICK i \in DOMAIN s : s[i] \in X
    BY DEF Exposed
  <1>2. Rank[s[i]] < Rank[s[1]]
    BY <1>1
  <1> QED
    BY <1>1, <1>2, RankNat DEF Ordered
-----------------------------------------------------------------------------
\* A list of two parts.
LEMMA ExposedConcat ==
    ASSUME NEW s \in Seq(Steps), NEW t \in Seq(Steps), NEW X, NEW Y,
           Exposed(s \o t, X, Y)
    PROVE  \/ Exposed(s, X, Y)
           \/ Exposed(t, X, Y) /\ \A i \in DOMAIN s : s[i] \notin Y
  <1> DEFINE u == s \o t
  <1>1. /\ Len(s) \in Nat /\ Len(t) \in Nat
        /\ DOMAIN s = 1 .. Len(s) /\ DOMAIN t = 1 .. Len(t)
        /\ DOMAIN u = 1 .. Len(s) + Len(t)
        /\ \A i \in 1 .. Len(s) : u[i] = s[i]
        /\ \A i \in 1 .. Len(t) : u[Len(s) + i] = t[i]
    BY ConcatProperties, LenProperties
  <1>2. PICK i \in DOMAIN u : u[i] \in X /\ \A j \in 1 .. i - 1 : u[j] \notin Y
    BY DEF Exposed
  <1> HIDE DEF u
  <1>3. CASE i <= Len(s)
    <2>1. i \in DOMAIN s /\ s[i] \in X /\ \A j \in 1 .. i - 1 : s[j] \notin Y
      BY <1>1, <1>2, <1>3
    <2> QED
      BY <2>1 DEF Exposed
  <1>4. CASE i > Len(s)
    <2> DEFINE k == i - Len(s)
    <2>1. k \in DOMAIN t /\ u[i] = t[k]
      BY <1>1, <1>4
    <2>2. ASSUME NEW j \in 1 .. k - 1
          PROVE  t[j] \notin Y
      <3>1. Len(s) + j \in 1 .. i - 1 /\ j \in 1 .. Len(t)
        BY <1>1, <1>4
      <3> QED
        BY <1>1, <1>2, <3>1
    <2>3. \A j \in DOMAIN s : s[j] \notin Y
      BY <1>1, <1>2, <1>4
    <2> HIDE DEF k
    <2> QED
      BY <1>2, <2>1, <2>2, <2>3 DEF Exposed
  <1> QED
    BY <1>1, <1>2, <1>3, <1>4

LEMMA OrderedConcat ==
    ASSUME NEW s \in Seq(Steps), NEW t \in Seq(Steps), Ordered(s), Ordered(t),
           \A i \in DOMAIN s, j \in DOMAIN t : Rank[s[i]] < Rank[t[j]]
    PROVE  Ordered(s \o t)
  <1> DEFINE u == s \o t
  <1>1. /\ Len(s) \in Nat /\ Len(t) \in Nat
        /\ DOMAIN s = 1 .. Len(s) /\ DOMAIN t = 1 .. Len(t)
        /\ DOMAIN u = 1 .. Len(s) + Len(t)
        /\ \A i \in 1 .. Len(s) : u[i] = s[i]
        /\ \A i \in 1 .. Len(t) : u[Len(s) + i] = t[i]
    BY ConcatProperties, LenProperties
  <1> HIDE DEF u
  <1>2. ASSUME NEW i \in DOMAIN u, NEW j \in DOMAIN u, i < j
        PROVE  Rank[u[i]] < Rank[u[j]]
    <2>1. CASE j <= Len(s)
      BY <1>1, <1>2, <2>1 DEF Ordered
    <2>2. CASE i > Len(s)
      <3> DEFINE m == i - Len(s)
                 n == j - Len(s)
      <3>1. m \in DOMAIN t /\ n \in DOMAIN t /\ m < n /\ u[i] = t[m] /\ u[j] = t[n]
        BY <1>1, <1>2, <2>2
      <3> HIDE DEF m, n
      <3> QED
        BY <3>1 DEF Ordered
    <2>3. CASE i <= Len(s) /\ j > Len(s)
      <3> DEFINE n == j - Len(s)
      <3>1. i \in DOMAIN s /\ n \in DOMAIN t /\ u[i] = s[i] /\ u[j] = t[n]
        BY <1>1, <1>2, <2>3
      <3> HIDE DEF n
      <3> QED
        BY <3>1
    <2> QED
      BY <1>1, <2>1, <2>2, <2>3
  <1> QED
    BY <1>2 DEF Ordered, u

-----------------------------------------------------------------------------
(* The lists of the code. *)

\* In order, and of recovery and clean-up only.
EndList(s) == s \in Seq(EndSteps) /\ Ordered(s)

LEMMA EndStepsAre ==
    EndSteps = {"close", "abort", "rollback", "mark_healthy", "commit",
                "discard_archive", "discard_prepared", "retire_rolled_back",
                "discard_request", "retain", "stop_watchdog", "deactivate",
                "reboot_previous"}
  BY DEF EndSteps, Steps, StoreOperation, Rank

LEMMA CleanupRolledBackList ==
    /\ EndList(CleanupRolledBackTransaction)
    /\ ArchiveFirst(CleanupRolledBackTransaction)
    /\ PreparedFirst(CleanupRolledBackTransaction)
    /\ RetiredFirst(CleanupRolledBackTransaction)
    /\ RequestFirst(CleanupRolledBackTransaction)
    /\ NoRollback(CleanupRolledBackTransaction)
    /\ CommitFirst(CleanupRolledBackTransaction)
    /\ NoCommit(CleanupRolledBackTransaction)
  <1> DEFINE s == CleanupRolledBackTransaction
  <1>1. s \in Seq(EndSteps)
    BY EndStepsAre DEF CleanupRolledBackTransaction
  <1>2. Ordered(s)
    BY DEF CleanupRolledBackTransaction, Ordered, Rank
  <1>3. ArchiveFirst(s) /\ PreparedFirst(s) /\ RetiredFirst(s)
    BY DEF CleanupRolledBackTransaction, ArchiveFirst, PreparedFirst, RetiredFirst, Exposed
  <1>4. RequestFirst(s) /\ NoRollback(s) /\ CommitFirst(s) /\ NoCommit(s)
    BY DEF CleanupRolledBackTransaction, RequestFirst, NoRollback, CommitFirst, NoCommit, Exposed
  <1> QED
    BY <1>1, <1>2, <1>3, <1>4 DEF EndList

LEMMA CleanupList ==
    /\ EndList(CleanupTransaction)
    /\ ArchiveFirst(CleanupTransaction)
    /\ PreparedFirst(CleanupTransaction)
    /\ RollbackFirst(CleanupTransaction)
    /\ RequestFirst(CleanupTransaction)
    /\ NoRollback(CleanupTransaction)
    /\ CommitFirst(CleanupTransaction)
    /\ NoCommit(CleanupTransaction)
  <1>1. CleanupTransaction \in Seq(EndSteps)
    BY EndStepsAre DEF CleanupTransaction
  <1>2. Ordered(CleanupTransaction)
    BY DEF CleanupTransaction, Ordered, Rank
  <1> QED
    BY <1>1, <1>2
    DEF CleanupTransaction, EndList, Exposed, ArchiveFirst, PreparedFirst, RollbackFirst, RequestFirst, NoRollback, CommitFirst, NoCommit

LEMMA RetainList ==
    /\ EndList(RetainCommittedTransaction)
    /\ ArchiveFirst(RetainCommittedTransaction)
    /\ PreparedFirst(RetainCommittedTransaction)
    /\ RetiredFirst(RetainCommittedTransaction)
    /\ RollbackFirst(RetainCommittedTransaction)
    /\ RequestFirst(RetainCommittedTransaction)
    /\ NoRollback(RetainCommittedTransaction)
    /\ NoCommit(RetainCommittedTransaction)
  <1>1. RetainCommittedTransaction \in Seq(EndSteps)
    BY EndStepsAre DEF RetainCommittedTransaction
  <1>2. Ordered(RetainCommittedTransaction)
    BY DEF RetainCommittedTransaction, Ordered, Rank
  <1> QED
    BY <1>1, <1>2
    DEF RetainCommittedTransaction, EndList, Exposed, ArchiveFirst, PreparedFirst, RetiredFirst, RollbackFirst, RequestFirst, NoRollback, NoCommit

LEMMA DiscardDownloadedList ==
    /\ EndList(DiscardDownloadedRequest)
    /\ ArchiveFirst(DiscardDownloadedRequest)
    /\ RollbackFirst(DiscardDownloadedRequest)
    /\ RequestFirst(DiscardDownloadedRequest)
    /\ DecidedFirst(DiscardDownloadedRequest)
    /\ NoRollback(DiscardDownloadedRequest)
    /\ CommitFirst(DiscardDownloadedRequest)
    /\ NoCommit(DiscardDownloadedRequest)
  <1>1. DiscardDownloadedRequest \in Seq(EndSteps)
    BY EndStepsAre DEF DiscardDownloadedRequest
  <1>2. Ordered(DiscardDownloadedRequest)
    BY DEF DiscardDownloadedRequest, Ordered, Rank
  <1> QED
    BY <1>1, <1>2
    DEF DiscardDownloadedRequest, EndList, Exposed, ArchiveFirst, RollbackFirst, RequestFirst, DecidedFirst, NoRollback, CommitFirst, NoCommit

LEMMA AbortList ==
    /\ EndList(AbortDownloadAndDiscardRequest)
    /\ RollbackFirst(AbortDownloadAndDiscardRequest)
    /\ RequestFirst(AbortDownloadAndDiscardRequest)
    /\ DecidedFirst(AbortDownloadAndDiscardRequest)
    /\ NoRollback(AbortDownloadAndDiscardRequest)
    /\ CommitFirst(AbortDownloadAndDiscardRequest)
    /\ NoCommit(AbortDownloadAndDiscardRequest)
  <1>1. AbortDownloadAndDiscardRequest \in Seq(EndSteps)
    BY EndStepsAre DEF AbortDownloadAndDiscardRequest
  <1>2. Ordered(AbortDownloadAndDiscardRequest)
    BY DEF AbortDownloadAndDiscardRequest, Ordered, Rank
  <1> QED
    BY <1>1, <1>2
    DEF AbortDownloadAndDiscardRequest, EndList, Exposed, RollbackFirst, RequestFirst, DecidedFirst, NoRollback, CommitFirst, NoCommit

LEMMA FailSafeList ==
    /\ EndList(RequestPreviousFailSafe)
    /\ ArchiveFirst(RequestPreviousFailSafe)
    /\ PreparedFirst(RequestPreviousFailSafe)
    /\ RetiredFirst(RequestPreviousFailSafe)
    /\ RollbackFirst(RequestPreviousFailSafe)
    /\ DecidedFirst(RequestPreviousFailSafe)
    /\ NoRollback(RequestPreviousFailSafe)
    /\ CommitFirst(RequestPreviousFailSafe)
    /\ NoCommit(RequestPreviousFailSafe)
  <1>1. RequestPreviousFailSafe \in Seq(EndSteps)
    BY EndStepsAre DEF RequestPreviousFailSafe
  <1>2. Ordered(RequestPreviousFailSafe)
    BY DEF RequestPreviousFailSafe, Ordered, Rank
  <1> QED
    BY <1>1, <1>2
    DEF RequestPreviousFailSafe, EndList, Exposed, ArchiveFirst, PreparedFirst, RetiredFirst, RollbackFirst, DecidedFirst, NoRollback, CommitFirst, NoCommit

\* A list that another one is put before.
LEMMA EndListConcat ==
    ASSUME NEW s, NEW t, EndList(s), EndList(t),
           \A i \in DOMAIN s, j \in DOMAIN t : Rank[s[i]] < Rank[t[j]]
    PROVE  EndList(s \o t)
  <1>1. EndSteps \subseteq Steps
    BY DEF EndSteps
  <1>2. s \in Seq(Steps) /\ t \in Seq(Steps)
    BY <1>1, SeqMonotonic DEF EndList
  <1>3. s \o t \in Seq(EndSteps)
    BY ConcatProperties DEF EndList
  <1> QED
    BY <1>2, <1>3, OrderedConcat DEF EndList

LEMMA RollBackAndCleanList ==
    /\ EndList(RollBackAndClean)
    /\ ArchiveFirst(RollBackAndClean)
    /\ PreparedFirst(RollBackAndClean)
    /\ RetiredFirst(RollBackAndClean)
    /\ RollbackFirst(RollBackAndClean)
    /\ RequestFirst(RollBackAndClean)
    /\ DecidedFirst(RollBackAndClean)
    /\ CommitFirst(RollBackAndClean)
    /\ NoCommit(RollBackAndClean)
  <1> DEFINE s == <<"rollback">>
             t == CleanupRolledBackTransaction
  <1>1. EndList(s) /\ s \in Seq(Steps) /\ t \in Seq(Steps) /\ s[1] = "rollback"
        /\ DOMAIN s = {1}
    BY EndStepsAre DEF EndList, Ordered, CleanupRolledBackTransaction, Steps, StoreOperation
  <1>2. \A i \in DOMAIN s, j \in DOMAIN t : Rank[s[i]] < Rank[t[j]]
    BY DEF CleanupRolledBackTransaction, Rank
  <1>3. EndList(s \o t)
    BY <1>1, <1>2, EndListConcat, CleanupRolledBackList
  <1> HIDE DEF s, t
  <1>4. ASSUME NEW X, NEW Y, Exposed(s \o t, X, Y), "rollback" \notin X
        PROVE  Exposed(t, X, Y) /\ "rollback" \notin Y
    <2>1. ~Exposed(s, X, Y)
      BY <1>1, <1>4 DEF Exposed
    <2> QED
      BY <1>1, <1>4, <2>1, ExposedConcat
  <1>5. RollBackAndClean = s \o t
    BY DEF RollBackAndClean, s, t
  <1>6. /\ ArchiveFirst(t) /\ PreparedFirst(t) /\ RetiredFirst(t)
        /\ RequestFirst(t) /\ CommitFirst(t) /\ NoCommit(t)
    BY CleanupRolledBackList DEF t
  <1>7. ArchiveFirst(s \o t) /\ PreparedFirst(s \o t) /\ RetiredFirst(s \o t)
    BY <1>4, <1>6 DEF ArchiveFirst, PreparedFirst, RetiredFirst
  <1>8. RequestFirst(s \o t) /\ CommitFirst(s \o t) /\ NoCommit(s \o t)
    BY <1>4, <1>6 DEF RequestFirst, CommitFirst, NoCommit
  <1>9. RollbackFirst(s \o t) /\ DecidedFirst(s \o t)
    BY <1>4 DEF RollbackFirst, DecidedFirst
  <1> QED
    BY <1>3, <1>5, <1>7, <1>8, <1>9

LEMMA RollBackAndRebootList ==
    /\ EndList(RollBackAndReboot)
    /\ ArchiveFirst(RollBackAndReboot)
    /\ PreparedFirst(RollBackAndReboot)
    /\ RetiredFirst(RollBackAndReboot)
    /\ RollbackFirst(RollBackAndReboot)
    /\ RequestFirst(RollBackAndReboot)
    /\ DecidedFirst(RollBackAndReboot)
    /\ CommitFirst(RollBackAndReboot)
    /\ NoCommit(RollBackAndReboot)
  <1> DEFINE s == RollBackAndClean
             t == <<"deactivate", "reboot_previous">>
             r == <<"rollback">>
             c == CleanupRolledBackTransaction
  <1>1. EndList(t) /\ t \in Seq(Steps)
    BY EndStepsAre DEF EndList, Ordered, Steps, StoreOperation, Rank
  <1>2. s \in Seq(Steps) /\ EndSteps \subseteq Steps
    BY RollBackAndCleanList, SeqMonotonic DEF EndList, EndSteps
  <1>3. /\ DOMAIN s = 1 .. 5
        /\ \A i \in 1 .. 5 : s[i] = IF i = 1 THEN "rollback" ELSE c[i - 1]
    <2>1. r \in Seq(Steps) /\ c \in Seq(Steps) /\ Len(r) = 1 /\ Len(c) = 4
      BY DEF CleanupRolledBackTransaction, Steps, StoreOperation
    <2>2. r[1] = "rollback" /\ s = r \o c
      BY DEF RollBackAndClean
    <2> HIDE DEF s, r, c
    <2>3. /\ r \o c \in Seq(Steps) /\ Len(r \o c) = Len(r) + Len(c)
          /\ \A i \in 1 .. Len(r) + Len(c) :
                (r \o c)[i] = IF i <= Len(r) THEN r[i] ELSE c[i - Len(r)]
      BY <2>1, ConcatProperties
    <2> QED
      BY <2>1, <2>2, <2>3, LenProperties, SMTT(30)
  <1>4. \A i \in DOMAIN s, j \in DOMAIN t : Rank[s[i]] < Rank[t[j]]
    BY <1>3 DEF CleanupRolledBackTransaction, Rank
  <1>5. s[5] = "discard_request" /\ 5 \in DOMAIN s
    BY <1>3 DEF CleanupRolledBackTransaction
  <1>6. RollBackAndReboot = s \o t
    BY DEF RollBackAndReboot
  <1>7. EndList(s \o t)
    BY <1>1, <1>4, EndListConcat, RollBackAndCleanList
  <1>8. /\ ArchiveFirst(t) /\ PreparedFirst(t) /\ RetiredFirst(t) /\ RollbackFirst(t)
        /\ DecidedFirst(t) /\ CommitFirst(t) /\ NoCommit(t)
    BY DEF ArchiveFirst, PreparedFirst, RetiredFirst, RollbackFirst, DecidedFirst,
           CommitFirst, NoCommit, Exposed
  <1> HIDE DEF s, t
  <1>9. ASSUME NEW X, NEW Y, Exposed(s \o t, X, Y)
        PROVE  Exposed(s, X, Y) \/ (Exposed(t, X, Y) /\ "discard_request" \notin Y)
    BY <1>1, <1>2, <1>5, <1>9, ExposedConcat
  <1>10. /\ ArchiveFirst(s) /\ PreparedFirst(s) /\ RetiredFirst(s) /\ RollbackFirst(s)
         /\ RequestFirst(s) /\ DecidedFirst(s) /\ CommitFirst(s) /\ NoCommit(s)
    BY RollBackAndCleanList DEF s
  <1>11. ArchiveFirst(s \o t) /\ PreparedFirst(s \o t) /\ RetiredFirst(s \o t)
    BY <1>8, <1>9, <1>10 DEF ArchiveFirst, PreparedFirst, RetiredFirst
  <1>12. RequestFirst(s \o t) /\ CommitFirst(s \o t) /\ NoCommit(s \o t)
    BY <1>8, <1>9, <1>10 DEF RequestFirst, CommitFirst, NoCommit
  <1>13. RollbackFirst(s \o t) /\ DecidedFirst(s \o t)
    BY <1>8, <1>9, <1>10 DEF RollbackFirst, DecidedFirst
  <1> QED
    BY <1>6, <1>7, <1>11, <1>12, <1>13

\* A candidate found healthy.
HealthyPlan == <<"mark_healthy", "commit">> \o RetainCommittedTransaction

LEMMA HealthyList ==
    /\ EndList(HealthyPlan)
    /\ ArchiveFirst(HealthyPlan)
    /\ PreparedFirst(HealthyPlan)
    /\ RetiredFirst(HealthyPlan)
    /\ RollbackFirst(HealthyPlan)
    /\ RequestFirst(HealthyPlan)
    /\ DecidedFirst(HealthyPlan)
    /\ CommitFirst(HealthyPlan)
  <1> DEFINE s == <<"mark_healthy", "commit">>
             t == RetainCommittedTransaction
  <1>1. /\ EndList(s) /\ s \in Seq(Steps) /\ t \in Seq(Steps)
        /\ DOMAIN s = {1, 2} /\ s[1] = "mark_healthy" /\ s[2] = "commit"
    BY EndStepsAre DEF EndList, Ordered, RetainCommittedTransaction, Steps, StoreOperation,
                       Rank
  <1>2. \A i \in DOMAIN s, j \in DOMAIN t : Rank[s[i]] < Rank[t[j]]
    BY DEF RetainCommittedTransaction, Rank
  <1>3. EndList(s \o t)
    BY <1>1, <1>2, EndListConcat, RetainList
  <1> HIDE DEF s, t
  <1>4. ASSUME NEW X, NEW Y, Exposed(s \o t, X, Y),
               "mark_healthy" \notin X, "commit" \notin X
        PROVE  Exposed(t, X, Y) /\ "commit" \notin Y
    <2>1. ~Exposed(s, X, Y)
      BY <1>1, <1>4 DEF Exposed
    <2> QED
      BY <1>1, <1>4, <2>1, ExposedConcat
  <1>5. HealthyPlan = s \o t
    BY DEF HealthyPlan, s, t
  <1>6. /\ ArchiveFirst(t) /\ PreparedFirst(t) /\ RetiredFirst(t)
        /\ RollbackFirst(t) /\ RequestFirst(t)
    BY RetainList DEF t
  <1>7. ArchiveFirst(s \o t) /\ PreparedFirst(s \o t) /\ RetiredFirst(s \o t)
    BY <1>4, <1>6 DEF ArchiveFirst, PreparedFirst, RetiredFirst
  <1>8. RequestFirst(s \o t) /\ RollbackFirst(s \o t)
    BY <1>4, <1>6 DEF RequestFirst, RollbackFirst
  <1>9. CommitFirst(s \o t) /\ DecidedFirst(s \o t)
    BY <1>4 DEF CommitFirst, DecidedFirst
  <1> QED
    BY <1>3, <1>5, <1>7, <1>8, <1>9

\* The archive is closed before anything else.
LEMMA CloseThen ==
    ASSUME NEW t, EndList(t), \A i \in DOMAIN t : t[i] # "close"
    PROVE  /\ EndList(<<"close">> \o t)
           /\ \A X, Y : Exposed(<<"close">> \o t, X, Y) /\ "close" \notin X
                           => Exposed(t, X, Y)
  <1> DEFINE s == <<"close">>
  <1>1. EndList(s) /\ s \in Seq(Steps) /\ s[1] = "close" /\ DOMAIN s = {1}
    BY EndStepsAre DEF EndList, Ordered, Steps, StoreOperation
  <1>2. t \in Seq(Steps) /\ \A i \in DOMAIN t : t[i] \in EndSteps \ {"close"}
    BY SeqMonotonic, ElementOfSeq, LenProperties DEF EndList, EndSteps
  <1>3. \A x \in EndSteps \ {"close"} : Rank["close"] < Rank[x]
    BY EndStepsAre DEF Rank
  <1> HIDE DEF s
  <1>4. \A i \in DOMAIN s, j \in DOMAIN t : Rank[s[i]] < Rank[t[j]]
    BY <1>1, <1>2, <1>3
  <1>5. EndList(s \o t)
    BY <1>1, <1>4, EndListConcat
  <1>6. ASSUME NEW X, NEW Y, Exposed(s \o t, X, Y), "close" \notin X
        PROVE  Exposed(t, X, Y)
    <2>1. ~Exposed(s, X, Y)
      BY <1>1, <1>6 DEF Exposed
    <2> QED
      BY <1>1, <1>2, <1>6, <2>1, ExposedConcat
  <1> QED
    BY <1>5, <1>6 DEF s

-----------------------------------------------------------------------------
(* The list of Start. *)

InstallPlan(kind) == RetirePlan(kind) \o <<"identify">> \o StartPlan

LEMMA StartStepsAre ==
    StartSteps = {"retire_committed", "discard_committed", "identify", "begin",
                  "persist", "fetch", "finish", "open", "rehash", "prepare",
                  "stage", "close_checked", "arm", "reboot_candidate"}
  BY DEF StartSteps, Steps, StoreOperation, Rank

LEMMA BetweenAre ==
    /\ Between(3, 6) = {"identify", "begin", "persist", "fetch"}
    /\ Between(3, 9) = {"identify", "begin", "persist", "fetch", "finish",
                        "open", "rehash"}
    /\ Between(3, 10) = {"identify", "begin", "persist", "fetch", "finish",
                         "open", "rehash", "prepare"}
    /\ Between(4, 14) = {"begin", "persist", "fetch", "finish", "open", "rehash",
                         "prepare", "stage", "close_checked", "arm",
                         "reboot_candidate"}
    /\ Between(6, 14) = {"fetch", "finish", "open", "rehash", "prepare", "stage",
                         "close_checked", "arm", "reboot_candidate"}
    /\ Between(11, 14) = {"stage", "close_checked", "arm", "reboot_candidate"}
  BY DEF Between, Steps, StoreOperation, Rank

\* Start itself, without retirement.
LEMMA StartList ==
    LET t == <<"identify">> \o StartPlan
    IN  /\ t \in Seq(StartSteps) /\ Ordered(t)
        /\ \A i \in DOMAIN t : t[i] \notin {"retire_committed", "discard_committed"}
        /\ ~Exposed(t, Between(4, 14), {"identify"})
        /\ ~Exposed(t, Between(6, 14), {"persist"})
        /\ ~Exposed(t, {"stage"}, {"prepare"})
  <1> DEFINE s == <<"identify">>
             u == StartPlan
             t == s \o u
  <1>1. /\ s \in Seq(Steps) /\ s \in Seq(StartSteps) /\ Ordered(s)
        /\ DOMAIN s = {1} /\ s[1] = "identify"
    BY StartStepsAre DEF Ordered, Steps, StoreOperation
  <1>2. u \in Seq(Steps) /\ u \in Seq(StartSteps)
    BY StartStepsAre DEF StartPlan, Steps, StoreOperation
  <1>3. Ordered(u)
    BY DEF StartPlan, Ordered, Rank
  <1>4. \A i \in DOMAIN u : Rank["identify"] < Rank[u[i]]
    BY DEF StartPlan, Rank
  <1>5. ~Exposed(u, Between(6, 14), {"persist"})
    BY BetweenAre DEF StartPlan, Exposed
  <1>6. ~Exposed(u, {"stage"}, {"prepare"})
    BY DEF StartPlan, Exposed
  <1>7. \A i \in DOMAIN u : u[i] \notin {"retire_committed", "discard_committed"}
    BY DEF StartPlan
  <1> HIDE DEF s, u
  <1>8. t \in Seq(StartSteps) /\ Ordered(t)
    BY <1>1, <1>2, <1>3, <1>4, ConcatProperties, OrderedConcat
  <1>9. ASSUME NEW X, NEW Y, Exposed(t, X, Y), "identify" \notin X
        PROVE  Exposed(u, X, Y) /\ "identify" \notin Y
    <2>1. ~Exposed(s, X, Y)
      BY <1>1, <1>9 DEF Exposed
    <2> QED
      BY <1>1, <1>2, <1>9, <2>1, ExposedConcat
  <1>10. ~Exposed(t, Between(4, 14), {"identify"})
    BY <1>9, BetweenAre
  <1>11. ~Exposed(t, Between(6, 14), {"persist"}) /\ ~Exposed(t, {"stage"}, {"prepare"})
    BY <1>5, <1>6, <1>9, BetweenAre
  <1>12. ~Exposed(t, {"retire_committed", "discard_committed"}, {})
    <2>1. ~Exposed(u, {"retire_committed", "discard_committed"}, {})
      BY <1>7 DEF Exposed
    <2> QED
      BY <1>9, <2>1
  <1>13. \A i \in DOMAIN t : t[i] \notin {"retire_committed", "discard_committed"}
    BY <1>12 DEF Exposed
  <1> QED
    BY <1>8, <1>10, <1>11, <1>13 DEF s, u

\* Retirement and Start: a committed transaction is retired before anything
\* that needs the journal.
LEMMA InstallList ==
    ASSUME NEW kind \in {"none", "committed", "retiring"}
    PROVE  /\ InstallPlan(kind) \in Seq(StartSteps) /\ Ordered(InstallPlan(kind))
           /\ ~Exposed(InstallPlan(kind), Between(4, 14), {"identify"})
           /\ ~Exposed(InstallPlan(kind), Between(6, 14), {"persist"})
           /\ ~Exposed(InstallPlan(kind), {"stage"}, {"prepare"})
           /\ kind = "committed" =>
                /\ ~Exposed(InstallPlan(kind), {"discard_committed"}, {"retire_committed"})
                /\ ~Exposed(InstallPlan(kind), Between(3, 10), {"retire_committed"})
                /\ ~Exposed(InstallPlan(kind), Between(11, 14), {"retire_committed"})
  <1> DEFINE s == RetirePlan(kind)
             t == <<"identify">> \o StartPlan
  <1>1. /\ t \in Seq(StartSteps) /\ Ordered(t)
        /\ \A i \in DOMAIN t : t[i] \notin {"retire_committed", "discard_committed"}
        /\ ~Exposed(t, Between(4, 14), {"identify"})
        /\ ~Exposed(t, Between(6, 14), {"persist"})
        /\ ~Exposed(t, {"stage"}, {"prepare"})
    BY StartList
  <1>2. s \in Seq(Steps) /\ s \in Seq(StartSteps) /\ Ordered(s)
    <2>1. CASE kind = "none"
      BY <2>1, StartStepsAre DEF RetirePlan, Ordered, Steps
    <2>2. CASE kind = "committed"
      BY <2>2, StartStepsAre DEF RetirePlan, Ordered, Rank, Steps, StoreOperation
    <2>3. CASE kind = "retiring"
      BY <2>3, StartStepsAre DEF RetirePlan, Ordered, Steps, StoreOperation
    <2> QED
      BY <2>1, <2>2, <2>3
  <1>3. t \in Seq(Steps) /\ StartSteps \subseteq Steps
    BY <1>1, SeqMonotonic DEF StartSteps
  <1>4. \A i \in DOMAIN s : s[i] \in {"retire_committed", "discard_committed"}
    BY DEF RetirePlan
  <1>5. InstallPlan(kind) = s \o t
    <2>1. <<"identify">> \in Seq(Steps) /\ StartPlan \in Seq(Steps)
      BY DEF StartPlan, Steps, StoreOperation
    <2> HIDE DEF s
    <2> QED
      BY <1>2, <2>1, ConcatAssociative DEF InstallPlan, s
  <1>6. \A x \in {"retire_committed", "discard_committed"} :
           \A y \in StartSteps \ {"retire_committed", "discard_committed"} :
              Rank[x] < Rank[y]
    BY StartStepsAre DEF Rank
  <1>7. ~Exposed(s, {"discard_committed"}, {"retire_committed"}) \/ kind # "committed"
    BY DEF RetirePlan, Exposed
  <1>8. kind = "committed" => \E i \in DOMAIN s : s[i] = "retire_committed"
    BY DEF RetirePlan
  <1> HIDE DEF s, t
  <1>9. s \o t \in Seq(StartSteps) /\ Ordered(s \o t)
    <2>1. \A i \in DOMAIN t : t[i] \in StartSteps
      BY <1>1, ElementOfSeq, LenProperties
    <2>2. \A i \in DOMAIN s, j \in DOMAIN t : Rank[s[i]] < Rank[t[j]]
      BY <1>1, <1>4, <1>6, <2>1
    <2> QED
      BY <1>1, <1>2, <1>3, <2>2, ConcatProperties, OrderedConcat
  <1>10. ASSUME NEW X, NEW Y, Exposed(s \o t, X, Y),
                X \cap {"retire_committed", "discard_committed"} = {}
         PROVE  Exposed(t, X, Y) /\ (kind = "committed" => "retire_committed" \notin Y)
    <2>1. ~Exposed(s, X, Y)
      BY <1>4, <1>10 DEF Exposed
    <2> QED
      BY <1>2, <1>3, <1>8, <1>10, <2>1, ExposedConcat
  <1>11. kind = "committed" => ~Exposed(s \o t, {"discard_committed"}, {"retire_committed"})
    BY <1>2, <1>3, <1>7, <1>8, ExposedConcat
  <1>12. /\ Between(4, 14) \cap {"retire_committed", "discard_committed"} = {}
         /\ Between(6, 14) \cap {"retire_committed", "discard_committed"} = {}
         /\ Between(3, 10) \cap {"retire_committed", "discard_committed"} = {}
         /\ Between(11, 14) \cap {"retire_committed", "discard_committed"} = {}
         /\ {"stage"} \cap {"retire_committed", "discard_committed"} = {}
    BY BetweenAre
  <1> QED
    BY <1>1, <1>5, <1>9, <1>10, <1>11, <1>12

-----------------------------------------------------------------------------
(* The lists that failing steps and recovery begin. *)

LEMMA EmptyList == EndList(<<>>) /\ NoCommit(<<>>)
  BY ExposedEmpty DEF EndList, Ordered, NoCommit

LEMMA RebootList ==
    EndList(<<"reboot_previous">>) /\ NoCommit(<<"reboot_previous">>)
  BY EndStepsAre DEF EndList, Ordered, NoCommit, Exposed

\* A list without the steps that rely on something.
Independent == {"close", "abort", "reboot_previous", "stop_watchdog"}

LEMMA IndependentList ==
    ASSUME NEW s \in Seq(Independent)
    PROVE  /\ ArchiveFirst(s) /\ PreparedFirst(s) /\ RetiredFirst(s) /\ RollbackFirst(s)
           /\ RequestFirst(s) /\ DecidedFirst(s) /\ NoRollback(s) /\ CommitFirst(s)
           /\ NoCommit(s)
  BY ExposedFree DEF Independent, ArchiveFirst, PreparedFirst, RetiredFirst, RollbackFirst,
     RequestFirst, DecidedFirst, NoRollback, CommitFirst, NoCommit

\* What is left when a request cannot be loaded.
LEMMA DiscardList ==
    LET s == <<"discard_request">> \o
             IF boot = "tryboot" THEN <<"reboot_previous">> ELSE <<>>
    IN  EndList(s) /\ NoCommit(s)
  <1> DEFINE s == <<"discard_request">>
             t == IF boot = "tryboot" THEN <<"reboot_previous">> ELSE <<>>
  <1>1. EndList(s) /\ s \in Seq(Steps) /\ NoCommit(s)
    BY EndStepsAre DEF EndList, Ordered, NoCommit, Exposed, Steps, StoreOperation
  <1>2. EndList(t) /\ NoCommit(t)
    BY EmptyList, RebootList
  <1>3. t \in Seq(Steps)
    BY <1>2, SeqMonotonic DEF EndList, EndSteps
  <1>4. \A i \in DOMAIN s, j \in DOMAIN t : Rank[s[i]] < Rank[t[j]]
    BY SMTT(30) DEF Rank
  <1> HIDE DEF s, t
  <1>5. EndList(s \o t)
    BY <1>1, <1>2, <1>4, EndListConcat
  <1>6. NoCommit(s \o t)
    BY <1>1, <1>2, <1>3, ExposedConcat DEF NoCommit
  <1> QED
    BY <1>5, <1>6 DEF s, t

\* The lists that begin with closing the archive.
LEMMA CloseLists ==
    ASSUME NEW t \in {DiscardDownloadedRequest, CleanupTransaction,
                      CleanupRolledBackTransaction, RollBackAndClean}
    PROVE  /\ EndList(<<"close">> \o t) /\ NoCommit(<<"close">> \o t)
           /\ \A X, Y : Exposed(<<"close">> \o t, X, Y) /\ "close" \notin X
                           => Exposed(t, X, Y)
  <1>1. EndList(t) /\ NoCommit(t)
    BY DiscardDownloadedList, CleanupList, CleanupRolledBackList, RollBackAndCleanList
  <1>2. ~Exposed(t, {"close"}, {})
    <2>1. CASE t = DiscardDownloadedRequest
      BY <2>1 DEF DiscardDownloadedRequest, Exposed
    <2>2. CASE t = CleanupTransaction
      BY <2>2 DEF CleanupTransaction, Exposed
    <2>3. CASE t = CleanupRolledBackTransaction
      BY <2>3 DEF CleanupRolledBackTransaction, Exposed
    <2>4. CASE t = RollBackAndClean
      <3> DEFINE r == <<"rollback">>
                 c == CleanupRolledBackTransaction
      <3>1. r \in Seq(Steps) /\ c \in Seq(Steps)
        BY DEF CleanupRolledBackTransaction, Steps, StoreOperation
      <3>2. ~Exposed(r, {"close"}, {}) /\ ~Exposed(c, {"close"}, {})
        BY DEF CleanupRolledBackTransaction, Exposed
      <3>3. t = r \o c
        BY <2>4 DEF RollBackAndClean
      <3> HIDE DEF r, c
      <3> QED
        BY <3>1, <3>2, <3>3, ExposedConcat
    <2> QED
      BY <2>1, <2>2, <2>3, <2>4
  <1>3. \A i \in DOMAIN t : t[i] # "close"
    BY <1>2 DEF Exposed
  <1> QED
    BY <1>1, <1>3, CloseThen DEF NoCommit

LEMMA RecoveryList ==
    ASSUME NEW step, NEW outcome
    PROVE  EndList(Recovery(step, outcome)) /\ NoCommit(Recovery(step, outcome))
  <1>1. /\ EndList(AfterFailedCleanup) /\ NoCommit(AfterFailedCleanup)
    BY FailSafeList, EmptyList DEF AfterFailedCleanup
  <1>2. RollbackIfStarted \in {RollBackAndClean, CleanupRolledBackTransaction}
    BY DEF RollbackIfStarted
  <1>3. /\ EndList(<<"close">> \o RollbackIfStarted)
        /\ NoCommit(<<"close">> \o RollbackIfStarted)
    BY <1>2, CloseLists
  <1>4. /\ EndList(<<"close">> \o DiscardDownloadedRequest)
        /\ NoCommit(<<"close">> \o DiscardDownloadedRequest)
        /\ EndList(<<"close">> \o CleanupTransaction)
        /\ NoCommit(<<"close">> \o CleanupTransaction)
    BY CloseLists
  <1>5. EndList(DiscardDownloadedRequest) /\ NoCommit(DiscardDownloadedRequest)
    BY DiscardDownloadedList
  <1> QED
    BY <1>1, <1>3, <1>4, <1>5, EmptyList, AbortList, RollBackAndCleanList,
       RollBackAndRebootList
    DEF Recovery

LEMMA ResumeList ==
    ASSUME NEW found
    PROVE  /\ EndList(ResumePlan(found))
           /\ NoCommit(ResumePlan(found)) \/ CandidateHealthy(found)
  <1>1. EndList(HealthyPlan)
    BY HealthyList
  <1> QED
    BY <1>1, CleanupRolledBackList, FailSafeList, RetainList, RollBackAndCleanList,
       RollBackAndRebootList
    DEF ResumePlan, HealthyPlan

-----------------------------------------------------------------------------
(* The request store keeps its promises. *)

\* The store is touched only by its own steps, a call of it, the reading of its
\* result and a power cut.
LEMMA StoreFrame ==
    ASSUME [Next]_vars
    PROVE  \/ UNCHANGED storeVars
           \/ \E step \in DOMAIN StoreOperation : CallStore(step)
           \/ RunStore
           \/ StoreCallFails("failed") \/ StoreCallFails("progress")
           \/ result' = "none" /\ UNCHANGED <<record, payload, part, call>>
           \/ StoreLosesPower
  <1> USE DEF DiskUnchanged, Down
  <1>1. CASE Work
    <2>1. CASE Return \/ Identify \/ ArchiveStep \/ PreparedStep
      BY <2>1 DEF Return, Identify, ArchiveStep, PreparedStep
    <2>2. CASE \E step \in DOMAIN StoreOperation : CallStore(step)
      BY <2>2
    <2>3. CASE RunStore
      BY <2>3
    <2>4. CASE \E step \in DOMAIN StoreOperation : StoreReturns(step)
      BY <2>4 DEF StoreReturns
    <2>5. CASE \E step \in InstallerSteps : InstallerStep(step) \/ InstallerRefuses(step)
      BY <2>5 DEF InstallerStep, InstallerRefuses
    <2>6. CASE RequestReboot \/ StopWatchdog \/ WatchdogFires \/ PowerOn \/ ArmWatchdog
      BY <2>6 DEF RequestReboot, StopWatchdog, WatchdogFires, PowerOn, ArmWatchdog
    <2>7. CASE RecoverPendingUpdate
      BY <2>7 DEF RecoverPendingUpdate
    <2> QED
      BY <1>1, <2>1, <2>2, <2>3, <2>4, <2>5, <2>6, <2>7 DEF Work
  <1>2. CASE Failing
    <2>1. CASE FailStore
      BY <2>1 DEF FailStore
    <2>2. CASE ArchiveFails \/ PreparedFails
      BY <2>2 DEF ArchiveFails, PreparedFails
    <2>3. CASE \E step \in InstallerSteps : InstallerFails(step)
      BY <2>3 DEF InstallerFails
    <2>4. CASE RebootFails \/ StopWatchdogFails \/ WatchdogFails \/ RecoveryReadFails
      BY <2>4 DEF RebootFails, StopWatchdogFails, WatchdogFails, RecoveryReadFails
    <2> QED
      BY <1>2, <2>1, <2>2, <2>3, <2>4 DEF Failing
  <1>3. CASE InstallCheckedUpdate \/ BadDownload \/ Cancel \/ PowerCut
    BY <1>3 DEF InstallCheckedUpdate, BadDownload, Cancel, PowerCut
  <1>4. CASE UNCHANGED vars
    BY <1>4 DEF vars
  <1> QED
    BY <1>1, <1>2, <1>3, <1>4 DEF Next

\* A call that may begin keeps everything: a request is saved for a request.
LEMMA StoreCalled ==
    ASSUME OrchestratorInv, NEW step \in DOMAIN StoreOperation, CallStore(step)
    PROVE  StoreTypeOK' /\ StoreInv'
  <1>1. /\ call' = [op |-> StoreOperation[step],
                    request |-> IF step = "persist" THEN self ELSE NoRequest,
                    at |-> 0]
        /\ result' = "none" /\ UNCHANGED <<record, payload, part>>
    BY DEF CallStore, Invoke
  <1>2. StoreOperation[step] \in Operations \ {"none"} /\ (StoreOperation[step] = "Save" => step = "persist")
    BY DEF StoreOperation, Operations
  <1>3. step = "persist" => self \in Requests
    <2> SUFFICES ASSUME step = "persist" PROVE self \in Requests
      OBVIOUS
    <2>1. todo \in Seq(Steps) /\ todo # <<>> /\ Head(todo) \in Between(4, 14)
      BY BetweenAre DEF CallStore, Do, OrchestratorInv, TypeOK
    <2>2. self # NoRequest
      BY <2>1, ExposedHead DEF OrchestratorInv, RequestInv
    <2> QED
      BY <2>2 DEF OrchestratorInv, TypeOK
  <1>4. StoreTypeOK'
    <2>1. call' \in [op : Operations, request : Requests \cup {NoRequest}, at : Nat]
      BY <1>1, <1>2, <1>3 DEF Operations
    <2> QED
      BY <1>1, <2>1 DEF OrchestratorInv, TypeOK, StoreTypeOK
  <1>5. SaveExact'
    BY <1>1, <1>2, <1>3, StoreAssumption DEF SaveExact, Payloads, StatePart
  <1>6. DiscardExact' /\ DiscardCommittedExact'
    BY <1>1 DEF DiscardExact, DiscardCommittedExact
  <1>7. RecordLoads' /\ OneRecord'
    BY <1>1 DEF OrchestratorInv, StoreInv, RecordLoads, OneRecord, Loads, Present,
                ReadVerifiedFile
  <1> QED
    BY <1>4, <1>5, <1>6, <1>7 DEF StoreInv

\* Save: whatever is in the way, the record is published over payloads that
\* are its own.
LEMMA SaveKeeps ==
    ASSUME StoreTypeOK, StoreInv, Save
    PROVE  StoreTypeOK' /\ StoreInv'
  <1> USE RequestAssumption, StoreAssumption
      DEF StoreTypeOK, Operations, Kinds, Payloads, StatePart, NoCall, Running,
          Continue, Finish, StoreInv, SaveExact, DiscardExact, DiscardCommittedExact,
          RecordLoads, OneRecord, Loads, Present, ReadVerifiedFile
  <1>1. CASE SaveCheck
    BY <1>1 DEF SaveCheck
  <1>2. ASSUME NEW i \in Payloads, SavePayload(i)
        PROVE  StoreTypeOK' /\ StoreInv'
    <2>1. CASE SaveTemporary(i, payload[i] = NoPayload)
      BY <2>1 DEF SaveTemporary
    <2>2. CASE Running("Save", i) /\ payload[i] # NoPayload
      BY <1>2, <2>2 DEF SavePayload, SaveTemporary, VerifyFile
    <2>3. CASE /\ Running("Save", i) /\ payload[i] = NoPayload
               /\ payload' = [payload EXCEPT ![i] = ReleaseOf[call.request]]
               /\ part' = [part EXCEPT ![i] = "none"]
               /\ Continue /\ UNCHANGED record
      <3>1. ReleaseOf[call.request] \in Releases /\ call.request \in Requests
        BY <2>3
      <3>2. \A k \in {"active", "committed"} : ~Present(k)
        BY <2>3
      <3>3. StoreTypeOK'
        BY <2>3, <3>1, SMTT(30)
      <3>4. SaveExact'
        BY <2>3, <3>1
      <3> QED
        BY <2>3, <3>2, <3>3, <3>4
    <2> QED
      BY <1>2, <2>1, <2>2, <2>3 DEF SavePayload
  <1>3. CASE SaveRecord
    <2>1. CASE SaveTemporary(StatePart, ~Present("active"))
      BY <2>1 DEF SaveTemporary
    <2>2. CASE Running("Save", StatePart) /\ Present("active")
      BY <1>3, <2>2 DEF SaveRecord, SaveTemporary
    <2>3. CASE /\ Running("Save", StatePart) /\ ~Present("active")
               /\ record' = [record EXCEPT !["active"] = call.request]
               /\ part' = [part EXCEPT ![StatePart] = "none"]
               /\ Continue /\ UNCHANGED payload
      <3>1. /\ call.request \in Requests /\ ~Present("committed") /\ ~Present("retiring")
            /\ \A i \in Payloads : payload[i] = ReleaseOf[call.request]
        BY <2>3
      <3>2. StoreTypeOK'
        BY <2>3, <3>1
      <3>3. RecordLoads'
        BY <2>3, <3>1
      <3>4. OneRecord'
        BY <2>3, <3>1
      <3> QED
        BY <2>3, <3>1, <3>2, <3>3, <3>4
    <2> QED
      BY <1>3, <2>1, <2>2, <2>3 DEF SaveRecord
  <1>4. CASE SaveDone
    BY <1>4 DEF SaveDone
  <1> QED
    BY <1>1, <1>2, <1>3, <1>4 DEF Save

LEMMA PayloadRemoved ==
    ASSUME StoreTypeOK, StoreInv,
           NEW op \in {"Discard", "DiscardCommitted"}, NEW i \in Payloads,
           RemovePayload(op, i)
    PROVE  StoreTypeOK' /\ StoreInv'
  <1> USE RequestAssumption, StoreAssumption DEF StoreTypeOK
  <1>1. /\ call.op = op /\ call.at >= 2 /\ call.at \in Nat
        /\ call' = [call EXCEPT !.at = call.at + 1]
        /\ record' = record /\ result' = result
    BY DEF RemovePayload, Running, Continue, Payloads
  <1>2. ~Present("active") /\ ~Present("committed")
    BY <1>1 DEF StoreInv, DiscardExact, DiscardCommittedExact
  <1>3. StoreTypeOK'
    <2>1. payload' \in [Payloads -> Releases \cup {NoPayload}]
      BY DEF RemovePayload
    <2>2. part' \in [1 .. StatePart -> {"none", "stale", "written"}]
      BY DEF RemovePayload
    <2> QED
      BY <1>1, <2>1, <2>2
  <1>4. SaveExact'
    BY <1>1 DEF SaveExact
  <1>5. DiscardExact' /\ DiscardCommittedExact'
    BY <1>1, <1>2 DEF StoreInv, DiscardExact, DiscardCommittedExact, Present
  <1>6. RecordLoads' /\ OneRecord'
    BY <1>1, <1>2 DEF StoreInv, RecordLoads, OneRecord, Present
  <1> QED
    BY <1>3, <1>4, <1>5, <1>6 DEF StoreInv

\* The record of one kind becomes that of another.
LEMMA RecordRenamed ==
    ASSUME StoreTypeOK, StoreInv, NEW from \in Kinds, NEW to \in {"committed", "retiring"},
           from # "retiring", from # to, ~Present(to), RenameRecord(from, to),
           UNCHANGED payload
    PROVE  /\ record' \in [Kinds -> Requests \cup {NoRequest}]
           /\ RecordLoads' /\ OneRecord'
  <1> USE DEF StoreTypeOK, Kinds
  <1>1. \A k \in Kinds : record'[k] = IF k = to THEN record[from]
                                     ELSE IF k = from THEN NoRequest ELSE record[k]
    BY DEF RenameRecord
  <1>2. record' \in [Kinds -> Requests \cup {NoRequest}]
    BY DEF RenameRecord
  <1>3. RecordLoads'
    BY <1>1 DEF StoreInv, RecordLoads, Loads, Present, ReadVerifiedFile
  <1>4. OneRecord'
    BY <1>1 DEF StoreInv, OneRecord, Present
  <1> QED
    BY <1>2, <1>3, <1>4

\* The removals: a payload goes only after the records that name it.
LEMMA DiscardKeeps ==
    ASSUME StoreTypeOK, StoreInv, Discard \/ Deactivate
    PROVE  StoreTypeOK' /\ StoreInv'
  <1> USE RequestAssumption, StoreAssumption
      DEF StoreTypeOK, Operations, Kinds, Payloads, StatePart, NoCall, Running,
          Continue, Finish, StoreInv, SaveExact, DiscardExact, DiscardCommittedExact,
          RecordLoads, OneRecord, Loads, Present, ReadVerifiedFile
  <1>1. CASE DiscardCheck
    BY <1>1 DEF DiscardCheck
  <1>2. CASE RemoveRecord("Discard", "active", 1)
    BY <1>2 DEF RemoveRecord
  <1>3. ASSUME NEW i \in Payloads, RemovePayload("Discard", i)
        PROVE  StoreTypeOK' /\ StoreInv'
    <2>1. call.op = "Discard" /\ call.at >= 2
      BY <1>3 DEF RemovePayload
    <2> QED
      BY <1>3, <2>1, PayloadRemoved
  <1>4. CASE /\ Running("Discard", AllRemoved) /\ Finish("ok")
             /\ UNCHANGED <<record, payload, part>>
    BY <1>4 DEF AllRemoved
  <1>5. CASE Deactivate
    BY <1>5 DEF Deactivate, RemoveRecord
  <1> QED
    BY <1>1, <1>2, <1>3, <1>4, <1>5 DEF Discard

LEMMA CommittedKeeps ==
    ASSUME StoreTypeOK, StoreInv, RetainCommitted \/ DiscardCommitted
    PROVE  StoreTypeOK' /\ StoreInv'
  <1> USE RequestAssumption, StoreAssumption
      DEF StoreTypeOK, Operations, Kinds, Payloads, StatePart, NoCall, Running,
          Continue, Finish, StoreInv, SaveExact, DiscardExact, DiscardCommittedExact,
          RecordLoads, OneRecord, Loads, Present, ReadVerifiedFile
  <1>1. CASE RetainCommitted
    <2>1. CASE /\ Running("RetainCommitted", 0) /\ ~Present("committed")
               /\ RenameRecord("active", "committed") /\ Continue
               /\ UNCHANGED <<payload, part>>
      <3>1. /\ record' \in [Kinds -> Requests \cup {NoRequest}]
            /\ RecordLoads' /\ OneRecord'
        BY <2>1, RecordRenamed
      <3> HIDE DEF RecordLoads, OneRecord
      <3> QED
        BY <2>1, <3>1
    <2>2. CASE call' = NoCall /\ result' \in {"ok", "failed"} /\ UNCHANGED <<record, payload, part>>
      BY <2>2
    <2>3. CASE /\ Running("RetainCommitted", 0) /\ Continue
               /\ UNCHANGED <<record, payload, part>>
      BY <2>3
    <2> QED
      BY <1>1, <2>1, <2>2, <2>3 DEF RetainCommitted
  <1>2. CASE RetireRecord
    <2>1. CASE /\ Running("DiscardCommitted", 0) /\ ~Present("active") /\ ~Present("retiring")
               /\ RenameRecord("committed", "retiring")
               /\ call' = [call EXCEPT !.at = 2] /\ UNCHANGED <<payload, part, result>>
      <3>1. /\ record' \in [Kinds -> Requests \cup {NoRequest}]
            /\ RecordLoads' /\ OneRecord'
        BY <2>1, RecordRenamed
      <3>2. record'["active"] = NoRequest /\ record'["committed"] = NoRequest
        BY <2>1 DEF RenameRecord
      <3> HIDE DEF RecordLoads, OneRecord
      <3> QED
        BY <2>1, <3>1, <3>2
    <2>2. CASE /\ Running("DiscardCommitted", 0) /\ ~Present("active") /\ ~Present("committed")
               /\ call' = [call EXCEPT !.at = 2] /\ UNCHANGED <<record, payload, part, result>>
      BY <2>2
    <2>3. CASE call' = NoCall /\ result' \in {"ok", "failed"} /\ UNCHANGED <<record, payload, part>>
      BY <2>3
    <2> QED
      BY <1>2, <2>1, <2>2, <2>3 DEF RetireRecord
  <1>3. ASSUME NEW i \in Payloads, RemovePayload("DiscardCommitted", i)
        PROVE  StoreTypeOK' /\ StoreInv'
    <2>1. call.op = "DiscardCommitted" /\ call.at >= 2
      BY <1>3 DEF RemovePayload
    <2> QED
      BY <1>3, <2>1, PayloadRemoved
  <1>4. CASE RemoveRecord("DiscardCommitted", "retiring", AllRemoved)
    BY <1>4 DEF RemoveRecord, AllRemoved
  <1>5. CASE /\ Running("DiscardCommitted", AllRemoved + 1) /\ Finish("ok")
             /\ UNCHANGED <<record, payload, part>>
    BY <1>5
  <1> QED
    BY <1>1, <1>2, <1>3, <1>4, <1>5 DEF DiscardCommitted

\* Nothing that the orchestrator, a failing call or a power cut does to the
\* store breaks its invariant.
LEMMA StoreInvStep ==
    ASSUME OrchestratorInv, [Next]_vars
    PROVE  StoreTypeOK' /\ StoreInv'
  <1>0. StoreTypeOK /\ StoreInv
    BY DEF OrchestratorInv, TypeOK
  <1>1. CASE \E step \in DOMAIN StoreOperation : CallStore(step)
    BY <1>1, StoreCalled
  <1>2. CASE RunStore
    BY <1>0, <1>2, SaveKeeps, DiscardKeeps, CommittedKeeps DEF RunStore, StoreStep
  <1> USE <1>0, RequestAssumption, StoreAssumption
      DEF StoreTypeOK, Operations, Kinds, Payloads, StatePart, NoCall, Finish,
          StoreInv, SaveExact, DiscardExact, DiscardCommittedExact,
          RecordLoads, OneRecord, Loads, Present, ReadVerifiedFile
  <1>3. CASE StoreCallFails("failed") \/ StoreCallFails("progress")
    <2>1. /\ call' = NoCall /\ result' \in {"failed", "progress"}
          /\ UNCHANGED <<record, payload>>
          /\ part' \in [DOMAIN part -> {"none", "stale", "written"}]
      BY <1>3 DEF StoreCallFails
    <2> QED
      BY <2>1
  <1>4. CASE StoreLosesPower
    <2>1. part' \in [1 .. StatePart -> {"none", "stale", "written"}]
      BY <1>4 DEF StoreLosesPower
    <2> QED
      BY <1>4, <2>1 DEF StoreLosesPower
  <1>5. CASE result' = "none" /\ UNCHANGED <<record, payload, part, call>>
    BY <1>5
  <1>6. CASE UNCHANGED storeVars
    BY <1>6 DEF storeVars
  <1> QED
    BY <1>1, <1>2, <1>3, <1>4, <1>5, <1>6, StoreFrame

-----------------------------------------------------------------------------
(* How the list changes. *)

Advance == todo # <<>> /\ todo' = Tail(todo) /\ pc' = pc

\* What a step does to the list, with what the request's owner needs of it.
ListFrame ==
    \/ UNCHANGED <<todo, pc, self>>
    \/ Executing /\ Advance /\ (IF Head(todo) = "identify"
                                 THEN self' \in used' \ used ELSE UNCHANGED self)
    \/ /\ Executing /\ EndList(todo') /\ NoCommit(todo') /\ UNCHANGED <<pc, self>>
       /\ todo # <<>> /\ Head(todo) # "identify"
    \/ /\ pc = "recover" /\ pc' = "resume" /\ EndList(todo')
       /\ self' = record["active"]
       /\ NoCommit(todo') \/ (boot = "tryboot" /\ watchdog = "owned")
    \/ /\ pc = "menu" /\ pc' = "start" /\ UNCHANGED self
       /\ \E kind \in {"none", "committed", "retiring"} : todo' = InstallPlan(kind)
    \/ /\ pc' \in {"off", "guard", "recover", "menu"} /\ todo' = <<>>
       /\ self' = NoRequest \/ (~Executing /\ UNCHANGED self)

LEMMA ListFramed ==
    ASSUME OrchestratorInv, [Next]_vars
    PROVE  ListFrame
  <1> USE DEF Do, Succeed, Become, Advance, Executing, control
  <1>0. ~Executing => todo = <<>>
    BY DEF OrchestratorInv, ListInv
  <1>1. \A step, outcome : Do(step) /\ step # "identify" /\ Become(Recovery(step, outcome))
                              => ListFrame
    BY RecoveryList DEF ListFrame
  <1>2. \A step : Do(step) /\ step # "identify" /\ Succeed => ListFrame
    BY DEF ListFrame
  <1>3. UNCHANGED control => ListFrame
    BY DEF ListFrame
  <1>4. Down => ListFrame
    BY DEF Down, ListFrame
  <1>5. CASE Return
    BY <1>5 DEF Return, ListFrame
  <1>6. CASE Identify
    BY <1>6 DEF Identify, ListFrame
  <1>7. CASE RunStore \/ FailStore \/ \E step \in DOMAIN StoreOperation : CallStore(step)
    BY <1>3, <1>7 DEF RunStore, FailStore, CallStore
  <1>8. ASSUME NEW step \in DOMAIN StoreOperation, StoreReturns(step)
        PROVE  ListFrame
    <2>1. step # "identify"
      BY DEF StoreOperation
    <2> QED
      BY <1>1, <1>2, <1>8, <2>1 DEF StoreReturns
  <1>9. CASE ArchiveStep
    BY <1>2, <1>3, <1>9 DEF ArchiveStep
  <1>10. CASE PreparedStep
    BY <1>2, <1>3, <1>10 DEF PreparedStep
  <1>11. ASSUME NEW step \in InstallerSteps,
                InstallerStep(step) \/ InstallerRefuses(step) \/ InstallerFails(step)
         PROVE  ListFrame
    <2>1. step # "identify"
      BY DEF InstallerSteps
    <2> QED
      BY <1>1, <1>2, <1>3, <1>11, <2>1 DEF InstallerStep, InstallerRefuses, InstallerFails
  <1>12. CASE RequestReboot \/ PowerCut \/ WatchdogFires
    BY <1>4, <1>12 DEF RequestReboot, PowerCut, WatchdogFires
  <1>13. CASE StopWatchdog \/ StopWatchdogFails
    BY <1>2, <1>13 DEF StopWatchdog, StopWatchdogFails
  <1>14. CASE PowerOn
    BY <1>0, <1>14 DEF PowerOn, ListFrame
  <1>15. CASE ArmWatchdog
    BY <1>0, <1>15 DEF ArmWatchdog, ListFrame
  <1>16. CASE WatchdogFails
    BY <1>0, <1>4, <1>16 DEF WatchdogFails, ListFrame
  <1>17. CASE RecoverPendingUpdate
    <2>1. CASE WatchdogMissing /\ Recover(<<"reboot_previous">>)
      BY <1>17, <2>1, RebootList DEF RecoverPendingUpdate, Recover, ListFrame
    <2>2. CASE NothingPending
      BY <1>0, <1>17, <2>2, RebootList DEF RecoverPendingUpdate, NothingPending, Recover, ListFrame
    <2>3. ASSUME NEW found \in Findings, Recover(ResumePlan(found))
          PROVE  ListFrame
      <3>1. CandidateHealthy(found) => boot = "tryboot" /\ watchdog = "owned"
        BY DEF CandidateHealthy, EvaluateCandidateHealth, Collect, NoEvidence
      <3> QED
        BY <1>17, <2>3, <3>1, ResumeList DEF RecoverPendingUpdate, Recover, ListFrame
    <2> QED
      BY <1>17, <2>1, <2>2, <2>3 DEF RecoverPendingUpdate
  <1>18. CASE RecoveryReadFails
    <2>1. CASE NothingPending
      BY <1>0, <1>18, <2>1, RebootList DEF RecoveryReadFails, NothingPending, Recover, ListFrame
    <2>2. CASE Recover(RequestPreviousFailSafe)
      BY <1>18, <2>2, FailSafeList DEF RecoveryReadFails, Recover, ListFrame
    <2>3. CASE Recover(<<"discard_request">> \o
                       IF boot = "tryboot" THEN <<"reboot_previous">> ELSE <<>>)
      BY <1>18, <2>3, DiscardList DEF RecoveryReadFails, Recover, ListFrame
    <2> QED
      BY <1>18, <2>1, <2>2, <2>3 DEF RecoveryReadFails
  <1>19. CASE ArchiveFails
    BY <1>1, <1>2, <1>19 DEF ArchiveFails
  <1>20. CASE PreparedFails
    BY <1>1, <1>20 DEF PreparedFails
  <1>21. CASE RebootFails
    BY <1>1, <1>21 DEF RebootFails
  <1>22. CASE InstallCheckedUpdate
    <2>1. \E kind \in {"none", "committed", "retiring"} : todo' = InstallPlan(kind)
      BY <1>22 DEF InstallCheckedUpdate, InstallPlan
    <2> QED
      BY <1>22, <2>1 DEF InstallCheckedUpdate, ListFrame
  <1>23. CASE BadDownload
    BY <1>1, <1>23 DEF BadDownload
  <1>24. CASE Cancel
    BY <1>1, <1>24 DEF Cancel
  <1>25. CASE UNCHANGED vars
    BY <1>3, <1>25 DEF vars
  <1> QED
    BY <1>5, <1>6, <1>7, <1>8, <1>9, <1>10, <1>11, <1>12, <1>13, <1>14, <1>15,
       <1>16, <1>17, <1>18, <1>19, <1>20, <1>21, <1>22, <1>23, <1>24, <1>25
    DEF Next, Work, Failing

LEMMA ListInvStep ==
    ASSUME OrchestratorInv, [Next]_vars
    PROVE  ListInv' /\ (todo \in Seq(Steps))'
  <1>0. EndSteps \subseteq Steps /\ StartSteps \subseteq Steps
    BY DEF EndSteps, StartSteps
  <1>1. /\ todo \in Seq(Steps) /\ Ordered(todo)
        /\ todo \in Seq(EndSteps) \/ (pc = "start" /\ todo \in Seq(StartSteps))
        /\ ~Executing => todo = <<>>
    BY DEF OrchestratorInv, ListInv, TypeOK
  <1>2. ListFrame
    BY ListFramed
  <1>3. CASE UNCHANGED <<todo, pc, self>>
    BY <1>1, <1>3 DEF ListInv, Executing, Ordered
  <1>4. CASE Executing /\ Advance
    <2>1. Ordered(Tail(todo))
      BY <1>1, <1>4, OrderedTail DEF Advance
    <2>2. todo \in Seq(EndSteps) => Tail(todo) \in Seq(EndSteps)
      BY <1>4, HeadTailProperties DEF Advance
    <2>3. todo \in Seq(StartSteps) => Tail(todo) \in Seq(StartSteps)
      BY <1>4, HeadTailProperties DEF Advance
    <2>4. Tail(todo) \in Seq(Steps)
      BY <1>1, <1>4, HeadTailProperties DEF Advance
    <2> QED
      BY <1>1, <1>4, <2>1, <2>2, <2>3, <2>4 DEF ListInv, Advance, Executing
  <1>5. CASE EndList(todo') /\ pc' \in {"start", "resume"}
    BY <1>0, <1>5, SeqMonotonic DEF ListInv, EndList, Executing
  <1>6. CASE pc' = "start" /\ \E kind \in {"none", "committed", "retiring"} : todo' = InstallPlan(kind)
    BY <1>0, <1>6, SeqMonotonic, InstallList DEF ListInv, Executing
  <1>7. CASE todo' = <<>>
    BY <1>7, EmptyList, <1>0, SeqMonotonic DEF ListInv, EndList
  <1> QED
    BY <1>2, <1>3, <1>4, <1>5, <1>6, <1>7 DEF ListFrame, Executing

-----------------------------------------------------------------------------
(* The store runs only for the head of the list. *)

\* A step of the store goes on with its call, or returns; a Save that succeeds
\* has published the request.
LEMMA StoreStepShape ==
    ASSUME StoreTypeOK, StoreInv, StoreStep
    PROVE  /\ call # NoCall
           /\ \/ /\ call'.op = call.op /\ call'.request = call.request
                 /\ UNCHANGED result
              \/ /\ call' = NoCall
                 /\ result' = "ok" /\ call.op = "Save" => record'["active"] = call.request
  <1> USE DEF StoreTypeOK, NoCall, Running, Continue, Finish
  <1>1. CASE Save
    <2>1. CASE SaveCheck
      BY <2>1 DEF SaveCheck
    <2>2. ASSUME NEW i \in Payloads, SavePayload(i)
          PROVE  /\ call.op = "Save"
                 /\ \/ call'.op = call.op /\ call'.request = call.request /\ UNCHANGED result
                    \/ call' = NoCall /\ result' = "failed"
      BY <2>2 DEF SavePayload, SaveTemporary
    <2>3. CASE SaveRecord
      BY <2>3 DEF SaveRecord, SaveTemporary
    <2>4. CASE SaveDone
      <3>1. record["active"] = call.request
        BY <2>4, StoreAssumption DEF SaveDone, StoreInv, SaveExact, StatePart
      <3> QED
        BY <2>4, <3>1 DEF SaveDone
    <2> QED
      BY <1>1, <2>1, <2>2, <2>3, <2>4 DEF Save
  <1>2. CASE Discard \/ Deactivate
    BY <1>2 DEF Discard, Deactivate, DiscardCheck, RemoveRecord, RemovePayload
  <1>3. CASE RetainCommitted
    BY <1>3 DEF RetainCommitted
  <1>4. CASE DiscardCommitted
    BY <1>4 DEF DiscardCommitted, RetireRecord, RemoveRecord, RemovePayload
  <1> QED
    BY <1>1, <1>2, <1>3, <1>4 DEF StoreStep

\* The step at the head of the list is one of the store.
Busy == \E step \in DOMAIN StoreOperation : Do(step)

LEMMA IdleUnlessBusy ==
    ASSUME OrchestratorInv
    PROVE  Busy \/ (call = NoCall /\ result = "none")
  BY DEF OrchestratorInv, CallInv, Busy

\* Every other step finds the store idle and leaves it alone.
LEMMA CallFramed ==
    ASSUME OrchestratorInv, [Next]_vars
    PROVE  \/ call' = NoCall /\ result' = "none"
           \/ \E step \in DOMAIN StoreOperation : CallStore(step)
           \/ StoreStep /\ UNCHANGED control
           \/ (StoreCallFails("failed") \/ StoreCallFails("progress")) /\ UNCHANGED control
           \/ UNCHANGED vars
  <1> DEFINE Idle == call' = NoCall /\ result' = "none"
  <1>0. Busy \/ (call = NoCall /\ result = "none")
    BY IdleUnlessBusy
  <1>1. ~Busy /\ UNCHANGED <<call, result>> => Idle
    BY <1>0
  <1>2. Busy => /\ Executing /\ todo # <<>>
                /\ Head(todo) \in {"persist", "discard_request", "deactivate",
                                   "retain", "discard_committed"}
    BY DEF Busy, Do, StoreOperation, Executing
  <1>3. \A step : /\ Do(step)
                  /\ step \notin {"persist", "discard_request", "deactivate",
                                  "retain", "discard_committed"}
                  => ~Busy
    BY <1>2 DEF Do
  <1> HIDE DEF Idle
  <1>4. Down => Idle
    BY DEF Down, StoreLosesPower, Idle
  <1> USE <1>1, <1>3 DEF storeVars, DiskUnchanged
  <1>5. Return => Idle
    BY <1>2 DEF Return
  <1>6. Identify => Idle
    BY DEF Identify
  <1>7. CASE RunStore \/ FailStore
    BY <1>7 DEF RunStore, FailStore
  <1>8. ASSUME NEW step \in DOMAIN StoreOperation, StoreReturns(step)
        PROVE  Idle
    BY <1>8 DEF StoreReturns, Idle
  <1>9. ArchiveStep => Idle
    BY DEF ArchiveStep
  <1>10. PreparedStep => Idle
    BY DEF PreparedStep
  <1>11. ASSUME NEW step \in InstallerSteps,
                InstallerStep(step) \/ InstallerRefuses(step) \/ InstallerFails(step)
         PROVE  Idle
    BY <1>11 DEF InstallerStep, InstallerRefuses, InstallerFails, InstallerSteps
  <1>12. (RequestReboot \/ PowerCut \/ WatchdogFires) => Idle
    BY <1>4 DEF RequestReboot, PowerCut, WatchdogFires
  <1>13. (StopWatchdog \/ StopWatchdogFails) => Idle
    BY DEF StopWatchdog, StopWatchdogFails
  <1>14. (PowerOn \/ ArmWatchdog) => Idle
    BY <1>2 DEF PowerOn, ArmWatchdog, Executing
  <1>15. WatchdogFails => Idle
    BY <1>2, <1>4 DEF WatchdogFails, Executing
  <1>16. (RecoverPendingUpdate \/ RecoveryReadFails) => Idle
    BY <1>2 DEF RecoverPendingUpdate, RecoveryReadFails, Executing
  <1>17. ArchiveFails => Idle
    BY DEF ArchiveFails
  <1>18. PreparedFails => Idle
    BY DEF PreparedFails
  <1>19. RebootFails => Idle
    BY DEF RebootFails
  <1>20. InstallCheckedUpdate => Idle
    BY <1>2 DEF InstallCheckedUpdate, Executing
  <1>21. BadDownload => Idle
    BY DEF BadDownload
  <1>22. Cancel => Idle
    BY DEF Cancel
  <1> QED
    BY <1>5, <1>6, <1>7, <1>8, <1>9, <1>10, <1>11, <1>12, <1>13, <1>14, <1>15,
       <1>16, <1>17, <1>18, <1>19, <1>20, <1>21, <1>22
    DEF Next, Work, Failing, Idle

LEMMA CallInvStep ==
    ASSUME OrchestratorInv, [Next]_vars
    PROVE  CallInv'
  <1>0. StoreTypeOK /\ StoreInv /\ CallInv
    BY DEF OrchestratorInv, TypeOK
  <1>1. CASE call' = NoCall /\ result' = "none"
    BY <1>1 DEF CallInv
  <1>2. ASSUME NEW step \in DOMAIN StoreOperation, CallStore(step)
        PROVE  CallInv'
    <2>1. /\ call' = [op |-> StoreOperation[step],
                      request |-> IF step = "persist" THEN self ELSE NoRequest,
                      at |-> 0]
          /\ result' = "none" /\ UNCHANGED control /\ Do(step)
      BY <1>2 DEF CallStore, Invoke
    <2>2. call'.op = StoreOperation[step] /\ call' # NoCall
      BY <2>1 DEF NoCall, StoreOperation
    <2>3. call'.op = "Save" => call'.request = self'
      BY <2>1, <2>2 DEF StoreOperation, control
    <2>4. Do(step)'
      BY <2>1 DEF Do, control
    <2> QED
      BY <2>1, <2>2, <2>3, <2>4 DEF CallInv
  <1>3. CASE StoreStep /\ UNCHANGED control
    <2>1. call # NoCall
      BY <1>0, <1>3, StoreStepShape
    <2>2. PICK step \in DOMAIN StoreOperation :
             /\ Do(step) /\ call.op = StoreOperation[step]
             /\ call.op = "Save" => call.request = self
      BY <1>0, <2>1 DEF CallInv
    <2>3. Do(step)' /\ self' = self
      BY <1>3, <2>2 DEF Do, control
    <2>4. result = "none"
      BY <1>0, <2>1 DEF CallInv
    <2>5. CASE call'.op = call.op /\ call'.request = call.request /\ UNCHANGED result
      BY <2>2, <2>3, <2>4, <2>5 DEF CallInv
    <2>6. CASE /\ call' = NoCall
               /\ result' = "ok" /\ call.op = "Save" => record'["active"] = call.request
      <3>1. Do("persist")' => step = "persist"
        BY <2>3 DEF Do
      <3>2. Do("persist")' => call.op = "Save"
        BY <2>2, <3>1 DEF StoreOperation
      <3> QED
        BY <2>2, <2>3, <2>6, <3>2 DEF CallInv
    <2> QED
      BY <1>0, <1>3, <2>5, <2>6, StoreStepShape
  <1>4. CASE (StoreCallFails("failed") \/ StoreCallFails("progress")) /\ UNCHANGED control
    <2>1. call # NoCall /\ call' = NoCall /\ result' # "ok"
      BY <1>4 DEF StoreCallFails, Finish
    <2>2. PICK step \in DOMAIN StoreOperation : Do(step)
      BY <1>0, <2>1 DEF CallInv
    <2>3. Do(step)'
      BY <1>4, <2>2 DEF Do, control
    <2> QED
      BY <2>1, <2>3 DEF CallInv
  <1>5. CASE UNCHANGED vars
    BY <1>0, <1>5 DEF vars, storeVars, control, CallInv, Do
  <1> QED
    BY <1>1, <1>2, <1>3, <1>4, <1>5, CallFramed

-----------------------------------------------------------------------------
(* Whose request it is. *)

\* What the store does to the records, by the step it runs for.
RecordFrame ==
    \/ record' = record
    \/ Do("persist") /\ record' = [record EXCEPT !["active"] = self]
    \/ /\ Do("discard_request") \/ Do("deactivate")
       /\ record' = [record EXCEPT !["active"] = NoRequest]
    \/ /\ Do("retain") /\ ~Present("committed")
       /\ record' = [record EXCEPT !["committed"] = record["active"],
                                   !["active"] = NoRequest]
    \/ /\ Do("discard_committed") /\ ~Present("active")
       /\ record'["active"] = record["active"]
       /\ record'["committed"] \in {record["committed"], NoRequest}

LEMMA RecordFramed ==
    ASSUME OrchestratorInv, StoreStep
    PROVE  RecordFrame
  <1>0. StoreTypeOK /\ StoreInv /\ CallInv
    BY DEF OrchestratorInv, TypeOK
  <1>1. PICK step \in DOMAIN StoreOperation :
           /\ Do(step) /\ call.op = StoreOperation[step]
           /\ call.op = "Save" => call.request = self
    BY <1>0, StoreStepShape DEF CallInv
  <1>2. /\ call.op = "Save" => step = "persist"
        /\ call.op = "Discard" => step = "discard_request"
        /\ call.op = "Deactivate" => step = "deactivate"
        /\ call.op = "RetainCommitted" => step = "retain"
        /\ call.op = "DiscardCommitted" => step = "discard_committed"
    BY <1>1 DEF StoreOperation
  <1> USE <1>0, <1>1, <1>2 DEF RecordFrame, Running, StoreTypeOK, Kinds
  <1>3. CASE Save
    BY <1>3 DEF Save, SaveCheck, SavePayload, SaveTemporary, SaveRecord, SaveDone
  <1>4. CASE Discard \/ Deactivate
    BY <1>4 DEF Discard, Deactivate, DiscardCheck, RemoveRecord, RemovePayload
  <1>5. CASE RetainCommitted
    BY <1>5 DEF RetainCommitted, RenameRecord
  <1>6. CASE DiscardCommitted
    <2>1. CASE RetireRecord
      BY <2>1 DEF RetireRecord, RenameRecord
    <2>2. CASE RemoveRecord("DiscardCommitted", "retiring", AllRemoved)
      <3>1. ~Present("active")
        BY <2>2, StoreAssumption DEF RemoveRecord, StoreInv, DiscardCommittedExact, AllRemoved
      <3> QED
        BY <2>2, <3>1 DEF RemoveRecord
    <2> QED
      BY <1>6, <2>1, <2>2 DEF DiscardCommitted, RemovePayload
  <1> QED
    BY <1>3, <1>4, <1>5, <1>6 DEF StoreStep

\* Only a running operation of the store changes the records, and then nothing
\* else of the machine moves.
LEMMA RecordKept ==
    ASSUME [Next]_vars
    PROVE  record' = record \/ RunStore
  <1>1. CASE \E step \in DOMAIN StoreOperation : CallStore(step)
    BY <1>1 DEF CallStore, Invoke
  <1>2. CASE UNCHANGED storeVars
    BY <1>2 DEF storeVars
  <1>3. CASE StoreCallFails("failed") \/ StoreCallFails("progress") \/ StoreLosesPower
    BY <1>3 DEF StoreCallFails, StoreLosesPower
  <1> QED
    BY <1>1, <1>2, <1>3, StoreFrame

\* What the archive object does: a final name appears only in Finish, and a
\* part file is written only from Begin to the end of Finish.
ArchiveFrame ==
    \/ /\ Do("begin") /\ handle' = "Writing" /\ bound' = self
       /\ archiveFinal' = archiveFinal
    \/ /\ Do("finish") /\ handle = "Writing" /\ UNCHANGED <<handle, bound>>
       /\ archiveFinal' = [archiveFinal EXCEPT ![bound] = "whole"]
    \/ /\ handle' = "Writing" => handle = "Writing" /\ UNCHANGED bound
       /\ \A r \in Requests : archiveFinal'[r] \in {archiveFinal[r], "none"}

LEMMA ArchiveFramed ==
    ASSUME OrchestratorInv, [Next]_vars
    PROVE  ArchiveFrame /\ ArchiveTypeOK'
  <1> DEFINE Goal == ArchiveFrame /\ ArchiveTypeOK'
  <1> USE DEF archiveVars, archiveMemory, Handles
  <1>0. ArchiveTypeOK
    BY DEF OrchestratorInv, TypeOK
  <1>1. UNCHANGED archiveVars => Goal
    BY <1>0 DEF ArchiveFrame, ArchiveTypeOK
  <1>2. ArchiveLosesPower => Goal
    BY <1>0 DEF ArchiveLosesPower, Forgotten, ArchiveFrame, ArchiveTypeOK
  <1>3. ArchiveAbort => Goal
    BY <1>0, <1>1 DEF ArchiveAbort, Forgotten, ArchiveFrame, ArchiveTypeOK
  <1>4. ArchiveDestroy => Goal
    BY <1>0, <1>3 DEF ArchiveDestroy, Forgotten, ArchiveFrame, ArchiveTypeOK
  <1>5. ArchiveStep => Goal
    <2>1. Do("begin") /\ ArchiveBegin(self) => Goal
      BY <1>0 DEF ArchiveBegin, ArchiveFrame, ArchiveTypeOK, OrchestratorInv, TypeOK
    <2>2. ArchiveWrite("whole") => Goal
      BY <1>0 DEF ArchiveWrite, ArchiveFrame, ArchiveTypeOK
    <2>3. Do("finish") /\ ArchivePublish => Goal
      BY <1>0 DEF ArchivePublish, ArchiveFrame, ArchiveTypeOK
    <2>4. ArchiveFinished => Goal
      BY <1>0 DEF ArchiveFinished, ArchiveFrame, ArchiveTypeOK
    <2>5. ArchiveOpenRead(self) \/ ArchiveCloseRead => Goal
      BY <1>0 DEF ArchiveOpenRead, ArchiveCloseRead, ArchiveFrame, ArchiveTypeOK,
                  OrchestratorInv, TypeOK
    <2>6. ArchiveDiscardPart(self) \/ ArchiveDiscardFinal(self) => Goal
      BY <1>0 DEF ArchiveDiscardPart, ArchiveDiscardFinal, Forgotten, ArchiveFrame,
                  ArchiveTypeOK
    <2> QED
      BY <1>1, <1>3, <2>1, <2>2, <2>3, <2>4, <2>5, <2>6 DEF ArchiveStep
  <1>6. BadDownload => Goal
    BY <1>0 DEF BadDownload, ArchiveWrite, ArchiveFrame, ArchiveTypeOK
  <1>7. ArchiveFails => Goal
    <2>1. ArchiveFinishFails \/ ArchiveCloseRead \/ ArchiveAbortFails => Goal
      BY <1>0 DEF ArchiveFinishFails, ArchiveCloseRead, ArchiveAbortFails, ArchiveFrame,
                  ArchiveTypeOK
    <2>2. ArchiveDiscardFails(self) => Goal
      BY <1>0 DEF ArchiveDiscardFails, ArchiveFrame, ArchiveTypeOK, OrchestratorInv, TypeOK
    <2> QED
      BY <1>1, <2>1, <2>2 DEF ArchiveFails
  <1> HIDE DEF Goal, archiveVars, archiveMemory
  <1>8. Down => Goal
    BY <1>2 DEF Down
  <1>9. Work => Goal
    <2>1. Return => Goal
      BY <1>4 DEF Return
    <2>2. RequestReboot \/ WatchdogFires => Goal
      BY <1>8 DEF RequestReboot, WatchdogFires
    <2>3. ASSUME NEW step, CallStore(step) \/ StoreReturns(step) \/ InstallerStep(step)
                           \/ InstallerRefuses(step)
          PROVE  Goal
      BY <1>1, <2>3 DEF CallStore, StoreReturns, InstallerStep, InstallerRefuses, DiskUnchanged
    <2>4. Identify \/ RunStore \/ PreparedStep \/ StopWatchdog \/ PowerOn \/ ArmWatchdog
          \/ RecoverPendingUpdate => Goal
      BY <1>1 DEF Identify, RunStore, PreparedStep, StopWatchdog, PowerOn, ArmWatchdog,
                  RecoverPendingUpdate, DiskUnchanged
    <2> QED
      BY <1>5, <2>1, <2>2, <2>3, <2>4 DEF Work
  <1>10. Failing => Goal
    <2>1. WatchdogFails => Goal
      BY <1>1, <1>8 DEF WatchdogFails, DiskUnchanged
    <2>2. FailStore \/ PreparedFails \/ RebootFails \/ StopWatchdogFails
          \/ RecoveryReadFails => Goal
      BY <1>1 DEF FailStore, PreparedFails, RebootFails, StopWatchdogFails,
                  RecoveryReadFails, DiskUnchanged
    <2>3. ASSUME NEW step, InstallerFails(step)
          PROVE  Goal
      BY <1>1, <2>3 DEF InstallerFails, DiskUnchanged
    <2> QED
      BY <1>7, <2>1, <2>2, <2>3 DEF Failing
  <1>11. InstallCheckedUpdate \/ Cancel => Goal
    BY <1>1 DEF InstallCheckedUpdate, Cancel, DiskUnchanged
  <1>12. PowerCut => Goal
    BY <1>8 DEF PowerCut
  <1>13. UNCHANGED vars => Goal
    BY <1>1 DEF vars
  <1> QED
    BY <1>6, <1>9, <1>10, <1>11, <1>12, <1>13 DEF Next, Goal

\* The object does not outlive the call that built it.
LEMMA ArchiveForgotten ==
    ASSUME OrchestratorInv, [Next]_vars, pc' \notin {"start", "resume"}
    PROVE  handle' = "Idle" /\ self' = NoRequest
  <1>0. ~Executing => self = NoRequest /\ handle = "Idle"
    BY DEF OrchestratorInv, RequestInv
  <1> USE DEF Executing, archiveVars, archiveMemory
  <1>1. Down => handle' = "Idle" /\ self' = NoRequest
    BY DEF Down, ArchiveLosesPower, Forgotten
  <1>2. CASE UNCHANGED <<pc, handle, self>>
    BY <1>0, <1>2
  <1>3. CASE Return
    BY <1>3 DEF Return, ArchiveDestroy, ArchiveAbort, Forgotten
  <1>4. CASE pc \notin {"start", "resume"} /\ UNCHANGED <<handle, self>>
    BY <1>0, <1>4
  <1>5. ASSUME NEW step, Do(step), UNCHANGED pc
        PROVE  FALSE
    BY <1>5 DEF Do
  <1> USE DEF Succeed, Become, control, DiskUnchanged
  <1>6. CASE Work
    <2>1. CASE Identify \/ ArchiveStep \/ PreparedStep \/ StopWatchdog
      BY <1>5, <2>1 DEF Identify, ArchiveStep, PreparedStep, StopWatchdog
    <2>2. ASSUME NEW step, CallStore(step) \/ StoreReturns(step) \/ InstallerStep(step)
                           \/ InstallerRefuses(step)
          PROVE  FALSE
      BY <1>5, <2>2 DEF CallStore, StoreReturns, InstallerStep, InstallerRefuses
    <2>3. CASE RunStore
      BY <1>2, <2>3 DEF RunStore
    <2>4. CASE RequestReboot \/ WatchdogFires
      BY <1>1, <2>4 DEF RequestReboot, WatchdogFires
    <2>5. CASE PowerOn \/ ArmWatchdog
      BY <1>4, <2>5 DEF PowerOn, ArmWatchdog
    <2>6. CASE RecoverPendingUpdate
      BY <1>4, <2>6 DEF RecoverPendingUpdate, NothingPending, Recover
    <2> QED
      BY <1>3, <1>6, <2>1, <2>2, <2>3, <2>4, <2>5, <2>6 DEF Work
  <1>7. CASE Failing
    <2>1. CASE FailStore
      BY <1>2, <2>1 DEF FailStore
    <2>2. CASE WatchdogFails
      BY <1>1, <1>4, <2>2 DEF WatchdogFails
    <2>3. CASE RecoveryReadFails
      BY <1>4, <2>3 DEF RecoveryReadFails, NothingPending, Recover
    <2>4. CASE ArchiveFails \/ PreparedFails \/ RebootFails \/ StopWatchdogFails
      BY <1>5, <2>4 DEF ArchiveFails, PreparedFails, RebootFails, StopWatchdogFails
    <2>5. ASSUME NEW step, InstallerFails(step)
          PROVE  FALSE
      BY <1>5, <2>5 DEF InstallerFails
    <2> QED
      BY <1>7, <2>1, <2>2, <2>3, <2>4, <2>5 DEF Failing
  <1>8. CASE InstallCheckedUpdate \/ BadDownload \/ Cancel
    BY <1>5, <1>8 DEF InstallCheckedUpdate, BadDownload, Cancel
  <1>9. CASE PowerCut
    BY <1>1, <1>9 DEF PowerCut
  <1>10. CASE UNCHANGED vars
    BY <1>2, <1>10 DEF vars
  <1> QED
    BY <1>6, <1>7, <1>8, <1>9, <1>10 DEF Next

\* No step of Start waits in a list of recovery or clean-up, and the other way
\* round.
LEMMA EndListFree ==
    ASSUME NEW s, EndList(s), NEW X, NEW Y, X \subseteq StartSteps
    PROVE  ~Exposed(s, X, Y)
  <1>1. EndSteps \cap X = {}
    BY EndStepsAre, StartStepsAre
  <1> QED
    BY <1>1, ExposedFree DEF EndList

LEMMA StartListFree ==
    ASSUME NEW s \in Seq(StartSteps), NEW X, NEW Y, X \subseteq EndSteps
    PROVE  ~Exposed(s, X, Y)
  <1>1. StartSteps \cap X = {}
    BY EndStepsAre, StartStepsAre
  <1> QED
    BY <1>1, ExposedFree

LEMMA UsedKept ==
    ASSUME [Next]_vars
    PROVE  UNCHANGED used \/ Identify
  <1> USE DEF Down
  <1>1. CASE Work
    BY <1>1 DEF Work, Return, CallStore, RunStore, StoreReturns, ArchiveStep, PreparedStep,
       InstallerStep, InstallerRefuses, RequestReboot, StopWatchdog, WatchdogFires,
       PowerOn, ArmWatchdog, RecoverPendingUpdate
  <1>2. CASE Failing
    BY <1>2 DEF Failing, FailStore, ArchiveFails, PreparedFails, InstallerFails, RebootFails,
       StopWatchdogFails, WatchdogFails, RecoveryReadFails
  <1>3. CASE InstallCheckedUpdate \/ BadDownload \/ Cancel \/ PowerCut
    BY <1>3 DEF InstallCheckedUpdate, BadDownload, Cancel, PowerCut
  <1> QED
    BY <1>1, <1>2, <1>3 DEF Next, vars

\* The steps after a step are of a higher rank: none of X is left in the list
\* once the head has a rank above all of X, or is the only one of X.
LEMMA PassedBy ==
    ASSUME OrchestratorInv, todo # <<>>, NEW X, NEW Y,
           \A x \in X : x \in Steps /\ Rank[x] <= Rank[Head(todo)]
    PROVE  ~Exposed(Tail(todo), X, Y)
  <1>1. todo \in Seq(Steps) /\ Ordered(todo)
    BY DEF OrchestratorInv, TypeOK, ListInv
  <1> SUFFICES ASSUME Exposed(Tail(todo), X, Y) PROVE FALSE
    OBVIOUS
  <1>2. PICK i \in DOMAIN Tail(todo) : Tail(todo)[i] \in X
    BY DEF Exposed
  <1>3. i + 1 \in DOMAIN todo /\ todo[i + 1] = Tail(todo)[i] /\ 1 \in DOMAIN todo /\ 1 < i + 1
    BY <1>1, <1>2
  <1>4. Rank[todo[1]] < Rank[todo[i + 1]]
    BY <1>1, <1>3 DEF Ordered
  <1>5. Rank[todo[i + 1]] \in Nat /\ Rank[todo[1]] \in Nat
    BY <1>1, <1>3, RankNat
  <1> QED
    BY <1>2, <1>3, <1>4, <1>5, <1>1

LEMMA RequestInvStep ==
    ASSUME OrchestratorInv, [Next]_vars
    PROVE  RequestInv'
  <1>0. /\ RequestInv /\ todo \in Seq(Steps) /\ used \subseteq Requests
        /\ StoreTypeOK
    BY DEF OrchestratorInv, TypeOK
  <1>1. ListFrame /\ ArchiveFrame
    BY ListFramed, ArchiveFramed
  <1>2. used \subseteq used'
    BY UsedKept DEF Identify
  <1>3. CASE record' # record
    <2>1. RunStore /\ RecordFrame
      BY <1>3, RecordKept, RecordFramed DEF RunStore
    <2>2. UNCHANGED <<todo, pc, self, used, handle, bound>>
      BY <2>1 DEF RunStore, control, archiveVars, archiveMemory
    <2>3. Executing
      BY <1>3, <2>1 DEF RecordFrame, Do, Executing
    <2>4. record'["active"] \in {record["active"], NoRequest, self}
      BY <1>0, <2>1 DEF RecordFrame, StoreTypeOK, Kinds
    <2> QED
      BY <1>0, <2>2, <2>3, <2>4 DEF RequestInv, Executing
  <1>4. CASE UNCHANGED record
    <2>1. self' \in used' \cup {NoRequest}
      BY <1>0, <1>1, <1>2 DEF ListFrame, RequestInv
    <2>2. (record["active"] \in used \cup {NoRequest})'
      BY <1>0, <1>2, <1>4 DEF RequestInv
    <2>3. Executing' => record'["active"] \in {NoRequest, self'}
      <3>1. CASE Executing /\ UNCHANGED self
        BY <1>0, <1>4, <3>1 DEF RequestInv
      <3>2. CASE Executing /\ Advance /\ Head(todo) = "identify"
        <4>1. self = NoRequest
          BY <1>0, <3>2, ExposedHead DEF RequestInv, Advance
        <4> QED
          BY <1>0, <1>4, <3>2, <4>1 DEF RequestInv
      <3>3. CASE self' = record["active"]
        BY <1>4, <3>3
      <3>4. CASE pc = "menu" /\ pc' = "start" /\ UNCHANGED self
        <4>1. InstallCheckedUpdate
          <5> USE DEF Down, Succeed, Become, Do, control, Recover, NothingPending
          <5>1. ~Work
            BY <3>4 DEF Work, Return, Identify, CallStore, RunStore, StoreReturns, ArchiveStep,
               PreparedStep, InstallerStep, InstallerRefuses, RequestReboot, StopWatchdog,
               WatchdogFires, PowerOn, ArmWatchdog, RecoverPendingUpdate
          <5>2. ~Failing
            BY <3>4 DEF Failing, FailStore, ArchiveFails, PreparedFails, InstallerFails,
               RebootFails, StopWatchdogFails, WatchdogFails, RecoveryReadFails
          <5>3. ~BadDownload /\ ~Cancel /\ ~PowerCut /\ ~UNCHANGED vars
            BY <3>4 DEF BadDownload, Cancel, PowerCut, vars
          <5> QED
            BY <5>1, <5>2, <5>3 DEF Next
        <4> QED
          BY <1>4, <4>1 DEF InstallCheckedUpdate, Present
      <3> QED
        BY <1>1, <3>1, <3>2, <3>3, <3>4 DEF ListFrame, Executing
    <2>4. ~Executing' => self' = NoRequest /\ handle' = "Idle"
      BY ArchiveForgotten DEF Executing
    <2>5. handle' = "Writing" => bound' = self' /\ self' # NoRequest
      <3> SUFFICES ASSUME handle' = "Writing"
                   PROVE  bound' = self' /\ self' # NoRequest
        OBVIOUS
      <3>1. pc' \in {"start", "resume"}
        BY <2>4 DEF Executing
      <3>2. CASE Do("begin") /\ bound' = self
        <4>1. self # NoRequest
          BY <1>0, <3>2, ExposedHead, BetweenAre DEF Do, RequestInv
        <4>2. UNCHANGED self
          BY <1>1, <3>1, <3>2 DEF ListFrame, Do
        <4> QED
          BY <3>2, <4>1, <4>2
      <3>3. CASE handle = "Writing" /\ UNCHANGED bound
        <4>1. bound = self /\ self # NoRequest /\ Executing
          BY <1>0, <3>3 DEF RequestInv
        <4>2. Head(todo) # "identify" \/ todo = <<>>
          BY <1>0, <4>1, ExposedHead DEF RequestInv
        <4>3. UNCHANGED self
          BY <1>1, <3>1, <4>1, <4>2 DEF ListFrame, Executing, Advance
        <4> QED
          BY <3>3, <4>1, <4>3
      <3> QED
        BY <1>1, <3>2, <3>3 DEF ArchiveFrame
    <2>6. /\ Exposed(todo', {"identify"}, {}) => self' = NoRequest
          /\ Exposed(todo', Between(4, 14), {"identify"}) => self' # NoRequest
      <3>1. {"identify"} \subseteq StartSteps /\ Between(4, 14) \subseteq StartSteps
        BY BetweenAre, StartStepsAre
      <3>2. CASE UNCHANGED <<todo, self>>
        BY <1>0, <3>2 DEF RequestInv
      <3>3. CASE Advance /\ Head(todo) # "identify" /\ UNCHANGED self
        BY <1>0, <3>3, ExposedTail DEF Advance, RequestInv
      <3>4. CASE Advance /\ Head(todo) = "identify" /\ self' \in used' \ used
        <4>1. self' # NoRequest
          <5>1. used' \subseteq Requests
            BY <1>0, UsedKept DEF Identify
          <5> QED
            BY <3>4, <5>1, RequestAssumption
        <4>2. ~Exposed(Tail(todo), {"identify"}, {})
          <5>1. "identify" \in Steps /\ Rank["identify"] <= Rank[Head(todo)]
            BY <3>4 DEF Steps, Rank
          <5> QED
            BY <3>4, <5>1, PassedBy DEF Advance
        <4> QED
          BY <3>4, <4>1, <4>2 DEF Advance
      <3>5. CASE EndList(todo')
        BY <3>1, <3>5, EndListFree
      <3>6. CASE pc = "menu" /\ UNCHANGED self
                 /\ \E kind \in {"none", "committed", "retiring"} : todo' = InstallPlan(kind)
        BY <1>0, <3>6, InstallList DEF RequestInv, Executing
      <3>7. CASE todo' = <<>>
        BY <3>7, ExposedEmpty
      <3> QED
        BY <1>1, <3>2, <3>3, <3>4, <3>5, <3>6, <3>7 DEF ListFrame
    <2> QED
      BY <2>1, <2>2, <2>3, <2>4, <2>5, <2>6 DEF RequestInv
  <1> QED
    BY <1>3, <1>4

-----------------------------------------------------------------------------
(* The watchdog. *)

LEMMA FaultsKept ==
    ASSUME OrchestratorInv, [Next]_vars
    PROVE  faults' \in 0 .. MaxFaults /\ faults' >= faults
  <1>0. faults \in Nat /\ faults \in 0 .. MaxFaults
    BY FaultAssumption DEF OrchestratorInv, TypeOK
  <1> USE FaultAssumption
  <1>1. UNCHANGED faults \/ Fault => faults' \in 0 .. MaxFaults /\ faults' >= faults
    BY <1>0 DEF Fault
  <1>2. Work => UNCHANGED faults
    BY DEF Work, NoFault, Return, Identify, CallStore, RunStore, StoreReturns, ArchiveStep,
       PreparedStep, InstallerStep, InstallerRefuses, RequestReboot, StopWatchdog,
       WatchdogFires, PowerOn, ArmWatchdog, RecoverPendingUpdate
  <1>3. Failing => Fault \/ (faults' = faults + 2 /\ faults + 2 \in 0 .. MaxFaults)
    BY DEF Failing, FailStore, ArchiveFails, PreparedFails, InstallerFails, RebootFails,
       StopWatchdogFails, WatchdogFails, RecoveryReadFails
  <1>4. InstallCheckedUpdate \/ BadDownload \/ Cancel \/ PowerCut => UNCHANGED faults
    BY DEF InstallCheckedUpdate, BadDownload, Cancel, PowerCut, NoFault
  <1> QED
    BY <1>0, <1>1, <1>2, <1>3, <1>4 DEF Next, vars

\* Who changes what the system was started as, or the watchdog.
WatchFrame ==
    \/ UNCHANGED <<boot, watchdog>> /\ (pc' = "off" => pc = "off")
    \/ UNCHANGED boot /\ watchdog' = "off" /\ pc' = "off"
    \/ pc = "off" /\ pc' = "guard"
    \/ /\ pc = "guard" /\ pc' = "recover" /\ UNCHANGED boot
       /\ boot = "tryboot" => watchdog' = "owned"
    \/ /\ Do("stop_watchdog") /\ Advance /\ UNCHANGED boot
       /\ watchdog' = "off" => watchdog = "off"

LEMMA WatchFramed ==
    ASSUME OrchestratorInv, [Next]_vars
    PROVE  WatchFrame
  <1> USE DEF WatchFrame
  <1>1. Down => WatchFrame
    BY DEF Down
  <1>2. \A step : Do(step) /\ UNCHANGED <<boot, watchdog, pc>> => WatchFrame
    OBVIOUS
  <1> USE DEF Succeed, Become, control, machine, DiskUnchanged
  <1>3. CASE Work
    <2>1. CASE Return \/ Identify \/ ArchiveStep \/ PreparedStep
      BY <2>1 DEF Return, Identify, ArchiveStep, PreparedStep
    <2>2. ASSUME NEW step, CallStore(step) \/ StoreReturns(step) \/ InstallerStep(step)
                           \/ InstallerRefuses(step)
          PROVE  WatchFrame
      BY <2>2 DEF CallStore, StoreReturns, InstallerStep, InstallerRefuses
    <2>3. CASE RunStore \/ RecoverPendingUpdate
      BY <2>3 DEF RunStore, RecoverPendingUpdate, NothingPending, Recover
    <2>4. CASE RequestReboot \/ WatchdogFires
      BY <1>1, <2>4 DEF RequestReboot, WatchdogFires
    <2>5. CASE PowerOn \/ ArmWatchdog
      BY <2>5 DEF PowerOn, ArmWatchdog
    <2>6. CASE StopWatchdog
      BY <2>6 DEF StopWatchdog, Advance, Do
    <2> QED
      BY <1>3, <2>1, <2>2, <2>3, <2>4, <2>5, <2>6 DEF Work
  <1>4. CASE Failing
    <2>1. CASE WatchdogFails
      BY <1>1, <2>1 DEF WatchdogFails
    <2>2. CASE FailStore \/ ArchiveFails \/ PreparedFails \/ RebootFails
               \/ StopWatchdogFails \/ RecoveryReadFails
      BY <2>2 DEF FailStore, ArchiveFails, PreparedFails, RebootFails, StopWatchdogFails,
                  RecoveryReadFails, NothingPending, Recover
    <2>3. ASSUME NEW step, InstallerFails(step)
          PROVE  WatchFrame
      BY <2>3 DEF InstallerFails
    <2> QED
      BY <1>4, <2>1, <2>2, <2>3 DEF Failing
  <1>5. CASE InstallCheckedUpdate \/ BadDownload \/ Cancel
    BY <1>5 DEF InstallCheckedUpdate, BadDownload, Cancel
  <1>6. CASE PowerCut
    BY <1>1, <1>6 DEF PowerCut
  <1>7. CASE UNCHANGED vars
    BY <1>7 DEF vars
  <1> QED
    BY <1>3, <1>4, <1>5, <1>6, <1>7 DEF Next

\* A candidate without a watchdog: the early reboot failed with the watchdog,
\* and recovery has nothing to do but reboot.
UnguardedOK ==
    boot = "tryboot" /\ watchdog = "off" =>
       /\ pc = "recover" => faults >= 2
       /\ Executing => faults >= 3 \/ (faults >= 2 /\ todo = <<"reboot_previous">>)
       /\ pc = "menu" => faults >= 3

LEMMA UnguardedStep ==
    ASSUME OrchestratorInv, [Next]_vars
    PROVE  UnguardedOK'
  <1>0. UnguardedOK /\ (pc = "off" => watchdog = "off") /\ faults \in Nat
    BY FaultAssumption DEF OrchestratorInv, WatchdogInv, UnguardedOK, TypeOK
  <1>1. faults' \in Nat /\ faults' >= faults /\ WatchFrame
    BY FaultsKept, WatchFramed, FaultAssumption
  <1>2. CASE pc' \in {"off", "guard"}
    BY <1>2 DEF UnguardedOK, Executing
  <1>3. CASE pc' \notin {"off", "guard"} /\ ~(boot = "tryboot" /\ watchdog = "off")
    <2>1. ~(boot' = "tryboot" /\ watchdog' = "off")
      BY <1>1, <1>3 DEF WatchFrame
    <2> QED
      BY <2>1 DEF UnguardedOK
  <1>4. CASE boot = "tryboot" /\ watchdog = "off" /\ pc' \notin {"off", "guard"}
    <2>1. CASE faults >= 3
      BY <1>0, <1>1, <2>1 DEF UnguardedOK
    <2> USE <1>0, <1>1, <1>4 DEF UnguardedOK, Executing
    <2>2. CASE UNCHANGED <<pc, todo>>
      BY <2>2
    <2>3. CASE Executing /\ faults < 3
      <3>0. todo = <<"reboot_previous">>
        BY <2>3
      <3>1. \A step : Do(step) => step = "reboot_previous"
        BY <3>0 DEF Do
      <3>2. Do("reboot_previous") /\ Become(Recovery("reboot_previous", "failed")) /\ Fault
              => faults' >= 3
        BY <2>3 DEF Fault
      <3> USE DEF Down
      <3>3. CASE Work
        <4>1. ~Return /\ ~Identify /\ ~ArchiveStep /\ ~PreparedStep /\ ~StopWatchdog
          BY <3>0, <3>1 DEF Return, Identify, ArchiveStep, PreparedStep, StopWatchdog
        <4>2. \A step \in DOMAIN StoreOperation : ~CallStore(step) /\ ~StoreReturns(step)
          BY <3>1 DEF CallStore, StoreReturns, StoreOperation
        <4>3. \A step \in InstallerSteps : ~InstallerStep(step) /\ ~InstallerRefuses(step)
          BY <3>1 DEF InstallerSteps, InstallerStep, InstallerRefuses
        <4>4. ~WatchdogFires /\ ~PowerOn /\ ~ArmWatchdog /\ ~RecoverPendingUpdate
              /\ ~RequestReboot
          BY <2>3 DEF WatchdogFires, PowerOn, ArmWatchdog, RecoverPendingUpdate, RequestReboot
        <4>5. RunStore => UNCHANGED <<pc, todo>>
          BY DEF RunStore, control
        <4> QED
          BY <2>2, <3>3, <4>1, <4>2, <4>3, <4>4, <4>5 DEF Work
      <3>4. CASE Failing
        <4>1. CASE RebootFails
          <5>1. Fault
            BY <4>1 DEF RebootFails
          <5>2. faults' >= 3
            BY <2>3, <5>1 DEF Fault
          <5> QED
            BY <5>2
        <4>2. ~ArchiveFails /\ ~PreparedFails /\ ~StopWatchdogFails
          BY <3>1 DEF ArchiveFails, PreparedFails, StopWatchdogFails
        <4>3. \A step \in InstallerSteps : ~InstallerFails(step)
          BY <3>1 DEF InstallerSteps, InstallerFails
        <4>4. ~WatchdogFails /\ ~RecoveryReadFails
          BY <2>3 DEF WatchdogFails, RecoveryReadFails
        <4>5. FailStore => UNCHANGED <<pc, todo>>
          BY DEF FailStore, control
        <4> QED
          BY <2>2, <3>4, <4>1, <4>2, <4>3, <4>4, <4>5 DEF Failing
      <3>5. ~BadDownload /\ ~Cancel /\ ~InstallCheckedUpdate /\ ~PowerCut
        BY <2>3, <3>1 DEF BadDownload, Cancel, InstallCheckedUpdate, PowerCut
      <3>6. UNCHANGED vars => UNCHANGED <<pc, todo>>
        BY DEF vars, control
      <3> QED
        BY <2>2, <3>3, <3>4, <3>5, <3>6 DEF Next
    <2>4. CASE pc = "guard"
      <3>1. \A step : ~Do(step)
        BY <2>4 DEF Do
      <3>2. CASE Work
        <4> QED
          BY <2>4, <3>1, <3>2 DEF Work, Return, Identify, CallStore, RunStore, StoreReturns,
             ArchiveStep, PreparedStep, InstallerStep, InstallerRefuses, RequestReboot,
             StopWatchdog, WatchdogFires, PowerOn, ArmWatchdog, RecoverPendingUpdate, control
      <3>3. CASE Failing
        <4>1. CASE WatchdogFails
          BY <2>4, <4>1, FaultAssumption DEF WatchdogFails, Down
        <4>2. CASE FailStore
          BY <2>2, <4>2 DEF FailStore, control
        <4> QED
          BY <2>4, <3>1, <3>3, <4>1, <4>2 DEF Failing, ArchiveFails, PreparedFails, InstallerFails,
             RebootFails, StopWatchdogFails, RecoveryReadFails
      <3>4. ~BadDownload /\ ~Cancel /\ ~InstallCheckedUpdate /\ (PowerCut => pc' = "off")
        BY <2>4, <3>1 DEF BadDownload, Cancel, InstallCheckedUpdate, PowerCut, Down
      <3>5. UNCHANGED vars => UNCHANGED <<pc, todo>>
        BY DEF vars, control
      <3> QED
        BY <2>2, <3>2, <3>3, <3>4, <3>5 DEF Next
    <2>5. CASE pc = "recover"
      <3>1. \A step : ~Do(step)
        BY <2>5 DEF Do
      <3>2. WatchdogMissing
        BY DEF WatchdogMissing
      <3>3. CASE Work
        <4>1. CASE RecoverPendingUpdate
          BY <2>5, <3>2, <4>1 DEF RecoverPendingUpdate, Recover
        <4> QED
          BY <2>2, <2>5, <3>1, <3>3, <4>1 DEF Work, Return, Identify, CallStore, RunStore,
             StoreReturns, ArchiveStep, PreparedStep, InstallerStep, InstallerRefuses,
             RequestReboot, StopWatchdog, WatchdogFires, PowerOn, ArmWatchdog, control
      <3>4. CASE Failing
        <4>2. CASE FailStore
          BY <2>2, <4>2 DEF FailStore, control
        <4> QED
          BY <2>5, <3>1, <3>2, <3>4, <4>2 DEF Failing, ArchiveFails, PreparedFails, InstallerFails,
             RebootFails, StopWatchdogFails, RecoveryReadFails, WatchdogFails
      <3>5. ~BadDownload /\ ~Cancel /\ ~InstallCheckedUpdate /\ (PowerCut => pc' = "off")
        BY <2>5, <3>1 DEF BadDownload, Cancel, InstallCheckedUpdate, PowerCut, Down
      <3>6. UNCHANGED vars => UNCHANGED <<pc, todo>>
        BY DEF vars, control
      <3> QED
        BY <2>2, <3>3, <3>4, <3>5, <3>6 DEF Next
    <2>6. CASE pc = "off"
      <3>1. WatchFrame => pc' \in {"off", "guard"} \/ UNCHANGED <<boot, watchdog>>
        BY <2>6 DEF WatchFrame, Do
      <3>2. \A step : ~Do(step)
        BY <2>6 DEF Do
      <3>3. CASE Work
        BY <2>6, <3>2, <3>3, <2>2 DEF Work, Return, Identify, CallStore, RunStore, StoreReturns,
             ArchiveStep, PreparedStep, InstallerStep, InstallerRefuses, RequestReboot,
             StopWatchdog, WatchdogFires, PowerOn, ArmWatchdog, RecoverPendingUpdate, control
      <3>4. CASE Failing
        BY <2>2, <2>6, <3>2, <3>4 DEF Failing, FailStore, ArchiveFails, PreparedFails, InstallerFails,
             RebootFails, StopWatchdogFails, RecoveryReadFails, WatchdogFails, control
      <3>5. ~BadDownload /\ ~Cancel /\ ~InstallCheckedUpdate /\ ~PowerCut
        BY <2>6, <3>2 DEF BadDownload, Cancel, InstallCheckedUpdate, PowerCut, Down
      <3>6. UNCHANGED vars => UNCHANGED <<pc, todo>>
        BY DEF vars, control
      <3> QED
        BY <2>2, <3>3, <3>4, <3>5, <3>6 DEF Next
    <2>7. pc = "menu" => faults >= 3
      OBVIOUS
    <2>8. pc \in {"off", "guard", "recover", "menu", "start", "resume"}
      BY DEF OrchestratorInv, TypeOK
    <2> QED
      BY <2>1, <2>3, <2>4, <2>5, <2>6, <2>7, <2>8
  <1> QED
    BY <1>2, <1>3, <1>4

LEMMA WatchdogInvStep ==
    ASSUME OrchestratorInv, [Next]_vars
    PROVE  WatchdogInv'
  <1>0. WatchdogInv /\ todo \in Seq(Steps)
    BY DEF OrchestratorInv, TypeOK
  <1>1. WatchFrame /\ ListFrame /\ UnguardedOK'
    BY WatchFramed, ListFramed, UnguardedStep
  <1>2. pc' = "off" => watchdog' = "off"
    BY <1>0, <1>1 DEF WatchFrame, WatchdogInv, Do, Advance
  <1>3. ASSUME ~NoCommit(todo')
        PROVE  pc' = "resume" /\ boot' = "tryboot" /\ watchdog' = "owned"
    <2>1. Do("stop_watchdog") /\ Advance => FALSE
      <3> SUFFICES ASSUME Do("stop_watchdog"), Advance PROVE FALSE
        OBVIOUS
      <3>1. "commit" \in Steps /\ Rank["commit"] <= Rank[Head(todo)]
        BY SMTT(30) DEF Do, Steps, Rank
      <3> QED
        BY <1>3, <3>1, PassedBy DEF Advance, NoCommit
    <2>2. CASE UNCHANGED <<todo, pc>> \/ Advance
      <3>1. ~NoCommit(todo) /\ pc' = pc
        <4>1. Advance => ~NoCommit(todo)
          BY <1>0, <1>3, ExposedTail DEF NoCommit, Advance
        <4> QED
          BY <1>3, <2>2, <4>1 DEF Advance
      <3>2. pc = "resume" /\ boot = "tryboot" /\ watchdog = "owned"
        BY <1>0, <3>1 DEF WatchdogInv
      <3> QED
        BY <1>1, <2>1, <3>1, <3>2 DEF WatchFrame
    <2>3. CASE pc = "recover" /\ pc' = "resume" /\ boot = "tryboot" /\ watchdog = "owned"
      BY <1>1, <2>3 DEF WatchFrame, Do
    <2>4. CASE \E kind \in {"none", "committed", "retiring"} : todo' = InstallPlan(kind)
      BY <1>3, <2>4, InstallList, StartListFree, EndStepsAre DEF NoCommit
    <2>5. todo' # <<>>
      BY <1>3, EmptyList
    <2> QED
      BY <1>1, <1>3, <2>2, <2>3, <2>4, <2>5 DEF ListFrame
  <1> QED
    BY <1>1, <1>2, <1>3 DEF WatchdogInv, UnguardedOK, Executing

-----------------------------------------------------------------------------
(* Types. *)

\* The journal moves only by a step of the installer that its contract allows.
LEMMA JournalFramed ==
    ASSUME [Next]_vars
    PROVE  \/ UNCHANGED journal
           \/ \E step \in InstallerSteps :
                 Do(step) /\ InstallerMoves(step) /\ UNCHANGED <<control, record, used>>
                 /\ UNCHANGED <<archiveFinal, prepared, faults>>
  <1> USE DEF Down, DiskUnchanged
  <1>1. CASE Work
    <2>1. ASSUME NEW step \in InstallerSteps, InstallerStep(step)
          PROVE  \/ UNCHANGED journal
                 \/ /\ Do(step) /\ InstallerMoves(step) /\ UNCHANGED <<control, record, used>>
                    /\ UNCHANGED <<archiveFinal, prepared, faults>>
      BY <2>1 DEF InstallerStep, storeVars, archiveVars, NoFault
    <2>2. CASE \E step \in InstallerSteps : InstallerStep(step)
      BY <2>1, <2>2
    <2> QED
      BY <1>1, <2>2 DEF Work, Return, Identify, CallStore, RunStore, StoreReturns, ArchiveStep,
         PreparedStep, InstallerRefuses, RequestReboot, StopWatchdog, WatchdogFires, PowerOn,
         ArmWatchdog, RecoverPendingUpdate
  <1>2. CASE Failing
    BY <1>2 DEF Failing, FailStore, ArchiveFails, PreparedFails, InstallerFails, RebootFails,
       StopWatchdogFails, WatchdogFails, RecoveryReadFails
  <1>3. CASE InstallCheckedUpdate \/ BadDownload \/ Cancel \/ PowerCut
    BY <1>3 DEF InstallCheckedUpdate, BadDownload, Cancel, PowerCut
  <1> QED
    BY <1>1, <1>2, <1>3 DEF Next, vars

\* Whether the rollback can be finished is changed by the installer's own steps
\* and by what interrupts them.
LEMMA UndoTyped ==
    ASSUME undo \in Undos, [Next]_vars PROVE undo' \in Undos
  <1> USE DEF DiskUnchanged
  <1>1. CASE UNCHANGED undo
    BY <1>1
  <1>2. CASE Interrupted
    BY <1>2 DEF Interrupted, Undos
  <1>3. ASSUME NEW step \in InstallerSteps, InstallerMoves(step)
        PROVE  undo' \in Undos
    BY <1>3 DEF InstallerMoves, InstallerSteps, StageJournal, ArmJournal, HealthyJournal,
       CommitJournal, RollbackJournal, RetireJournal, Undos
  <1>4. CASE Work
    <2>1. CASE \E step \in InstallerSteps : InstallerStep(step)
      BY <1>1, <1>3, <2>1 DEF InstallerStep
    <2> QED
      BY <1>1, <1>2, <1>4, <2>1 DEF Work, Return, Identify, CallStore, RunStore,
         StoreReturns, ArchiveStep, PreparedStep, InstallerRefuses, RequestReboot, StopWatchdog,
         WatchdogFires, PowerOn, ArmWatchdog, RecoverPendingUpdate, Down
  <1>5. CASE Failing
    BY <1>1, <1>2, <1>5 DEF Failing, FailStore, ArchiveFails, PreparedFails, InstallerFails,
       RebootFails, StopWatchdogFails, WatchdogFails, RecoveryReadFails, Down
  <1>6. CASE InstallCheckedUpdate \/ BadDownload \/ Cancel \/ PowerCut
    BY <1>1, <1>2, <1>6 DEF InstallCheckedUpdate, BadDownload, Cancel, PowerCut, Down
  <1> QED
    BY <1>1, <1>4, <1>5, <1>6 DEF Next, vars

LEMMA ContractStep ==
    ASSUME OrchestratorInv, [Next]_vars
    PROVE  ContractTypeOK'
  <1> DEFINE Owned == [state : OwnedStates, owner : Requests, approved : BOOLEAN]
  <1>0. ContractTypeOK /\ self \in Requests \cup {NoRequest} /\ todo \in Seq(Steps)
    BY DEF OrchestratorInv, TypeOK
  <1>u. undo' \in Undos
    BY <1>0, UndoTyped DEF ContractTypeOK
  <1>1. ASSUME UNCHANGED journal PROVE ContractTypeOK'
    BY <1>0, <1>1, <1>u DEF ContractTypeOK, ContractRecords, Undos
  <1>2. At(OwnedStates) => journal \in Owned
    BY <1>0 DEF ContractTypeOK, ContractRecords, At, OwnedStates
  <1>3. journal' \in Owned \/ journal' \in {Blank("Anchor"), Blank("Idle"), NoJournal}
           => ContractTypeOK'
    <2>1. Blank("Anchor") \in ContractRecords /\ Blank("Idle") \in ContractRecords
      BY DEF ContractRecords, Blank
    <2>2. Owned \subseteq ContractRecords
      BY DEF ContractRecords
    <2> HIDE DEF Owned
    <2>3. ContractTypeOK' <=> journal' \in ContractRecords \cup {NoJournal}
      BY <1>u DEF ContractTypeOK, ContractRecords, Undos
    <2> QED
      BY <2>1, <2>2, <2>3
  <1>4. ASSUME NEW r, NEW from \in SUBSET OwnedStates, NEW to \in OwnedStates,
               Owns(r, from), MoveTo(to)
        PROVE  journal' \in Owned
    BY <1>2, <1>4 DEF Owns, At, MoveTo
  <1>5. ASSUME NEW step \in InstallerSteps, Do(step), InstallerMoves(step)
        PROVE  ContractTypeOK'
    <2>1. CASE step = "stage"
      <3>1. self \in Requests /\ ResetOf[self] \in BOOLEAN
        <4>1. self # NoRequest
          BY <1>5, <2>1, ExposedHead, BetweenAre, <1>0 DEF Do, OrchestratorInv, RequestInv
        <4> QED
          BY <1>0, <4>1, RequestAssumption
      <3>2. StageJournal(self)
        BY <1>5, <2>1 DEF InstallerMoves
      <3>3. CASE journal' = Blank("Anchor")
        BY <1>3, <3>3
      <3>4. CASE journal' = [state |-> "Discovered", owner |-> self, approved |-> FALSE]
        BY <1>3, <3>1, <3>4 DEF OwnedStates
      <3>5. CASE /\ Owns(self, {"Discovered"})
                 /\ journal' = [journal EXCEPT !.state = "Downloaded",
                                               !.approved = ResetOf[self]]
        <4>1. journal \in Owned
          BY <1>2, <3>5 DEF Owns, At, OwnedStates
        <4> QED
          BY <1>3, <3>1, <3>5, <4>1 DEF OwnedStates
      <3>6. CASE Owns(self, {"Downloaded"}) /\ MoveTo("Prepared")
        BY <1>3, <1>4, <3>6 DEF OwnedStates
      <3>7. CASE Owns(self, {"Prepared"}) /\ MoveTo("Staged")
        BY <1>3, <1>4, <3>7 DEF OwnedStates
      <3> QED
        BY <3>2, <3>3, <3>4, <3>5, <3>6, <3>7 DEF StageJournal
    <2>2. CASE step = "arm"
      BY <1>1, <1>3, <1>4, <1>5, <2>2 DEF InstallerMoves, ArmJournal, OwnedStates
    <2>3. CASE step = "mark_healthy"
      BY <1>3, <1>4, <1>5, <2>3 DEF InstallerMoves, HealthyJournal, OwnedStates
    <2>4. CASE step = "commit"
      BY <1>1, <1>3, <1>4, <1>5, <2>4 DEF InstallerMoves, CommitJournal, OwnedStates
    <2>5. CASE step = "rollback"
      <3>1. RollbackJournal(self)
        BY <1>5, <2>5 DEF InstallerMoves
      <3>2. CASE /\ Owns(self, OwnedStates \ {"Discovered", "Downloaded", "RollingBack"})
                 /\ MoveTo("RollingBack")
        BY <1>3, <1>4, <3>2 DEF OwnedStates
      <3> QED
        BY <1>3, <3>1, <3>2 DEF RollbackJournal
    <2>6. CASE step \in {"retire_rolled_back", "retire_committed"}
      BY <1>3, <1>5, <2>6 DEF InstallerMoves, RetireJournal
    <2> QED
      BY <1>5, <2>1, <2>2, <2>3, <2>4, <2>5, <2>6 DEF InstallerSteps
  <1> QED
    BY <1>1, <1>5, JournalFramed

\* A prepared configuration is written by Prepare and removed by Discard.
PreparedFrame ==
    \/ UNCHANGED prepared
    \/ /\ Do("prepare") /\ UNCHANGED <<journal, record, used, archiveFinal, faults>>
       /\ \/ /\ prepared' = [prepared EXCEPT ![self] = "partial"]
             /\ prepared[self] = "none" /\ UNCHANGED control
          \/ prepared' = [prepared EXCEPT ![self] = "ready"] /\ Succeed
    \/ /\ Do("discard_prepared") /\ UNCHANGED <<journal, record, used, archiveFinal, faults>>
       /\ \/ prepared' = [prepared EXCEPT ![self] = "partial"] /\ UNCHANGED control
             /\ prepared[self] = "ready"
          \/ prepared' = [prepared EXCEPT ![self] = "none"] /\ Succeed

LEMMA PreparedFramed ==
    ASSUME [Next]_vars
    PROVE  PreparedFrame
  <1> USE DEF Down, DiskUnchanged
  <1>1. CASE Work
    <2>1. CASE PreparedStep
      BY <2>1 DEF PreparedStep, PreparedFrame, storeVars, archiveVars, NoFault
    <2>2. CASE UNCHANGED prepared
      BY <2>2 DEF PreparedFrame
    <2> QED
      BY <1>1, <2>1, <2>2 DEF Work, Return, Identify, CallStore, RunStore, StoreReturns,
         ArchiveStep, InstallerStep, InstallerRefuses, RequestReboot, StopWatchdog,
         WatchdogFires, PowerOn, ArmWatchdog, RecoverPendingUpdate
  <1>2. CASE Failing
    BY <1>2 DEF Failing, FailStore, ArchiveFails, PreparedFails, InstallerFails, RebootFails,
       StopWatchdogFails, WatchdogFails, RecoveryReadFails, PreparedFrame
  <1>3. CASE InstallCheckedUpdate \/ BadDownload \/ Cancel \/ PowerCut
    BY <1>3 DEF InstallCheckedUpdate, BadDownload, Cancel, PowerCut, PreparedFrame
  <1> QED
    BY <1>1, <1>2, <1>3 DEF Next, vars, PreparedFrame

\* The rest of the machine.
LEMMA MachineStep ==
    ASSUME OrchestratorInv, [Next]_vars
    PROVE  /\ prepared' \in [Requests -> {"none", "partial", "ready"}]
           /\ tryboot' \in BOOLEAN /\ boot' \in {"normal", "tryboot"}
           /\ watchdog' \in {"off", "owned", "stopped"}
           /\ pc' \in {"off", "guard", "recover", "menu", "start", "resume"}
  <1>0. TypeOK
    BY DEF OrchestratorInv
  <1>1. prepared' \in [Requests -> {"none", "partial", "ready"}]
    BY <1>0, PreparedFramed DEF PreparedFrame, TypeOK
  <1> USE <1>0 DEF TypeOK, machine, control, Down, Succeed, Become, Recover, NothingPending
  <1>2. CASE Work
    BY <1>1, <1>2 DEF Work, Return, Identify, CallStore, RunStore, StoreReturns, ArchiveStep,
       PreparedStep, InstallerStep, InstallerRefuses, RequestReboot, StopWatchdog,
       WatchdogFires, PowerOn, ArmWatchdog, RecoverPendingUpdate
  <1>3. CASE Failing
    BY <1>1, <1>3 DEF Failing, FailStore, ArchiveFails, PreparedFails, InstallerFails,
       RebootFails, StopWatchdogFails, WatchdogFails, RecoveryReadFails
  <1>4. CASE InstallCheckedUpdate \/ BadDownload \/ Cancel \/ PowerCut
    BY <1>1, <1>4 DEF InstallCheckedUpdate, BadDownload, Cancel, PowerCut
  <1> QED
    BY <1>1, <1>2, <1>3, <1>4 DEF Next, vars

LEMMA TypeStep ==
    ASSUME OrchestratorInv, [Next]_vars
    PROVE  TypeOK'
  <1>1. StoreTypeOK' /\ ContractTypeOK' /\ ArchiveTypeOK' /\ (todo \in Seq(Steps))'
    BY StoreInvStep, ContractStep, ArchiveFramed, ListInvStep
  <1>2. used' \subseteq Requests /\ faults' \in 0 .. MaxFaults
    BY UsedKept, FaultsKept DEF Identify, OrchestratorInv, TypeOK
  <1>3. self' \in Requests \cup {NoRequest}
    BY <1>2, RequestInvStep DEF RequestInv
  <1> QED
    BY <1>1, <1>2, <1>3, MachineStep DEF TypeOK

-----------------------------------------------------------------------------
(* Owners, step by step. *)

\* A list of Start has no clean-up that could rely on anything, a list of
\* clean-up no step of Start.
LEMMA EndTrivial ==
    ASSUME todo' \in Seq(StartSteps)
    PROVE  EndInv'
  <1>1. ASSUME NEW X, NEW Y, X \subseteq EndSteps
        PROVE  ~Exposed(todo', X, Y)
    BY <1>1, StartListFree
  <1>2. ArchiveFirst(todo') /\ PreparedFirst(todo') /\ RetiredFirst(todo')
    BY <1>1, EndStepsAre DEF ArchiveFirst, PreparedFirst, RetiredFirst
  <1>3. RollbackFirst(todo') /\ RequestFirst(todo') /\ DecidedFirst(todo')
    BY <1>1, EndStepsAre DEF RollbackFirst, RequestFirst, DecidedFirst
  <1>4. NoRollback(todo') /\ CommitFirst(todo') /\ NoCommit(todo')
    BY <1>1, EndStepsAre DEF NoRollback, CommitFirst, NoCommit
  <1> QED
    BY <1>2, <1>3, <1>4 DEF EndInv

LEMMA StartTrivial ==
    ASSUME todo' \in Seq(EndSteps)
    PROVE  StartInv'
  <1>1. ASSUME NEW X, NEW Y, X \subseteq StartSteps
        PROVE  ~Exposed(todo', X, Y)
    <2>1. EndSteps \cap X = {}
      BY <1>1, EndStepsAre, StartStepsAre
    <2> QED
      BY <2>1, ExposedFree
  <1> QED
    BY <1>1, BetweenAre, StartStepsAre DEF StartInv

\* What a step at the head relies on holds already.
LEMMA HeadRelies ==
    ASSUME OrchestratorInv, Clean, NEW step, Do(step)
    PROVE  /\ step \in Between(3, 10) => Fresh
           /\ step \in Between(11, 14) => ~At({"Committed"})
           /\ step \in Between(3, 9) => NoPrepared
           /\ step \in Between(3, 6) => NoArchive
           /\ step \in Between(4, 14) => self # NoRequest
           /\ step \in Between(6, 14) => record["active"] = self
           /\ step = "stage" => prepared[self] = "ready"
           /\ step = "discard_committed" => ~At(OwnedStates)
           /\ step \in {"discard_request", "retain"} => NoArchive /\ NoPrepared
           /\ step \in {"discard_request", "deactivate"} => NoArchive /\ NoPrepared /\ Fresh
           /\ step = "retire_rolled_back" => ~At(OwnedStates)
           /\ step = "discard_prepared" => ~At(Trial)
           /\ step \in {"rollback", "mark_healthy"} => ~At({"Committed"})
           /\ step = "retain" => At({"Committed"})
           /\ step = "commit" => Present("active")
  <1>1. todo \in Seq(Steps) /\ todo # <<>> /\ Head(todo) = step
    BY DEF OrchestratorInv, TypeOK, Do
  <1>2. \A X, Y : step \in X => Exposed(todo, X, Y)
    BY <1>1, ExposedHead
  <1>3. StartInv /\ EndInv /\ RequestInv
    BY DEF OrchestratorInv, ArtifactInv
  <1>4. /\ step \in Between(3, 10) => Fresh
        /\ step \in Between(11, 14) => ~At({"Committed"})
        /\ step \in Between(3, 9) => NoPrepared
        /\ step \in Between(3, 6) => NoArchive
        /\ step \in Between(4, 14) => self # NoRequest
        /\ step \in Between(6, 14) => record["active"] = self
        /\ step = "stage" => prepared[self] = "ready"
        /\ step = "discard_committed" => ~At(OwnedStates)
    BY <1>2, <1>3 DEF StartInv, RequestInv
  <1>5. /\ step \in {"discard_request", "retain"} => NoArchive /\ NoPrepared
        /\ step \in {"discard_request", "deactivate"} => NoArchive /\ NoPrepared /\ Fresh
        /\ step = "retire_rolled_back" => ~At(OwnedStates)
        /\ step = "discard_prepared" => ~At(Trial)
        /\ step \in {"rollback", "mark_healthy"} => ~At({"Committed"})
        /\ step = "retain" => At({"Committed"})
        /\ step = "commit" => Present("active")
    BY <1>2, <1>3 DEF EndInv, ArchiveFirst, PreparedFirst, RetiredFirst, RollbackFirst,
       RequestFirst, DecidedFirst, NoRollback, CommitFirst, NoCommit
  <1> QED
    BY <1>4, <1>5

\* While an update runs, nothing belongs to another request.
LEMMA OthersGone ==
    ASSUME OrchestratorInv, Clean, Executing, NEW r \in Requests, r # self
    PROVE  archiveFinal[r] = "none" /\ prepared[r] = "none"
  BY RequestAssumption DEF OrchestratorInv, ArtifactInv, OwnerInv, Orphans, RequestInv

\* Whose the journal is.
LEMMA JournalOwner ==
    ASSUME OrchestratorInv, Clean
    PROVE  /\ journal = NoJournal \/ At({"Anchor", "Idle"}) \/ At(OwnedStates)
           /\ At(OwnedStates) => /\ journal.owner \in Requests
                                 /\ journal.owner \in {record["active"], record["committed"]}
                                 /\ ~journal.approved
           /\ At(Trial) => /\ journal.owner = record["active"]
                           /\ prepared[journal.owner] = "ready"
           /\ At(OwnedStates) => At(Trial) \/ At({"Committed"})
           /\ Fresh => ~At(OwnedStates)
  <1>1. ContractTypeOK /\ OwnerInv
    BY DEF OrchestratorInv, TypeOK, ArtifactInv
  <1>2. \/ journal = NoJournal
        \/ journal \in [state : {"Anchor", "Idle"}, owner : {NoRequest}, approved : {FALSE}]
        \/ journal \in [state : OwnedStates, owner : Requests, approved : BOOLEAN]
    BY <1>1 DEF ContractTypeOK, ContractRecords
  <1>3. At(OwnedStates) => journal.owner \in Requests
    BY <1>2 DEF At, OwnedStates
  <1> QED
    BY <1>1, <1>2, <1>3 DEF OwnerInv, Orphans, At, Trial, Fresh, OwnedStates

\* Removing an archive leaves no orphan.
LEMMA OwnerKept ==
    ASSUME OrchestratorInv, Clean, UNCHANGED <<journal, record, prepared>>,
           \A r \in Requests : archiveFinal'[r] \in {archiveFinal[r], "none"}
    PROVE  OwnerInv'
  <1>1. OwnerInv
    BY DEF OrchestratorInv, ArtifactInv
  <1>2. ~Orphans'
    BY <1>1 DEF OwnerInv, Orphans, At, Present
  <1> QED
    BY <1>1, <1>2 DEF OwnerInv, At

\* What a step has done once it is taken off the list.
Established ==
    /\ Do("discard_archive") /\ self \in Requests => archiveFinal'[self] = "none"
    /\ Do("discard_prepared") /\ self \in Requests => prepared'[self] = "none"
    /\ Do("retire_rolled_back") => journal' = NoJournal
    /\ Do("retire_committed") => journal' = NoJournal
    /\ Do("rollback") => At({"Anchor", "Idle"})'
    /\ Do("commit") => At({"Committed"})'
    /\ Do("persist") => record'["active"] = self

LEMMA AdvanceKeeps ==
    ASSUME OrchestratorInv, Clean, Executing, todo # <<>>, Succeed,
           UNCHANGED <<journal, record>>,
           \A r \in Requests : archiveFinal'[r] \in {archiveFinal[r], "none"},
           \/ UNCHANGED prepared
           \/ /\ Do("discard_prepared")
              /\ \A r \in Requests : prepared'[r] \in {prepared[r], "none"},
           Established, ~Do("identify"), ~Do("prepare")
    PROVE  OwnerInv' /\ StartInv' /\ EndInv'
  <1>0. /\ todo \in Seq(Steps) /\ Do(Head(todo)) /\ todo' = Tail(todo) /\ self' = self
        /\ OwnerInv /\ StartInv /\ EndInv /\ RequestInv
    BY DEF OrchestratorInv, TypeOK, ArtifactInv, Do, Executing, Succeed
  <1>1. ASSUME NEW X, NEW Y, Exposed(todo', X, Y)
        PROVE  Exposed(todo, X, Y) \/ (Head(todo) \in Y /\ Do(Head(todo)))
    BY <1>0, <1>1, ExposedTail
  <1>2. OwnerInv'
    <2>1. CASE UNCHANGED prepared
      BY <2>1, OwnerKept
    <2>2. CASE Do("discard_prepared") /\ \A r \in Requests : prepared'[r] \in {prepared[r], "none"}
      <3>1. ~At(Trial) /\ ~At(Trial)'
        BY <2>2, HeadRelies DEF At
      <3>2. ~Orphans'
        BY <1>0, <2>2 DEF OwnerInv, Orphans, At, Present
      <3> QED
        BY <1>0, <3>1, <3>2 DEF OwnerInv, At
    <2> QED
      BY <2>1, <2>2
  <1>3. StartInv'
    <2>1. CASE Do("discard_prepared")
      <3>1. todo \notin Seq(StartSteps)
        <4> SUFFICES ASSUME todo \in Seq(StartSteps) PROVE FALSE
          OBVIOUS
        <4>1. Head(todo) \in StartSteps
          BY <2>1 DEF Do
        <4> QED
          BY <2>1, <4>1, StartStepsAre DEF Do
      <3>2. Tail(todo) \in Seq(EndSteps)
        BY <2>1, <3>1 DEF OrchestratorInv, ListInv, Do
      <3> QED
        BY <1>0, <3>2, StartTrivial
    <2>2. CASE UNCHANGED prepared
      <3>1. Head(todo) = "retire_committed" => journal' = NoJournal
        BY <1>0 DEF Established
      <3>2. Head(todo) = "persist" => record'["active"] = self /\ self # NoRequest
        BY <1>0, HeadRelies, BetweenAre DEF Established
      <3>3. Head(todo) # "prepare"
        BY <1>0
      <3>4. NoArchive => NoArchive'
        BY DEF NoArchive
      <3>5. /\ Exposed(todo', {"discard_committed"}, {"retire_committed"}) => ~At(OwnedStates)'
            /\ Exposed(todo', Between(3, 10), {"retire_committed"}) => Fresh'
            /\ Exposed(todo', Between(11, 14), {"retire_committed"}) => ~At({"Committed"})'
        BY <1>0, <1>1, <3>1 DEF StartInv, Fresh, At
      <3>6. /\ Exposed(todo', Between(3, 9), {}) => NoPrepared'
            /\ Exposed(todo', Between(3, 6), {}) => NoArchive'
        BY <1>0, <1>1, <2>2, <3>4 DEF StartInv, NoPrepared
      <3>7. /\ Exposed(todo', Between(6, 14), {"persist"}) =>
                 self' # NoRequest /\ record'["active"] = self'
            /\ Exposed(todo', {"stage"}, {"prepare"}) =>
                 self' # NoRequest /\ prepared'[self'] = "ready"
        BY <1>0, <1>1, <2>2, <3>2, <3>3 DEF StartInv
      <3> QED
        BY <3>5, <3>6, <3>7 DEF StartInv
    <2> QED
      BY <2>1, <2>2
  <1>4. EndInv'
    <2>1. Head(todo) = "discard_archive" => NoArchive'
      BY <1>0, OthersGone DEF Established, NoArchive
    <2>2. Head(todo) = "discard_prepared" => NoPrepared'
      BY <1>0, OthersGone DEF Established, NoPrepared
    <2>3. Head(todo) = "discard_request" => NoArchive /\ NoPrepared /\ Fresh
      BY <1>0, HeadRelies
    <2>4. (NoArchive => NoArchive') /\ (NoPrepared => NoPrepared')
      BY DEF NoArchive, NoPrepared
    <2>5. /\ Head(todo) = "retire_rolled_back" => Fresh'
          /\ Head(todo) = "rollback" => ~At(OwnedStates)' /\ ~At(Trial)'
          /\ Head(todo) = "commit" => At({"Committed"})' /\ ~At(Trial)'
      BY <1>0 DEF Established, Fresh, At, OwnedStates, Trial
    <2>6. ArchiveFirst(todo') \/ NoArchive'
      BY <1>0, <1>1, <2>1, <2>4 DEF EndInv, ArchiveFirst
    <2>7. PreparedFirst(todo') \/ NoPrepared'
      BY <1>0, <1>1, <2>2, <2>4 DEF EndInv, PreparedFirst
    <2>8. RetiredFirst(todo') \/ Fresh'
      BY <1>0, <1>1, <2>5 DEF EndInv, RetiredFirst, Fresh, At
    <2>9. RollbackFirst(todo') \/ ~At(OwnedStates)'
      BY <1>0, <1>1, <2>5 DEF EndInv, RollbackFirst, At
    <2>10. RequestFirst(todo') \/ (NoArchive' /\ NoPrepared' /\ Fresh')
      BY <1>0, <1>1, <2>3, <2>4 DEF EndInv, RequestFirst, Fresh, At
    <2>11. DecidedFirst(todo') \/ ~At(Trial)'
      BY <1>0, <1>1, <2>5 DEF EndInv, DecidedFirst, At
    <2>12. NoRollback(todo') \/ ~At({"Committed"})'
      BY <1>0, <1>1 DEF EndInv, NoRollback, At
    <2>13. CommitFirst(todo') \/ At({"Committed"})'
      BY <1>0, <1>1, <2>5 DEF EndInv, CommitFirst, At
    <2>14. NoCommit(todo') \/ Present("active")'
      BY <1>0, <1>1 DEF EndInv, NoCommit, Present
    <2> QED
      BY <2>6, <2>7, <2>8, <2>9, <2>10, <2>11, <2>12, <2>13, <2>14 DEF EndInv
  <1> QED
    BY <1>2, <1>3, <1>4

\* The clean-up that takes the place of a step finds what it relies on.
Cancellable ==
    {"retire_committed", "begin", "fetch", "rehash", "prepare", "stage", "arm",
     "reboot_candidate"}

\* A list put in place of the old one, with nothing else changed.
LEMMA Replaced ==
    ASSUME UNCHANGED <<journal, record, archiveFinal, prepared>>,
           ArchiveFirst(todo') \/ NoArchive,
           PreparedFirst(todo') \/ NoPrepared,
           RetiredFirst(todo') \/ Fresh,
           RollbackFirst(todo') \/ ~At(OwnedStates),
           RequestFirst(todo') \/ (NoArchive /\ NoPrepared /\ Fresh),
           DecidedFirst(todo') \/ ~At(Trial),
           NoRollback(todo') \/ ~At({"Committed"}),
           CommitFirst(todo') \/ At({"Committed"}),
           NoCommit(todo') \/ Present("active")
    PROVE  EndInv'
  <1>1. /\ NoArchive' = NoArchive /\ NoPrepared' = NoPrepared /\ Fresh' = Fresh
        /\ \A S : At(S)' = At(S)
        /\ Present("active")' = Present("active")
    BY DEF NoArchive, NoPrepared, Fresh, At, Present
  <1> QED
    BY <1>1 DEF EndInv

LEMMA IndependentReplaces ==
    ASSUME UNCHANGED <<journal, record, archiveFinal, prepared>>,
           todo' \in Seq(Independent)
    PROVE  EndInv'
  BY Replaced, IndependentList

LEMMA AfterClose ==
    ASSUME NEW t \in {DiscardDownloadedRequest, CleanupTransaction,
                      CleanupRolledBackTransaction, RollBackAndClean}
    PROVE  LET s == <<"close">> \o t
           IN  /\ ArchiveFirst(t) => ArchiveFirst(s)
               /\ PreparedFirst(t) => PreparedFirst(s)
               /\ RetiredFirst(t) => RetiredFirst(s)
               /\ RollbackFirst(t) => RollbackFirst(s)
               /\ RequestFirst(t) => RequestFirst(s)
               /\ DecidedFirst(t) => DecidedFirst(s)
               /\ NoRollback(t) => NoRollback(s)
               /\ CommitFirst(t) => CommitFirst(s)
  BY CloseLists DEF ArchiveFirst, PreparedFirst, RetiredFirst, RollbackFirst,
     RequestFirst, DecidedFirst, NoRollback, CommitFirst

\* What Recovery makes of the steps that fail without a failing call.
LEMMA RecoveryIs ==
    ASSUME NEW outcome, ~(pc = "resume" /\ outcome = "progress")
    PROVE  /\ \A step \in {"persist", "fetch", "finish"} :
                 Recovery(step, outcome) = AbortDownloadAndDiscardRequest
           /\ Recovery("rehash", outcome) = <<"close">> \o DiscardDownloadedRequest
           /\ Recovery("prepare", outcome) = <<"close">> \o CleanupTransaction
           /\ Recovery("stage", outcome) = <<"close">> \o RollbackIfStarted
           /\ \A step \in {"arm", "reboot_candidate", "mark_healthy", "commit"} :
                 Recovery(step, outcome) = RollBackAndReboot
           /\ Recovery("discard_request", outcome) = AfterFailedCleanup
           /\ \A step \in {"deactivate", "retain", "discard_committed", "begin",
                           "retire_committed", "rollback"} :
                 Recovery(step, outcome) = <<>>
  BY DEF Recovery, CleanupSteps

LEMMA RecoveryFinds ==
    ASSUME OrchestratorInv, Clean, UNCHANGED <<journal, record, archiveFinal, prepared>>,
           NEW step \in {"persist", "fetch", "rehash", "prepare", "stage", "arm",
                         "reboot_candidate", "mark_healthy", "commit", "discard_request",
                         "deactivate", "retain", "discard_committed", "begin",
                         "retire_committed", "rollback"},
           NEW outcome, Do(step), Become(Recovery(step, outcome)),
           step = "commit" => ~At({"Committed"})
    PROVE  OwnerInv' /\ StartInv' /\ EndInv'
  <1>0. <<>> \in Seq(Independent)
    OBVIOUS
  <1>1. OwnerInv'
    BY OwnerKept
  <1>2. StartInv'
    BY RecoveryList, StartTrivial DEF EndList, Become
  <1> SUFFICES EndInv'
    BY <1>1, <1>2
  <1>3. todo' = Recovery(step, outcome)
    BY DEF Become
  <1>4. CASE pc = "resume" /\ outcome = "progress"
    BY <1>0, <1>3, <1>4, IndependentReplaces DEF Recovery
  <1>5. CASE ~(pc = "resume" /\ outcome = "progress")
    <2>1. CASE step \in {"persist", "fetch"}
      <3>1. NoArchive /\ NoPrepared /\ Fresh
        BY <2>1, HeadRelies, BetweenAre
      <3> QED
        BY <1>3, <1>5, <2>1, <3>1, RecoveryIs, AbortList, Replaced
    <2>2. CASE step = "rehash"
      <3>1. NoPrepared /\ Fresh
        BY <2>2, HeadRelies, BetweenAre
      <3> QED
        BY <1>3, <1>5, <2>2, <3>1, RecoveryIs, DiscardDownloadedList, CloseLists,
           AfterClose, Replaced
    <2>3. CASE step = "prepare"
      <3>1. Fresh /\ ~At(Trial)
        BY <2>3, HeadRelies, BetweenAre, JournalOwner DEF At, Trial, OwnedStates, Fresh
      <3> QED
        BY <1>3, <1>5, <2>3, <3>1, RecoveryIs, CleanupList, CloseLists, AfterClose, Replaced
    <2>4. CASE step = "stage"
      <3>1. ~At({"Committed"})
        BY <2>4, HeadRelies, BetweenAre
      <3>2. CASE RollbackIfStarted = RollBackAndClean
        BY <1>3, <1>5, <2>4, <3>1, <3>2, RecoveryIs, RollBackAndCleanList, CloseLists,
           AfterClose, Replaced
      <3>3. CASE RollbackIfStarted # RollBackAndClean
        <4>1. RollbackIfStarted = CleanupRolledBackTransaction /\ ~At(OwnedStates) /\ ~At(Trial)
          BY <3>3 DEF RollbackIfStarted, At, OwnedStates, Trial
        <4> QED
          BY <1>3, <1>5, <2>4, <4>1, RecoveryIs, CleanupRolledBackList, CloseLists,
             AfterClose, Replaced
      <3> QED
        BY <3>2, <3>3
    <2>5. CASE step \in {"arm", "reboot_candidate", "mark_healthy", "commit"}
      <3>1. ~At({"Committed"})
        BY <2>5, HeadRelies, BetweenAre
      <3> QED
        BY <1>3, <1>5, <2>5, <3>1, RecoveryIs, RollBackAndRebootList, Replaced
    <2>6. CASE step = "discard_request"
      <3>1. NoArchive /\ NoPrepared /\ Fresh
        BY <2>6, HeadRelies
      <3>2. CASE AfterFailedCleanup = RequestPreviousFailSafe
        BY <1>3, <1>5, <2>6, <3>1, <3>2, RecoveryIs, FailSafeList, Replaced
      <3>3. CASE AfterFailedCleanup = <<>>
        BY <1>0, <1>3, <1>5, <2>6, <3>3, RecoveryIs, IndependentReplaces
      <3> QED
        BY <3>2, <3>3 DEF AfterFailedCleanup
    <2>7. CASE step \in {"deactivate", "retain", "discard_committed", "begin",
                         "retire_committed", "rollback"}
      BY <1>0, <1>3, <1>5, <2>7, RecoveryIs, IndependentReplaces
    <2> QED
      BY <2>1, <2>2, <2>3, <2>4, <2>5, <2>6, <2>7
  <1> QED
    BY <1>4, <1>5

\* Boot recovery finds a request that loads, with a journal of its own and what
\* was prepared for it.
LEMMA ResumeFinds ==
    ASSUME OrchestratorInv, Clean, UNCHANGED <<journal, record, archiveFinal, prepared>>,
           Present("active"), NEW found, Recover(ResumePlan(found))
    PROVE  OwnerInv' /\ StartInv' /\ EndInv'
  <1>0. todo' = ResumePlan(found) /\ Present("active")
    BY DEF Recover
  <1>1. OwnerInv'
    BY OwnerKept
  <1>2. StartInv'
    BY <1>0, ResumeList, StartTrivial DEF EndList
  <1>3. CASE journal = NoJournal \/ At({"Anchor", "Idle"})
    <2>1. ~At(OwnedStates) /\ ~At(Trial)
      BY <1>3 DEF At, OwnedStates, Trial
    <2>2. todo' = CleanupRolledBackTransaction
      BY <1>0, <1>3 DEF ResumePlan
    <2>3. EndInv'
      BY <2>1, <2>2, CleanupRolledBackList, Replaced
    <2> QED
      BY <1>1, <1>2, <2>3
  <1>4. CASE ~(journal = NoJournal \/ At({"Anchor", "Idle"}))
    <2>1. At(OwnedStates)
      BY <1>4, JournalOwner
    <2>2. JournalBound
      <3>1. record["committed"] = NoRequest
        BY <1>0 DEF OrchestratorInv, StoreInv, OneRecord, Present, Kinds
      <3>2. journal.owner = record["active"] /\ journal.owner \in Requests
        BY <2>1, <3>1, JournalOwner, RequestAssumption
      <3>3. record["active"] \in used
        BY <1>0 DEF OrchestratorInv, RequestInv, Present
      <3>4. journal.approved = FALSE
        <4>1. ~journal.approved
          BY <2>1, JournalOwner
        <4>2. journal.approved \in BOOLEAN
          BY <2>1 DEF OrchestratorInv, TypeOK, ContractTypeOK, ContractRecords, At
        <4> QED
          BY <4>1, <4>2
      <3>5. ResetOf[record["active"]] = FALSE
        BY <3>2, <3>3, RequestAssumption DEF Clean
      <3> QED
        BY <3>2, <3>4, <3>5 DEF JournalBound
    <2>3. CASE At({"Committed"})
      <3>1. todo' = RetainCommittedTransaction
        BY <1>0, <1>4, <2>2, <2>3 DEF ResumePlan
      <3>2. ~At(Trial)
        BY <2>3 DEF At, Trial
      <3>3. EndInv'
        BY <2>3, <3>1, <3>2, RetainList, Replaced
      <3> QED
        BY <1>1, <1>2, <3>3
    <2>4. CASE ~At({"Committed"})
      <3>1. PreparedSetValid
        BY <2>1, <2>4, JournalOwner DEF PreparedSetValid
      <3>2. todo' \in {RollBackAndClean, HealthyPlan, RollBackAndReboot}
        BY <1>0, <1>4, <2>2, <2>4, <3>1 DEF ResumePlan, HealthyPlan
      <3>3. EndInv'
        <4>1. CASE todo' = RollBackAndClean
          BY <2>4, <4>1, RollBackAndCleanList, Replaced
        <4>2. CASE todo' = HealthyPlan
          BY <1>0, <2>4, <4>2, HealthyList, Replaced
        <4>3. CASE todo' = RollBackAndReboot
          BY <2>4, <4>3, RollBackAndRebootList, Replaced
        <4> QED
          BY <3>2, <4>1, <4>2, <4>3
      <3> QED
        BY <1>1, <1>2, <3>3
    <2> QED
      BY <2>3, <2>4
  <1> QED
    BY <1>3, <1>4

\* Start finds nothing left of an earlier update but a committed one.
LEMMA InstallFinds ==
    ASSUME OrchestratorInv, Clean, InstallCheckedUpdate
    PROVE  OwnerInv' /\ StartInv' /\ EndInv'
  <1> DEFINE kind == IF Present("retiring") THEN "retiring"
                     ELSE IF Present("committed") THEN "committed" ELSE "none"
  <1>0. /\ UNCHANGED <<journal, record, archiveFinal, prepared, self>> /\ pc = "menu"
        /\ ~Present("active") /\ todo' = InstallPlan(kind)
        /\ kind \in {"none", "committed", "retiring"}
        /\ kind = "committed" \/ ~Present("committed")
    <2>1. ~(Present("committed") /\ Present("retiring"))
      BY DEF InstallCheckedUpdate
    <2> QED
      BY <2>1 DEF InstallCheckedUpdate, DiskUnchanged, storeVars, archiveVars, InstallPlan
  <1> HIDE DEF kind
  <1>1. OwnerInv'
    BY <1>0, OwnerKept
  <1>2. EndInv'
    BY <1>0, InstallList, EndTrivial
  <1>3. /\ ~Exposed(todo', Between(4, 14), {"identify"})
        /\ ~Exposed(todo', Between(6, 14), {"persist"})
        /\ ~Exposed(todo', {"stage"}, {"prepare"})
        /\ kind = "committed" =>
             /\ ~Exposed(todo', {"discard_committed"}, {"retire_committed"})
             /\ ~Exposed(todo', Between(3, 10), {"retire_committed"})
             /\ ~Exposed(todo', Between(11, 14), {"retire_committed"})
    BY <1>0, InstallList
  <1>4. NoArchive /\ NoPrepared
    BY <1>0, RequestAssumption
    DEF OrchestratorInv, ArtifactInv, OwnerInv, Orphans, NoArchive, NoPrepared, Present
  <1>5. kind = "committed" \/ (Fresh /\ ~At(OwnedStates) /\ ~At({"Committed"}))
    <2> SUFFICES ASSUME kind # "committed"
                 PROVE  Fresh /\ ~At(OwnedStates) /\ ~At({"Committed"})
      OBVIOUS
    <2>1. ~At(OwnedStates)
      BY <1>0, JournalOwner, RequestAssumption DEF Present
    <2>2. ~At({"Idle"})
      BY <1>0 DEF OrchestratorInv, ArtifactInv, OwnerInv, Orphans
    <2>3. Fresh /\ ~At({"Committed"})
      BY <2>1, <2>2, JournalOwner DEF Fresh, At, OwnedStates
    <2> QED
      BY <2>1, <2>3
  <1>6. /\ NoArchive' = NoArchive /\ NoPrepared' = NoPrepared /\ Fresh' = Fresh
        /\ \A S : At(S)' = At(S)
    BY <1>0 DEF NoArchive, NoPrepared, Fresh, At
  <1>7. StartInv'
    BY <1>3, <1>4, <1>5, <1>6 DEF StartInv
  <1> QED
    BY <1>1, <1>2, <1>7

\* Nothing of a smaller rank than the head is left.
LEMMA NotBefore ==
    ASSUME OrchestratorInv, NEW step, Do(step), NEW X, NEW Y,
           \A x \in X : Rank[x] < Rank[step]
    PROVE  ~Exposed(todo, X, Y)
  BY ExposedOrdered DEF Do, OrchestratorInv, TypeOK, ListInv

\* Which of the two kinds of list a step stands in.
LEMMA SideOf ==
    ASSUME OrchestratorInv, NEW step, Do(step)
    PROVE  /\ step \in StartSteps => todo \in Seq(StartSteps) /\ Tail(todo) \in Seq(StartSteps)
           /\ step \in EndSteps => todo \in Seq(EndSteps) /\ Tail(todo) \in Seq(EndSteps)
  <1>1. \/ todo \in Seq(EndSteps) /\ Head(todo) \in EndSteps
        \/ todo \in Seq(StartSteps) /\ Head(todo) \in StartSteps
    BY DEF OrchestratorInv, ListInv, Do
  <1>2. StartSteps \cap EndSteps = {}
    BY StartStepsAre, EndStepsAre
  <1> QED
    BY <1>1, <1>2 DEF Do

\* The records change: one is saved, discarded, kept as committed or retired.
LEMMA RecordArtifacts ==
    ASSUME OrchestratorInv, Clean, RecordFrame,
           UNCHANGED <<journal, archiveFinal, prepared, todo, self, pc>>
    PROVE  OwnerInv' /\ StartInv' /\ EndInv'
  <1>0. /\ OwnerInv /\ StartInv /\ EndInv
        /\ record \in [Kinds -> Requests \cup {NoRequest}]
    BY DEF OrchestratorInv, ArtifactInv, TypeOK, StoreTypeOK
  <1>1. CASE record' = record
    BY <1>0, <1>1 DEF OwnerInv, StartInv, EndInv, Orphans, NoArchive, NoPrepared, Fresh, At,
       Present
  <1>2. CASE Do("persist") /\ record' = [record EXCEPT !["active"] = self]
    <2>1. Fresh /\ NoArchive /\ NoPrepared /\ self # NoRequest
      BY <1>2, HeadRelies, BetweenAre
    <2>2. record'["active"] = self
      BY <1>0, <1>2 DEF Kinds
    <2>3. ~At(OwnedStates) /\ ~At(Trial) /\ ~At({"Idle"})
      BY <2>1 DEF Fresh, At, OwnedStates, Trial
    <2>4. OwnerInv'
      BY <2>1, <2>3 DEF OwnerInv, Orphans, At, NoArchive, NoPrepared
    <2>5. StartInv'
      BY <1>0, <2>1, <2>2 DEF StartInv, NoArchive, NoPrepared, Fresh, At
    <2>6. EndInv'
      BY <1>2, SideOf, StartStepsAre, EndTrivial
    <2> QED
      BY <2>4, <2>5, <2>6
  <1>3. CASE /\ Do("discard_request") \/ Do("deactivate")
             /\ record' = [record EXCEPT !["active"] = NoRequest]
    <2>1. Fresh /\ NoArchive /\ NoPrepared
      BY <1>3, HeadRelies
    <2>2. ~At(OwnedStates) /\ ~At(Trial) /\ ~At({"Idle"})
      BY <2>1 DEF Fresh, At, OwnedStates, Trial
    <2>3. OwnerInv'
      BY <2>1, <2>2 DEF OwnerInv, Orphans, At, NoArchive, NoPrepared
    <2>4. StartInv'
      BY <1>3, SideOf, EndStepsAre, StartTrivial
    <2>5. NoCommit(todo)
      BY <1>3, NotBefore DEF NoCommit, Rank
    <2>6. EndInv'
      BY <1>0, <2>5 DEF EndInv, NoArchive, NoPrepared, Fresh, At
    <2> QED
      BY <2>3, <2>4, <2>6
  <1>4. CASE /\ Do("retain") /\ ~Present("committed")
             /\ record' = [record EXCEPT !["committed"] = record["active"],
                                         !["active"] = NoRequest]
    <2>1. NoArchive /\ NoPrepared /\ At({"Committed"})
      BY <1>4, HeadRelies
    <2>2. ~At(Trial) /\ ~At({"Idle"}) /\ At(OwnedStates)
      BY <2>1 DEF At, OwnedStates, Trial
    <2>3. journal.owner = record["active"]
      BY <1>4, <2>2, JournalOwner, RequestAssumption DEF Present
    <2>4. record'["committed"] = record["active"]
      BY <1>0, <1>4 DEF Kinds
    <2>5. OwnerInv'
      BY <1>0, <2>1, <2>2, <2>3, <2>4 DEF OwnerInv, Orphans, At, NoArchive, NoPrepared
    <2>6. StartInv'
      BY <1>4, SideOf, EndStepsAre, StartTrivial
    <2>7. NoCommit(todo)
      BY <1>4, NotBefore DEF NoCommit, Rank
    <2>8. EndInv'
      BY <1>0, <2>7 DEF EndInv, NoArchive, NoPrepared, Fresh, At
    <2> QED
      BY <2>5, <2>6, <2>8
  <1>5. CASE /\ Do("discard_committed") /\ ~Present("active")
             /\ record'["active"] = record["active"]
             /\ record'["committed"] \in {record["committed"], NoRequest}
    <2>1. ~At(OwnedStates) /\ ~At(Trial)
      BY <1>5, HeadRelies DEF At, OwnedStates, Trial
    <2>2. OwnerInv'
      BY <1>0, <1>5, <2>1 DEF OwnerInv, Orphans, At, Present
    <2>3. StartInv'
      BY <1>0, <1>5 DEF StartInv, NoArchive, NoPrepared, Fresh, At
    <2>4. EndInv'
      BY <1>0, <1>5 DEF EndInv, NoArchive, NoPrepared, Fresh, At, Present
    <2> QED
      BY <2>2, <2>3, <2>4
  <1> QED
    BY <1>1, <1>2, <1>3, <1>4, <1>5 DEF RecordFrame

\* The journal of an update on trial moves on, or back, in its owner's hands.
LEMMA TrialMoves ==
    ASSUME OrchestratorInv, Clean, At(Trial), NEW to \in Trial, MoveTo(to),
           UNCHANGED <<record, archiveFinal, prepared, todo, self, pc>>
    PROVE  OwnerInv' /\ StartInv' /\ EndInv'
  <1>0. /\ OwnerInv /\ StartInv /\ EndInv /\ ContractTypeOK
    BY DEF OrchestratorInv, ArtifactInv, TypeOK
  <1>1. /\ journal.owner' = journal.owner /\ journal.approved' = journal.approved
        /\ journal.state' = to /\ journal' # NoJournal
    <2>1. At(OwnedStates)
      BY DEF At, Trial
    <2>2. journal \in [state : OwnedStates, owner : Requests, approved : BOOLEAN]
      BY <1>0, <2>1 DEF ContractTypeOK, ContractRecords, At, OwnedStates
    <2>3. journal' = [state |-> to, owner |-> journal.owner, approved |-> journal.approved]
      BY <2>2 DEF MoveTo
    <2>4. journal' # NoJournal
      <3>1. journal' \in [state : OwnedStates, owner : Requests, approved : BOOLEAN]
        BY <2>2, <2>3 DEF Trial
      <3> QED
        BY <3>1, JournalAssumption DEF ContractRecords
    <2> QED
      BY <2>3, <2>4
  <1>2. /\ At(OwnedStates) /\ At(OwnedStates)' /\ At(Trial)'
        /\ ~At({"Committed"}) /\ ~At({"Committed"})' /\ ~At({"Idle"})' /\ ~Fresh
    BY <1>1 DEF At, Trial, OwnedStates, Fresh
  <1>3. OwnerInv'
    BY <1>0, <1>1, <1>2 DEF OwnerInv, Orphans, Present
  <1>4. StartInv'
    BY <1>0, <1>2 DEF StartInv, NoArchive, NoPrepared
  <1>5. EndInv'
    BY <1>0, <1>2 DEF EndInv, NoArchive, NoPrepared, Present
  <1> QED
    BY <1>3, <1>4, <1>5

\* A step of the installer between two of its records.
LEMMA SelectorMoves ==
    ASSUME OrchestratorInv, Clean,
           UNCHANGED <<journal, record, archiveFinal, prepared, todo, self, pc>>
    PROVE  OwnerInv' /\ StartInv' /\ EndInv'
  <1>0. OwnerInv /\ StartInv /\ EndInv
    BY DEF OrchestratorInv, ArtifactInv
  <1>1. OwnerInv'
    BY <1>0 DEF OwnerInv, Orphans, Present, At
  <1>2. StartInv'
    BY <1>0 DEF StartInv, NoArchive, NoPrepared, At, Fresh, Present
  <1>3. EndInv'
    BY <1>0 DEF EndInv, NoArchive, NoPrepared, Present, At, Fresh
  <1> QED
    BY <1>1, <1>2, <1>3

LEMMA BlankRecords ==
    ASSUME NEW state \in {"Anchor", "Idle"}
    PROVE  Blank(state) \in ContractRecords /\ Blank(state) # NoJournal
  <1>1. Blank(state) \in [state : {"Anchor", "Idle"}, owner : {NoRequest}, approved : {FALSE}]
    BY DEF Blank
  <1>2. Blank(state) \in ContractRecords
    BY <1>1 DEF ContractRecords
  <1> QED
    BY <1>2, JournalAssumption

\* A record of no owner, or none at all.
LEMMA JournalGone ==
    ASSUME OrchestratorInv, Clean, NEW step \in {"retire_rolled_back", "retire_committed"},
           Do(step), journal' = NoJournal,
           UNCHANGED <<record, archiveFinal, prepared, todo, self, pc>>
    PROVE  OwnerInv' /\ StartInv' /\ EndInv'
  <1>0. OwnerInv /\ StartInv /\ EndInv
    BY DEF OrchestratorInv, ArtifactInv
  <1>1. Fresh' /\ \A S : ~At(S)'
    BY DEF Fresh, At
  <1>2. OwnerInv'
    BY <1>0, <1>1 DEF OwnerInv, Orphans
  <1>3. StartInv'
    BY <1>0, <1>1 DEF StartInv, NoArchive, NoPrepared
  <1>4. CASE step = "retire_committed"
    BY <1>2, <1>3, <1>4, SideOf, StartStepsAre, EndTrivial
  <1>5. CASE step = "retire_rolled_back"
    <2>1. ~At({"Committed"})
      BY <1>5, HeadRelies DEF At, OwnedStates
    <2>2. EndInv'
      BY <1>0, <1>1, <2>1 DEF EndInv, NoArchive, NoPrepared, Present
    <2> QED
      BY <1>2, <1>3, <2>2
  <1> QED
    BY <1>4, <1>5

LEMMA StageArtifacts ==
    ASSUME OrchestratorInv, Clean, Do("stage"), StageJournal(self),
           UNCHANGED <<record, archiveFinal, prepared, todo, self, pc>>
    PROVE  OwnerInv' /\ StartInv' /\ EndInv'
  <1>0. /\ OwnerInv /\ StartInv /\ EndInv
        /\ todo \in Seq(StartSteps)
    BY SideOf, StartStepsAre DEF OrchestratorInv, ArtifactInv
  <1>1. /\ self \in Requests /\ record["active"] = self /\ prepared[self] = "ready"
        /\ ~ResetOf[self] /\ ~At({"Committed"})
    <2>1. /\ self # NoRequest /\ record["active"] = self /\ prepared[self] = "ready"
          /\ ~At({"Committed"})
      BY HeadRelies, BetweenAre
    <2>2. self \in used /\ self \in Requests
      BY <2>1 DEF OrchestratorInv, RequestInv, TypeOK
    <2> QED
      BY <2>1, <2>2 DEF Clean
  <1>2. /\ ~Exposed(todo, {"discard_committed"}, {"retire_committed"})
        /\ ~Exposed(todo, Between(3, 10), {"retire_committed"})
    BY NotBefore, BetweenAre DEF Rank
  <1>3. EndInv'
    BY <1>0, EndTrivial
  <1>4. ASSUME journal' # NoJournal, journal'.state \in {"Anchor"} \cup Trial,
               journal'.state = "Anchor" \/ (journal'.owner = self /\ ~journal'.approved)
        PROVE  OwnerInv' /\ StartInv'
    <2>1. ~At({"Idle"})' /\ ~At({"Committed"})'
      BY <1>4 DEF At, Trial, OwnedStates
    <2>2. At(OwnedStates)' \/ At(Trial)' => /\ journal.owner' = record'["active"]
                                            /\ ~journal.approved'
                                            /\ prepared'[journal.owner'] = "ready"
      BY <1>1, <1>4 DEF At, OwnedStates, Trial
    <2>3. OwnerInv'
      BY <1>0, <2>1, <2>2 DEF OwnerInv, Orphans
    <2>4. StartInv'
      BY <1>0, <1>2, <2>1 DEF StartInv, NoArchive, NoPrepared
    <2> QED
      BY <2>3, <2>4
  <1>5. CASE journal' = Blank("Anchor")
    BY <1>3, <1>4, <1>5, BlankRecords DEF Blank
  <1>6. CASE journal' = [state |-> "Discovered", owner |-> self, approved |-> FALSE]
    <2>1. journal' \in ContractRecords
      BY <1>1, <1>6 DEF ContractRecords, OwnedStates
    <2> QED
      BY <1>3, <1>4, <1>6, <2>1, JournalAssumption DEF Trial, OwnedStates
  <1>7. CASE /\ Owns(self, {"Discovered"})
             /\ journal' = [journal EXCEPT !.state = "Downloaded",
                                           !.approved = ResetOf[self]]
    <2>1. journal \in [state : OwnedStates, owner : Requests, approved : BOOLEAN]
      BY <1>7 DEF OrchestratorInv, TypeOK, ContractTypeOK, ContractRecords, Owns, At
    <2>2. journal' = [state |-> "Downloaded", owner |-> self, approved |-> ResetOf[self]]
      BY <1>7, <2>1 DEF Owns
    <2>3. journal' \in [state : OwnedStates, owner : Requests, approved : BOOLEAN]
      BY <1>1, <2>2, RequestAssumption DEF OwnedStates
    <2>4. journal' # NoJournal
      BY <2>3, JournalAssumption DEF ContractRecords
    <2> QED
      BY <1>1, <1>3, <1>4, <2>2, <2>4 DEF Trial, OwnedStates
  <1>8. CASE Owns(self, {"Downloaded"}) /\ MoveTo("Prepared")
    BY <1>8, TrialMoves DEF Owns, At, Trial, OwnedStates
  <1>9. CASE Owns(self, {"Prepared"}) /\ MoveTo("Staged")
    BY <1>9, TrialMoves DEF Owns, At, Trial, OwnedStates
  <1> QED
    BY <1>5, <1>6, <1>7, <1>8, <1>9 DEF StageJournal

\* A candidate becomes committed only in its own boot recovery.
LEMMA CommitArtifacts ==
    ASSUME OrchestratorInv, Clean, Do("commit"), CommitJournal(self),
           UNCHANGED <<record, archiveFinal, prepared, todo, self, pc>>
    PROVE  OwnerInv' /\ StartInv' /\ EndInv'
  <1>1. CASE Owns(self, {"CandidateHealthy"}) /\ MoveTo("Committing")
    BY <1>1, TrialMoves DEF Owns, At, Trial, OwnedStates
  <1>3. CASE UNCHANGED journal
    BY <1>3, SelectorMoves
  <1>2. CASE Owns(self, {"Committing"}) /\ MoveTo("Committed")
    <2>0. OwnerInv /\ EndInv
      BY DEF OrchestratorInv, ArtifactInv
    <2>1. At(Trial) /\ At(OwnedStates) /\ ~At({"Committed"}) /\ ~Fresh
      BY <1>2 DEF Owns, At, Trial, OwnedStates, Fresh
    <2>2. journal \in [state : OwnedStates, owner : Requests, approved : BOOLEAN]
      BY <2>1 DEF OrchestratorInv, TypeOK, ContractTypeOK, ContractRecords, At, OwnedStates
    <2>3. journal' = [state |-> "Committed", owner |-> journal.owner,
                      approved |-> journal.approved]
      BY <1>2, <2>2 DEF MoveTo
    <2>4. journal' \in [state : OwnedStates, owner : Requests, approved : BOOLEAN]
      BY <2>2, <2>3 DEF OwnedStates
    <2>5. journal' # NoJournal
      BY <2>4, JournalAssumption DEF ContractRecords
    <2>6. /\ At({"Committed"})' /\ ~At(Trial)' /\ ~At({"Idle"})'
          /\ journal.owner' = journal.owner /\ journal.approved' = journal.approved
      BY <2>3, <2>5 DEF At, Trial
    <2>7. OwnerInv'
      BY <2>0, <2>1, <2>6 DEF OwnerInv, Orphans
    <2>8. StartInv'
      BY SideOf, EndStepsAre, StartTrivial
    <2>9. NoRollback(todo)
      BY NotBefore DEF NoRollback, Rank
    <2>10. EndInv'
      BY <2>0, <2>1, <2>6, <2>9 DEF EndInv, NoArchive, NoPrepared, Present
    <2> QED
      BY <2>7, <2>8, <2>10
  <1> QED
    BY <1>1, <1>2, <1>3 DEF CommitJournal

LEMMA RollbackArtifacts ==
    ASSUME OrchestratorInv, Clean, Do("rollback"), RollbackJournal(self),
           UNCHANGED <<record, archiveFinal, prepared, todo, self, pc>>
    PROVE  OwnerInv' /\ StartInv' /\ EndInv'
  <1>0. OwnerInv /\ EndInv
    BY DEF OrchestratorInv, ArtifactInv
  <1>1. At(Trial) /\ At(OwnedStates) /\ ~At({"Committed"}) /\ ~Fresh
    <2>1. At(OwnedStates)
      BY DEF RollbackJournal, Owns, At, OwnedStates
    <2>2. ~At({"Committed"})
      BY HeadRelies
    <2> QED
      BY <2>1, <2>2, JournalOwner
  <1>2. CASE journal' = Blank("Idle")
    <2>1. Present("active")
      BY <1>1, JournalOwner, RequestAssumption DEF Present
    <2>2. ~At(OwnedStates)' /\ ~At(Trial)' /\ ~At({"Committed"})'
      BY <1>2 DEF At, OwnedStates, Trial, Blank
    <2>3. OwnerInv'
      BY <1>0, <2>1, <2>2 DEF OwnerInv, Orphans, Present
    <2>4. StartInv'
      BY SideOf, EndStepsAre, StartTrivial
    <2>5. EndInv'
      BY <1>0, <1>1, <2>2 DEF EndInv, NoArchive, NoPrepared, Present
    <2> QED
      BY <2>3, <2>4, <2>5
  <1>3. CASE MoveTo("RollingBack")
    BY <1>1, <1>3, TrialMoves DEF Trial, OwnedStates
  <1> QED
    BY <1>2, <1>3 DEF RollbackJournal

\* Whatever step the installer takes.
LEMMA JournalArtifacts ==
    ASSUME OrchestratorInv, Clean, NEW step \in InstallerSteps, Do(step),
           InstallerMoves(step),
           UNCHANGED <<record, archiveFinal, prepared, todo, self, pc>>
    PROVE  OwnerInv' /\ StartInv' /\ EndInv'
  <1>1. CASE step = "stage"
    BY <1>1, StageArtifacts DEF InstallerMoves
  <1>2. CASE step = "arm"
    <2>1. CASE UNCHANGED journal
      BY <2>1, SelectorMoves
    <2>2. CASE Owns(self, {"Staged"}) /\ MoveTo("CandidatePending")
      BY <2>2, TrialMoves DEF Owns, At, Trial, OwnedStates
    <2> QED
      BY <1>2, <2>1, <2>2 DEF InstallerMoves, ArmJournal
  <1>3. CASE step = "mark_healthy"
    BY <1>3, TrialMoves DEF InstallerMoves, HealthyJournal, Owns, At, Trial, OwnedStates
  <1>4. CASE step = "commit"
    BY <1>4, CommitArtifacts DEF InstallerMoves
  <1>5. CASE step = "rollback"
    BY <1>5, RollbackArtifacts DEF InstallerMoves
  <1>6. CASE step \in {"retire_rolled_back", "retire_committed"}
    BY <1>6, JournalGone DEF InstallerMoves, RetireJournal
  <1> QED
    BY <1>1, <1>2, <1>3, <1>4, <1>5, <1>6 DEF InstallerSteps

\* The prepared configuration is written, or removed.
LEMMA PreparedArtifacts ==
    ASSUME OrchestratorInv, Clean, PreparedStep
    PROVE  OwnerInv' /\ StartInv' /\ EndInv'
  <1>0. /\ OwnerInv /\ StartInv /\ EndInv /\ todo \in Seq(Steps)
        /\ prepared \in [Requests -> {"none", "partial", "ready"}]
        /\ self \in Requests \cup {NoRequest}
        /\ UNCHANGED <<journal, record, archiveFinal>>
    BY DEF OrchestratorInv, ArtifactInv, TypeOK, PreparedStep, storeVars, archiveVars
  <1>1. ASSUME Do("prepare"), NEW v \in {"partial", "ready"},
               prepared' = [prepared EXCEPT ![self] = v], UNCHANGED self
        PROVE  OwnerInv'
    <2>1. Fresh /\ record["active"] = self
      BY <1>1, HeadRelies, BetweenAre
    <2>2. ~At(OwnedStates)' /\ ~At(Trial)' /\ ~At({"Idle"})'
      BY <1>0, <2>1 DEF Fresh, At, OwnedStates, Trial
    <2>3. \A r \in Requests : r # record'["active"] =>
                                 archiveFinal'[r] = "none" /\ prepared'[r] = "none"
      BY <1>0, <1>1, <2>1 DEF OwnerInv, Orphans
    <2> QED
      BY <2>2, <2>3 DEF OwnerInv, Orphans
  <1>2. CASE /\ Do("prepare") /\ prepared[self] = "none"
             /\ prepared' = [prepared EXCEPT ![self] = "partial"]
             /\ UNCHANGED control
    <2>1. ~Exposed(todo, Between(3, 9), {}) /\ ~Exposed(todo, {"stage"}, {"prepare"})
      <3>1. ~Exposed(todo, Between(3, 9), {})
        BY <1>2, NotBefore, BetweenAre DEF Rank
      <3>2. ~Exposed(todo, {"stage"}, {"prepare"})
        BY <1>0, <1>2 DEF StartInv
      <3> QED
        BY <3>1, <3>2
    <2>2. StartInv'
      BY <1>0, <1>2, <2>1 DEF StartInv, NoArchive, Fresh, At, control
    <2>3. EndInv'
      BY <1>2, SideOf, StartStepsAre, EndTrivial DEF control
    <2> QED
      BY <1>1, <1>2, <2>2, <2>3 DEF control
  <1>3. CASE /\ Do("prepare") /\ Succeed
             /\ prepared' = [prepared EXCEPT ![self] = "ready"]
    <2>0. todo # <<>> /\ todo' = Tail(todo) /\ self' = self /\ Head(todo) = "prepare"
      BY <1>3 DEF Do, Succeed
    <2>1. \A X, Y : Exposed(todo', X, Y) => Exposed(todo, X, Y) \/ "prepare" \in Y
      BY <1>0, <2>0, ExposedTail
    <2>2. ~Exposed(todo', Between(3, 9), {})
      <3>1. \A x \in Between(3, 9) : x \in Steps /\ Rank[x] <= Rank[Head(todo)]
        <4>1. Rank["prepare"] = 10
          BY DEF Rank
        <4>2. \A x \in Between(3, 9) : x \in Steps /\ Rank[x] \in 3..9
          BY DEF Between
        <4> QED
          BY <2>0, <4>1, <4>2
      <3> QED
        BY <2>0, <3>1, PassedBy
    <2>3. self \in Requests /\ prepared'[self'] = "ready"
      <3>1. self # NoRequest
        BY <1>3, HeadRelies, BetweenAre
      <3> QED
        BY <1>0, <1>3, <2>0, <3>1
    <2>4. StartInv'
      BY <1>0, <2>0, <2>1, <2>2, <2>3, RequestAssumption DEF StartInv, NoArchive, Fresh, At
    <2>5. EndInv'
      BY <1>3, <2>0, SideOf, StartStepsAre, EndTrivial
    <2> QED
      BY <1>1, <1>3, <2>0, <2>4, <2>5
  <1>4. CASE /\ Do("discard_prepared") /\ prepared[self] = "ready"
             /\ prepared' = [prepared EXCEPT ![self] = "partial"]
             /\ UNCHANGED control
    <2>1. ~At(Trial) /\ ~At(Trial)'
      BY <1>0, <1>4, HeadRelies DEF At
    <2>2. \A r \in Requests : prepared'[r] # "none" => prepared[r] # "none"
      BY <1>0, <1>4
    <2>3. OwnerInv'
      BY <1>0, <2>1, <2>2 DEF OwnerInv, Orphans, At, Present
    <2>4. StartInv'
      BY <1>4, SideOf, EndStepsAre, StartTrivial DEF control
    <2>5. NoPrepared => NoPrepared'
      BY <2>2 DEF NoPrepared
    <2>6. EndInv'
      BY <1>0, <1>4, <2>5 DEF EndInv, NoArchive, Fresh, At, Present, control
    <2> QED
      BY <2>3, <2>4, <2>6
  <1>5. CASE /\ Do("discard_prepared") /\ Succeed
             /\ prepared' = [prepared EXCEPT ![self] = "none"]
    <2>1. Established /\ ~Do("identify") /\ ~Do("prepare")
      BY <1>0, <1>5 DEF Do, Established
    <2>2. \A r \in Requests : prepared'[r] \in {prepared[r], "none"}
      BY <1>0, <1>5
    <2> QED
      BY <1>0, <1>5, <2>1, <2>2, AdvanceKeeps DEF Do, Executing
  <1> QED
    BY <1>2, <1>3, <1>4, <1>5 DEF PreparedStep

\* The downloaded archive takes its final name: its request is active by then.
LEMMA PublishFinds ==
    ASSUME OrchestratorInv, Clean, Do("finish"), ArchivePublish,
           UNCHANGED <<journal, record, prepared, todo, self, pc>>
    PROVE  OwnerInv' /\ StartInv' /\ EndInv'
  <1>0. OwnerInv /\ StartInv /\ archiveFinal \in [Requests -> {"none", "whole"}]
    BY DEF OrchestratorInv, ArtifactInv, TypeOK, ArchiveTypeOK
  <1>1. bound = self /\ record["active"] = self
    BY HeadRelies, BetweenAre DEF ArchivePublish, OrchestratorInv, RequestInv
  <1>2. \A r \in Requests : r # record["active"] =>
                               archiveFinal'[r] = "none" /\ prepared[r] = "none"
    BY <1>0, <1>1 DEF OwnerInv, Orphans, ArchivePublish
  <1>3. OwnerInv'
    BY <1>0, <1>2 DEF OwnerInv, Orphans, At, Present
  <1>4. ~Exposed(todo, Between(3, 6), {})
    BY NotBefore, BetweenAre DEF Rank
  <1>5. StartInv'
    BY <1>0, <1>4 DEF StartInv, NoPrepared, Fresh, At
  <1>6. EndInv'
    BY SideOf, StartStepsAre, EndTrivial
  <1> QED
    BY <1>3, <1>5, <1>6

\* A new identity owns nothing yet.
LEMMA IdentifyFinds ==
    ASSUME OrchestratorInv, Clean, Identify
    PROVE  OwnerInv' /\ StartInv' /\ EndInv'
  <1>0. /\ OwnerInv /\ StartInv /\ RequestInv /\ todo \in Seq(Steps)
        /\ todo # <<>> /\ Head(todo) = "identify" /\ todo' = Tail(todo)
        /\ UNCHANGED <<journal, record, archiveFinal, prepared>>
    BY DEF OrchestratorInv, ArtifactInv, TypeOK, Identify, Do, DiskUnchanged, storeVars,
           archiveVars
  <1>1. OwnerInv'
    BY <1>0, OwnerKept
  <1>2. \A X, Y : Exposed(todo', X, Y) => Exposed(todo, X, Y) \/ "identify" \in Y
    BY <1>0, ExposedTail
  <1>3. self = NoRequest
    BY <1>0, ExposedHead DEF RequestInv
  <1>4. /\ ~Exposed(todo', Between(6, 14), {"persist"})
        /\ ~Exposed(todo', {"stage"}, {"prepare"})
    BY <1>0, <1>2, <1>3 DEF StartInv
  <1>5. StartInv'
    BY <1>0, <1>2, <1>4 DEF StartInv, NoArchive, NoPrepared, Fresh, At
  <1>6. EndInv'
    BY <1>0, SideOf, StartStepsAre, EndTrivial DEF Identify
  <1> QED
    BY <1>1, <1>5, <1>6

\* A step that nothing later relies on.
LEMMA PlainStep ==
    ASSUME OrchestratorInv, Clean, NEW step, Do(step), Succeed,
           step \notin {"discard_archive", "discard_prepared", "retire_rolled_back",
                        "retire_committed", "rollback", "commit", "persist",
                        "identify", "prepare"},
           UNCHANGED <<journal, record, prepared>>,
           \A r \in Requests : archiveFinal'[r] \in {archiveFinal[r], "none"}
    PROVE  OwnerInv' /\ StartInv' /\ EndInv'
  <1>1. Established /\ ~Do("identify") /\ ~Do("prepare") /\ Executing /\ todo # <<>>
    BY DEF Established, Do, Executing
  <1> QED
    BY <1>1, AdvanceKeeps

\* Nothing left to do: nothing is relied on.
LEMMA EmptyFinds ==
    ASSUME OrchestratorInv, Clean, todo' = <<>>, UNCHANGED <<journal, record, prepared>>,
           \A r \in Requests : archiveFinal'[r] \in {archiveFinal[r], "none"}
    PROVE  OwnerInv' /\ StartInv' /\ EndInv'
  <1>1. todo' \in Seq(StartSteps) /\ todo' \in Seq(EndSteps)
    OBVIOUS
  <1> QED
    BY <1>1, OwnerKept, StartTrivial, EndTrivial

LEMMA ArchiveArtifacts ==
    ASSUME OrchestratorInv, Clean, ArchiveStep
    PROVE  OwnerInv' /\ StartInv' /\ EndInv'
  <1>0. /\ UNCHANGED <<journal, record, prepared>>
        /\ archiveFinal \in [Requests -> {"none", "whole"}]
    BY DEF ArchiveStep, storeVars, OrchestratorInv, TypeOK, ArchiveTypeOK
  <1>1. CASE Do("begin") /\ ArchiveBegin(self) /\ Succeed
    BY <1>0, <1>1, PlainStep DEF ArchiveBegin
  <1>2. CASE Do("fetch") /\ Succeed /\ ArchiveWrite("whole")
    BY <1>0, <1>2, PlainStep DEF ArchiveWrite
  <1>3. CASE Do("finish") /\ ArchivePublish /\ UNCHANGED control
    BY <1>0, <1>3, PublishFinds DEF control
  <1>4. CASE Do("finish") /\ ArchiveFinished /\ Succeed
    BY <1>0, <1>4, PlainStep DEF ArchiveFinished
  <1>5. CASE Do("open") /\ ArchiveOpenRead(self) /\ Succeed
    BY <1>0, <1>5, PlainStep DEF ArchiveOpenRead
  <1>6. CASE Do("rehash") /\ Succeed /\ UNCHANGED archiveVars
    BY <1>0, <1>6, PlainStep DEF archiveVars
  <1>7. CASE (Do("close") \/ Do("close_checked")) /\ ArchiveCloseRead /\ Succeed
    BY <1>0, <1>7, PlainStep DEF ArchiveCloseRead
  <1>8. CASE Do("abort") /\ ArchiveAbort /\ Succeed
    <2>1. \A r \in Requests : archiveFinal'[r] \in {archiveFinal[r], "none"}
      BY <1>0, <1>8 DEF ArchiveAbort, archiveVars
    <2> QED
      BY <1>0, <1>8, <2>1, PlainStep
  <1>9. CASE Do("discard_archive") /\ ArchiveDiscardPart(self) /\ UNCHANGED control
    BY <1>0, <1>9, RecordArtifacts DEF ArchiveDiscardPart, RecordFrame, control
  <1>10. CASE Do("discard_archive") /\ ArchiveDiscardFinal(self) /\ Succeed
    <2>1. Established /\ ~Do("identify") /\ ~Do("prepare") /\ Executing /\ todo # <<>>
      BY <1>0, <1>10 DEF Established, Do, Executing, ArchiveDiscardFinal
    <2>2. \A r \in Requests : archiveFinal'[r] \in {archiveFinal[r], "none"}
      BY <1>0, <1>10 DEF ArchiveDiscardFinal
    <2> QED
      BY <1>0, <1>10, <2>1, <2>2, AdvanceKeeps
  <1> QED
    BY <1>1, <1>2, <1>3, <1>4, <1>5, <1>6, <1>7, <1>8, <1>9, <1>10 DEF ArchiveStep

\* What boot recovery decides.
LEMMA RecoverArtifacts ==
    ASSUME OrchestratorInv, Clean, RecoverPendingUpdate
    PROVE  OwnerInv' /\ StartInv' /\ EndInv'
  <1>0. /\ UNCHANGED <<journal, record, archiveFinal, prepared>>
        /\ pc = "recover" /\ (~Executing => todo = <<>>)
    BY DEF RecoverPendingUpdate, DiskUnchanged, storeVars, archiveVars, OrchestratorInv, ListInv
  <1>1. CASE Recover(<<"reboot_previous">>)
    <2>1. todo' \in Seq(Independent) /\ todo' \in Seq(EndSteps)
      BY <1>1, EndStepsAre DEF Recover, Independent
    <2> QED
      BY <1>0, <2>1, OwnerKept, StartTrivial, IndependentReplaces
  <1>2. CASE pc' = "menu" /\ UNCHANGED <<todo, self>>
    BY <1>0, <1>2, EmptyFinds DEF Executing
  <1>3. CASE Loads("active") /\ \E found \in Findings : Recover(ResumePlan(found))
    BY <1>0, <1>3, ResumeFinds DEF Loads
  <1> QED
    BY <1>1, <1>2, <1>3 DEF RecoverPendingUpdate, NothingPending

\* What the installer is asked for.
LEMMA InstallerArtifacts ==
    ASSUME OrchestratorInv, Clean, NEW step \in InstallerSteps,
           InstallerStep(step) \/ InstallerRefuses(step)
    PROVE  OwnerInv' /\ StartInv' /\ EndInv'
  <1>0. UNCHANGED <<record, archiveFinal, prepared>> /\ Do(step)
    BY DEF InstallerStep, InstallerRefuses, DiskUnchanged, storeVars, archiveVars
  <1>1. CASE InstallerStep(step) /\ InstallerMoves(step) /\ UNCHANGED control
    BY <1>0, <1>1, JournalArtifacts DEF control
  <1>2. CASE InstallerStep(step) /\ InstallerAccepts(step) /\ Succeed /\ UNCHANGED journal
    <2>1. \A s : Do(s) => s = step
      BY <1>0 DEF Do
    <2>2. ~Do("identify") /\ ~Do("prepare") /\ ~Do("persist") /\ ~Do("discard_archive")
          /\ ~Do("discard_prepared")
      BY <2>1 DEF InstallerSteps
    <2>3. Established
      BY <1>2, <2>1, <2>2 DEF Established, InstallerAccepts, Owns, At
    <2> QED
      BY <1>0, <1>2, <2>2, <2>3, AdvanceKeeps DEF Do, Executing
  <1>3. CASE InstallerRefuses(step)
    <2>0. /\ Become(Recovery(step, "failed")) /\ UNCHANGED journal
          /\ ~InstallerAccepts(step) /\ ~InstallerMay(step)
      BY <1>3 DEF InstallerRefuses, DiskUnchanged
    <2>1. step # "retire_rolled_back"
      BY <1>0, <2>0, HeadRelies, JournalOwner DEF InstallerAccepts, InstallerMay
    <2>2. step = "commit" => ~At({"Committed"})
      <3> SUFFICES ASSUME step = "commit", At({"Committed"})
                   PROVE  FALSE
        OBVIOUS
      <3>1. Present("active")
        BY <1>0, HeadRelies
      <3>2. record["committed"] = NoRequest
        BY <3>1 DEF OrchestratorInv, StoreInv, OneRecord, Present, Kinds
      <3>3. At(OwnedStates)
        BY DEF At, OwnedStates
      <3>4. journal.owner = record["active"]
        BY <3>2, <3>3, JournalOwner, RequestAssumption
      <3>5. record["active"] = self
        BY <1>0, <3>1 DEF OrchestratorInv, RequestInv, Do, Executing, Present
      <3> QED
        BY <2>0, <3>4, <3>5 DEF InstallerAccepts, Owns
    <2>3. step \in {"stage", "arm", "mark_healthy", "commit", "rollback", "retire_committed"}
      BY <2>1 DEF InstallerSteps
    <2> QED
      BY <1>0, <2>0, <2>2, <2>3, RecoveryFinds
  <1> QED
    BY <1>1, <1>2, <1>3 DEF InstallerStep

\* Saved, discarded, kept or retired: the operation has returned.
LEMMA StoreReturnsArtifacts ==
    ASSUME OrchestratorInv, Clean, NEW step \in DOMAIN StoreOperation, StoreReturns(step)
    PROVE  OwnerInv' /\ StartInv' /\ EndInv'
  <1>0. /\ UNCHANGED <<journal, record, archiveFinal, prepared>>
        /\ Do(step) /\ call = NoCall
        /\ step \in {"persist", "discard_request", "deactivate", "retain",
                     "discard_committed"}
    BY DEF StoreReturns, archiveVars, StoreOperation
  <1>1. CASE result = "ok" /\ Succeed
    <2>1. \A s : Do(s) => s = step
      BY <1>0 DEF Do
    <2>2. ~Do("identify") /\ ~Do("prepare")
      BY <1>0, <2>1
    <2>3. Established
      <3>1. Do("persist") => record["active"] = self
        BY <1>0, <1>1 DEF OrchestratorInv, CallInv
      <3> QED
        BY <1>0, <2>1, <3>1 DEF Established
    <2> QED
      BY <1>0, <1>1, <2>2, <2>3, AdvanceKeeps DEF Do, Executing
  <1>2. CASE Become(Recovery(step, result))
    BY <1>0, <1>2, RecoveryFinds
  <1> QED
    BY <1>1, <1>2 DEF StoreReturns

\* Nothing touched, nothing to do.
LEMMA DownFinds ==
    ASSUME OrchestratorInv, Clean, Down
    PROVE  OwnerInv' /\ StartInv' /\ EndInv'
  BY EmptyFinds DEF Down, StoreLosesPower, ArchiveLosesPower

LEMMA ArtifactInvStep ==
    ASSUME OrchestratorInv, [Next]_vars
    PROVE  ArtifactInv'
  <1> SUFFICES ASSUME Clean'
               PROVE  OwnerInv' /\ StartInv' /\ EndInv'
    BY DEF ArtifactInv
  <1>0. faults \in Nat /\ faults' = 0 /\ faults = 0
    BY FaultsKept, FaultAssumption DEF Clean, OrchestratorInv, TypeOK
  <1>1. Clean
    BY <1>0, UsedKept DEF Clean, Identify
  <1>2. UNCHANGED <<storeVars, journal, archiveVars, prepared, control>>
          => OwnerInv' /\ StartInv' /\ EndInv'
    BY <1>1, RecordArtifacts DEF RecordFrame, storeVars, archiveVars, control
  <1>3. ~Executing => todo = <<>>
    BY DEF OrchestratorInv, ListInv
  <1>4. CASE Work
    <2>1. CASE Return
      <3>1. /\ todo' = <<>> /\ UNCHANGED <<journal, record, prepared>>
            /\ \A r \in Requests : archiveFinal'[r] \in {archiveFinal[r], "none"}
        BY <2>1 DEF Return, ArchiveDestroy, ArchiveAbort, archiveVars, storeVars, OrchestratorInv,
                    TypeOK, ArchiveTypeOK
      <3> QED
        BY <1>1, <3>1, EmptyFinds
    <2>2. CASE Identify
      BY <1>1, <2>2, IdentifyFinds
    <2>3. ASSUME NEW step \in DOMAIN StoreOperation, CallStore(step)
          PROVE  OwnerInv' /\ StartInv' /\ EndInv'
      BY <1>1, <2>3, RecordArtifacts
      DEF RecordFrame, CallStore, Invoke, archiveVars, control
    <2>4. CASE RunStore
      BY <1>1, <2>4, RecordFramed, RecordArtifacts DEF RunStore, archiveVars, control
    <2>5. ASSUME NEW step \in DOMAIN StoreOperation, StoreReturns(step)
          PROVE  OwnerInv' /\ StartInv' /\ EndInv'
      BY <1>1, <2>5, StoreReturnsArtifacts
    <2>6. CASE ArchiveStep \/ PreparedStep
      BY <1>1, <2>6, ArchiveArtifacts, PreparedArtifacts
    <2>7. ASSUME NEW step \in InstallerSteps, InstallerStep(step) \/ InstallerRefuses(step)
          PROVE  OwnerInv' /\ StartInv' /\ EndInv'
      BY <1>1, <2>7, InstallerArtifacts
    <2>8. CASE RequestReboot \/ WatchdogFires
      BY <1>1, <2>8, DownFinds DEF RequestReboot, WatchdogFires
    <2>9. CASE StopWatchdog
      BY <1>1, <2>9, PlainStep DEF StopWatchdog, DiskUnchanged, storeVars, archiveVars
    <2>10. CASE PowerOn \/ ArmWatchdog
      BY <1>1, <1>3, <2>10, EmptyFinds
      DEF PowerOn, ArmWatchdog, DiskUnchanged, storeVars, archiveVars, Executing
    <2>11. CASE RecoverPendingUpdate
      BY <1>1, <2>11, RecoverArtifacts
    <2> QED
      BY <1>4, <2>1, <2>2, <2>3, <2>4, <2>5, <2>6, <2>7, <2>8, <2>9, <2>10, <2>11 DEF Work
  <1>5. ~Failing
    <2>1. ~Fault
      BY <1>0 DEF Fault
    <2> QED
      BY <1>0, <2>1 DEF Failing, FailStore, ArchiveFails, PreparedFails, InstallerFails,
         RebootFails, StopWatchdogFails, WatchdogFails, RecoveryReadFails
  <1>6. CASE InstallCheckedUpdate
    BY <1>1, <1>6, InstallFinds
  <1>7. CASE BadDownload
    BY <1>1, <1>7, RecoveryFinds DEF BadDownload, ArchiveWrite, storeVars
  <1>8. CASE Cancel
    BY <1>1, <1>8, RecoveryFinds DEF Cancel, DiskUnchanged, storeVars, archiveVars
  <1>9. CASE PowerCut
    BY <1>1, <1>9, DownFinds DEF PowerCut
  <1>10. CASE UNCHANGED vars
    BY <1>2, <1>10 DEF vars
  <1> QED
    BY <1>4, <1>5, <1>6, <1>7, <1>8, <1>9, <1>10 DEF Next

-----------------------------------------------------------------------------
(* Theorems. *)

LEMMA InitInv == Init => OrchestratorInv
  <1> SUFFICES ASSUME Init PROVE OrchestratorInv
    OBVIOUS
  <1> USE RequestAssumption, StoreAssumption, FaultAssumption
  <1>1. TypeOK
    <2>1. StoreTypeOK
      BY DEF Init, StoreInit, StoreTypeOK, NoCall, Operations
    <2>2. ArchiveTypeOK /\ ContractTypeOK
      BY DEF Init, ArchiveInit, ArchiveTypeOK, ContractTypeOK, Undos, Handles
    <2>3. todo \in Seq(Steps) /\ faults \in 0 .. MaxFaults
      BY DEF Init
    <2> QED
      BY <2>1, <2>2, <2>3 DEF Init, TypeOK
  <1>2. StoreInv
    BY DEF Init, StoreInit, StoreInv, SaveExact, DiscardExact, DiscardCommittedExact,
       RecordLoads, OneRecord, Present, Kinds, NoCall
  <1>3. ListInv
    BY EmptyList DEF Init, ListInv, EndList, Executing
  <1>4. CallInv
    BY DEF Init, CallInv, StoreInit
  <1>5. RequestInv
    BY ExposedEmpty DEF Init, RequestInv, StoreInit, ArchiveInit, Executing, Kinds
  <1>6. WatchdogInv
    BY EmptyList DEF Init, WatchdogInv, Executing
  <1>7. ArtifactInv
    <2>1. OwnerInv
      BY DEF Init, ArchiveInit, OwnerInv, Orphans, At
    <2>2. todo = <<>>
      BY DEF Init
    <2>3. StartInv
      BY <2>2, ExposedEmpty DEF StartInv
    <2>4. EndInv
      BY <2>2, ExposedEmpty DEF EndInv, ArchiveFirst, PreparedFirst, RetiredFirst,
         RollbackFirst, RequestFirst, DecidedFirst, NoRollback, CommitFirst, NoCommit
    <2> QED
      BY <2>1, <2>3, <2>4 DEF ArtifactInv
  <1> QED
    BY <1>1, <1>2, <1>3, <1>4, <1>5, <1>6, <1>7 DEF OrchestratorInv

\* What holds at every moment of an update, between any two file system calls
\* of its boots (StartUpdateFromMenu, RecoverPendingUpdateAfterBoot and what
\* they call): the invariant that the theorems below are read off.
THEOREM OrchestratorInvariant == Spec => []OrchestratorInv
  <1>1. OrchestratorInv /\ [Next]_vars => OrchestratorInv'
    BY TypeStep, StoreInvStep, ListInvStep, CallInvStep, RequestInvStep, WatchdogInvStep,
       ArtifactInvStep DEF OrchestratorInv
  <1> QED
    BY InitInv, <1>1, PTL DEF Spec

\* Every variable keeps the shape the code gives it.
THEOREM TypeCorrect == Spec => []TypeOK
  BY OrchestratorInvariant, PTL DEF OrchestratorInv

\* UpdateTransactionStore publishes a state record only over complete payloads
\* of its own, and removes none of them before the record: whichever call a
\* power cut or a failure interrupts, boot recovery and retirement can load
\* the record they find.
THEOREM RecordsAlwaysLoad == Spec => []RecordLoads
  <1>1. OrchestratorInv => RecordLoads
    BY DEF OrchestratorInv, StoreInv
  <1> QED
    BY <1>1, OrchestratorInvariant, PTL

\* RetainCommittedAtRoot and DiscardCommittedAtRoot move the one record from
\* name to name: no two of them are ever there to fight for the payloads.
THEOREM OneRecordAlways == Spec => []OneRecord
  <1>1. OrchestratorInv => OneRecord
    BY DEF OrchestratorInv, StoreInv
  <1> QED
    BY <1>1, OrchestratorInvariant, PTL

\* RecoverPendingUpdateAfterBoot reboots a candidate that has no watchdog: it
\* runs on to the menu only after at least three calls have failed.
THEOREM CandidateAlwaysGuarded == Spec => []CandidateGuarded
  <1>1. OrchestratorInv => CandidateGuarded
    BY DEF OrchestratorInv, WatchdogInv, CandidateGuarded
  <1> QED
    BY <1>1, OrchestratorInvariant, PTL

\* ResumeAfterBoot commits only after the probe has found a one-shot boot with
\* its watchdog running, and both are still so when the journal is committed,
\* however often the update was cut before.
THEOREM OnlyGuardedCommits == Spec => CommitsOnlyGuarded
  <1>1. OrchestratorInv /\ [Next]_vars =>
          [At({"Committed"})' /\ ~At({"Committed"}) =>
             boot = "tryboot" /\ watchdog = "owned"]_vars
    <2> SUFFICES ASSUME OrchestratorInv, [Next]_vars, At({"Committed"})', ~At({"Committed"})
                 PROVE  boot = "tryboot" /\ watchdog = "owned"
      OBVIOUS
    <2>1. journal' # journal
      BY DEF At
    <2>2. PICK step \in InstallerSteps : Do(step) /\ InstallerMoves(step)
      BY <2>1, JournalFramed
    <2>3. step = "commit"
      <3>1. At(OwnedStates) =>
              /\ \A to : MoveTo(to) => journal'.state = to
              /\ \A v : journal' = [journal EXCEPT !.state = "Downloaded", !.approved = v]
                         => journal'.state = "Downloaded"
        BY DEF OrchestratorInv, TypeOK, ContractTypeOK, ContractRecords, At, OwnedStates, MoveTo
      <3>2. \A r, S : Owns(r, S) /\ S \subseteq OwnedStates => At(OwnedStates)
        BY DEF Owns, At
      <3>3. journal'.state = "Committed" /\ journal' # NoJournal
        BY DEF At
      <3>4. step # "stage"
        <4> SUFFICES ASSUME step = "stage" PROVE FALSE
          OBVIOUS
        <4>1. StageJournal(self)
          BY <2>2 DEF InstallerMoves
        <4>2. journal'.state \in {"Anchor", "Discovered", "Downloaded", "Prepared", "Staged"}
          <5>1. CASE journal' = Blank("Anchor")
            BY <5>1 DEF Blank
          <5>2. CASE journal' = [state |-> "Discovered", owner |-> self, approved |-> FALSE]
            BY <5>2
          <5>3. CASE /\ Owns(self, {"Discovered"})
                     /\ journal' = [journal EXCEPT !.state = "Downloaded",
                                                   !.approved = ResetOf[self]]
            <6>1. At(OwnedStates)
              BY <3>2, <5>3 DEF OwnedStates
            <6> QED
              BY <3>1, <5>3, <6>1
          <5>4. CASE Owns(self, {"Downloaded", "Prepared"}) /\ (MoveTo("Prepared") \/ MoveTo("Staged"))
            <6>1. At(OwnedStates)
              BY <3>2, <5>4 DEF OwnedStates
            <6> QED
              BY <3>1, <5>4, <6>1
          <5> QED
            BY <4>1, <5>1, <5>2, <5>3, <5>4 DEF StageJournal, Owns, At
        <4> QED
          BY <3>3, <4>2
      <3>5. step # "arm" /\ step # "mark_healthy"
        BY <2>1, <2>2, <3>1, <3>2, <3>3 DEF InstallerMoves, ArmJournal, HealthyJournal, OwnedStates
      <3>6. step # "rollback"
        <4> SUFFICES ASSUME step = "rollback" PROVE FALSE
          OBVIOUS
        <4>1. RollbackJournal(self)
          BY <2>2 DEF InstallerMoves
        <4>2. Owns(self, OwnedStates \ {"Discovered", "Downloaded", "RollingBack"})
                 => At(OwnedStates)
          BY <3>2
        <4>3. journal'.state \in {"Idle", "RollingBack"}
          <5>1. CASE journal' = Blank("Idle")
            BY <5>1 DEF Blank
          <5>2. CASE /\ Owns(self, OwnedStates \ {"Discovered", "Downloaded", "RollingBack"})
                     /\ MoveTo("RollingBack")
            BY <3>1, <4>2, <5>2
          <5> QED
            BY <4>1, <5>1, <5>2 DEF RollbackJournal
        <4> QED
          BY <3>3, <4>3
      <3>7. step \notin {"retire_rolled_back", "retire_committed"}
        BY <2>2, <3>3 DEF InstallerMoves, RetireJournal
      <3> QED
        BY <3>4, <3>5, <3>6, <3>7 DEF InstallerSteps
    <2>4. ~NoCommit(todo)
      BY <2>2, <2>3, ExposedHead DEF NoCommit, Do, OrchestratorInv, TypeOK
    <2> QED
      BY <2>4 DEF OrchestratorInv, WatchdogInv
  <1> QED
    BY <1>1, OrchestratorInvariant, PTL DEF Spec, CommitsOnlyGuarded

\* As long as no call fails and no configuration is reset, a journal in use, a
\* published archive and a prepared configuration always belong to a request
\* that boot recovery or retirement will find: every clean-up of
\* UpdateOrchestrator ends with the record, and every journal begins after it.
THEOREM ArtifactsAlwaysOwned == Spec => []ArtifactsOwned
  <1>1. OrchestratorInv => ArtifactsOwned
    BY DEF OrchestratorInv, ArtifactInv, Clean, OwnerInv, ArtifactsOwned
  <1> QED
    BY <1>1, OrchestratorInvariant, PTL

=============================================================================
