---------------------------- MODULE RequestStore ----------------------------
(***************************************************************************)
(* The saved update request (src/update/update_transaction_store).  A      *)
(* request is four payload files with fixed names, shared by all requests, *)
(* and one state record whose name says what the request is: "active" is   *)
(* found by boot recovery, "committed" is inert and kept for retirement,   *)
(* "retiring" only authorizes the deletion of the payloads.                *)
(*                                                                         *)
(* An operation of the store is a sequence of file system calls; call says *)
(* which operation runs and where it is, so that a power cut or a failing  *)
(* call may end it between any two of them.  A file is written under a     *)
(* temporary name, synced, and renamed to a name that did not exist.       *)
(***************************************************************************)
EXTENDS UpdateRequests

CONSTANTS
    PayloadCount,       \* kPayloadNames
    NoPayload           \* a payload file that does not exist

ASSUME StoreAssumption ==
    /\ PayloadCount \in Nat
    /\ NoPayload \notin Releases

VARIABLES
    record,     \* request-state.bin, committed-state.bin, retiring-state.bin
    payload,    \* the four payload files
    part,       \* the temporary files; the last one is the state record's
    call,       \* the operation that runs
    result      \* what the last operation returned

storeVars == <<record, payload, part, call, result>>

Kinds == {"active", "committed", "retiring"}

Payloads == 1 .. PayloadCount

\* The temporary file of the state record comes after those of the payloads.
StatePart == PayloadCount + 1

Operations == {"none", "Save", "Discard", "Deactivate", "RetainCommitted",
               "DiscardCommitted"}

NoCall == [op |-> "none", request |-> NoRequest, at |-> 0]

StoreTypeOK ==
    /\ record \in [Kinds -> Requests \cup {NoRequest}]
    /\ payload \in [Payloads -> Releases \cup {NoPayload}]
    /\ part \in [1 .. StatePart -> {"none", "stale", "written"}]
    /\ call \in [op : Operations, request : Requests \cup {NoRequest}, at : Nat]
    /\ result \in {"none", "ok", "failed", "progress"}

StoreInit ==
    /\ record = [k \in Kinds |-> NoRequest]
    /\ payload = [i \in Payloads |-> NoPayload]
    /\ part = [i \in 1 .. StatePart |-> "none"]
    /\ call = NoCall
    /\ result = "none"

Present(k) == record[k] # NoRequest

\* ReadVerifiedFile: the payload is there, with the size and the digest that
\* the record names.
ReadVerifiedFile(i, release) == payload[i] = release

\* LoadNamed: the record is there and every payload is the one it names.
Loads(k) ==
    Present(k) /\ \A i \in Payloads : ReadVerifiedFile(i, ReleaseOf[record[k]])

-----------------------------------------------------------------------------
\* A call of an operation, and its return.
Invoke(op, r) ==
    /\ call = NoCall
    /\ call' = [op |-> op, request |-> r, at |-> 0]
    /\ result' = "none"
    /\ UNCHANGED <<record, payload, part>>

Running(op, at) == call.op = op /\ call.at = at

Continue == call' = [call EXCEPT !.at = @ + 1] /\ UNCHANGED result

Finish(outcome) == call' = NoCall /\ result' = outcome

-----------------------------------------------------------------------------
(* Save: the payloads in order, then the record. *)

SaveCheck ==
    /\ Running("Save", 0)
    /\ IF Present("committed") \/ Present("retiring") THEN Finish("failed")
                                                      ELSE Continue
    /\ UNCHANGED <<record, payload, part>>

\* VerifyFile: an existing file has the bytes that were to be written.
VerifyFile(i, release) == payload[i] = release

\* WriteFreshVerified: a file with the same content is kept, one with another
\* content is a conflict, a missing one is written and renamed.
SaveTemporary(i, missing) ==
    /\ Running("Save", i) /\ missing
    /\ part[i] # "written"
    /\ part' = [part EXCEPT ![i] = "written"]
    /\ UNCHANGED <<record, payload, call, result>>

SavePayload(i) ==
    LET release == ReleaseOf[call.request] IN
    \/ SaveTemporary(i, payload[i] = NoPayload)
    \/ /\ Running("Save", i)
       /\ payload[i] = NoPayload /\ part[i] = "written"
       /\ payload' = [payload EXCEPT ![i] = release]
       /\ part' = [part EXCEPT ![i] = "none"]
       /\ Continue
       /\ UNCHANGED record
    \/ /\ Running("Save", i)
       /\ payload[i] # NoPayload
       /\ IF VerifyFile(i, release) THEN Continue ELSE Finish("failed")
       /\ UNCHANGED <<record, payload, part>>

\* Mutant: the record is published over whatever payloads there are.
SaveRecordFirst ==
    /\ Running("Save", 1)
    /\ record' = [record EXCEPT !["active"] = call.request]
    /\ call' = [call EXCEPT !.at = StatePart + 1]
    /\ UNCHANGED <<payload, part, result>>

SaveRecord ==
    \/ SaveTemporary(StatePart, ~Present("active"))
    \/ /\ Running("Save", StatePart)
       /\ ~Present("active") /\ part[StatePart] = "written"
       /\ record' = [record EXCEPT !["active"] = call.request]
       /\ part' = [part EXCEPT ![StatePart] = "none"]
       /\ Continue
       /\ UNCHANGED payload
    \/ /\ Running("Save", StatePart)
       /\ Present("active")
       /\ IF record["active"] = call.request THEN Continue ELSE Finish("failed")
       /\ UNCHANGED <<record, payload, part>>

SaveDone ==
    /\ Running("Save", StatePart + 1)
    /\ Finish("ok")
    /\ UNCHANGED <<record, payload, part>>

Save ==
    SaveCheck \/ (\E i \in Payloads : SavePayload(i)) \/ SaveRecord \/ SaveDone

-----------------------------------------------------------------------------
(* Discard: the record first, so that what is left of it is inert. *)

DiscardCheck ==
    /\ Running("Discard", 0)
    /\ IF Present("committed") \/ Present("retiring") THEN Finish("failed")
                                                      ELSE Continue
    /\ UNCHANGED <<record, payload, part>>

RemoveRecord(op, k, at) ==
    /\ Running(op, at)
    /\ record' = [record EXCEPT ![k] = NoRequest]
    /\ Continue
    /\ UNCHANGED <<payload, part>>

\* The two removals of one turn of the loop over the payload names.
RemovePayload(op, i) ==
    \/ /\ Running(op, 2 * i)
       /\ payload' = [payload EXCEPT ![i] = NoPayload]
       /\ Continue
       /\ UNCHANGED <<record, part>>
    \/ /\ Running(op, 2 * i + 1)
       /\ part' = [part EXCEPT ![i] = "none"]
       /\ Continue
       /\ UNCHANGED <<record, payload>>

AllRemoved == 2 * PayloadCount + 2

Discard ==
    \/ DiscardCheck
    \/ RemoveRecord("Discard", "active", 1)
    \/ \E i \in Payloads : RemovePayload("Discard", i)
    \/ /\ Running("Discard", AllRemoved)
       /\ Finish("ok")
       /\ UNCHANGED <<record, payload, part>>

\* DeactivateAtRoot looks at nothing but the activation record.
Deactivate ==
    \/ RemoveRecord("Deactivate", "active", 0)
    \/ /\ Running("Deactivate", 1)
       /\ Finish("ok")
       /\ UNCHANGED <<record, payload, part>>

-----------------------------------------------------------------------------
(* RetainCommitted and DiscardCommitted. *)

\* Mutant: the record is copied and the old name stays.
CopyRecord(from, to) == record' = [record EXCEPT ![to] = record[from]]

RenameRecord(from, to) ==
    record' = [record EXCEPT ![to] = record[from], ![from] = NoRequest]

RetainCommitted ==
    \/ /\ Running("RetainCommitted", 0)
       /\ ~Present("retiring") /\ ~Present("committed") /\ Present("active")
       /\ RenameRecord("active", "committed")
       /\ Continue
       /\ UNCHANGED <<payload, part>>
    \/ /\ Running("RetainCommitted", 0)
       /\ IF ~Present("retiring") /\ ~Present("active") /\ Present("committed")
          THEN Continue ELSE Finish("failed")
       /\ Present("retiring") \/ Present("committed") \/ ~Present("active")
       /\ UNCHANGED <<record, payload, part>>
    \/ /\ Running("RetainCommitted", 1)
       /\ Finish(IF Present("committed") /\ ~Present("active") THEN "ok"
                                                               ELSE "failed")
       /\ UNCHANGED <<record, payload, part>>

NothingStored ==
    \A i \in Payloads : payload[i] = NoPayload /\ part[i] = "none"

\* The committed record becomes the retiring marker, which goes last.
RetireRecord ==
    \/ /\ Running("DiscardCommitted", 0)
       /\ ~Present("active") /\ Present("committed") /\ ~Present("retiring")
       /\ RenameRecord("committed", "retiring")
       /\ call' = [call EXCEPT !.at = 2]
       /\ UNCHANGED <<payload, part, result>>
    \/ /\ Running("DiscardCommitted", 0)
       /\ ~Present("active") /\ ~Present("committed") /\ Present("retiring")
       /\ call' = [call EXCEPT !.at = 2]
       /\ UNCHANGED <<record, payload, part, result>>
    \/ /\ Running("DiscardCommitted", 0)
       /\ Present("active") \/ (Present("committed") <=> Present("retiring"))
       /\ Finish(IF (\E k \in Kinds : Present(k)) \/ ~NothingStored
                 THEN "failed" ELSE "ok")
       /\ UNCHANGED <<record, payload, part>>

DiscardCommitted ==
    \/ RetireRecord
    \/ \E i \in Payloads : RemovePayload("DiscardCommitted", i)
    \/ RemoveRecord("DiscardCommitted", "retiring", AllRemoved)
    \/ /\ Running("DiscardCommitted", AllRemoved + 1)
       /\ Finish("ok")
       /\ UNCHANGED <<record, payload, part>>

-----------------------------------------------------------------------------
StoreStep == Save \/ Discard \/ Deactivate \/ RetainCommitted \/ DiscardCommitted

\* A temporary file that was being written is left behind or removed.
Abandoned(p) ==
    \A i \in DOMAIN part :
        p[i] \in IF part[i] = "written" THEN {"stale", "none"} ELSE {part[i]}

\* A file system call of the operation fails, or its progress report does.
StoreCallFails(outcome) ==
    /\ call # NoCall
    /\ outcome = "progress" => call.op # "Save"
    /\ Finish(outcome)
    /\ part' \in [DOMAIN part -> {"none", "stale", "written"}]
    /\ Abandoned(part')
    /\ UNCHANGED <<record, payload>>

\* Power is lost: the files stay as they are, a temporary one is unfinished.
StoreLosesPower ==
    /\ call' = NoCall
    /\ result' = "none"
    /\ part' = [i \in DOMAIN part |->
                   IF part[i] = "written" THEN "stale" ELSE part[i]]
    /\ UNCHANGED <<record, payload>>

-----------------------------------------------------------------------------
(* Properties. *)

\* A record that boot recovery or retirement reads always loads: whatever
\* save, discard or rename was interrupted and whatever stale payloads of an
\* older request there were, the payloads beside it are complete and its own.
RecordLoads ==
    \A k \in {"active", "committed"} : Present(k) => Loads(k)

\* Two state records at once would leave nobody the owner of the shared
\* payloads (Discard and DiscardCommitted would refuse for ever).
OneRecord ==
    \A j, k \in Kinds : Present(j) /\ Present(k) => j = k

=============================================================================
