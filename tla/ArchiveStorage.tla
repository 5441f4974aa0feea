--------------------------- MODULE ArchiveStorage ---------------------------
(***************************************************************************)
(* The downloaded archive (src/update/fatfs_update_archive and the sink of *)
(* src/update/fatfs_update_storage).  Every request has its own part and   *)
(* final name, derived from a digest of the request, and one object        *)
(* remembers which of them it works on.  A part file is "partial" until    *)
(* its last byte is written; then it is "whole", or "wrong" if the bytes   *)
(* are not those of the signed digest.                                     *)
(***************************************************************************)
EXTENDS UpdateRequests

VARIABLES
    archivePart, archiveFinal,  \* archive-<binding>.zip.part and .zip
    handle,                     \* state_
    bound,                      \* active_paths_, as the request they are for
    mayHaveFinal                \* failed_finish_may_have_final_

archiveMemory == <<handle, bound, mayHaveFinal>>
archiveVars == <<archivePart, archiveFinal, archiveMemory>>

Handles == {"Idle", "Writing", "Completed", "Reading", "CleanupPending"}

ArchiveTypeOK ==
    /\ archivePart \in [Requests -> {"none", "partial", "whole", "wrong"}]
    /\ archiveFinal \in [Requests -> {"none", "whole"}]
    /\ handle \in Handles
    /\ bound \in Requests \cup {NoRequest}
    /\ mayHaveFinal \in BOOLEAN

ArchiveInit ==
    /\ archivePart = [r \in Requests |-> "none"]
    /\ archiveFinal = [r \in Requests |-> "none"]
    /\ handle = "Idle" /\ bound = NoRequest /\ mayHaveFinal = FALSE

\* A new object, or ClearRemembered.
Forgotten == handle' = "Idle" /\ bound' = NoRequest /\ mayHaveFinal' = FALSE

\* Begin refuses a final file and starts the part file again.
ArchiveBegin(r) ==
    /\ handle = "Idle" /\ archiveFinal[r] = "none"
    /\ archivePart' = [archivePart EXCEPT ![r] = "partial"]
    /\ handle' = "Writing" /\ bound' = r /\ mayHaveFinal' = FALSE
    /\ UNCHANGED archiveFinal

\* The bytes of the server; more than the signed size is refused.
ArchiveWrite(content) ==
    /\ handle = "Writing" /\ archivePart[bound] = "partial"
    /\ archivePart' = [archivePart EXCEPT ![bound] = content]
    /\ UNCHANGED <<archiveFinal, archiveMemory>>

\* Finish publishes the part file only if it was read back with the digest.
ArchivePublish ==
    /\ handle = "Writing" /\ archivePart[bound] = "whole"
    /\ archiveFinal[bound] = "none"
    /\ archivePart' = [archivePart EXCEPT ![bound] = "none"]
    /\ archiveFinal' = [archiveFinal EXCEPT ![bound] = "whole"]
    /\ mayHaveFinal' = TRUE
    /\ UNCHANGED <<handle, bound>>

ArchiveFinished ==
    /\ handle = "Writing" /\ mayHaveFinal /\ archiveFinal[bound] = "whole"
    /\ handle' = "Completed" /\ mayHaveFinal' = FALSE
    /\ UNCHANGED <<archivePart, archiveFinal, bound>>

ArchiveFinishFails ==
    /\ handle = "Writing"
    /\ handle' = "CleanupPending" /\ mayHaveFinal' = TRUE
    /\ UNCHANGED <<archivePart, archiveFinal, bound>>

\* Abort removes a final file only if Finish may have published it.
ArchiveAbort ==
    IF handle \in {"Writing", "CleanupPending"}
    THEN /\ archivePart' = [archivePart EXCEPT ![bound] = "none"]
         /\ archiveFinal' = IF mayHaveFinal
                            THEN [archiveFinal EXCEPT ![bound] = "none"]
                            ELSE archiveFinal
         /\ Forgotten
    ELSE UNCHANGED archiveVars

\* A removal of Abort fails; the caller is not told.
ArchiveAbortFails ==
    /\ handle \in {"Writing", "CleanupPending"}
    /\ archivePart' \in {archivePart, [archivePart EXCEPT ![bound] = "none"]}
    /\ handle' = "CleanupPending"
    /\ UNCHANGED <<archiveFinal, bound, mayHaveFinal>>

ArchiveOpenRead(r) ==
    /\ handle = "Idle" \/ (handle = "Completed" /\ bound = r)
    /\ archiveFinal[r] # "none"
    /\ handle' = "Reading" /\ bound' = r
    /\ UNCHANGED <<archivePart, archiveFinal, mayHaveFinal>>

\* CloseRead leaves the object usable whether or not the close succeeds.
ArchiveCloseRead ==
    /\ handle \notin {"Writing", "CleanupPending"}
    /\ handle' = IF handle = "Reading" THEN "Completed" ELSE handle
    /\ UNCHANGED <<archivePart, archiveFinal, bound, mayHaveFinal>>

ArchiveMayDiscard(r) ==
    handle \notin {"Writing", "Reading"} /\ bound \in {NoRequest, r}

\* Discard removes the part file, then the final one.
ArchiveDiscardPart(r) ==
    /\ ArchiveMayDiscard(r) /\ archivePart[r] # "none"
    /\ archivePart' = [archivePart EXCEPT ![r] = "none"]
    /\ UNCHANGED <<archiveFinal, archiveMemory>>

ArchiveDiscardFinal(r) ==
    /\ ArchiveMayDiscard(r) /\ archivePart[r] = "none"
    /\ archiveFinal' = [archiveFinal EXCEPT ![r] = "none"]
    /\ Forgotten
    /\ UNCHANGED archivePart

ArchiveDiscardFails(r) ==
    /\ ArchiveMayDiscard(r)
    /\ handle' = "CleanupPending" /\ bound' = r /\ mayHaveFinal' = TRUE
    /\ UNCHANGED <<archivePart, archiveFinal>>

\* The object is destroyed at the end of the call that built it.
ArchiveDestroy ==
    IF handle \in {"Writing", "CleanupPending"} THEN ArchiveAbort
    ELSE Forgotten /\ UNCHANGED <<archivePart, archiveFinal>>

ArchiveLosesPower == Forgotten /\ UNCHANGED <<archivePart, archiveFinal>>

=============================================================================
