--------------------------- MODULE ArchiveIntake ---------------------------
(***************************************************************************)
(* From the server to the files: requests one after the other, and when    *)
(* one has delivered the archive, its reader (UpdateOrchestrator::Start    *)
(* and the clients of ZipReader).                                          *)
(***************************************************************************)
EXTENDS HttpsTransfer, ZipReader

vars == <<httpVars, zipVars>>

Init == HttpInit /\ ZipInit

ArchivePurposes == {"ReleaseAsset", "AuthenticatedReleaseAsset"}

\* HashingBodySink::Finish: the sink has taken exactly the signed size.
HashingFinish == Len(decoder.sink) = req.max

\* Start ends the hash of the download; the digest is the signed one or the
\* download is removed.
FinishDownload ==
    /\ pc = "idle" /\ status = "Ok" /\ req.purpose \in ArchivePurposes
    /\ HashingFinish
    /\ pc' = "stored" /\ status' = "InvalidArgument"
    /\ decoder' = NoDecoder /\ received' = <<>> /\ cancelRequested' = FALSE
    /\ head' = NoHead /\ headSegments' = 0 /\ url' = req.url /\ hop' = 0
    /\ UNCHANGED <<req, stream, zipVars>>

\* The stored file is hashed again (RehashStoredArchive): it is the release's
\* archive, whatever its form.
PublishArchive ==
    /\ pc = "stored" /\ pc' = "idle"
    /\ ArchiveStored
    /\ UNCHANGED <<req, url, hop, stream, head, headSegments, decoder, received,
                   cancelRequested, status>>

\* The archive is discarded, extracted or not.
RemoveArchive == ArchiveRemoved /\ UNCHANGED httpVars

Next ==
    \/ archive = <<>> /\ pc # "stored" /\ HttpNext /\ UNCHANGED zipVars
    \/ FinishDownload
    \/ PublishArchive
    \/ ZipNext /\ UNCHANGED httpVars
    \/ RemoveArchive

Spec == Init /\ [][Next]_vars

TypeOK ==
    /\ req \in Requests /\ stream \in BOOLEAN /\ hop \in 0..MaximumRedirects
    /\ pc \in {"idle", "authorize", "connect", "send", "head", "body", "judge", "stored"}
    /\ cancelRequested \in BOOLEAN

=============================================================================
