--------------------------- MODULE HttpsTransfer ---------------------------
(***************************************************************************)
(* One HTTPS request after the other over the only stream there may be:    *)
(* https_stream, http_response_parser, url_policy, circle_secure_stream    *)
(* and the body sinks of src/update.                                       *)
(*                                                                         *)
(* The peer is free: it sends any tokens, cut into any segments, redirects *)
(* anywhere and stops at any point.  A token is a character of the body:   *)
(* a digit of a chunk size (in base two), CR, LF or any other; data may be *)
(* made of the same tokens.  A head is the record its parsing yields.      *)
(***************************************************************************)
EXTENDS Integers, Sequences, FiniteSets, SequencesExt

CONSTANTS
    Requests,           \* [purpose, url, method, max] of the callers
    Heads,              \* heads the peer may send
    MaximumRedirects,   \* kMaximumHttpsRedirects
    MaxHeadSegments,    \* segments that fill the header buffer
    MaxSegment,         \* tokens of a segment
    MaxStream,          \* bound on the tokens of a response
    LineBytes,          \* sizeof(chunk_line_)
    SizeMax             \* UINT64_MAX

\* Lengths and limits are unsigned.
ASSUME TransferAssumption ==
    /\ LineBytes \in Nat /\ SizeMax \in Nat
    /\ \A h \in Heads : h.chunked \in BOOLEAN /\ h.length \in Nat
    /\ \A r \in Requests : r.max \in Nat

VARIABLES
    req,            \* the arguments of HttpsRequest
    pc,             \* where HttpsRequest is; "idle" when it has returned
    url, hop,       \* workspace->current_url and the loop's redirect
    stream,         \* active_stream_ of the factory is not null
    head,           \* workspace->response_head
    headSegments,   \* segments in the header buffer
    decoder,        \* the HttpBodyDecoder with what its sink has taken
    received,       \* history: the body tokens of the response, as sent
    cancelRequested,
    status          \* result.status

httpVars == <<req, pc, url, hop, stream, head, headSegments, decoder, received,
              cancelRequested, status>>

Digits == {"0", "1"}
Tokens == Digits \cup {"cr", "lf", "x"}
DigitValue(c) == IF c = "1" THEN 1 ELSE 0
Crlf == <<"cr", "lf">>

-----------------------------------------------------------------------------
(* Which URLs may be asked for *)

\* The host and the path of every purpose but a redirect.
PurposePlace ==
    [Discovery |-> [host |-> "api", path |-> "latest"],
     ReleaseAsset |-> [host |-> "github", path |-> "asset"],
     PreparedDraftDiscovery |-> [host |-> "api", path |-> "draft"],
     AuthenticatedReleaseAsset |-> [host |-> "api", path |-> "apiAsset"],
     GitHubDeviceAuthorization |-> [host |-> "github", path |-> "device"]]

InitialPurposeAllowed(p) == p \in DOMAIN PurposePlace

IsAuthorizedRedirectHost(h) == h \in {"github", "assets"}

\* valid stands for the form: https, port 443, no user, fragment or control character.
ParseAndAuthorizeUpdateUrl(u, p) ==
    /\ u.valid
    /\ IF p = "Redirect"
       THEN IsAuthorizedRedirectHost(u.host) /\ u.path # "root"
       ELSE ~u.query /\ u.host = PurposePlace[p].host /\ u.path = PurposePlace[p].path

-----------------------------------------------------------------------------
(* Heads *)

IsRedirectStatus(s) == s \in {301, 302, 303, 307, 308}
StatusMayHaveUnframedBody(s) == s \in 100..199 \cup {204} \cup 300..399

\* What ParseHttpResponseHead requires of a complete head; valid stands for its lines.
HeadAccepted(h) ==
    /\ h.valid
    /\ ~(h.hasLength /\ h.chunked)
    /\ h.hasLength \/ h.chunked \/ StatusMayHaveUnframedBody(h.status)
    /\ h.status \in 300..399 => h.hasLocation

-----------------------------------------------------------------------------
(* Bodies *)

\* The constructor; a body that is announced too large fails at once.
NewDecoder(h, max) ==
    [state |-> IF h.chunked THEN "ChunkSize"
               ELSE IF h.length > max THEN "Failed"
               ELSE IF h.length = 0 THEN "Complete" ELSE "ContentLength",
     remaining |-> IF h.chunked THEN 0 ELSE h.length,
     line |-> <<>>, sink |-> <<>>, max |-> max, status |-> "Ok"]

Fail(d, s) == [d EXCEPT !.state = "Failed", !.status = s]

\* The sink takes the whole piece or none of it; takes is whether it does.
Write(d, data, takes) ==
    IF Len(data) > d.max - Len(d.sink) THEN Fail(d, "TooLarge")
    ELSE IF ~takes THEN Fail(d, "SinkRejected")
    ELSE [d EXCEPT !.sink = @ \o data, !.remaining = @ - Len(data)]

\* A mutated form: what follows the body in the same segment is ignored.
CompleteAnyway(d, rest) == [d EXCEPT !.state = "Complete", !.status = "Complete"]

Complete(d, rest) ==
    [d EXCEPT !.state = "Complete",
              !.status = IF rest = <<>> THEN "Complete" ELSE "UnexpectedData"]

\* The value of the digits of a line; -1 when one is no digit or it does not fit.
NextSize(size, c) ==
    IF size = -1 \/ c \notin Digits \/ size > (SizeMax - DigitValue(c)) \div 2
    THEN -1 ELSE 2 * size + DigitValue(c)

ChunkSizeOf(line) ==
    LET value[n \in 0..Len(line)] ==
          IF n = 0 THEN 0 ELSE NextSize(value[n - 1], line[n])
    IN  value[Len(line)]

\* The code refuses a semicolon at once, here every other character is refused at
\* the line's CR; both end in InvalidChunk.
ChunkLine(d, c) ==
    IF c = "cr"
    THEN IF d.line = <<>> \/ ChunkSizeOf(d.line) = -1 THEN Fail(d, "InvalidChunk")
         ELSE [d EXCEPT !.remaining = ChunkSizeOf(d.line), !.line = <<>>, !.state = "ChunkSizeLf"]
    ELSE IF c = "lf" \/ Len(d.line) >= LineBytes THEN Fail(d, "InvalidChunk")
    ELSE [d EXCEPT !.line = Append(@, c)]

\* The separators: the state and the token it waits for, and the state after it.
AfterSeparator(d) ==
    CASE d.state = "ChunkSizeLf" -> IF d.remaining = 0 THEN "FinalCr" ELSE "ChunkData"
      [] d.state = "ChunkDataCr" -> "ChunkDataLf"
      [] d.state = "ChunkDataLf" -> "ChunkSize"
      [] d.state = "FinalCr" -> "FinalLf"

Separator(d, c) ==
    IF c # (IF d.state \in {"ChunkDataCr", "FinalCr"} THEN "cr" ELSE "lf")
    THEN Fail(d, "InvalidChunk")
    ELSE [d EXCEPT !.state = AfterSeparator(d)]

\* Chunk data is written as one byte and then what else there is of the chunk.
ChunkData(d, data, takes) ==
    LET first == Write(d, <<Head(data)>>, takes)
        more == Min({first.remaining, Len(data) - 1})
        all == IF first.state = "Failed" \/ more = 0 THEN first
               ELSE Write(first, SubSeq(data, 2, more + 1), takes)
    IN IF all.state # "Failed" /\ all.remaining = 0
       THEN [all EXCEPT !.state = "ChunkDataCr"] ELSE all

\* Where the loop of Feed is: the decoder and what is left of the segment. A step
\* that returns leaves nothing.
Fed(d, rest) == [decoder |-> d, rest |-> rest]

FeedStep(d, data, takes) ==
    CASE d.state = "ContentLength" ->
           LET n == Min({Len(data), d.remaining})
               w == Write(d, SubSeq(data, 1, n), takes)
               rest == SubSeq(data, n + 1, Len(data))
           IN IF w.state # "Failed" /\ w.remaining = 0 THEN Fed(Complete(w, rest), <<>>)
              ELSE Fed(w, rest)
      [] d.state = "ChunkData" ->
           LET w == ChunkData(d, data, takes)
           IN Fed(w, SubSeq(data, Len(w.sink) - Len(d.sink) + 1, Len(data)))
      [] d.state = "ChunkSize" -> Fed(ChunkLine(d, Head(data)), Tail(data))
      [] d.state = "FinalLf" ->
           Fed(IF Head(data) # "lf" THEN Fail(d, "InvalidChunk") ELSE Complete(d, Tail(data)), <<>>)
      [] OTHER -> Fed(Separator(d, Head(data)), Tail(data))

FeedNext(f, takes) ==
    IF f.rest = <<>> \/ f.decoder.state = "Failed" THEN f ELSE FeedStep(f.decoder, f.rest, takes)

\* Every step takes a token at least.
FeedLoop(d, data, takes) ==
    LET loop[n \in 0..Len(data)] ==
          IF n = 0 THEN Fed(d, data) ELSE FeedNext(loop[n - 1], takes)
    IN  loop

FeedRest(d, data, takes) == FeedLoop(d, data, takes)[Len(data)].decoder

Feed(d, data, takes) ==
    CASE d.state = "Failed" -> [d EXCEPT !.status = "InvalidArgument"]
      [] d.state = "Complete" -> Complete(d, data)
      [] OTHER -> FeedRest(d, data, takes)

\* Finish, after the last byte that came.
Finish(d) == IF d.state \in {"Complete", "Failed"} THEN d ELSE Fail(d, "Truncated")

-----------------------------------------------------------------------------
(* HttpsRequest *)

NoDecoder == NewDecoder([chunked |-> FALSE, length |-> 0], 0)
NoHead == [valid |-> FALSE]

HttpInit ==
    /\ req \in Requests /\ pc = "idle" /\ url = req.url /\ hop = 0
    /\ stream = FALSE /\ head = NoHead /\ headSegments = 0
    /\ decoder = NoDecoder /\ received = <<>>
    /\ cancelRequested = FALSE /\ status = "InvalidArgument"

\* Close and Destroy: the factory forgets its stream.
Destroy == stream' = FALSE

Return(s) ==
    /\ pc' = "idle" /\ status' = s /\ Destroy
    /\ UNCHANGED <<req, url, hop, head, headSegments, decoder, received, cancelRequested>>

\* NetworkCheckpoint, before and after everything that waits for the network.
Checkpoint == ~cancelRequested

Canceled == pc # "idle" /\ ~Checkpoint /\ Return("Canceled")

\* A caller's request.
HttpsRequest ==
    /\ pc = "idle"
    /\ \E r \in Requests :
        /\ InitialPurposeAllowed(r.purpose)
        /\ req' = r /\ url' = r.url
    /\ hop' = 0 /\ pc' = "authorize" /\ status' = "InvalidArgument"
    /\ head' = NoHead /\ headSegments' = 0 /\ decoder' = NoDecoder /\ received' = <<>>
    /\ cancelRequested' = FALSE
    /\ UNCHANGED stream

PressCancel ==
    /\ pc # "idle" /\ ~cancelRequested /\ cancelRequested' = TRUE
    /\ UNCHANGED <<req, pc, url, hop, stream, head, headSegments, decoder, received, status>>

\* The head of the loop.
Authorize ==
    /\ pc = "authorize" /\ Checkpoint
    /\ IF ParseAndAuthorizeUpdateUrl(url, IF hop = 0 THEN req.purpose ELSE "Redirect")
       THEN /\ pc' = "connect"
            /\ UNCHANGED <<req, url, hop, stream, head, headSegments, decoder, received,
                           cancelRequested, status>>
       ELSE Return(IF hop = 0 THEN "UrlRejected" ELSE "RedirectRejected")

\* The factory has one stream, to a running network, with a trusted clock.
ConnectVerified ==
    /\ pc = "connect" /\ Checkpoint /\ ~stream
    /\ stream' = TRUE /\ pc' = "send"
    /\ UNCHANGED <<req, url, hop, head, headSegments, decoder, received, cancelRequested, status>>

ConnectFails == pc = "connect" /\ Checkpoint /\ Return("ConnectFailed")

\* SendAll; what was formatted, the access token with it, is erased again in every
\* case.  Which headers a request has makes no difference to what follows.
SendAll ==
    /\ pc = "send" /\ Checkpoint
    /\ pc' = "head" /\ headSegments' = 0
    /\ UNCHANGED <<req, url, hop, stream, head, decoder, received, cancelRequested, status>>

\* The request does not fit its buffer; the total deadline of the stream, an idle
\* peer or a closed connection.
SendFails ==
    pc = "send" /\ Checkpoint /\ \E s \in {"RequestTooLarge", "SendFailed"} : Return(s)
ReceiveFails == pc = "head" /\ Checkpoint /\ Return("ReceiveFailed")

\* The next hop of a GET.
Redirect(h) ==
    IF req.method # "GET" THEN Return("RedirectRejected")
    ELSE IF hop = MaximumRedirects THEN Return("TooManyRedirects")
    ELSE IF ~ParseAndAuthorizeUpdateUrl(h.location, "Redirect") THEN Return("RedirectRejected")
    ELSE /\ url' = h.location /\ hop' = hop + 1 /\ pc' = "authorize" /\ Destroy
         /\ UNCHANGED <<req, head, headSegments, decoder, received, cancelRequested, status>>

\* The segments of a head that is not complete.
ReceiveHeadPart ==
    /\ pc = "head" /\ Checkpoint
    /\ IF headSegments + 1 = MaxHeadSegments
       THEN Return("HeaderInvalid")
       ELSE /\ headSegments' = headSegments + 1
            /\ UNCHANGED <<req, pc, url, hop, stream, head, decoder, received,
                           cancelRequested, status>>

Segments == UNION {[1..n -> Tokens] : n \in 0..MaxSegment}

\* The segment with the head's end, and what it holds of the body.
ReceiveHead ==
    /\ pc = "head" /\ Checkpoint
    /\ \E h \in Heads :
        IF ~HeadAccepted(h) THEN Return("HeaderInvalid")
        ELSE IF IsRedirectStatus(h.status) THEN Redirect(h)
        ELSE IF h.status # 200 THEN Return("UnexpectedStatus")
        ELSE \E data \in Segments, takes \in BOOLEAN :
            /\ head' = h /\ headSegments' = 0 /\ received' = data
            /\ decoder' = Feed(NewDecoder(h, req.max), data, takes)
            /\ pc' = "judge"
            /\ UNCHANGED <<req, url, hop, stream, cancelRequested, status>>

ReceiveBody ==
    /\ pc = "body" /\ Checkpoint
    /\ \E data \in Segments \ {<<>>}, takes \in BOOLEAN :
        /\ Len(received \o data) <= MaxStream
        /\ received' = received \o data
        /\ decoder' = Feed(decoder, data, takes)
    /\ pc' = "judge"
    /\ UNCHANGED <<req, url, hop, stream, head, headSegments, cancelRequested, status>>

BodyEnds ==
    /\ pc = "body" /\ Checkpoint
    /\ decoder' = Finish(decoder)
    /\ pc' = "idle" /\ status' = "BodyInvalid" /\ Destroy
    /\ UNCHANGED <<req, url, hop, head, headSegments, received, cancelRequested>>

\* The body's status after every Feed.
Judge ==
    /\ pc = "judge" /\ Checkpoint
    /\ IF decoder.status \notin {"Ok", "Complete"} THEN Return("BodyInvalid")
       ELSE IF decoder.state = "Complete" THEN Return("Ok")
       ELSE /\ pc' = "body"
            /\ UNCHANGED <<req, url, hop, stream, head, headSegments, decoder, received,
                           cancelRequested, status>>

HttpNext ==
    \/ HttpsRequest \/ PressCancel \/ Canceled \/ Authorize
    \/ ConnectVerified \/ ConnectFails \/ SendAll \/ SendFails
    \/ ReceiveHeadPart \/ ReceiveFails \/ ReceiveHead
    \/ ReceiveBody \/ BodyEnds \/ Judge

-----------------------------------------------------------------------------
(* Properties *)

SizeLines(n) == {l \in UNION {[1..k -> Digits] : k \in 1..LineBytes} : ChunkSizeOf(l) = n}

\* What is sent for a chunk.
ChunkFrame(line, data) == line \o Crlf \o data \o Crlf
IsChunk(sent, data) == \E l \in SizeLines(Len(data)) : sent = ChunkFrame(l, data)

\* Chunks and nothing else: the body is cut in places, each at a place of what is
\* sent, and a chunk leads to every cut from an earlier one.
ChunksOf(sent, body) ==
    \E cuts \in SUBSET (1..Len(body)) : \E at \in [cuts \cup {0} -> 0..Len(sent)] :
        /\ at[0] = 0 /\ Len(body) \in cuts \cup {0} /\ at[Len(body)] = Len(sent)
        /\ \A j \in cuts : \E i \in cuts \cup {0} :
             i < j /\ IsChunk(SubSeq(sent, at[i] + 1, at[j]), SubSeq(body, i + 1, j))

\* All that a peer sends for a body in chunks, without reference to the decoder.
IsChunked(sent, body) ==
    \E end \in 0..Len(sent) : /\ IsChunk(SubSeq(sent, end + 1, Len(sent)), <<>>)
                               /\ ChunksOf(SubSeq(sent, 1, end), body)

\* However the response is cut into segments, a request that reports Ok has given
\* its sink exactly the body that the peer framed, to its last byte and no more,
\* and no more than the caller allowed (HttpsRequest, HttpBodyDecoder::Feed).
DeliveredExactly ==
    (pc = "idle" /\ status = "Ok") =>
        /\ Len(decoder.sink) <= req.max
        /\ IF head.chunked THEN IsChunked(received, decoder.sink)
           ELSE received = decoder.sink /\ Len(received) = head.length

=============================================================================
