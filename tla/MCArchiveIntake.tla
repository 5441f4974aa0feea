-------------------------- MODULE MCArchiveIntake --------------------------
(* Requests for the latest release and for a draft's archive; archives of up *)
(* to three cells of members and two entries.                                *)
EXTENDS ArchiveIntake

Place(host, path, query) == [valid |-> TRUE, host |-> host, path |-> path, query |-> query]

MCRequests ==
    {[purpose |-> "ReleaseAsset", url |-> Place("github", "asset", FALSE),
      method |-> "GET", max |-> 2],
     [purpose |-> "AuthenticatedReleaseAsset", url |-> Place("api", "apiAsset", FALSE),
      method |-> "GET", max |-> 1],
     [purpose |-> "GitHubDeviceAuthorization", url |-> Place("github", "device", FALSE),
      method |-> "POST", max |-> 1],
     [purpose |-> "Discovery", url |-> Place("api", "latest", TRUE),
      method |-> "GET", max |-> 1]}

Framed(chunked, length) ==
    [valid |-> TRUE, status |-> 200, chunked |-> chunked, hasLength |-> ~chunked,
     length |-> length, hasLocation |-> FALSE]
Moved(place) ==
    [valid |-> TRUE, status |-> 302, chunked |-> FALSE, hasLength |-> FALSE,
     length |-> 0, hasLocation |-> TRUE, location |-> place]

MCHeads ==
    {Framed(TRUE, 0), Framed(FALSE, 0), Framed(FALSE, 2), Framed(FALSE, 3)}
    \cup {Moved(Place(h, "any", TRUE)) : h \in {"github", "assets", "api"}}
    \cup {[Framed(TRUE, 0) EXCEPT !.status = 404], [Framed(TRUE, 1) EXCEPT !.hasLength = TRUE]}

Byte(b) == [kind |-> "data", byte |-> b]
Member(path, dir, method, csize, size) ==
    [path |-> path, dir |-> dir, method |-> method, csize |-> csize, size |-> size]
Members ==
    {Member("a", TRUE, "Store", 0, 0), Member("a", FALSE, "Store", 1, 1),
     Member("a/b", FALSE, "Deflate", 1, 2)}
Local(m) == m @@ ("kind" :> "local")
Entry(m, offset) == m @@ ("kind" :> "central") @@ ("offset" :> offset)

UpTo(S, low, high) == UNION {[1..n -> S] : n \in low..high}

MCArchives ==
    {body \o directory \o <<end>> :
        body \in UpTo({Local(m) : m \in Members} \cup {Byte(1)}, 1, 3),
        directory \in UpTo({Entry(m, o) : m \in Members, o \in 0..2}, 1, 2),
        end \in [kind : {"end"}, count : 1..2, offset : 1..3, size : 1..2]}

MCManifest == ("a/b" :> [method |-> "Deflate", content |-> <<1, 1>>])
MCDirectories == {"a"}
MCWithin == {<<"a", "a/b">>}

=============================================================================
