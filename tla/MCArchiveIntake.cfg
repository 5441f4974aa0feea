SPECIFICATION Spec
CONSTANTS
    Requests <- MCRequests
    Heads <- MCHeads
    MaximumRedirects = 1
    MaxHeadSegments = 2
    MaxSegment = 2
    MaxStream = 17
    LineBytes = 3
    SizeMax = 3
    Archives <- MCArchives
    Manifest <- MCManifest
    ManifestDirectories <- MCDirectories
    Within <- MCWithin
    MaximumRatio = 2
    MaxDamage = 1
INVARIANTS
    DeliveredExactly
    ArchiveAccounted
    ExtractedAsSigned
