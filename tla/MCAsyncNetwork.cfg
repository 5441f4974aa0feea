CONSTANTS
    SlotCount = 1
    Clients = {c1, c2}
    LastGeneration = 3
    QueueSize = 3
    TxChunkSize = 2
    RxChunkSize = 2
    MaxBytes = 4
    NoHandle = nohandle
SPECIFICATION FairSpec
INVARIANT HandlesHold
INVARIANT SocketsAccounted
INVARIANT StopMeansClosed
INVARIANT NothingDropped
INVARIANT StreamsExact
PROPERTY SlotReleased
