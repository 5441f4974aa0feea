CONSTANTS
    Requests <- MCRequests
    NoRequest = none
    Releases <- MCReleases
    ReleaseOf <- MCReleaseOf
    ResetOf <- MCNoReset
    PayloadCount = 2
    NoPayload = empty
    NoJournal = nojournal
    MaxFaults = 3
SPECIFICATION FairSpec
INVARIANTS
    RecordLoads
    OneRecord
    ArtifactsOwned
    CandidateGuarded
PROPERTIES CommitsOnlyGuarded
    Resolved
