CONSTANTS
    Requests <- MCRequests
    NoRequest = none
    Releases <- MCReleases
    ReleaseOf <- MCReleaseOf
    ResetOf <- MCFirstResets
    PayloadCount = 2
    NoPayload = empty
    NoJournal = nojournal
    MaxFaults = 0
SPECIFICATION Spec
INVARIANT ArtifactsOwnedWithReset
