SPECIFICATION Spec
CONSTANTS
    Releases <- MCReleases
    Configs <- MCConfigs
    Edits <- MCEdits
    MaxEdits = 2
    MaxFaults = 2
INVARIANTS OneConfiguration UserDataKept StaysAccepted ApprovedIsApplicable
CHECK_DEADLOCK FALSE
