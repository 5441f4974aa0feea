CONSTANTS
    Releases <- MCReleases
    TrustedKeys = {"k"}
    RunningBoard = "pi4"
    Nothing = nothing
    FirstInstalled <- Installed0
    Configs <- MCConfigs
    Assessment <- MCAssessment
    Tickets <- MCTickets
    TicketLifetime = 3
    AuthorizationLifetime = 1
    DeviceLifetime = 2
    PollingInterval = 1
    MaxClock = 2
    MaxEdits = 2
SPECIFICATION Spec
INVARIANTS
    TokenOnlyForOffer
    CleanupCompletes
    InventoryIsOffer
PROPERTY StartsAsConfirmed
