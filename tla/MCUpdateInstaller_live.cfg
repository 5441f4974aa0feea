CONSTANTS
    Transactions = {t1}
    NoTransaction = none
    LastGeneration = 40
    MaximumSteps = 20
    Missing = missing
    Torn = torn
    Empty = empty
    NoPlan = noplan
    Policy <- MCThreePolicies
    Selector = 2
    DirectoryCount = 1
    ResetRequired = TRUE
    ReplaceModes = {TRUE, FALSE}
SPECIFICATION FairSpec
INVARIANTS
    RolledBackButOne
    EvidenceSuffices
PROPERTIES
    RollbackCompletes
    ImplementsContract
