CONSTANTS
    Transactions = {t1, t2}
    NoTransaction = none
    LastGeneration = 15
    MaximumSteps = 3
    TotalSteps = 3
    Missing = missing
    Torn = torn
    Empty = empty
    AtomicReplace = FALSE
SPECIFICATION Spec
INVARIANTS
    AlwaysSelectable
    MemoryFollowsDisk
PROPERTY ImplementsRegister
