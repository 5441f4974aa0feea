CONSTANTS
    Transactions = {t1}
    NoTransaction = none
    LastGeneration = 40
    MaximumSteps = 20
    Missing = missing
    Torn = torn
    Empty = empty
    NoPlan = noplan
    Policy <- MCPolicy
    Selector = 3
    DirectoryCount = 1
    ResetRequired = TRUE
    ReplaceModes = {FALSE}
SPECIFICATION Spec
INVARIANT RestoredExactly
