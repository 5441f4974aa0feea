CONSTANTS
    Missing = missing
    ReplaceModes = {TRUE, FALSE}
SPECIFICATION Spec
INVARIANT ActiveStable
INVARIANT CandidateStands
INVARIANT OneSelectorStands
