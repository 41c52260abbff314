SPECIFICATION HidSpec
CONSTANTS
    MaxConsecutiveErrors = 2
    MaxCalls = 1
    MaxSamples = 2
INVARIANTS
    LockFollowsUse
    NothingIsStuck
CHECK_DEADLOCK FALSE
