SPECIFICATION Spec
CONSTANTS
    Runs = {c1}
    Components = {1}
    PollLimit = 1
INVARIANTS
    NoHollowSmoke
CHECK_DEADLOCK FALSE
