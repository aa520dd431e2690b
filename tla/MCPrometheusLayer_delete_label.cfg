CONSTANTS
    Ops <- MCStatDelete
    Lens = {0, 2}
    Sizes = {1, 2}
    MaxK = 2
    MaxCalls = 2
    MaxSteps = 3
SPECIFICATION Spec
CHECK_DEADLOCK FALSE
INVARIANT RequestsCounted
