SPECIFICATION Spec
CONSTANTS
    w1 = w1
    w2 = w2
    None = None
    Worker <- MCAlone
    Provider <- MCNsq
    Policy <- MCTwoRetries
    Subscription <- TwiceOnNsq
    MaxCopies = 4
    MaxFaults = 0
    MaxRestarts = 0
    Modulus = 4
    Second = 2
    DefaultRetries = 1
CHECK_DEADLOCK FALSE
INVARIANTS
    GivenUpOnlyAfterRetries
