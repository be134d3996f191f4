SPECIFICATION Spec
CONSTANTS
    w1 = w1
    w2 = w2
    None = None
    Worker <- MCWorker
    Provider <- MCNsq
    Policy <- MCPolicy
    Subscription <- NsqSubscription
    MaxCopies = 4
    MaxFaults = 1
    MaxRestarts = 1
    Modulus = 4
    Second = 2
    DefaultRetries = 1
CHECK_DEADLOCK FALSE
INVARIANTS
    NotLost
