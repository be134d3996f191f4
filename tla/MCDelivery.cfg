SPECIFICATION FairSpec
CONSTANTS
    w1 = w1
    w2 = w2
    None = None
    Worker <- MCWorker
    Provider <- MCProvider
    Policy <- MCPolicy
    Subscription <- MCSubscription
    MaxCopies = 4
    MaxFaults = 1
    MaxRestarts = 1
    Modulus = 4
    Second = 2
    DefaultRetries = 1
CHECK_DEADLOCK FALSE
INVARIANTS
    DeliveryInv
    GivenUpAfterItsAttempts
PROPERTIES
    BackoffGrows
    EventuallySettled
