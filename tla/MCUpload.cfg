SPECIFICATION FairSpec
CONSTANTS
    b1 = b1
    b2 = b2
    b3 = b3
    None = None
    Buffer <- MCBuffer
    BufSize = 2
    ChanCap = 1
    MaxWritten = 5
CHECK_DEADLOCK FALSE
INVARIANTS
    UploadInv
    ObjectIsWhatWasWritten
    AbortWins
PROPERTIES
    UploadsEnd
