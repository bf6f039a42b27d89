SPECIFICATION Spec
CONSTANTS
    ByteBits = 2
    NumberBits = 4
    MaxCount = 40
    Word = 65536
    Tick = 2
    FileHeaders <- MCFileHeaders
    Contents <- MCContents
    Options <- MCOptions
    Passwords = {1, 2}
    NoPassword = 0
    Signature = 65530
    MaxFiles = 3
    MaxCutFiles = 1
INVARIANTS
    Faithful
    FinishedOpens
    UnfinishedRejected
CHECK_DEADLOCK FALSE
