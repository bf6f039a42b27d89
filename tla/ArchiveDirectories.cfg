SPECIFICATION Spec
CONSTANTS
    ByteBits = 2
    NumberBits = 4
    MaxCount = 40
    Word = 65536
    Tick = 2
    FileHeaders <- MCDirectories
    Contents <- MCContents
    Options <- MCOptions
    Passwords = {1, 2}
    NoPassword = 0
    Signature = 65530
    MaxFiles = 2
    MaxCutFiles = 2
INVARIANT EveryFinishedOpens
CHECK_DEADLOCK FALSE
