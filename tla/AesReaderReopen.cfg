SPECIFICATION Spec
CONSTANTS
    o1 = o1 o2 = o2 o3 = o3
    f1 = f1 f2 = f2 f3 = f3
    Opens = {o1, o2, o3}
    Folders = {f1, f2, f3}
    SaltOf <- MCSaltOf
    IvOf <- MCIvOf
    CyclesOf <- MCCyclesOf
    Passwords <- MCShort
    BlockSize = 4
    CacheSize = 1
    MaxCycles = 3
    RawCycles = 63
INVARIANT EveryOpenHasIV
CHECK_DEADLOCK FALSE
