SPECIFICATION FfiSpec
CONSTANTS
    Libs = {lib}
    Sigs = {good, bad, odd}
    Unparsable = {bad}
    Rejected = {odd}
    NoSig = none
    Funs = {f1, f2}
    Cbs = {c1}
    NArgs = 1
    MaxCif = 2
    MaxStr = 4
    MaxDepth = 4
INVARIANTS
    StringsLive
    CifLiveIffCached
    NoLeak
PROPERTY
    MemoryHeld
CHECK_DEADLOCK FALSE
