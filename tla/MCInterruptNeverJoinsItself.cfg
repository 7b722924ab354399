SPECIFICATION Spec
CONSTANTS
    zero = zero
    a1 = a1
    a2 = a2
    none = none
    Addr <- MCAddr
    NoAddr = none
    ResetPc = zero
    SymbolTables <- MCSymbolTables
    Requests = {0, 2}
    MaxSigInts = 2
    MaxCount = 1
    UIntMod = 4
    ULongMod = 8
INVARIANT InterruptNeverJoinsItself
