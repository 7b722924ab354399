SPECIFICATION FairSpec
CONSTANTS
    zero = zero
    a1 = a1
    a2 = a2
    none = none
    Addr <- MCAddr
    NoAddr = none
    ResetPc = zero
    SymbolTables <- MCSymbolTables
    Requests = {0, 1, 2}
    MaxSigInts = 2
    MaxCount = 1
    UIntMod = 4
    ULongMod = 8
INVARIANTS TypeOK MachineOwned ThreadHandleSafe BudgetRespected StopHasReason
PROPERTIES StopIsFinal ReportIsFinal KeepsPromise
           InterruptReturns LimitedRunReturns QuitExits
