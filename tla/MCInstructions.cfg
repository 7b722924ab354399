SPECIFICATION Spec
CONSTANTS
    XLen = 30
    Command <- MCCommand
    Assembly <- MCAssembly
    Contents <- MCContents
    Stale <- MCStale
    StartPc <- MCStartPc
    MemAddr <- MCMemAddr
    Bytes <- MCBytes
    Handler <- MCHandler
    CsrValue <- MCCsrValue
    MaxSteps = 1
INVARIANTS TypeOK X0AndPc OneMeaning
PROPERTY IsRv32i
CHECK_DEADLOCK FALSE
