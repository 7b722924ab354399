SPECIFICATION Spec
CONSTANTS
    XLen = 30
    Command <- MCCommand
    Assembly <- MCAssembly
    Contents <- MCContents
    Stale <- MCStale
    StartPc <- MCStartPc
    MemAddr <- MCMemAddr
    Bytes <- MCBytes
    Handler <- MCHandler
    CsrValue <- MCCsrValue
    MaxSteps = 1
PROPERTY EntireRV32I
CHECK_DEADLOCK FALSE
