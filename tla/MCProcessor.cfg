SPECIFICATION Spec
CONSTANTS
    XLen = 14
    CountMod = 1
    MemUpper <- MCMemUpper
    Entry <- MCEntry
    Target <- MCTarget
    Operand <- MCOperand
    DataAddr <- MCDataAddr
    Instr = {2}
    Writable <- MCWritable
INVARIANTS TypeOK CsrsLegal
PROPERTIES UserCannotWrite UserLeavesByTrap TrapReturns InterruptsComeFirst
CHECK_DEADLOCK FALSE
