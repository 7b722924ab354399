SPECIFICATION Spec
CONSTANTS
    XLen = 14
    CountMod = 1
    MemUpper <- MCMemUpper
    Entry <- MCEntry
    Target <- MCTarget
    Operand <- MCOperand
    DataAddr <- MCDataAddr
    Instr = {2}
    Writable <- MCWritable
CHECK_DEADLOCK FALSE
PROPERTY InterruptEntersHandler
