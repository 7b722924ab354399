SPECIFICATION TerminalSpec
CONSTANTS
    a1 = a1
    a2 = a2
    a3 = a3
    Addr <- MCAddr
    MaxCount = 4
    UIntMod = 6
    ULongMod = 12
    Dec = 2
    Hex = 3
    ByteMod = 4
    Registers = 2
    Memory <- MCMemory
    Symbols <- MCSymbols
    PrintLine <- MCPrintLine
INVARIANTS TypeOK NumbersIssued NumbersUnique ShowsMemory PrintSetsItsBase
PROPERTY RetiredStaysRetired
