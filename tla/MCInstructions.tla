--------------------------- MODULE MCInstructions ---------------------------
(***************************************************************************)
(* Model values for Instructions and InstructionSet.  Registers of 30 bits *)
(* are the widest whose sums TLC can count.                                *)
(***************************************************************************)
EXTENDS InstructionSet, TLC

\* 0, 1, 3, 5, the largest and the smallest number, -1, and one with a bit
\* above each shift of the immediates.
Operands == {{}, {0}, {0, 1}, {0, 2}, Bit \ {Sign}, {Sign}, Bit, {Sign, 20, 13, 12, 11, 7, 4, 2}}

File(v) == [n \in RegNum |-> IF n \in DOMAIN v THEN v[n] ELSE {}]
MCContents == {File(1 :> a @@ 2 :> b) : a \in Operands, b \in Operands}
MCStale == {[rd |-> 2, rs1 |-> 2, rs2 |-> 1, imm |-> Bit]}
MCStartPc == {{3, 12}, Bit \ {0, 1}, {1}}
MCMemAddr == SUBSET {0, 1, 2}
MCBytes == {[a \in MCMemAddr |-> {Num(a) % 4} \cup (IF 2 \in a THEN {7} ELSE {})]}
MCHandler == {{4}}
MCCsrValue == {{3, 7}}

Instr(names, rds, rs1s, rs2s, imms) ==
    [name : names, rd : rds, rs1 : rs1s, rs2 : rs2s, imm : imms]

MCAssembly ==
    Instr(Names(R), {0, 1, 3}, {1}, {1, 2}, {0})
    \cup Instr({"addi", "slti", "sltiu", "xori", "ori", "andi", "jalr"},
               {0, 1}, {1}, {0}, {0, 1, 4, -1, 2047, -2048})
    \cup Instr({"slli", "srli", "srai"}, {1}, {1, 2}, {0}, {0, 1, 7, 29})
    \cup Instr(Loads, {0, 1}, {1}, {0}, {0, 1, 2, 4, -1})
    \cup Instr(Stores, {0}, {1}, {2}, {0, 1, 2, 3, -1, 7})
    \cup Instr(Branches, {0}, {1}, {1, 2}, {0, 6, 2048, -4096, 4094, -2})
    \cup Instr({"lui", "auipc"}, {0, 1}, {0}, {0}, {0, 4096, -4096, 2 ^ 29, -(2 ^ 30), 305418240})
    \cup Instr({"jal"}, {0, 1}, {0}, {0}, {4, 2048, 4096, -(2 ^ 20), 2 ^ 20 - 2, -2})
    \cup Instr({"fence"}, {0}, {0}, {0}, {0, 255})

\* ecall, ebreak, mret, csrrw x1, mstatus, x1, and the SYSTEM word of no instruction.
Privileges == LET SYSTEM == {0, 1, 4, 5, 6}
              IN  { SYSTEM, SYSTEM \cup {20}, SYSTEM \cup {21, 28, 29},
                    SYSTEM \cup {7, 12, 15, 28, 29}, SYSTEM \cup {14} }
MCCommand == Encodings \cup Privileges
=============================================================================
