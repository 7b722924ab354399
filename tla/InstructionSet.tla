--------------------------- MODULE InstructionSet ---------------------------
(***************************************************************************)
(* The instruction set that RiscvProcessor is to have, module Rv32i, and   *)
(* how the registers, memory and instruction words of module Instructions  *)
(* stand for its numbers.                                                  *)
(***************************************************************************)
EXTENDS Instructions

CONSTANT Assembly   \* the instructions that programs are assembled from

Asm == INSTANCE Assembler

ASSUME AssemblyAssumption == \A i \in Assembly : Asm!Fits(i)

\* What the tables of RiscvProcessor have for the manual's instructions: no
\* srai (its key cannot be found), and fence only without operands.
Missing == {i \in Assembly : i.name = "srai" \/ (i.name = "fence" /\ i.imm # 0)}

Encodings == {Asm!Encoding(i) : i \in Assembly}
Meaning == [w \in Encodings |-> CHOOSE i \in Assembly : Asm!Encoding(i) = w]
Kept == [w \in {v \in Encodings : Meaning[v] \notin Missing} |-> Meaning[w]]

AddressOf == [n \in {Num(a) : a \in MemAddr} |-> CHOOSE a \in MemAddr : Num(a) = n]
Memory == [n \in DOMAIN AddressOf |-> Num(mem[AddressOf[n]])]
Numbers == [n \in RegNum |-> Num(reg[n])]

Manual == INSTANCE Rv32i WITH
    Meaning <- Kept, pc <- Num(pc), reg <- Numbers, mem <- Memory
All == INSTANCE Rv32i WITH
    pc <- Num(pc), reg <- Numbers, mem <- Memory

\* A jump or a taken branch to an address that is no multiple of four: it goes
\* there, rd and all, and only the fetch at its target raises the exception,
\* with the target for mepc.
LateJump ==
    /\ cmd' \in DOMAIN Kept
    /\ Num(pc) % 4 = 0
    /\ Manual!Misjumps(Kept[cmd'])
    /\ Manual!Runs(Kept[cmd'])

\* RiscvProcessor runs the instructions that its tables have as the manual of
\* RV32I says, with every register, immediate and program counter, but for
\* the jumps whose target is misaligned.
IsRv32i == [][Manual!Step \/ LateJump]_(Manual!vars)

\* "supports the entire RV32I spec": all instructions, and all jumps.
EntireRV32I == All!Spec
=============================================================================
