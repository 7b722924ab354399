---------------------------- MODULE Instructions ----------------------------
(***************************************************************************)
(* Class RiscvProcessor: the look-up of an instruction, the six decoders   *)
(* with the temporaries that they leave to the executors, and the          *)
(* executors of the RV32I instructions.  Where traps go, the instructions  *)
(* that only move the privilege level and the CSRs, and the ends of memory *)
(* are module Processor's: here a trap is raised and goes to any handler.  *)
(*                                                                         *)
(* Programs rewrite themselves: the word at the program counter is any of  *)
(* Command.  As in Processor, the "- 4" of the jumps and the "m_pc += 4"   *)
(* of Step are left out where they cancel.                                 *)
(***************************************************************************)
EXTENDS Words

CONSTANTS
    Command,    \* instruction words
    Contents,   \* what a program's past has left in the registers
    Stale,      \* and in the decoders' temporaries, which nothing initializes
    StartPc,    \* and where it is now
    MemAddr,    \* the part of memory that loads and stores go to
    Bytes,      \* what it holds
    Handler,    \* where traps go
    CsrValue,   \* what a CSR instruction reads
    MaxSteps    \* bound on the instructions that are run

RegNum == 0 .. 31
CommandBit == 0 .. 31
Byte == SUBSET (0 .. 7)
Even == {w \in Word : 0 \notin w}
Temporaries == [rd : RegNum, rs1 : RegNum, rs2 : RegNum, imm : Word]
Registers == {r \in [RegNum -> Word] : r[0] = {}}

ASSUME InstructionsAssumption ==
    /\ XLen \in 25 .. 32
    /\ Command \subseteq SUBSET CommandBit
    /\ Contents \subseteq Registers
    /\ Stale \subseteq Temporaries
    /\ StartPc \subseteq Even /\ Handler \subseteq Even
    /\ MemAddr \subseteq Word /\ Bytes \subseteq [MemAddr -> Byte]
    /\ CsrValue \subseteq Word
    /\ MaxSteps \in Nat

VARIABLES
    pc,     \* m_pc
    reg,    \* m_reg
    mem,    \* m_mem
    dec,    \* m_decoded_rd, m_decoded_rs1, m_decoded_rs2 and m_decoded_imm
    cmd,    \* the last instruction word
    trap,   \* the exception that it has raised
    steps   \* instructions run, for the bound

vars == <<pc, reg, mem, dec, cmd, trap, steps>>

Init ==
    /\ pc \in StartPc
    /\ reg \in Contents
    /\ mem \in Bytes
    /\ dec \in Stale
    /\ cmd = {}
    /\ trap = "none"
    /\ steps = 0

-----------------------------------------------------------------------------
(* The four tables *)

\* The number in n bits (at most seven) from bit b.
Field(c, b, n) ==
    LET value(i, v) == IF i < n /\ b + i \in c THEN v ELSE 0
    IN  value(0, 1) + value(1, 2) + value(2, 4) + value(3, 8) + value(4, 16)
        + value(5, 32) + value(6, 64)

Opcode(c) == Field(c, 0, 7)
Funct3(c) == Field(c, 12, 3)
Funct7(c) == Field(c, 25, 7)
\* All twelve bits of an I immediate.
High12(c) == 32 * Funct7(c) + Field(c, 20, 5)

\* The rows of a table: an instruction and its key, which is an opcode (0x33,
\* 0x13, 0x67, 0x63, 0x03, 0x23, 0x73, 0x37, 0x17, 0x6F or 0x0F), a funct3 and
\* what the key has above them: seven bits of it in R and ISB, twelve in Sys.
R == { <<"add", 51, 0, 0>>, <<"sub", 51, 0, 32>>, <<"sll", 51, 1, 0>>, <<"slt", 51, 2, 0>>,
       <<"sltu", 51, 3, 0>>, <<"xor", 51, 4, 0>>, <<"srl", 51, 5, 0>>, <<"sra", 51, 5, 32>>,
       <<"or", 51, 6, 0>>, <<"and", 51, 7, 0>> }

ISB == { <<"jalr", 103, 0, 0>>,
         <<"beq", 99, 0, 0>>, <<"bne", 99, 1, 0>>, <<"blt", 99, 4, 0>>, <<"bge", 99, 5, 0>>,
         <<"bltu", 99, 6, 0>>, <<"bgeu", 99, 7, 0>>,
         <<"lb", 3, 0, 0>>, <<"lh", 3, 1, 0>>, <<"lw", 3, 2, 0>>, <<"lbu", 3, 4, 0>>, <<"lhu", 3, 5, 0>>,
         <<"sb", 35, 0, 0>>, <<"sh", 35, 1, 0>>, <<"sw", 35, 2, 0>>,
         <<"addi", 19, 0, 0>>, <<"slti", 19, 2, 0>>, <<"sltiu", 19, 3, 0>>, <<"xori", 19, 4, 0>>,
         <<"ori", 19, 6, 0>>, <<"andi", 19, 7, 0>>, <<"slli", 19, 1, 0>>, <<"srli", 19, 5, 0>>,
         <<"srai", 19, 5, 32>>,
         <<"csrrw", 115, 1, 0>>, <<"csrrs", 115, 2, 0>>, <<"csrrc", 115, 3, 0>>,
         <<"csrrwi", 115, 5, 0>>, <<"csrrsi", 115, 6, 0>>, <<"csrrci", 115, 7, 0>> }

UJ == { <<"lui", 55, 0, 0>>, <<"auipc", 23, 0, 0>>, <<"jal", 111, 0, 0>> }

Sys == { <<"fence", 15, 0, 0>>, <<"ecall", 115, 0, 0>>, <<"ebreak", 115, 0, 1>>,
         <<"mret", 115, 0, 770>> }

\* The four masks: srai's key has a bit that the mask of its table lacks.
KeyR(c) == <<Opcode(c), Funct3(c), Funct7(c)>>
KeyISB(c) == <<Opcode(c), Funct3(c), 0>>
KeyUJ(c) == <<Opcode(c), 0, 0>>
\* Mutation: the mask of the system instructions stops at the opcode.
KeySysOpcode(c) == <<Opcode(c), 0, 0>>
KeySys(c) == <<Opcode(c), Funct3(c), High12(c)>>

Found(table, key) == {r[1] : r \in {q \in table : <<q[2], q[3], q[4]>> = key}}
Names(table) == {r[1] : r \in table}

\* The tables are tried in this order.
Lookup(c) ==
    CASE Found(R, KeyR(c)) # {} -> Found(R, KeyR(c))
      [] Found(ISB, KeyISB(c)) # {} -> Found(ISB, KeyISB(c))
      [] Found(UJ, KeyUJ(c)) # {} -> Found(UJ, KeyUJ(c))
      [] OTHER -> Found(Sys, KeySys(c))

-----------------------------------------------------------------------------
(* The decoders *)

Rd(c) == Field(c, 7, 5)
Rs1(c) == Field(c, 15, 5)
Rs2(c) == Field(c, 20, 5)

\* m_decoded_imm |= 0xFF..., down to bit b.
SignFrom(c, b) == IF 31 \in c THEN {i \in Bit : i >= b} ELSE {}

ImmI(c) == {i \in 0 .. 11 : i + 20 \in c} \cup SignFrom(c, 12)
ImmS(c) == {i \in 0 .. 4 : i + 7 \in c} \cup {i \in 5 .. 11 : i + 20 \in c} \cup SignFrom(c, 12)
ImmB(c) ==
    {i \in 1 .. 4 : i + 7 \in c} \cup {i \in 5 .. 10 : i + 20 \in c}
    \cup {i \in {11} : 7 \in c} \cup {i \in {12} : 31 \in c} \cup SignFrom(c, 13)
ImmU(c) == {i \in Bit : i >= 12 /\ i \in c}
ImmJ(c) ==
    {i \in 1 .. 10 : i + 20 \in c} \cup {i \in {11} : 20 \in c}
    \cup {i \in 12 .. 19 : i \in c} \cup {i \in {20} : 31 \in c} \cup SignFrom(c, 21)

decode_R(c) == [dec EXCEPT !.rd = Rd(c), !.rs1 = Rs1(c), !.rs2 = Rs2(c)]
decode_I(c) == [dec EXCEPT !.rd = Rd(c), !.rs1 = Rs1(c), !.imm = ImmI(c)]
decode_S(c) == [dec EXCEPT !.rs1 = Rs1(c), !.rs2 = Rs2(c), !.imm = ImmS(c)]
decode_B(c) == [dec EXCEPT !.rs1 = Rs1(c), !.rs2 = Rs2(c), !.imm = ImmB(c)]
\* Mutation: rd is not cut to its five bits.
decode_UUncut(c) == [dec EXCEPT !.rd = Field(c, 7, 6), !.imm = ImmU(c)]
decode_U(c) == [dec EXCEPT !.rd = Rd(c), !.imm = ImmU(c)]
\* Mutation: no sign extension.
decode_JUnsigned(c) == [dec EXCEPT !.rd = Rd(c), !.imm = ImmJ(c) \cap 0 .. 20]
decode_J(c) == [dec EXCEPT !.rd = Rd(c), !.imm = ImmJ(c)]

Branches == {"beq", "bne", "blt", "bge", "bltu", "bgeu"}
Stores == {"sb", "sh", "sw"}
Loads == {"lb", "lh", "lw", "lbu", "lhu"}
Csrs == {"csrrw", "csrrs", "csrrc", "csrrwi", "csrrsi", "csrrci"}
Immediates == {"addi", "slti", "sltiu", "xori", "ori", "andi", "slli", "srli", "srai"}

Decoded(n, c) ==
    CASE n \in Names(R) -> decode_R(c)
      [] n \in Stores -> decode_S(c)
      [] n \in Branches -> decode_B(c)
      [] n \in {"lui", "auipc"} -> decode_U(c)
      [] n = "jal" -> decode_J(c)
      [] n \in Names(Sys) -> dec
      [] OTHER -> decode_I(c)

-----------------------------------------------------------------------------
(* The executors, with the temporaries as the decoder has left them *)

NextPc == Plus(pc, {2})

\* Mutation: x0 is a register like the others.
SetRegAny(n, w) == reg' = [reg EXCEPT ![n] = w]
\* x0 is always 0, disregard.
SetReg(n, w) == reg' = IF n = 0 THEN reg ELSE [reg EXCEPT ![n] = w]

\* The end of an instruction that does not trap.
Goes(to) == pc' = to /\ trap' = "none"

Raises(exception) ==
    /\ trap' = exception
    /\ pc' \in Handler
    /\ UNCHANGED <<reg, mem>>

A == reg[dec'.rs1]
B == reg[dec'.rs2]
Imm == dec'.imm

Shamt(w) == Field(w, 0, 5)

\* The sign is filled in from the bit below the last shifted one.
Sra(w, n) == ShiftRight(w, n) \cup (IF Sign \in w THEN {i \in Bit : i >= Sign - n} ELSE {})

\* 0 is the only number below 1: the special case of sltu and sltiu.
Below(a, b) == IF b = {0} THEN a = {} ELSE Less(a, b)

Flag(c) == IF c THEN {0} ELSE {}

\* Sums and differences wrap: where the code adds in int32_t the wrap is what
\* its builds make of the overflow.
Operation(n, a, b) ==
    CASE n \in {"add", "addi"} -> Plus(a, b)
      [] n = "sub" -> Minus(a, b)
      [] n \in {"sll", "slli"} -> ShiftLeft(a, Shamt(b))
      [] n \in {"slt", "slti"} -> Flag(SignedLess(a, b))
      [] n \in {"sltu", "sltiu"} -> Flag(Below(a, b))
      [] n \in {"xor", "xori"} -> Differ(a, b)
      [] n \in {"srl", "srli"} -> ShiftRight(a, Shamt(b))
      [] n \in {"sra", "srai"} -> Sra(a, Shamt(b))
      [] n \in {"or", "ori"} -> a \cup b
      [] n \in {"and", "andi"} -> a \cap b

Compute(n) ==
    /\ \/ n \in Names(R) /\ SetReg(dec'.rd, Operation(n, A, B))
       \/ n \in Immediates /\ SetReg(dec'.rd, Operation(n, A, Imm))
       \/ n = "lui" /\ SetReg(dec'.rd, Imm)
       \/ n = "auipc" /\ SetReg(dec'.rd, Plus(Imm, pc))
    /\ Goes(NextPc)
    /\ UNCHANGED mem

\* jalr clears bit 0 of its target, and writes rd after it has read rs1.
Jump(n) ==
    /\ \/ n = "jal" /\ Goes(Plus(pc, Imm))
       \/ n = "jalr" /\ Goes(Plus(A, Imm) \ {0})
    /\ SetReg(dec'.rd, NextPc)
    /\ UNCHANGED mem

Taken(n) ==
    CASE n = "beq" -> A = B
      [] n = "bne" -> A # B
      [] n = "blt" -> SignedLess(A, B)
      [] n = "bge" -> ~SignedLess(A, B)
      [] n = "bltu" -> Less(A, B)
      [] n = "bgeu" -> ~Less(A, B)

Branch(n) ==
    /\ n \in Branches
    /\ Goes(IF Taken(n) THEN Plus(pc, Imm) ELSE NextPc)
    /\ UNCHANGED <<reg, mem>>

\* The bytes of an access, by their place in the word.
Size(n) ==
    CASE n \in {"lb", "lbu", "sb"} -> 1
      [] n \in {"lh", "lhu", "sh"} -> 2
      [] n \in {"lw", "sw"} -> 4
Address == Plus(A, Imm)
Lane(k) == Plus(Address, {i \in {0, 1} : (i = 0 /\ k % 2 = 1) \/ (i = 1 /\ k >= 2)})
Lanes(n) == {Lane(k) : k \in 0 .. Size(n) - 1}
IsAligned(n) ==
    CASE Size(n) = 1 -> TRUE
      [] Size(n) = 2 -> 0 \notin Address
      [] Size(n) = 4 -> 0 \notin Address /\ 1 \notin Address

\* The sign extension of lb and lh, from their n bits.
Extended(w, n) == IF n - 1 \in w THEN w \cup {i \in Bit : i >= n} ELSE w

Load(n) ==
    LET data == {i \in Bit : i < 8 * Size(n) /\ i % 8 \in mem[Lane(i \div 8)]}
    IN  /\ n \in Loads
        /\ \/ ~IsAligned(n) /\ Raises("load_misaligned")
           \/ /\ IsAligned(n) /\ Lanes(n) \subseteq MemAddr
              /\ SetReg(dec'.rd, IF n \in {"lb", "lh"} THEN Extended(data, 8 * Size(n)) ELSE data)
              /\ Goes(NextPc)
              /\ UNCHANGED mem

Store(n) ==
    /\ n \in Stores
    /\ \/ ~IsAligned(n) /\ Raises("store_misaligned")
       \/ /\ IsAligned(n) /\ Lanes(n) \subseteq MemAddr
          /\ mem' = [a \in MemAddr |->
                        IF \E k \in 0 .. Size(n) - 1 : a = Lane(k)
                        THEN {j \in 0 .. 7 : \E k \in 0 .. Size(n) - 1 : a = Lane(k) /\ 8 * k + j \in B}
                        ELSE mem[a]]
          /\ Goes(NextPc)
          /\ UNCHANGED reg

\* fence has neither decoder nor executor.
Fence(n) == n = "fence" /\ Goes(NextPc) /\ UNCHANGED <<reg, mem>>

\* What these do to the CSRs, and when they trap, is in Processor.  At the
\* levels 1 and 2 ecall does nothing.
Privileged(n) ==
    \/ n \in {"ecall", "ebreak", "mret"} /\ Raises(n)
    \/ n = "ecall" /\ Goes(NextPc) /\ UNCHANGED <<reg, mem>>
    \/ n \in Csrs /\ Raises("illegal")
    \/ /\ n \in Csrs
       /\ \E w \in CsrValue : SetReg(dec'.rd, w)
       /\ Goes(NextPc)
       /\ UNCHANGED mem

-----------------------------------------------------------------------------
Fetches(c) == cmd' = c /\ steps < MaxSteps /\ steps' = steps + 1

Misaligned(c) ==
    /\ Fetches(c)
    /\ pc \cap {0, 1} # {}
    /\ Raises("fetch_misaligned") /\ UNCHANGED dec

Illegal(c) ==
    /\ Fetches(c)
    /\ pc \cap {0, 1} = {}
    /\ Lookup(c) = {}
    /\ Raises("illegal") /\ UNCHANGED dec

Execute(c) ==
    /\ Fetches(c)
    /\ pc \cap {0, 1} = {}
    /\ \E n \in Lookup(c) :
          /\ dec' = Decoded(n, c)
          /\ \/ Compute(n) \/ Jump(n) \/ Branch(n) \/ Load(n) \/ Store(n)
             \/ Fence(n) \/ Privileged(n)

Next == \E c \in Command : Misaligned(c) \/ Illegal(c) \/ Execute(c)

Spec == Init /\ [][Next]_vars

-----------------------------------------------------------------------------
TypeOK ==
    /\ pc \in Word
    /\ reg \in [RegNum -> Word]
    /\ mem \in [MemAddr -> Byte]
    /\ dec \in Temporaries
    /\ cmd \in SUBSET CommandBit
    /\ steps \in 0 .. MaxSteps

\* Whatever a program computes, x0 reads as zero, and jumps, branches and
\* jalr's sums keep the program counter even: what Processor takes for granted.
X0AndPc == reg[0] = {} /\ 0 \notin pc

\* An instruction word has one meaning: no second table, and no second key in
\* a table, has it too, so that neither the order in which the tables are
\* tried nor a later entry under the same key decides what is run.
Matches(c) ==
    Found(R, KeyR(c)) \cup Found(ISB, KeyISB(c)) \cup Found(UJ, KeyUJ(c))
    \cup Found(Sys, KeySys(c))
OneMeaning == \A m, n \in Matches(cmd) : m = n
=============================================================================
