----------------------------- MODULE Assembler -----------------------------
(***************************************************************************)
(* What an assembler writes for the instructions of RV32I.  An instruction *)
(* is a record of its name, its registers and its signed immediate.        *)
(***************************************************************************)
EXTENDS Numbers

\* Bits hi .. lo of a number, put at bit b of a word.
Bits(x, hi, lo, b) == {b + k - lo : k \in {j \in lo .. hi : (x \div Power(2, j)) % 2 = 1}}

\* opcode, funct3 and funct7 of the manual's listing.
Listing ==
    [ lui   |-> <<55, 0, 0>>,   auipc |-> <<23, 0, 0>>,   jal   |-> <<111, 0, 0>>,
      jalr  |-> <<103, 0, 0>>,  beq   |-> <<99, 0, 0>>,   bne   |-> <<99, 1, 0>>,
      blt   |-> <<99, 4, 0>>,   bge   |-> <<99, 5, 0>>,   bltu  |-> <<99, 6, 0>>,
      bgeu  |-> <<99, 7, 0>>,   lb    |-> <<3, 0, 0>>,    lh    |-> <<3, 1, 0>>,
      lw    |-> <<3, 2, 0>>,    lbu   |-> <<3, 4, 0>>,    lhu   |-> <<3, 5, 0>>,
      sb    |-> <<35, 0, 0>>,   sh    |-> <<35, 1, 0>>,   sw    |-> <<35, 2, 0>>,
      addi  |-> <<19, 0, 0>>,   slti  |-> <<19, 2, 0>>,   sltiu |-> <<19, 3, 0>>,
      xori  |-> <<19, 4, 0>>,   ori   |-> <<19, 6, 0>>,   andi  |-> <<19, 7, 0>>,
      slli  |-> <<19, 1, 0>>,   srli  |-> <<19, 5, 0>>,   srai  |-> <<19, 5, 32>>,
      add   |-> <<51, 0, 0>>,   sub   |-> <<51, 0, 32>>,  sll   |-> <<51, 1, 0>>,
      slt   |-> <<51, 2, 0>>,   sltu  |-> <<51, 3, 0>>,   xor   |-> <<51, 4, 0>>,
      srl   |-> <<51, 5, 0>>,   sra   |-> <<51, 5, 32>>,  or    |-> <<51, 6, 0>>,
      and   |-> <<51, 7, 0>>,   fence |-> <<15, 0, 0>> ]

OpImm == {"addi", "slti", "sltiu", "xori", "ori", "andi"}
Shifts == {"slli", "srli", "srai"}
Op == {"add", "sub", "sll", "slt", "sltu", "xor", "srl", "sra", "or", "and"}
Load == {"lb", "lh", "lw", "lbu", "lhu"}
Store == {"sb", "sh", "sw"}
Branch == {"beq", "bne", "blt", "bge", "bltu", "bgeu"}

\* The instructions that there are: the registers and the immediates that the
\* fields of their formats have room for.
Fits(i) ==
    /\ i.name \in DOMAIN Listing
    /\ {i.rd, i.rs1, i.rs2} \subseteq 0 .. 31 /\ i.imm \in Int
    /\ i.name \in Shifts => i.imm \in 0 .. 31
    /\ i.name \in OpImm \cup Load \cup Store \cup {"jalr"} => i.imm \in -2048 .. 2047
    /\ i.name \in Branch => i.imm \in -4096 .. 4095 /\ i.imm % 2 = 0
    /\ i.name = "jal" => i.imm \in -Power(2, 20) .. Power(2, 20) - 1 /\ i.imm % 2 = 0
    /\ i.name \in {"lui", "auipc"} =>
          i.imm % 4096 = 0 /\ i.imm \div 4096 \in -Power(2, 19) .. Power(2, 19) - 1

\* The fields of the six formats that are not the opcode.
Fields(i) ==
    LET rd == Bits(i.rd, 4, 0, 7)
        rs1 == Bits(i.rs1, 4, 0, 15)
        rs2 == Bits(i.rs2, 4, 0, 20)
        funct3 == Bits(Listing[i.name][2], 2, 0, 12)
        funct7 == Bits(Listing[i.name][3], 6, 0, 25)
    IN  CASE i.name \in Op -> rd \cup rs1 \cup rs2 \cup funct3 \cup funct7
          [] i.name \in Shifts -> rd \cup rs1 \cup funct3 \cup Bits(i.imm, 4, 0, 20) \cup funct7
          [] i.name \in OpImm \cup Load \cup {"jalr", "fence"} ->
                rd \cup rs1 \cup funct3 \cup Bits(i.imm, 11, 0, 20)
          [] i.name \in Store ->
                rs1 \cup rs2 \cup funct3 \cup Bits(i.imm, 11, 5, 25) \cup Bits(i.imm, 4, 0, 7)
          [] i.name \in Branch ->
                rs1 \cup rs2 \cup funct3
                \cup Bits(i.imm, 12, 12, 31) \cup Bits(i.imm, 10, 5, 25)
                \cup Bits(i.imm, 4, 1, 8) \cup Bits(i.imm, 11, 11, 7)
          [] i.name \in {"lui", "auipc"} -> rd \cup Bits(i.imm \div 4096, 19, 0, 12)
          [] i.name = "jal" ->
                rd \cup Bits(i.imm, 20, 20, 31) \cup Bits(i.imm, 10, 1, 21)
                \cup Bits(i.imm, 11, 11, 20) \cup Bits(i.imm, 19, 12, 12)

Encoding(i) == Bits(Listing[i.name][1], 6, 0, 0) \cup Fields(i)
=============================================================================
