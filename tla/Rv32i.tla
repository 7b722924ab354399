------------------------------- MODULE Rv32i -------------------------------
(***************************************************************************)
(* The RV32I instruction set on numbers, as its manual has it.             *)
(*                                                                         *)
(* A step runs the instruction that its word encodes.  What words that     *)
(* encode none do is reserved, and what the privileged instructions do is  *)
(* not in this manual: here such a step does anything.                     *)
(***************************************************************************)
EXTENDS Numbers

CONSTANTS
    XLen,       \* bits of a register: 32
    Meaning     \* the instructions of the words that encode one

VARIABLES pc, reg, mem, cmd, trap

vars == <<pc, reg, mem, cmd, trap>>

-----------------------------------------------------------------------------
(* Execution *)

Wrap(x) == x % Power(2, XLen)
Signed(x) == IF x >= Power(2, XLen - 1) THEN x - Power(2, XLen) ELSE x
Ones(x) == {k \in 0 .. XLen - 1 : (x \div Power(2, k)) % 2 = 1}
Number(w) == FromDigits([k \in 0 .. XLen - 1 |-> IF k \in w THEN 1 ELSE 0], 2, XLen)
Truth(c) == IF c THEN 1 ELSE 0

Op == {"add", "sub", "sll", "slt", "sltu", "xor", "srl", "sra", "or", "and"}
OpImm == {"addi", "slti", "sltiu", "xori", "ori", "andi", "slli", "srli", "srai"}
Load == {"lb", "lh", "lw", "lbu", "lhu"}
Store == {"sb", "sh", "sw"}
Branch == {"beq", "bne", "blt", "bge", "bltu", "bgeu"}

\* Immediates are signed, registers are not.
Result(name, x, y) ==
    LET shamt == y % 32
    IN  CASE name \in {"add", "addi"} -> x + Signed(y)
          [] name = "sub" -> x - y
          [] name \in {"sll", "slli"} ->
                IF shamt < XLen THEN (x % Power(2, XLen - shamt)) * Power(2, shamt) ELSE 0
          [] name \in {"srl", "srli"} -> IF shamt < XLen THEN x \div Power(2, shamt) ELSE 0
          [] name \in {"sra", "srai"} ->
                IF shamt < XLen THEN Signed(x) \div Power(2, shamt) ELSE -Truth(Signed(x) < 0)
          [] name \in {"slt", "slti"} -> Truth(Signed(x) < Signed(y))
          [] name \in {"sltu", "sltiu"} -> Truth(x < y)
          [] name \in {"and", "andi"} -> Number(Ones(x) \cap Ones(y))
          [] name \in {"or", "ori"} -> Number(Ones(x) \cup Ones(y))
          [] name \in {"xor", "xori"} -> x + y - 2 * Number(Ones(x) \cap Ones(y))

Holds(name, x, y) ==
    CASE name = "beq" -> x = y
      [] name = "bne" -> x # y
      [] name = "blt" -> Signed(x) < Signed(y)
      [] name = "bge" -> Signed(x) >= Signed(y)
      [] name = "bltu" -> x < y
      [] name = "bgeu" -> x >= y

Width(name) ==
    CASE name \in {"lb", "lbu", "sb"} -> 1
      [] name \in {"lh", "lhu", "sh"} -> 2
      [] name \in {"lw", "sw"} -> 4

Writes(i, x) == reg' = [reg EXCEPT ![i.rd] = IF i.rd = 0 THEN 0 ELSE Wrap(x)]
Continues == pc' = Wrap(pc + 4) /\ trap' = "none"
JumpsTo(x) == pc' = Wrap(x) /\ trap' = "none"
Traps(exception) == trap' = exception /\ UNCHANGED <<reg, mem>>

Loads(i, a) ==
    LET n == Width(i.name)
        byte(k) == mem[Wrap(a + k)] % Power(2, XLen - 8 * k)
        data == FromDigits([k \in 0 .. n - 1 |-> byte(k)], 256, n)
        negative == i.name \in {"lb", "lh"} /\ data >= Power(2, 8 * n - 1)
    IN  \/ a % n # 0 /\ Traps("load_misaligned")
        \/ /\ a % n = 0
           /\ Writes(i, IF negative THEN data - Power(2, 8 * n) ELSE data)
           /\ Continues /\ UNCHANGED mem

Stores(i, a) ==
    LET n == Width(i.name)
    IN  \/ a % n # 0 /\ Traps("store_misaligned")
        \/ /\ a % n = 0
           /\ mem' = [b \in DOMAIN mem |->
                         IF b \in a .. a + n - 1
                         THEN (reg[i.rs2] \div Power(256, b - a)) % 256
                         ELSE mem[b]]
           /\ Continues /\ UNCHANGED reg

\* Whether an instruction leaves the sequence, and where it goes then.
Jumps(i) ==
    \/ i.name \in {"jal", "jalr"}
    \/ i.name \in Branch /\ Holds(i.name, reg[i.rs1], reg[i.rs2])
Target(i) ==
    LET sum == reg[i.rs1] + i.imm
    IN  IF i.name = "jalr" THEN sum - (sum % 2) ELSE pc + i.imm

\* "The JAL and JALR instructions will generate an instruction-address-
\* misaligned exception if the target address is not aligned to a four-byte
\* boundary", and so will a branch, if it is taken.
Misjumps(i) == Jumps(i) /\ Wrap(Target(i)) % 4 # 0

\* An instruction that raises no exception by its target.
Runs(i) ==
    LET x == reg[i.rs1]
        y == reg[i.rs2]
        imm == Wrap(i.imm)
    IN  \/ /\ \/ i.name \in Op /\ Writes(i, Result(i.name, x, y))
              \/ i.name \in OpImm /\ Writes(i, Result(i.name, x, imm))
              \/ i.name = "lui" /\ Writes(i, i.imm)
              \/ i.name = "auipc" /\ Writes(i, Wrap(pc) + Signed(imm))
           /\ Continues /\ UNCHANGED mem
        \/ /\ i.name \in {"jal", "jalr"}
           /\ JumpsTo(Target(i))
           /\ Writes(i, pc + 4)
           /\ UNCHANGED mem
        \/ /\ i.name \in Branch
           /\ \/ Jumps(i) /\ JumpsTo(Target(i))
              \/ ~Jumps(i) /\ Continues
           /\ UNCHANGED <<reg, mem>>
        \/ i.name \in Load /\ Loads(i, Wrap(x + i.imm))
        \/ i.name \in Store /\ Stores(i, Wrap(x + i.imm))
        \/ i.name = "fence" /\ Continues /\ UNCHANGED <<reg, mem>>

-----------------------------------------------------------------------------
\* A misaligned target is the jump's own exception, and it writes nothing.  A
\* program whose first address is misaligned gets no further.
Step ==
    cmd' \in DOMAIN Meaning =>
        \/ pc % 4 # 0 /\ Traps("fetch_misaligned")
        \/ pc % 4 = 0 /\ Misjumps(Meaning[cmd']) /\ Traps("fetch_misaligned")
        \/ pc % 4 = 0 /\ ~Misjumps(Meaning[cmd']) /\ Runs(Meaning[cmd'])

Spec == [][Step]_vars
=============================================================================
