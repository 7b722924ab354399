----------------------------- MODULE Processor -----------------------------
(***************************************************************************)
(* Class RiscvProcessor: the program counter, the privilege level, the     *)
(* CSRs and how traps move them.  What an instruction computes (module     *)
(* Instructions), which one the memory holds at the program counter, and   *)
(* the values that it finds in the registers are arbitrary: programs       *)
(* rewrite themselves and their data as they like.                         *)
(*                                                                         *)
(* Every instruction that has run ends in the "m_pc += 4" of Step: the     *)
(* code's jumps take 4 from their target for that, which is left out here  *)
(* where it comes out even.                                                *)
(***************************************************************************)
EXTENDS Words

CONSTANTS
    CountMod,   \* values of m_instruction_count: 2^64
    MemUpper,   \* the highest address of memory (m_addrUpper), which may be
                \* one past all words; the lowest is 0
    Entry,      \* where LoadFile starts a program
    Target,     \* where jumps and branches go
    Operand,    \* what CSR instructions find in rs1, or as their immediate
    DataAddr,   \* addresses of loads and stores
    Instr,      \* an instruction word, for mtval
    Writable    \* CSRs that the program's CSR instructions name

USER == 0
MACHINE == 3

\* The CSRs with a rule of their own.  "readonly" stands for misa and the four
\* ID registers, whose writes the code refuses and whose fixed values nothing
\* here looks at; "undefined" for every other number, which reads as zero.
CSR == {"mstatus", "mie", "mip", "mtvec", "mepc", "mcause", "mtval", "mscratch",
        "readonly", "undefined"}

ASSUME ProcessorAssumption ==
    /\ CountMod \in Nat \ {0}
    /\ MemUpper \subseteq 0 .. XLen
    /\ Entry \subseteq {a \in Word : 0 \notin a}
    /\ Target \subseteq {a \in Word : 0 \notin a}
    /\ DataAddr \subseteq Word
    /\ Operand \subseteq Word
    /\ Instr \in Word
    /\ Writable \subseteq CSR

VARIABLES
    pc,     \* m_pc
    prv,    \* m_prv
    csr,    \* m_csr_table
    count,  \* m_instruction_count
    thrown  \* an access to memory threw, which ends the process

vars == <<pc, prv, csr, count, thrown>>

NextPc == Plus(pc, {2})    \* pc + 4

\* mstatus by its fields.
MIE == 3 \in csr["mstatus"]
MPIE == 7 \in csr["mstatus"]
MPP == (IF 11 \in csr["mstatus"] THEN 1 ELSE 0) + (IF 12 \in csr["mstatus"] THEN 2 ELSE 0)
Status(mpp, mpie, mie) ==
    {b \in {3, 7, 11, 12} :
        \/ b = 3 /\ mie
        \/ b = 7 /\ mpie
        \/ b = 11 /\ mpp % 2 = 1
        \/ b = 12 /\ mpp >= 2}

Reset(entry) ==
    /\ pc' = entry
    /\ prv' = MACHINE
    /\ csr' = [n \in CSR |-> {}]
    /\ count' = 0
    /\ thrown' = FALSE

Init ==
    /\ pc \in Entry
    /\ prv = MACHINE
    /\ csr = [n \in CSR |-> {}]
    /\ count = 0
    /\ thrown = FALSE

-----------------------------------------------------------------------------
(* SetCSRValue *)

\* What a write of w leaves of a CSR that holds old.
Legal(n, old, w) ==
    CASE n = "mstatus" -> w \cap {3, 7, 11, 12}
      [] n = "mie" -> w \cap {0, 3, 4, 7, 8, 11}
      [] n = "mip" -> (old \ {0, 4, 8}) \cup (w \cap {0, 4, 8})
      [] n = "mtvec" -> IF 0 \in w THEN w \ (1 .. 6) ELSE w \ {1}
      [] n = "mepc" -> w \ {0, 1}
      [] n = "mcause" -> w \cap ((0 .. 3) \cup {Sign})
      [] n \in {"mtval", "mscratch"} -> w
      [] OTHER -> old

Refused(n) == n \in {"readonly", "undefined"} \/ prv = USER

-----------------------------------------------------------------------------
(* RaiseException, and the rest of Step after it *)

\* code is the four bits of the cause.
CauseWord(interrupt, code) == code \cup (IF interrupt THEN {Sign} ELSE {})

\* Mutation: the mode is taken for a part of the base.
VectorWithMode(interrupt, code, regs) == regs["mtvec"]

\* base, and 4 * mcause in vectored mode.
Vector(interrupt, code, regs) ==
    LET base == regs["mtvec"] \ {0, 1}
        vectored == 0 \in regs["mtvec"] /\ interrupt
    IN  IF vectored THEN Plus(base, ShiftLeft(CauseWord(interrupt, code), 2)) ELSE base

\* Mutation: mepc is written past SetCSRValue.
TrapCSRsRawEpc(interrupt, code, value, regs) ==
    [regs EXCEPT !["mcause"] = Legal("mcause", {}, CauseWord(interrupt, code)),
                 !["mepc"] = pc,
                 !["mtval"] = value,
                 !["mstatus"] = Status(prv, 3 \in regs["mstatus"], FALSE)]

\* Mutation: the level is changed before it is pushed.
TrapCSRsLatePush(interrupt, code, value, regs) ==
    [regs EXCEPT !["mcause"] = Legal("mcause", {}, CauseWord(interrupt, code)),
                 !["mepc"] = Legal("mepc", {}, pc),
                 !["mtval"] = value,
                 !["mstatus"] = Status(MACHINE, 3 \in regs["mstatus"], FALSE)]

\* regs are the CSRs as the instruction has left them.
TrapCSRs(interrupt, code, value, regs) ==
    [regs EXCEPT !["mcause"] = Legal("mcause", {}, CauseWord(interrupt, code)),
                 !["mepc"] = Legal("mepc", {}, pc),
                 !["mtval"] = value,
                 !["mstatus"] = Status(prv, 3 \in regs["mstatus"], FALSE)]

\* The instruction is not counted.
Exception(code, value, regs) ==
    /\ prv' = MACHINE
    /\ pc' = Vector(FALSE, code, regs)
    /\ UNCHANGED <<count, thrown>>
    /\ csr' = TrapCSRs(FALSE, code, value, regs)

\* ExecuteCmd adds 4 and 1 after an interrupt, and Step does so again: the
\* program counter ends one word behind the vector, the count one higher.
TakeInterrupt(code) ==
    /\ prv' = MACHINE
    /\ pc' = Plus(Vector(TRUE, code, csr), {2})
    /\ count' = (count + 1) % CountMod
    /\ UNCHANGED thrown
    /\ csr' = TrapCSRs(TRUE, code, {}, csr)

\* The end of an instruction that has not trapped.
Retire(next) ==
    /\ pc' = next
    /\ count' = (count + 1) % CountMod
    /\ UNCHANGED thrown

\* ReadWord, Get or Put throws in the middle of the step.
Throws ==
    /\ thrown' = TRUE
    /\ UNCHANGED <<pc, prv, csr, count>>

-----------------------------------------------------------------------------
(* Step and ExecuteCmd up to the instruction *)

InMemory(a) == ~Less(MemUpper, a)

\* lh adds to the address in 32 bits, ReadWord in 64.
Readable(a, size) ==
    CASE size = 1 -> InMemory(a)
      [] size = 2 -> InMemory(a) /\ InMemory(Plus(a, {0}))
      [] size = 4 -> InMemory(Sum(a, {0, 1}))

\* The address modulo the size.
Rest(a, size) ==
    CASE size = 1 -> {}
      [] size = 2 -> a \cap {0}
      [] size = 4 -> a \cap {0, 1}

Fetched == ~thrown /\ Readable(pc, 4)
Aligned == Rest(pc, 4) = {}

FetchThrows == ~thrown /\ ~Readable(pc, 4) /\ Throws

Misaligned == Fetched /\ ~Aligned /\ Exception({}, pc, csr)

\* Mutation: machine mode's interrupt enable holds in user mode too.
EnabledByMIE(b) == b \in csr["mip"] /\ b \in csr["mie"] /\ MIE

\* "~mstatus_mie" of the code is never zero: in user mode the interrupt
\* enable of machine mode is not looked at.
Enabled(b) ==
    /\ b \in csr["mip"] /\ b \in csr["mie"]
    /\ (MIE /\ prv = MACHINE) \/ prv = USER

\* The cause of an interrupt is the number of its bit.
Code(b) == {i \in 0 .. 3 : (b \div 2 ^ i) % 2 = 1}

\* The order in which the code tries them.
Higher(b) ==
    CASE b = 11 -> {}
      [] b = 3 -> {11}
      [] b = 7 -> {11, 3}
      [] b = 8 -> {11, 3, 7}
      [] b = 0 -> {11, 3, 7, 8}
      [] b = 4 -> {11, 3, 7, 8, 0}

Interrupt ==
    /\ Fetched /\ Aligned
    /\ \E b \in {11, 3, 7, 8, 0, 4} :
          /\ Enabled(b)
          /\ \A h \in Higher(b) : ~Enabled(h)
          /\ TakeInterrupt(Code(b))

Executes == Fetched /\ Aligned /\ \A b \in {11, 3, 7, 8, 0, 4} : ~Enabled(b)

-----------------------------------------------------------------------------
(* The instructions *)

IllegalInstruction == Exception({1}, Instr, csr)

\* Computing, lui, auipc, fence.
Compute == Retire(NextPc) /\ UNCHANGED <<prv, csr>>

\* jal, and jalr, which clears bit 0 of its target.
Jump == (\E t \in Target : Retire(t)) /\ UNCHANGED <<prv, csr>>

\* Taken or not.
Branch ==
    /\ \E t \in Target \cup {NextPc} : Retire(t)
    /\ UNCHANGED <<prv, csr>>

\* lb, lh, lw and the unsigned ones: the access goes before the test of the
\* alignment.
LoadMisaligned(a, size) == Rest(a, size) # {} /\ Readable(a, size) /\ Exception({2}, a, csr)

Load(a, size) ==
    \/ ~Readable(a, size) /\ Throws
    \/ LoadMisaligned(a, size)
    \/ /\ Readable(a, size) /\ Rest(a, size) = {}
       /\ Retire(NextPc) /\ UNCHANGED <<prv, csr>>

\* sb, sh, sw: the test goes first.  A Put of a vector may not reach the last
\* address, one of a byte may.
StoreFits(a, size) ==
    CASE size = 1 -> InMemory(a)
      [] size = 2 -> InMemory(Sum(a, {1}))
      [] size = 4 -> InMemory(Sum(a, {2}))

StoreMisaligned(a, size) == Rest(a, size) # {} /\ Exception({1, 2}, a, csr)

Store(a, size) ==
    \/ StoreMisaligned(a, size)
    \/ Rest(a, size) = {} /\ ~StoreFits(a, size) /\ Throws
    \/ /\ Rest(a, size) = {} /\ StoreFits(a, size)
       /\ Retire(NextPc) /\ UNCHANGED <<prv, csr>>

Ebreak == Exception({0, 1}, {}, csr)

\* Does nothing at a level that is neither of the two.
Ecall ==
    \/ prv = USER /\ Exception({3}, {}, csr)
    \/ prv = MACHINE /\ Exception({0, 1, 3}, {}, csr)
    \/ prv \notin {USER, MACHINE} /\ Retire(NextPc) /\ UNCHANGED <<prv, csr>>

Mret ==
    \/ prv = USER /\ Exception({1}, Instr, csr)
    \/ /\ prv # USER
       /\ Retire(csr["mepc"])
       /\ prv' = MPP
       /\ csr' = [csr EXCEPT !["mstatus"] = Status(USER, TRUE, MPIE)]

\* The six CSR instructions.  The write comes first; in user mode the old
\* value is then written back, and in every case of a refusal rd is restored.
\* rs1 x0, or an immediate of zero, writes only with csrrw.
Written(op, old, w) ==
    CASE op = "csrrw" -> w
      [] op = "csrrs" -> old \cup w
      [] op = "csrrc" -> old \ w

CsrAfter(n, w) == [csr EXCEPT ![n] = Legal(n, @, w)]

\* Mutation: the write of user mode is not undone.
NotUndone(n, w) == CsrAfter(n, w)

Undone(n, w) ==
    IF prv = USER
    THEN [csr EXCEPT ![n] = Legal(n, CsrAfter(n, w)[n], @)]
    ELSE CsrAfter(n, w)

Refuse(n, w) == Refused(n) /\ Exception({1}, Instr, Undone(n, w))

CsrInstruction(op, n, w, x0) ==
    LET new == Written(op, csr[n], w)
        writes == op = "csrrw" \/ ~x0
    IN  /\ x0 => w = {}
        /\ \/ writes /\ Refuse(n, new)
           \/ /\ writes /\ ~Refused(n)
              /\ csr' = CsrAfter(n, new)
              /\ Retire(NextPc) /\ UNCHANGED prv
           \/ ~writes /\ Retire(NextPc) /\ UNCHANGED <<prv, csr>>

\* SimHost::ResetSim, between runs.
ResetSim == ~thrown /\ \E entry \in Entry : Reset(entry)

\* SimHost::LoadFile, between runs: a program with a _start moves the program
\* counter; level, CSRs and count stay those of the program before.
LoadFile ==
    /\ ~thrown
    /\ pc' \in Entry
    /\ UNCHANGED <<prv, csr, count, thrown>>

Instruction ==
    \/ IllegalInstruction
    \/ Compute
    \/ Jump
    \/ Branch
    \/ \E a \in DataAddr, size \in {1, 2, 4} : Load(a, size) \/ Store(a, size)
    \/ Ebreak
    \/ Ecall
    \/ Mret
    \/ \E op \in {"csrrw", "csrrs", "csrrc"}, n \in Writable, w \in Operand, x0 \in BOOLEAN :
          CsrInstruction(op, n, w, x0)

Execute == Executes /\ Instruction

Next == FetchThrows \/ Misaligned \/ Interrupt \/ Execute \/ ResetSim \/ LoadFile

Spec == Init /\ [][Next]_vars

-----------------------------------------------------------------------------
TypeOK ==
    /\ pc \in Word /\ 0 \notin pc
    /\ prv \in 0 .. 3
    /\ csr \in [CSR -> Word]
    /\ count \in 0 .. CountMod - 1
    /\ thrown \in BOOLEAN

\* Nothing brings bits into a CSR that its rule in SetCSRValue drops: not the
\* trap, which goes around the instructions, not mret, not the undo.  The
\* machine's bits of mip, which no instruction can write, are never set.
CsrsLegal ==
    /\ \A n \in CSR : csr[n] = Legal(n, csr[n], csr[n])
    /\ csr["mip"] \subseteq {0, 4, 8}

\* A program in user mode leaves no trace in the CSRs but that of a trap, for
\* all that the CSR instructions write before they look at the level.
UserCannotWrite ==
    [][(prv = USER /\ ~ResetSim) =>
          \A n \in CSR :
             \/ csr'[n] = csr[n]
             \/ n \in {"mstatus", "mepc", "mcause", "mtval"} /\ prv' = MACHINE]_vars

\* User mode ends in a trap only, with the interrupts of machine mode off, at
\* a place that mtvec gives: its base, or after an interrupt one word past one
\* of the sixteen words from there.
EntersHandler ==
    LET base == csr["mtvec"] \ {0, 1}
    IN  \/ pc' = base
        \/ \E w \in SUBSET (2 .. 5) : pc' = Plus(Plus(base, w), {2})
UserLeavesByTrap ==
    [][(prv = USER /\ prv' # USER /\ ~ResetSim) =>
          /\ prv' = MACHINE
          /\ EntersHandler
          /\ MPP' = USER /\ ~MIE']_vars

\* What mret is going to restore after a trap is what the trap has found: the
\* address, which mepc rounds down to a multiple of four if the trap is about
\* just that, the level and the interrupt enable.  Every way into RaiseException
\* is there: an access that is misaligned and does not throw, and a CSR
\* instruction that is refused after it has written, among them.
ReturnPoint == <<csr["mepc"], MPP, MPIE>>
TrappingAccess ==
    \E a \in DataAddr, size \in {2, 4} : LoadMisaligned(a, size) \/ StoreMisaligned(a, size)
RefusedCsr ==
    \E n \in Writable :
       /\ Refused(n)
       /\ \E op \in {"csrrw", "csrrs", "csrrc"}, w \in Operand : Refuse(n, Written(op, csr[n], w))
Trap ==
    \/ Misaligned \/ Interrupt
    \/ /\ \/ IllegalInstruction \/ Ebreak \/ TrappingAccess \/ RefusedCsr
          \/ prv \in {USER, MACHINE} /\ Ecall
          \/ prv = USER /\ Mret
       /\ Executes
TrapReturns == [][Trap => ReturnPoint' = <<pc \ {1}, prv, MIE>>]_vars

\* An interrupt that is pending and enabled in mie stops a program in user
\* mode before its next instruction, whatever machine mode's interrupt enable.
InterruptsComeFirst ==
    [][(/\ prv = USER /\ Aligned /\ csr["mip"] \cap csr["mie"] # {}
        /\ ~thrown' /\ ~ResetSim /\ ~LoadFile)
          => prv' = MACHINE /\ Sign \in csr'["mcause"]]_vars

-----------------------------------------------------------------------------
\* What the README says of this class and it does not do.

\* "when a machine trap occurs, the PC is loaded with the value of mtvec"
InterruptEntersHandler ==
    [][(Interrupt /\ 0 \notin csr["mtvec"]) => pc' = csr["mtvec"]]_vars
=============================================================================
