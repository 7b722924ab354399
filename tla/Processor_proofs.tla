-------------------------- MODULE Processor_proofs --------------------------
(***************************************************************************)
(* The properties of Processor for every width of words, every memory and  *)
(* every program.                                                          *)
(***************************************************************************)
EXTENDS Processor, Words_proofs

\* The CSRs can be written as they are: CsrsLegal, for CSRs on the way from an
\* instruction to its trap.
LegalRegs(regs) ==
    /\ regs \in [CSR -> Word]
    /\ \A n \in CSR : regs[n] = Legal(n, regs[n], regs[n])
    /\ regs["mip"] \subseteq {0, 4, 8}

\* The inductive invariant: pc is even only while mepc and mtvec, from which
\* mret and the traps take it, keep to their masks.
IInv == TypeOK /\ CsrsLegal

-----------------------------------------------------------------------------
(* SetCSRValue *)

\* What a write has left can be written again, and stays a word.
LEMMA LegalTwice ==
    ASSUME NEW n \in CSR, NEW old \in Word, NEW w \in Word
    PROVE  /\ Legal(n, old, w) \in Word
           /\ Legal(n, Legal(n, old, w), Legal(n, old, w)) = Legal(n, old, w)
<1>1. Legal(n, old, w) \in Word
  BY SmallBits DEF Legal, CSR, Word
<1>2. Legal(n, Legal(n, old, w), Legal(n, old, w)) = Legal(n, old, w)
  <2>1. CASE n = "mstatus" BY <2>1 DEF Legal
  <2>2. CASE n = "mie" BY <2>2 DEF Legal
  <2>3. CASE n = "mip" BY <2>3 DEF Legal
  <2>4. CASE n = "mtvec" BY <2>4 DEF Legal
  <2>5. CASE n = "mepc" BY <2>5 DEF Legal
  <2>6. CASE n = "mcause" BY <2>6 DEF Legal
  <2>7. CASE n \in {"mtval", "mscratch"} BY <2>7 DEF Legal
  <2>8. CASE n \in {"readonly", "undefined"} BY <2>8 DEF Legal
  <2> QED BY <2>1, <2>2, <2>3, <2>4, <2>5, <2>6, <2>7, <2>8 DEF CSR
<1> QED BY <1>1, <1>2

\* Writing the old value back undoes a write: the undo in user mode goes
\* through the masks of the write, and still restores every bit.
LEMMA LegalUndo ==
    ASSUME NEW n \in CSR, NEW old, NEW w
    PROVE  Legal(n, Legal(n, old, w), old) = Legal(n, old, old)
<1>1. CASE n = "mip" BY <1>1 DEF Legal
<1>2. CASE n \in {"readonly", "undefined"} BY <1>2 DEF Legal
<1>3. CASE n \notin {"mip", "readonly", "undefined"} BY <1>3 DEF Legal, CSR
<1> QED BY <1>1, <1>2, <1>3

\* A CSR instruction leaves legal CSRs.
LEMMA CsrAfterLegal ==
    ASSUME LegalRegs(csr), NEW n \in CSR, NEW w \in Word
    PROVE  LegalRegs(CsrAfter(n, w))
<1> DEFINE new == CsrAfter(n, w)
<1>1. new \in [CSR -> Word]
  BY LegalTwice DEF CsrAfter, LegalRegs
<1>2. ASSUME NEW m \in CSR PROVE new[m] = Legal(m, new[m], new[m])
  <2>1. CASE m = n
    <3>1. new[m] = Legal(n, csr[n], w) BY <2>1 DEF CsrAfter, LegalRegs
    <3> QED BY <3>1, <2>1, LegalTwice DEF LegalRegs
  <2>2. CASE m # n
    <3>1. new[m] = csr[m] BY <2>2 DEF CsrAfter, LegalRegs
    <3> QED BY <3>1 DEF LegalRegs
  <2> QED BY <2>1, <2>2
<1>3. new["mip"] \subseteq {0, 4, 8}
  <2>1. CASE n = "mip"
    <3>1. new["mip"] = Legal("mip", csr["mip"], w) BY <2>1 DEF CsrAfter, LegalRegs
    <3>2. csr["mip"] \subseteq {0, 4, 8} BY DEF LegalRegs
    <3> QED BY <3>1, <3>2 DEF Legal
  <2>2. CASE n # "mip"
    <3>1. new["mip"] = csr["mip"] BY <2>2 DEF CsrAfter, LegalRegs, CSR
    <3> QED BY <3>1 DEF LegalRegs
  <2> QED BY <2>1, <2>2
<1> QED BY <1>1, <1>2, <1>3 DEF LegalRegs

\* A refusal leaves the CSRs as they were: in user mode by the undo, in machine
\* mode because the write of such a CSR changes nothing.
LEMMA UndoneLegal ==
    ASSUME LegalRegs(csr), NEW n \in CSR, NEW w \in Word
    PROVE  /\ LegalRegs(Undone(n, w))
           /\ Refused(n) => Undone(n, w) = csr
<1>1. CASE prv = USER
  <2>1. CsrAfter(n, w)[n] = Legal(n, csr[n], w)
    BY DEF CsrAfter, LegalRegs
  <2>2. Legal(n, CsrAfter(n, w)[n], csr[n]) = csr[n]
    BY <2>1, LegalUndo DEF LegalRegs
  <2>3. Undone(n, w) = [csr EXCEPT ![n] = csr[n]]
    BY <1>1, <2>2 DEF Undone
  <2>4. Undone(n, w) = csr
    BY <2>3 DEF LegalRegs
  <2> QED BY <2>4
<1>2. CASE prv # USER
  <2>1. LegalRegs(Undone(n, w))
    BY <1>2, CsrAfterLegal DEF Undone
  <2>2. ASSUME Refused(n) PROVE Undone(n, w) = csr
    <3>1. Legal(n, csr[n], w) = csr[n]
      BY <1>2, <2>2 DEF Refused, Legal
    <3>2. Undone(n, w) = [csr EXCEPT ![n] = csr[n]]
      BY <1>2, <3>1 DEF Undone, CsrAfter
    <3> QED BY <3>2 DEF LegalRegs
  <2> QED BY <2>1, <2>2
<1> QED BY <1>1, <1>2

-----------------------------------------------------------------------------
(* RaiseException *)

\* Every trap writes its four CSRs within their masks.
LEMMA TrapLegal ==
    ASSUME TypeOK, NEW regs, LegalRegs(regs), NEW i \in BOOLEAN,
           NEW code \in SUBSET (0 .. 3), NEW value \in Word
    PROVE  LegalRegs(TrapCSRs(i, code, value, regs))
<1> DEFINE new == TrapCSRs(i, code, value, regs)
           cause == CauseWord(i, code)
<1>1. cause \in Word
  <2>1. code \subseteq Bit /\ {Sign} \subseteq Bit BY SmallBits
  <2>2. cause \subseteq code \cup {Sign} BY DEF CauseWord
  <2> QED BY <2>1, <2>2 DEF Word
<1>2. /\ Legal("mcause", {}, cause) \in Word
      /\ Legal("mepc", {}, pc) \in Word
      /\ Status(prv, 3 \in regs["mstatus"], FALSE) \in Word
  <2>1. {} \in Word /\ pc \in Word BY DEF Word, TypeOK
  <2>2. Legal("mcause", {}, cause) \in Word BY <1>1, <2>1, LegalTwice DEF CSR
  <2>3. Legal("mepc", {}, pc) \in Word BY <2>1, LegalTwice DEF CSR
  <2>4. Status(prv, 3 \in regs["mstatus"], FALSE) \in Word BY SmallBits DEF Word, Status
  <2> QED BY <2>2, <2>3, <2>4
<1>3. new \in [CSR -> Word]
  BY <1>2 DEF TrapCSRs, LegalRegs
<1>4. /\ new["mcause"] = Legal("mcause", {}, cause)
      /\ new["mepc"] = Legal("mepc", {}, pc)
      /\ new["mtval"] = value
      /\ new["mstatus"] = Status(prv, 3 \in regs["mstatus"], FALSE)
      /\ \A m \in CSR \ {"mcause", "mepc", "mtval", "mstatus"} : new[m] = regs[m]
  BY DEF TrapCSRs, LegalRegs, CSR
<1>5. ASSUME NEW m \in CSR PROVE new[m] = Legal(m, new[m], new[m])
  <2>1. CASE m = "mcause" BY <1>4, <2>1 DEF Legal
  <2>2. CASE m = "mepc" BY <1>4, <2>2 DEF Legal
  <2>3. CASE m = "mtval" BY <1>4, <2>3 DEF Legal
  <2>4. CASE m = "mstatus" BY <1>4, <2>4 DEF Legal, Status
  <2>5. CASE m \notin {"mcause", "mepc", "mtval", "mstatus"}
    BY <1>4, <2>5 DEF LegalRegs
  <2> QED BY <2>1, <2>2, <2>3, <2>4, <2>5
<1>6. new["mip"] \subseteq {0, 4, 8}
  BY <1>4 DEF LegalRegs, CSR
<1> QED BY <1>3, <1>5, <1>6 DEF LegalRegs

\* A trap goes to an even word, one of the base and the sixteen words from it.
LEMMA VectorEven ==
    ASSUME NEW regs, LegalRegs(regs), NEW i \in BOOLEAN, NEW code \in SUBSET (0 .. 3)
    PROVE  /\ Vector(i, code, regs) \in Word /\ 0 \notin Vector(i, code, regs)
           /\ \E w \in SUBSET (2 .. 5) :
                 Vector(i, code, regs) = Plus(regs["mtvec"] \ {0, 1}, w)
           /\ ~i => Vector(i, code, regs) = regs["mtvec"] \ {0, 1}
<1> DEFINE base == regs["mtvec"] \ {0, 1}
           offset == ShiftLeft(CauseWord(i, code), 2)
<1>1. base \in Word /\ 0 \notin base
  BY DEF LegalRegs, CSR, Word
<1>2. offset \in SUBSET (2 .. 5)
  BY XLenAssumption DEF ShiftLeft, CauseWord, Bit, Sign
<1>3. offset \in Word /\ 0 \notin offset
  BY <1>2, SmallBits DEF Word
<1>4. CASE 0 \in regs["mtvec"] /\ i
  <2>1. Vector(i, code, regs) = Plus(base, offset)
    BY <1>4 DEF Vector
  <2> QED BY <2>1, <1>1, <1>2, <1>3, <1>4, PlusEven
<1>5. CASE ~(0 \in regs["mtvec"] /\ i)
  <2>1. Vector(i, code, regs) = base
    BY <1>5 DEF Vector
  <2>2. base = Plus(base, {})
    BY <1>1, PlusNothing
  <2> QED BY <2>1, <2>2, <1>1
<1> QED BY <1>4, <1>5

\* A trap keeps the invariant.
LEMMA ExceptionKeeps ==
    ASSUME IInv, NEW regs, LegalRegs(regs), NEW code \in SUBSET (0 .. 3), NEW value \in Word,
           Exception(code, value, regs)
    PROVE  IInv'
<1>1. LegalRegs(csr')
  BY TrapLegal DEF Exception, IInv
<1>2. pc' \in Word /\ 0 \notin pc'
  BY VectorEven DEF Exception
<1>3. prv' = 3 /\ count' = count /\ thrown' = thrown
  BY DEF Exception, MACHINE
<1> QED BY <1>1, <1>2, <1>3 DEF IInv, TypeOK, CsrsLegal, LegalRegs

\* So does an interrupt.
LEMMA InterruptKeeps ==
    ASSUME IInv, NEW code \in SUBSET (0 .. 3), TakeInterrupt(code)
    PROVE  IInv'
<1>1. LegalRegs(csr)
  BY DEF IInv, TypeOK, CsrsLegal, LegalRegs
<1>2. LegalRegs(csr')
  <2>1. {} \in Word BY DEF Word
  <2> QED BY <1>1, <2>1, TrapLegal DEF TakeInterrupt, IInv
<1>3. pc' \in Word /\ 0 \notin pc'
  <2>1. {2} \in Word /\ 0 \notin {2} BY SmallBits DEF Word
  <2> QED BY <1>1, <2>1, VectorEven, PlusEven DEF TakeInterrupt
<1>4. prv' = 3 /\ count' \in 0 .. CountMod - 1 /\ thrown' = thrown
  BY ProcessorAssumption DEF TakeInterrupt, MACHINE, IInv, TypeOK
<1> QED BY <1>2, <1>3, <1>4 DEF IInv, TypeOK, CsrsLegal, LegalRegs

\* And an instruction that ends at an even address with legal CSRs.
LEMMA RetireKeeps ==
    ASSUME IInv, NEW next \in Word, 0 \notin next, Retire(next),
           LegalRegs(csr'), prv' \in 0 .. 3
    PROVE  IInv'
BY ProcessorAssumption DEF Retire, IInv, TypeOK, CsrsLegal, LegalRegs

-----------------------------------------------------------------------------
(* The step *)

\* CSRs that are all zero, as Reset leaves them, are legal.
LEMMA ZeroLegal == LegalRegs([n \in CSR |-> {}])
<1>1. \A n \in CSR : Legal(n, {}, {}) = {}
  BY DEF CSR, Legal
<1>2. {} \in Word /\ "mip" \in CSR
  BY DEF Word, CSR
<1> QED BY <1>1, <1>2 DEF LegalRegs

\* The initial states satisfy the invariant.
LEMMA Start == Init => IInv
<1> SUFFICES ASSUME Init PROVE IInv
  OBVIOUS
<1>1. pc \in Word /\ 0 \notin pc
  BY ProcessorAssumption DEF Init
<1>2. prv \in 0 .. 3
  BY DEF Init, MACHINE
<1>3. thrown \in BOOLEAN
  BY DEF Init
<1>4. count \in 0 .. CountMod - 1
  BY ProcessorAssumption DEF Init
<1>5. LegalRegs(csr)
  BY ZeroLegal DEF Init
<1> QED BY <1>1, <1>2, <1>3, <1>4, <1>5 DEF IInv, TypeOK, CsrsLegal, LegalRegs

\* Reset starts afresh from any state.
LEMMA ResetKeeps ==
    ASSUME IInv, ResetSim
    PROVE  IInv'
<1>1. pc' \in Word /\ 0 \notin pc'
  BY ProcessorAssumption DEF ResetSim, Reset
<1>2. prv' \in 0 .. 3
  BY DEF ResetSim, Reset, MACHINE
<1>3. thrown' \in BOOLEAN
  BY DEF ResetSim, Reset
<1>4. count' \in 0 .. CountMod - 1
  BY ProcessorAssumption DEF ResetSim, Reset
<1>5. LegalRegs(csr')
  BY ZeroLegal DEF ResetSim, Reset
<1> QED BY <1>1, <1>2, <1>3, <1>4, <1>5 DEF IInv, TypeOK, CsrsLegal, LegalRegs

\* A loaded program starts at an even address.
LEMMA LoadKeeps ==
    ASSUME IInv, LoadFile
    PROVE  IInv'
<1>1. pc' \in Word /\ 0 \notin pc'
  BY ProcessorAssumption DEF LoadFile
<1> QED BY <1>1 DEF LoadFile, IInv, TypeOK, CsrsLegal

\* The legal CSRs and the even addresses that the instructions start from.
LEMMA Facts ==
    ASSUME IInv
    PROVE  /\ LegalRegs(csr)
           /\ NextPc \in Word /\ 0 \notin NextPc
           /\ csr["mepc"] \in Word /\ 0 \notin csr["mepc"]
           /\ {} \in Word /\ Instr \in Word /\ pc \in Word
           /\ Status(USER, TRUE, MPIE) \in Word
<1>1. LegalRegs(csr)
  BY DEF IInv, TypeOK, CsrsLegal, LegalRegs
<1>2. {2} \in Word /\ 0 \notin {2}
  BY SmallBits DEF Word
<1>3. NextPc \in Word /\ 0 \notin NextPc
  BY <1>2, PlusEven DEF NextPc, IInv, TypeOK
<1>4. csr["mepc"] \in Word /\ csr["mepc"] = csr["mepc"] \ {0, 1}
  <2>1. csr["mepc"] = Legal("mepc", csr["mepc"], csr["mepc"])
    BY <1>1 DEF LegalRegs, CSR
  <2> QED BY <1>1, <2>1 DEF LegalRegs, CSR, Legal
<1>5. {} \in Word /\ Instr \in Word /\ pc \in Word
  BY ProcessorAssumption DEF Word, IInv, TypeOK
<1>6. Status(USER, TRUE, MPIE) \in Word
  BY SmallBits DEF Status, Word
<1> QED BY <1>1, <1>3, <1>4, <1>5, <1>6

\* Instructions that trap and those that go on, one by one.
LEMMA InstructionKeeps ==
    ASSUME IInv, Instruction
    PROVE  IInv'
<1> USE Facts
<1>1. CASE IllegalInstruction
  BY <1>1, ExceptionKeeps DEF IllegalInstruction
<1>2. CASE Compute
  BY <1>2, RetireKeeps DEF Compute, IInv, TypeOK
<1>3. CASE Jump
  BY <1>3, RetireKeeps, ProcessorAssumption DEF Jump, IInv, TypeOK
<1>4. CASE Branch
  BY <1>4, RetireKeeps, ProcessorAssumption DEF Branch, IInv, TypeOK
<1>5. ASSUME NEW a \in DataAddr, NEW size \in {1, 2, 4}, Load(a, size) \/ Store(a, size)
      PROVE  IInv'
  <2>1. a \in Word BY ProcessorAssumption
  <2>2. CASE Throws BY <2>2 DEF Throws, IInv, TypeOK, CsrsLegal
  <2>3. CASE Exception({2}, a, csr) BY <2>1, <2>3, ExceptionKeeps
  <2>4. CASE Exception({1, 2}, a, csr) BY <2>1, <2>4, ExceptionKeeps
  <2>5. CASE Retire(NextPc) /\ UNCHANGED <<prv, csr>>
    BY <2>5, RetireKeeps DEF IInv, TypeOK
  <2> QED BY <1>5, <2>2, <2>3, <2>4, <2>5 DEF Load, Store, LoadMisaligned, StoreMisaligned
<1>6. CASE Ebreak
  BY <1>6, ExceptionKeeps DEF Ebreak
<1>7. CASE Ecall
  <2>1. CASE Exception({3}, {}, csr) BY <2>1, ExceptionKeeps
  <2>2. CASE Exception({0, 1, 3}, {}, csr) BY <2>2, ExceptionKeeps
  <2>3. CASE Retire(NextPc) /\ UNCHANGED <<prv, csr>>
    BY <2>3, RetireKeeps DEF IInv, TypeOK
  <2> QED BY <1>7, <2>1, <2>2, <2>3 DEF Ecall
<1>8. CASE Mret
  <2>1. CASE Exception({1}, Instr, csr) BY <2>1, ExceptionKeeps
  <2>2. CASE /\ Retire(csr["mepc"])
             /\ prv' = MPP
             /\ csr' = [csr EXCEPT !["mstatus"] = Status(USER, TRUE, MPIE)]
    <3>1. prv' \in 0 .. 3 BY <2>2 DEF MPP
    <3>2. LegalRegs(csr')
      <4>1. csr' \in [CSR -> Word] BY <2>2 DEF LegalRegs
      <4>2. /\ csr'["mstatus"] = Status(USER, TRUE, MPIE)
            /\ \A m \in CSR \ {"mstatus"} : csr'[m] = csr[m]
        BY <2>2 DEF LegalRegs, CSR
      <4>3. csr'["mstatus"] = Legal("mstatus", csr'["mstatus"], csr'["mstatus"])
        BY <4>2 DEF Status, Legal
      <4>4. \A m \in CSR \ {"mstatus"} : csr'[m] = Legal(m, csr'[m], csr'[m])
        BY <4>2 DEF LegalRegs
      <4>5. csr'["mip"] \subseteq {0, 4, 8}
        BY <4>2 DEF LegalRegs, CSR
      <4> QED BY <4>1, <4>3, <4>4, <4>5 DEF LegalRegs
    <3> QED BY <2>2, <3>1, <3>2, RetireKeeps
  <2> QED BY <1>8, <2>1, <2>2 DEF Mret
<1>9. ASSUME NEW op \in {"csrrw", "csrrs", "csrrc"}, NEW n \in Writable, NEW w \in Operand,
             NEW x0 \in BOOLEAN, CsrInstruction(op, n, w, x0)
      PROVE  IInv'
  <2> DEFINE new == Written(op, csr[n], w)
  <2>1. n \in CSR /\ w \in Word BY ProcessorAssumption
  <2>2. new \in Word BY <2>1 DEF Written, Word, LegalRegs
  <2>3. CASE Exception({1}, Instr, Undone(n, new))
    BY <2>1, <2>2, <2>3, UndoneLegal, ExceptionKeeps
  <2>4. CASE csr' = CsrAfter(n, new) /\ Retire(NextPc) /\ UNCHANGED prv
    BY <2>1, <2>2, <2>4, CsrAfterLegal, RetireKeeps DEF IInv, TypeOK
  <2>5. CASE Retire(NextPc) /\ UNCHANGED <<prv, csr>>
    BY <2>5, RetireKeeps DEF IInv, TypeOK
  <2> QED BY <1>9, <2>3, <2>4, <2>5 DEF CsrInstruction, Refuse
<1> QED BY <1>1, <1>2, <1>3, <1>4, <1>5, <1>6, <1>7, <1>8, <1>9 DEF Instruction

\* The code of an interrupt has four bits.
LEMMA CodeBits == \A b : Code(b) \in SUBSET (0 .. 3)
BY DEF Code

\* Every step keeps the invariant.
LEMMA Step ==
    ASSUME IInv, [Next]_vars
    PROVE  IInv'
<1>1. CASE FetchThrows
  BY <1>1 DEF FetchThrows, Throws, IInv, TypeOK, CsrsLegal
<1>2. CASE Misaligned
  BY <1>2, Facts, ExceptionKeeps DEF Misaligned
<1>3. CASE Interrupt
  BY <1>3, CodeBits, InterruptKeeps DEF Interrupt
<1>4. CASE Execute
  BY <1>4, InstructionKeeps DEF Execute
<1>5. CASE ResetSim
  BY <1>5, ResetKeeps
<1>6. CASE LoadFile
  BY <1>6, LoadKeeps
<1>7. CASE UNCHANGED vars
  BY <1>7 DEF vars, IInv, TypeOK, CsrsLegal
<1> QED BY <1>1, <1>2, <1>3, <1>4, <1>5, <1>6, <1>7 DEF Next

\* The inductive invariant holds: the program counter is even, and neither
\* traps nor mret nor the undo of a refused write bring into a CSR what
\* SetCSRValue keeps out of it.
THEOREM Invariance == Spec => []IInv
BY Start, Step, PTL DEF Spec

\* Type correctness, the even program counter with it.
THEOREM TypeCorrect == Spec => []TypeOK
<1>1. IInv => TypeOK BY DEF IInv
<1> QED BY <1>1, Invariance, PTL

\* What the CSRs hold could have been written into them.
THEOREM CsrsStayLegal == Spec => []CsrsLegal
<1>1. IInv => CsrsLegal BY DEF IInv
<1> QED BY <1>1, Invariance, PTL

-----------------------------------------------------------------------------
(* What a trap leaves *)

\* The trap's own four CSRs, and no other.
LEMMA TrapWrites ==
    ASSUME TypeOK, NEW regs, LegalRegs(regs), NEW i, NEW code, NEW value,
           csr' = TrapCSRs(i, code, value, regs)
    PROVE  /\ csr'["mcause"] = Legal("mcause", {}, CauseWord(i, code))
           /\ csr'["mepc"] = pc \ {0, 1}
           /\ csr'["mstatus"] = Status(prv, 3 \in regs["mstatus"], FALSE)
           /\ \A n \in CSR \ {"mcause", "mepc", "mtval", "mstatus"} : csr'[n] = regs[n]
<1>1. pc \ {0, 1} = Legal("mepc", {}, pc)
  BY DEF Legal
<1> QED BY <1>1 DEF TrapCSRs, LegalRegs, CSR

\* The fields of mstatus after a trap: the stack that mret pops.
LEMMA TrapPushes ==
    ASSUME TypeOK, NEW mie \in BOOLEAN, csr'["mstatus"] = Status(prv, mie, FALSE)
    PROVE  MPP' = prv /\ (MPIE' <=> mie) /\ ~MIE'
<1>1. prv \in {0, 1, 2, 3} BY DEF TypeOK
<1>2. ~MIE' /\ (MPIE' <=> mie) BY DEF MIE, MPIE, Status
<1>3. (11 \in csr'["mstatus"] <=> prv % 2 = 1) /\ (12 \in csr'["mstatus"] <=> prv >= 2)
  BY DEF Status
<1>4. MPP' = prv
  <2>1. CASE prv = 0 BY <1>3, <2>1 DEF MPP
  <2>2. CASE prv = 1 BY <1>3, <2>2 DEF MPP
  <2>3. CASE prv = 2 BY <1>3, <2>3 DEF MPP
  <2>4. CASE prv = 3 BY <1>3, <2>4 DEF MPP
  <2> QED BY <1>1, <2>1, <2>2, <2>3, <2>4
<1> QED BY <1>2, <1>4

\* The three things that an instruction does in user mode: a trap from the
\* CSRs as they are, nothing to the CSRs and the level, or a throw.
LEMMA UserInstruction ==
    ASSUME IInv, prv = USER, Instruction
    PROVE  \/ \E code \in SUBSET (0 .. 3), value \in Word : Exception(code, value, csr)
           \/ UNCHANGED <<prv, csr>>
<1> USE Facts
<1>1. CASE IllegalInstruction BY <1>1 DEF IllegalInstruction
<1>2. CASE Compute BY <1>2 DEF Compute
<1>3. CASE Jump BY <1>3 DEF Jump
<1>4. CASE Branch BY <1>4 DEF Branch
<1>5. ASSUME NEW a \in DataAddr, NEW size \in {1, 2, 4}, Load(a, size) \/ Store(a, size)
      PROVE  \/ \E code \in SUBSET (0 .. 3), value \in Word : Exception(code, value, csr)
             \/ UNCHANGED <<prv, csr>>
  <2>1. a \in Word BY ProcessorAssumption
  <2>2. CASE Exception({2}, a, csr) BY <2>1, <2>2
  <2>3. CASE Exception({1, 2}, a, csr) BY <2>1, <2>3
  <2>4. CASE UNCHANGED <<prv, csr>> BY <2>4
  <2> QED BY <1>5, <2>2, <2>3, <2>4 DEF Load, Store, LoadMisaligned, StoreMisaligned, Throws
<1>6. CASE Ebreak BY <1>6 DEF Ebreak
<1>7. CASE Ecall
  <2>1. Exception({3}, {}, csr) BY <1>7 DEF Ecall, USER, MACHINE
  <2> QED BY <2>1
<1>8. CASE Mret
  <2>1. Exception({1}, Instr, csr) BY <1>8 DEF Mret
  <2> QED BY <2>1
<1>9. ASSUME NEW op \in {"csrrw", "csrrs", "csrrc"}, NEW n \in Writable, NEW w \in Operand,
             NEW x0 \in BOOLEAN, CsrInstruction(op, n, w, x0)
      PROVE  \/ \E code \in SUBSET (0 .. 3), value \in Word : Exception(code, value, csr)
             \/ UNCHANGED <<prv, csr>>
  <2> DEFINE new == Written(op, csr[n], w)
  <2>1. n \in CSR /\ w \in Word BY ProcessorAssumption
  <2>2. new \in Word BY <2>1 DEF Written, Word, LegalRegs
  <2>3. CASE Exception({1}, Instr, Undone(n, new))
    <3>1. Undone(n, new) = csr BY <2>1, <2>2, UndoneLegal DEF Refused
    <3> QED BY <2>3, <3>1
  <2>4. CASE UNCHANGED <<prv, csr>> BY <2>4
  <2>5. Refused(n) BY DEF Refused
  <2> QED BY <1>9, <2>3, <2>4, <2>5 DEF CsrInstruction, Refuse
<1> QED BY <1>1, <1>2, <1>3, <1>4, <1>5, <1>6, <1>7, <1>8, <1>9 DEF Instruction

\* Every step from user mode but ResetSim.
LEMMA UserStep ==
    ASSUME IInv, prv = USER, [Next]_vars, ~ResetSim
    PROVE  \/ \E code \in SUBSET (0 .. 3), value \in Word : Exception(code, value, csr)
           \/ \E code \in SUBSET (0 .. 3) : TakeInterrupt(code)
           \/ UNCHANGED <<prv, csr>>
<1> USE Facts
<1>1. CASE FetchThrows BY <1>1 DEF FetchThrows, Throws
<1>2. CASE Misaligned BY <1>2 DEF Misaligned
<1>3. CASE Interrupt BY <1>3, CodeBits DEF Interrupt
<1>4. CASE Execute BY <1>4, UserInstruction DEF Execute
<1>5. CASE LoadFile BY <1>5 DEF LoadFile
<1>6. CASE UNCHANGED vars BY <1>6 DEF vars
<1> QED BY <1>1, <1>2, <1>3, <1>4, <1>5, <1>6 DEF Next

-----------------------------------------------------------------------------
(* The properties of steps *)

\* In user mode no program changes a CSR but through a trap: what the CSR
\* instructions write before they look at the level is undone to the bit.
THEOREM UsersCannotWrite == Spec => UserCannotWrite
<1> DEFINE A == (prv = USER /\ ~ResetSim) =>
                   \A n \in CSR :
                      \/ csr'[n] = csr[n]
                      \/ n \in {"mstatus", "mepc", "mcause", "mtval"} /\ prv' = MACHINE
<1>1. IInv /\ [Next]_vars => [A]_vars
  <2> SUFFICES ASSUME IInv, [Next]_vars, prv = USER, ~ResetSim, NEW n \in CSR
               PROVE  \/ csr'[n] = csr[n]
                      \/ n \in {"mstatus", "mepc", "mcause", "mtval"} /\ prv' = MACHINE
    OBVIOUS
  <2>1. TypeOK BY DEF IInv
  <2>2. ASSUME NEW i, NEW code, NEW value, csr' = TrapCSRs(i, code, value, csr)
        PROVE  n \in {"mstatus", "mepc", "mcause", "mtval"} \/ csr'[n] = csr[n]
    BY <2>1, <2>2, Facts, TrapWrites
  <2> QED BY <2>2, UserStep DEF Exception, TakeInterrupt
<1> QED BY <1>1, Invariance, PTL DEF Spec, UserCannotWrite

\* User mode ends in a trap only: with the interrupts of machine mode off and
\* user mode pushed, at the base of mtvec or one word behind a vector.
THEOREM UsersLeaveByTrap == Spec => UserLeavesByTrap
<1> DEFINE A == (prv = USER /\ prv' # USER /\ ~ResetSim) =>
                   /\ prv' = MACHINE
                   /\ EntersHandler
                   /\ MPP' = USER /\ ~MIE'
<1>1. IInv /\ [Next]_vars => [A]_vars
  <2> SUFFICES ASSUME IInv, [Next]_vars, prv = USER, prv' # USER, ~ResetSim
               PROVE  /\ prv' = MACHINE
                      /\ EntersHandler
                      /\ MPP' = USER /\ ~MIE'
    OBVIOUS
  <2>1. TypeOK BY DEF IInv
  <2>2. ASSUME NEW i, NEW code, NEW value, csr' = TrapCSRs(i, code, value, csr)
        PROVE  MPP' = USER /\ ~MIE'
    <3>1. LegalRegs(csr) BY Facts
    <3>2. csr'["mstatus"] = Status(prv, 3 \in csr["mstatus"], FALSE)
      BY <2>1, <2>2, <3>1, TrapWrites
    <3>3. (3 \in csr["mstatus"]) \in BOOLEAN OBVIOUS
    <3> QED BY <2>1, <3>2, <3>3, TrapPushes, Zenon
  <2>3. ASSUME NEW code \in SUBSET (0 .. 3), NEW value \in Word, Exception(code, value, csr)
        PROVE  prv' = MACHINE /\ EntersHandler /\ MPP' = USER /\ ~MIE'
    <3>1. pc' = csr["mtvec"] \ {0, 1}
      BY <2>3, Facts, VectorEven DEF Exception
    <3> QED BY <2>2, <2>3, <3>1 DEF Exception, EntersHandler
  <2>4. ASSUME NEW code \in SUBSET (0 .. 3), TakeInterrupt(code)
        PROVE  prv' = MACHINE /\ EntersHandler /\ MPP' = USER /\ ~MIE'
    <3>1. EntersHandler
      BY <2>4, Facts, VectorEven DEF TakeInterrupt, EntersHandler
    <3> QED BY <2>2, <2>4, <3>1 DEF TakeInterrupt
  <2> QED BY <2>3, <2>4, UserStep
<1> QED BY <1>1, Invariance, PTL DEF Spec, UserLeavesByTrap

\* Every trap, of whichever instruction, saves what mret restores: address,
\* level and interrupt enable, and a refused CSR instruction, which writes
\* before it traps, those of before the write.
THEOREM TrapsReturn == Spec => TrapReturns
<1> DEFINE A == Trap => ReturnPoint' = <<pc \ {1}, prv, MIE>>
<1>1. IInv /\ [Next]_vars => [A]_vars
  <2> SUFFICES ASSUME IInv, Trap PROVE ReturnPoint' = <<pc \ {1}, prv, MIE>>
    OBVIOUS
  <2>1. TypeOK /\ LegalRegs(csr) BY Facts DEF IInv
  <2>2. pc \ {1} = pc \ {0, 1}
    BY <2>1 DEF TypeOK
  <2>3. \E i, code, value : csr' = TrapCSRs(i, code, value, csr)
    <3>1. CASE Misaligned BY <3>1 DEF Misaligned, Exception
    <3>2. CASE Interrupt BY <3>2 DEF Interrupt, TakeInterrupt
    <3>3. CASE IllegalInstruction \/ Ebreak
      BY <3>3 DEF IllegalInstruction, Ebreak, Exception
    <3>4. CASE TrappingAccess
      BY <3>4 DEF TrappingAccess, LoadMisaligned, StoreMisaligned, Exception
    <3>5. CASE RefusedCsr
      <4>1. PICK n \in Writable, op \in {"csrrw", "csrrs", "csrrc"}, w \in Operand :
               Refuse(n, Written(op, csr[n], w))
        BY <3>5 DEF RefusedCsr
      <4> DEFINE new == Written(op, csr[n], w)
      <4>2. n \in CSR /\ w \in Word BY ProcessorAssumption
      <4>3. new \in Word BY <2>1, <4>2 DEF Written, Word, LegalRegs
      <4>4. Undone(n, new) = csr BY <2>1, <4>1, <4>2, <4>3, UndoneLegal DEF Refuse
      <4>5. Exception({1}, Instr, Undone(n, new)) BY <4>1 DEF Refuse
      <4> QED BY <4>4, <4>5 DEF Exception
    <3>6. CASE (Ecall /\ prv \in {USER, MACHINE}) \/ (Mret /\ prv = USER)
      BY <3>6 DEF Ecall, Mret, Exception, USER, MACHINE
    <3> QED BY <3>1, <3>2, <3>3, <3>4, <3>5, <3>6 DEF Trap
  <2>4. csr'["mepc"] = pc \ {1} /\ csr'["mstatus"] = Status(prv, MIE, FALSE)
    BY <2>1, <2>2, <2>3, TrapWrites DEF MIE
  <2>5. MPP' = prv /\ (MPIE' <=> MIE)
    <3>1. MIE \in BOOLEAN BY DEF MIE
    <3> QED BY <2>1, <2>4, <3>1, TrapPushes, Zenon
  <2>6. MPIE' = MIE
    BY <2>5 DEF MPIE, MIE
  <2> QED BY <2>4, <2>5, <2>6, Zenon DEF ReturnPoint
<1> QED BY <1>1, Invariance, PTL DEF Spec, TrapReturns

\* User mode cannot hold off an interrupt that is pending and enabled.
THEOREM InterruptsAreFirst == Spec => InterruptsComeFirst
<1> DEFINE A == (/\ prv = USER /\ Aligned /\ csr["mip"] \cap csr["mie"] # {}
                 /\ ~thrown' /\ ~ResetSim /\ ~LoadFile)
                   => prv' = MACHINE /\ Sign \in csr'["mcause"]
<1>1. IInv /\ [Next]_vars => [A]_vars
  <2> SUFFICES ASSUME IInv, Next, prv = USER, Aligned, csr["mip"] \cap csr["mie"] # {},
                      ~thrown', ~ResetSim, ~LoadFile
               PROVE  prv' = MACHINE /\ Sign \in csr'["mcause"]
    BY DEF vars
  <2>1. TypeOK /\ LegalRegs(csr) BY Facts DEF IInv
  <2>2. \E b \in {11, 3, 7, 8, 0, 4} : Enabled(b)
    BY <2>1 DEF LegalRegs, Enabled
  <2>3. Interrupt
    BY <2>2 DEF Next, FetchThrows, Throws, Misaligned, Execute, Executes
  <2>4. PICK code : TakeInterrupt(code)
    BY <2>3 DEF Interrupt
  <2>5. csr'["mcause"] = Legal("mcause", {}, code \cup {Sign})
    BY <2>1, <2>4 DEF TakeInterrupt, TrapCSRs, CauseWord, LegalRegs, CSR
  <2> QED BY <2>4, <2>5 DEF TakeInterrupt, Legal
<1> QED BY <1>1, Invariance, PTL DEF Spec, InterruptsComeFirst
=============================================================================
