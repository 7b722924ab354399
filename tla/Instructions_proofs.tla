------------------------ MODULE Instructions_proofs ------------------------
(***************************************************************************)
(* The tables, the decoders and the executors for every instruction word,  *)
(* every width of registers and every program.                             *)
(***************************************************************************)
EXTENDS InstructionSet, Words_proofs

-----------------------------------------------------------------------------
(* The tables *)

\* In each table a key belongs to one instruction.
LEMMA OneRowR ==
    ASSUME NEW p \in R, NEW q \in R, p[2] = q[2], p[3] = q[3], p[4] = q[4]
    PROVE  p[1] = q[1]
BY DEF R

\* In the second table opcode and funct3 decide, up to srai, which no key finds.
LEMMA OneRowISB ==
    ASSUME NEW p \in ISB, NEW q \in ISB, p[2] = q[2], p[3] = q[3], p[4] = 0, q[4] = 0
    PROVE  p[1] = q[1]
BY SMTT(60) DEF ISB

\* In the third the opcode decides.
LEMMA OneRowUJ ==
    ASSUME NEW p \in UJ, NEW q \in UJ, p[2] = q[2]
    PROVE  p[1] = q[1]
BY DEF UJ

\* In the fourth the opcode and the twelve bits above.
LEMMA OneRowSys ==
    ASSUME NEW p \in Sys, NEW q \in Sys, p[2] = q[2], p[4] = q[4]
    PROVE  p[1] = q[1]
BY DEF Sys

\* The tables share the opcode SYSTEM only, and there funct3 parts them.
LEMMA TablesApart ==
    /\ \A q \in R : q[2] = 51
    /\ \A q \in ISB : q[2] \in {103, 99, 3, 35, 19} \/ (q[2] = 115 /\ q[3] # 0)
    /\ \A q \in UJ : q[2] \in {55, 23, 111}
    /\ \A q \in Sys : q[2] \in {15, 115} /\ q[3] = 0
<1>1. \A q \in R : q[2] = 51
  BY DEF R
<1>2. \A q \in ISB : q[2] \in {103, 99, 3, 35, 19} \/ (q[2] = 115 /\ q[3] # 0)
  BY SMTT(60) DEF ISB
<1>3. \A q \in UJ : q[2] \in {55, 23, 111}
  BY DEF UJ
<1>4. \A q \in Sys : q[2] \in {15, 115} /\ q[3] = 0
  BY DEF Sys
<1> QED BY <1>1, <1>2, <1>3, <1>4

\* The row behind an instruction that has been found.
LEMMA FoundRow ==
    ASSUME NEW table, NEW x, NEW y, NEW z, NEW n \in Found(table, <<x, y, z>>)
    PROVE  \E q \in table : q[1] = n /\ q[2] = x /\ q[3] = y /\ q[4] = z
BY DEF Found

\* No instruction word is found twice.
LEMMA OneMatch ==
    ASSUME NEW c, NEW m \in Matches(c), NEW n \in Matches(c)
    PROVE  m = n
<1> DEFINE o == Opcode(c)
           f == Funct3(c)
           Row(table, x, y, z, name) ==
               \E q \in table : q[1] = name /\ q[2] = x /\ q[3] = y /\ q[4] = z
           Four(name) == \/ Row(R, o, f, Funct7(c), name)
                         \/ Row(ISB, o, f, 0, name)
                         \/ Row(UJ, o, 0, 0, name)
                         \/ Row(Sys, o, f, High12(c), name)
<1>1. ASSUME NEW name \in Matches(c) PROVE Four(name)
  <2>1. CASE name \in Found(R, KeyR(c)) BY <2>1, FoundRow DEF KeyR
  <2>2. CASE name \in Found(ISB, KeyISB(c)) BY <2>2, FoundRow DEF KeyISB
  <2>3. CASE name \in Found(UJ, KeyUJ(c)) BY <2>3, FoundRow DEF KeyUJ
  <2>4. CASE name \in Found(Sys, KeySys(c)) BY <2>4, FoundRow DEF KeySys
  <2> QED BY <2>1, <2>2, <2>3, <2>4 DEF Matches
<1>2. Four(m) /\ Four(n)
  BY <1>1
<1>3. CASE Row(R, o, f, Funct7(c), m) /\ Row(R, o, f, Funct7(c), n)
  BY <1>3, OneRowR
<1>4. CASE Row(ISB, o, f, 0, m) /\ Row(ISB, o, f, 0, n)
  BY <1>4, OneRowISB
<1>5. CASE Row(UJ, o, 0, 0, m) /\ Row(UJ, o, 0, 0, n)
  BY <1>5, OneRowUJ
<1>6. CASE Row(Sys, o, f, High12(c), m) /\ Row(Sys, o, f, High12(c), n)
  BY <1>6, OneRowSys
<1> QED BY <1>2, <1>3, <1>4, <1>5, <1>6, TablesApart

\* Every instruction word has at most one meaning, whatever is in its fields:
\* the order of the four look-ups in ExecuteCmd decides nothing.
THEOREM WordsHaveOneMeaning == Spec => []OneMeaning
<1>1. OneMeaning
  BY OneMatch DEF OneMeaning
<1> QED BY <1>1, PTL

-----------------------------------------------------------------------------
(* The decoders *)

\* Five bits are the number of a register.
LEMMA FieldBound == \A c, b : Field(c, b, 5) \in RegNum
BY DEF Field, RegNum

\* The immediates are words, and those of branches and jal are even.
LEMMA ImmediateWords ==
    ASSUME NEW c
    PROVE  /\ ImmI(c) \in Word /\ ImmS(c) \in Word /\ ImmU(c) \in Word
           /\ ImmB(c) \in Even /\ ImmJ(c) \in Even
<1>1. XLen \in Nat /\ XLen > 24 BY InstructionsAssumption
<1>2. \A b \in Nat : SignFrom(c, b) \subseteq {i \in Bit : i >= b}
  BY DEF SignFrom
<1>3. ImmI(c) \in Word BY <1>1, <1>2 DEF ImmI, Word, Bit
<1>4. ImmS(c) \in Word BY <1>1, <1>2 DEF ImmS, Word, Bit
<1>5. ImmU(c) \in Word BY DEF ImmU, Word
<1>6. ImmB(c) \in Even BY <1>1, <1>2 DEF ImmB, Even, Word, Bit
<1>7. ImmJ(c) \in Even BY <1>1, <1>2 DEF ImmJ, Even, Word, Bit
<1> QED BY <1>3, <1>4, <1>5, <1>6, <1>7

\* Every decoder leaves temporaries that the executors can use.
LEMMA DecodedType ==
    ASSUME dec \in Temporaries, NEW n, NEW c
    PROVE  Decoded(n, c) \in Temporaries
<1>1. /\ Rd(c) \in RegNum /\ Rs1(c) \in RegNum /\ Rs2(c) \in RegNum
      /\ ImmI(c) \in Word /\ ImmS(c) \in Word /\ ImmU(c) \in Word
      /\ ImmB(c) \in Word /\ ImmJ(c) \in Word
  BY FieldBound, ImmediateWords DEF Rd, Rs1, Rs2, Even
<1>2. /\ decode_R(c) \in Temporaries /\ decode_I(c) \in Temporaries
      /\ decode_S(c) \in Temporaries /\ decode_B(c) \in Temporaries
      /\ decode_U(c) \in Temporaries /\ decode_J(c) \in Temporaries
  BY <1>1 DEF Temporaries, decode_R, decode_I, decode_S, decode_B, decode_U, decode_J
<1> QED BY <1>2 DEF Decoded

\* What the decoders of jal and the branches leave is even.
LEMMA DecodedEven ==
    ASSUME dec \in Temporaries, NEW n \in Branches \cup {"jal"}, NEW c
    PROVE  Decoded(n, c).imm \in Even
<1>1. n \notin Names(R) /\ n \notin Stores /\ n \notin Names(Sys) /\ n \notin {"lui", "auipc"}
  BY DEF Names, R, Sys, Branches, Stores
<1>2. CASE n \in Branches
  <2>1. n # "jal" BY <1>2 DEF Branches
  <2>2. Decoded(n, c) = decode_B(c) BY <1>1, <1>2, <2>1 DEF Decoded
  <2> QED BY <2>2, ImmediateWords DEF decode_B, Temporaries
<1>3. CASE n = "jal"
  <2>1. n \notin Branches BY <1>3 DEF Branches
  <2>2. Decoded(n, c) = decode_J(c) BY <1>1, <1>3, <2>1 DEF Decoded
  <2> QED BY <2>2, ImmediateWords DEF decode_J, Temporaries
<1> QED BY <1>2, <1>3

-----------------------------------------------------------------------------
(* The executors *)

\* The shift with ones in from the bit below the last one shifted is the
\* arithmetic shift: that bit is the sign already.
THEOREM SraFillsTheSign ==
    ASSUME NEW w \in Word, NEW n \in 0 .. 31
    PROVE  Sra(w, n) = {i \in Bit : i + n \in w \/ (i + n >= XLen /\ Sign \in w)}
BY XLenAssumption DEF Sra, ShiftRight, Bit, Sign, Word

\* The special case of sltu and sltiu is none.
THEOREM BelowIsLess ==
    ASSUME NEW a \in Word, NEW b \in Word
    PROVE  Below(a, b) <=> Less(a, b)
BY DEF Below, Less, Word, Bit

\* Every operation gives a word.
LEMMA OperationWord ==
    ASSUME NEW n \in Names(R) \cup Immediates, NEW a \in Word, NEW b \in Word
    PROVE  Operation(n, a, b) \in Word
<1>1. \A c : Flag(c) \in Word
  BY SmallBits DEF Flag, Word
<1>2. Sra(a, Shamt(b)) \in Word
  BY DEF Sra, ShiftRight, Word
<1>3. a \cup b \in Word /\ a \cap b \in Word
  BY DEF Word
<1>4. n \in {"add", "sub", "sll", "slt", "sltu", "xor", "srl", "sra", "or", "and",
             "addi", "slti", "sltiu", "xori", "ori", "andi", "slli", "srli", "srai"}
  BY DEF Names, R, Immediates
<1> QED BY <1>1, <1>2, <1>3, <1>4, WordOperations DEF Operation

-----------------------------------------------------------------------------
\* The inductive invariant.
IInv == TypeOK /\ X0AndPc

\* The initial states.
LEMMA Start == Init => IInv
BY InstructionsAssumption
   DEF Init, IInv, TypeOK, X0AndPc, Registers, Even, CommandBit

\* SetReg keeps the registers' type and x0.
LEMMA SetRegKeeps ==
    ASSUME IInv, NEW n \in RegNum, NEW w \in Word, SetReg(n, w)
    PROVE  reg' \in [RegNum -> Word] /\ reg'[0] = {}
BY DEF SetReg, IInv, TypeOK, X0AndPc, RegNum

\* The parts of the invariant that the executors move.
Moved == /\ pc' \in Even
         /\ reg' \in [RegNum -> Word] /\ reg'[0] = {}
         /\ mem' \in [MemAddr -> Byte]

\* A trap goes to an even address and moves nothing else.
LEMMA RaisesKeeps ==
    ASSUME IInv, NEW e, Raises(e)
    PROVE  Moved
BY InstructionsAssumption DEF Raises, IInv, TypeOK, X0AndPc, Moved

\* The operands, and the address of the next instruction.
LEMMA Operands ==
    ASSUME IInv, dec' \in Temporaries
    PROVE  /\ A \in Word /\ B \in Word /\ Imm \in Word
           /\ dec'.rd \in RegNum
           /\ NextPc \in Even
           /\ pc \in Even
<1>1. {2} \in Word /\ 0 \notin {2}
  BY SmallBits DEF Word
<1>2. NextPc \in Even /\ pc \in Even
  BY <1>1, PlusEven DEF NextPc, IInv, TypeOK, X0AndPc, Even
<1> QED BY <1>2 DEF A, B, Imm, Temporaries, IInv, TypeOK

\* Computing instructions.
LEMMA ComputeKeeps ==
    ASSUME IInv, dec' \in Temporaries, NEW n, Compute(n)
    PROVE  Moved
<1> USE Operands
<1>1. PICK w \in Word : SetReg(dec'.rd, w)
  <2>1. CASE n \in Names(R) /\ SetReg(dec'.rd, Operation(n, A, B)) BY <2>1, OperationWord
  <2>2. CASE n \in Immediates /\ SetReg(dec'.rd, Operation(n, A, Imm)) BY <2>2, OperationWord
  <2>3. CASE n = "lui" /\ SetReg(dec'.rd, Imm) BY <2>3
  <2>4. CASE n = "auipc" /\ SetReg(dec'.rd, Plus(Imm, pc))
    BY <2>4, WordOperations DEF Even
  <2> QED BY <2>1, <2>2, <2>3, <2>4 DEF Compute
<1> QED BY <1>1, SetRegKeeps DEF Compute, Goes, Moved, IInv, TypeOK

\* Jumps: jal's immediate is even, and jalr clears bit 0.
LEMMA JumpKeeps ==
    ASSUME IInv, dec' \in Temporaries, NEW n, Jump(n), n = "jal" => Imm \in Even
    PROVE  Moved
<1> USE Operands
<1>1. pc' \in Even
  <2>1. CASE n = "jal" /\ Goes(Plus(pc, Imm)) BY <2>1, PlusEven DEF Goes, Even
  <2>2. CASE n = "jalr" /\ Goes(Plus(A, Imm) \ {0})
    <3>1. Plus(A, Imm) \in Word BY WordOperations
    <3> QED BY <2>2, <3>1 DEF Goes, Even, Word
  <2> QED BY <2>1, <2>2 DEF Jump
<1> QED BY <1>1, SetRegKeeps DEF Jump, Moved, Even, IInv, TypeOK

\* Branches.
LEMMA BranchKeeps ==
    ASSUME IInv, dec' \in Temporaries, NEW n, Branch(n), Imm \in Even
    PROVE  Moved
BY Operands, PlusEven DEF Branch, Goes, Moved, Even, IInv, TypeOK, X0AndPc

\* Loads.
LEMMA LoadKeeps ==
    ASSUME IInv, dec' \in Temporaries, NEW n, Load(n)
    PROVE  Moved
<1> DEFINE data == {i \in Bit : i < 8 * Size(n) /\ i % 8 \in mem[Lane(i \div 8)]}
<1>1. CASE Raises("load_misaligned") BY <1>1, RaisesKeeps
<1>2. CASE /\ SetReg(dec'.rd, IF n \in {"lb", "lh"} THEN Extended(data, 8 * Size(n)) ELSE data)
           /\ Goes(NextPc) /\ UNCHANGED mem
  <2>1. data \in Word /\ Extended(data, 8 * Size(n)) \in Word
    BY DEF Extended, Word
  <2> HIDE DEF data
  <2>2. reg' \in [RegNum -> Word] /\ reg'[0] = {}
    BY <1>2, <2>1, Operands, SetRegKeeps
  <2> QED BY <1>2, <2>2, Operands DEF Goes, Moved, IInv, TypeOK
<1> QED BY <1>1, <1>2 DEF Load

\* Stores: what they write are bytes.
LEMMA StoreKeeps ==
    ASSUME IInv, dec' \in Temporaries, NEW n, Store(n)
    PROVE  Moved
<1>1. CASE Raises("store_misaligned") BY <1>1, RaisesKeeps
<1>2. CASE ~Raises("store_misaligned")
  <2>1. mem' \in [MemAddr -> Byte]
    BY <1>2 DEF Store, Byte, IInv, TypeOK
  <2> QED BY <1>2, <2>1, Operands DEF Store, Goes, Moved, IInv, TypeOK, X0AndPc
<1> QED BY <1>1, <1>2

\* fence, and the instructions of Processor.
LEMMA OthersKeep ==
    ASSUME IInv, dec' \in Temporaries, NEW n, Fence(n) \/ Privileged(n)
    PROVE  Moved
<1> USE Operands
<1>1. CASE Fence(n) BY <1>1 DEF Fence, Goes, Moved, IInv, TypeOK, X0AndPc
<1>2. CASE Raises(n) \/ Raises("illegal") BY <1>2, RaisesKeeps
<1>4. CASE Goes(NextPc) /\ UNCHANGED <<reg, mem>>
  BY <1>4 DEF Goes, Moved, IInv, TypeOK, X0AndPc
<1>3. CASE /\ \E w \in CsrValue : SetReg(dec'.rd, w)
           /\ Goes(NextPc) /\ UNCHANGED mem
  BY <1>3, SetRegKeeps, InstructionsAssumption DEF Goes, Moved, IInv, TypeOK
<1> QED BY <1>1, <1>2, <1>3, <1>4 DEF Privileged

\* Every step keeps the invariant.
LEMMA StepKeeps ==
    ASSUME IInv, [Next]_vars
    PROVE  IInv'
<1>1. CASE UNCHANGED vars
  BY <1>1 DEF vars, IInv, TypeOK, X0AndPc
<1>2. ASSUME NEW c \in Command, Misaligned(c) \/ Illegal(c) \/ Execute(c)
      PROVE  IInv'
  <2>1. cmd' \in SUBSET CommandBit /\ steps' \in 0 .. MaxSteps
    BY <1>2, InstructionsAssumption DEF Misaligned, Illegal, Execute, Fetches, IInv, TypeOK
  <2>2. CASE Misaligned(c) \/ Illegal(c)
    <3>1. Moved BY <2>2, RaisesKeeps DEF Misaligned, Illegal
    <3> QED BY <2>1, <2>2, <3>1
            DEF Misaligned, Illegal, Moved, Even, IInv, TypeOK, X0AndPc
  <2>3. CASE Execute(c)
    <3>1. PICK n : /\ dec' = Decoded(n, c)
                   /\ \/ Compute(n) \/ Jump(n) \/ Branch(n) \/ Load(n) \/ Store(n)
                      \/ Fence(n) \/ Privileged(n)
      BY <2>3 DEF Execute
    <3>2. dec' \in Temporaries
      BY <3>1, DecodedType DEF IInv, TypeOK
    <3>3. n \in Branches \cup {"jal"} => Imm \in Even
      BY <3>1, DecodedEven DEF Imm, IInv, TypeOK
    <3>4. Moved
      <4>1. CASE Compute(n) BY <3>2, <4>1, ComputeKeeps
      <4>2. CASE Jump(n) BY <3>2, <3>3, <4>2, JumpKeeps
      <4>3. CASE Branch(n) BY <3>2, <3>3, <4>3, BranchKeeps DEF Branch
      <4>4. CASE Load(n) BY <3>2, <4>4, LoadKeeps
      <4>5. CASE Store(n) BY <3>2, <4>5, StoreKeeps
      <4>6. CASE Fence(n) \/ Privileged(n) BY <3>2, <4>6, OthersKeep
      <4> QED BY <3>1, <4>1, <4>2, <4>3, <4>4, <4>5, <4>6
    <3> QED BY <2>1, <3>2, <3>4 DEF Moved, Even, IInv, TypeOK, X0AndPc
  <2> QED BY <1>2, <2>2, <2>3
<1> QED BY <1>1, <1>2 DEF Next

\* The inductive invariant holds of every program.
THEOREM Invariance == Spec => []IInv
BY Start, StepKeeps, PTL DEF Spec

\* Type correctness of registers, memory and temporaries.
THEOREM TypeCorrect == Spec => []TypeOK
<1>1. IInv => TypeOK BY DEF IInv
<1> QED BY <1>1, Invariance, PTL

\* x0 stays zero, and the program counter even: Processor assumes this of the
\* targets of jumps and branches.
THEOREM X0IsZeroAndPcEven == Spec => []X0AndPc
<1>1. IInv => X0AndPc BY DEF IInv
<1> QED BY <1>1, Invariance, PTL

-----------------------------------------------------------------------------
(* The operations, on the manual's numbers *)

\* What the manual's operators are on words.
LEMMA ManualNumbers ==
    /\ \A b, n : Manual!Power(b, n) = Power(b, n)
    /\ \A d, b, n : Manual!FromDigits(d, b, n) = FromDigits(d, b, n)
    /\ \A x : Manual!Wrap(x) = x % Power(2, XLen)
    /\ \A w \in Word : /\ Manual!Signed(Num(w)) = SignedNum(w)
                       /\ Manual!Ones(Num(w)) = w
                       /\ Manual!Number(w) = Num(w)
<1>1. \A b, n : Manual!Power(b, n) = Power(b, n)
  BY DEF Manual!Power, Power
<1>2. \A d, b, n : Manual!FromDigits(d, b, n) = FromDigits(d, b, n)
  BY DEF Manual!FromDigits, FromDigits
<1>3. \A x : Manual!Wrap(x) = x % Power(2, XLen)
  BY <1>1 DEF Manual!Wrap
<1>4. ASSUME NEW w \in Word
      PROVE  /\ Manual!Signed(Num(w)) = SignedNum(w)
             /\ Manual!Ones(Num(w)) = w
             /\ Manual!Number(w) = Num(w)
  <2>1. Manual!Signed(Num(w)) = SignedNum(w)
    <3>1. Sign \in w <=> Num(w) >= Power(2, XLen - 1) BY SignHalf
    <3> QED BY <1>1, <3>1 DEF Manual!Signed, SignedNum
  <2>2. Manual!Ones(Num(w)) = w
    <3>1. Manual!Ones(Num(w)) = WordOf(Num(w))
      BY <1>1 DEF Manual!Ones, WordOf, Bit, BitOf
    <3> QED BY <3>1, WordOfNum
  <2>3. Manual!Number(w) = Num(w)
    BY <1>2, NumBound DEF Manual!Number, Low, Digits, Bit
  <2> QED BY <2>1, <2>2, <2>3
<1> QED BY <1>1, <1>2, <1>3, <1>4

\* The last five bits of the second operand.
LEMMA ShamtIs ==
    ASSUME NEW w \in Word
    PROVE  Shamt(w) = Num(w) % 32 /\ Shamt(w) \in 0 .. 31
<1> DEFINE o(k) == One(k \in w)
<1>1. Num(w) % 32 = o(0) + 2 * o(1) + 4 * o(2) + 8 * o(3) + 16 * o(4)
  BY LowBits
<1>2. /\ o(0) \in {0, 1} /\ o(1) \in {0, 1} /\ o(2) \in {0, 1}
      /\ o(3) \in {0, 1} /\ o(4) \in {0, 1}
  BY DEF One
<1>3. Shamt(w) = o(0) + 2 * o(1) + 4 * o(2) + 8 * o(3) + 16 * o(4)
  BY DEF Shamt, Field, One
<1> HIDE DEF o
<1> QED BY <1>1, <1>2, <1>3

\* Sums may take an operand as signed or not.
LEMMA SignedSum ==
    ASSUME NEW b \in Word, NEW x \in Int
    PROVE  (x + SignedNum(b)) % Power(2, XLen) = (x + Num(b)) % Power(2, XLen)
<1> DEFINE m == Power(2, XLen)
           s == SignedNum(b)
           y == Num(b)
<1>1. m \in Nat /\ m > 0 /\ y \in Int /\ s \in Int /\ s % m = y
  BY NumBound, SignedRange
<1> HIDE DEF m, s, y
<1>2. (x + (s % m)) % m = (x + s) % m
  BY <1>1, Modulo
<1> QED BY <1>1, <1>2 DEF m, s, y

\* A word is its number modulo 2 to the XLen.
LEMMA NumModulo ==
    ASSUME NEW w \in Word
    PROVE  Num(w) % Power(2, XLen) = Num(w)
<1> DEFINE m == Power(2, XLen)
           x == Num(w)
<1>1. m \in Nat /\ m > 0 /\ x \in Nat /\ x < m
  BY NumBound
<1> HIDE DEF m, x
<1>2. x % m = x
  BY <1>1, SmallRemainder
<1> QED BY <1>2 DEF m, x

\* The flags of slt, sltu, slti and sltiu.
LEMMA FlagIs ==
    ASSUME NEW P \in BOOLEAN
    PROVE  Num(Flag(P)) = Manual!Truth(P) % Power(2, XLen) /\ Flag(P) \in Word
<1>1. CASE P
  <2>1. Flag(P) = {0} /\ Manual!Truth(P) = 1 BY <1>1 DEF Flag, Manual!Truth
  <2> QED BY <2>1, SmallNumbers, NumModulo
<1>2. CASE ~P
  <2>1. Flag(P) = {} /\ Manual!Truth(P) = 0 BY <1>2 DEF Flag, Manual!Truth
  <2> QED BY <2>1, SmallNumbers, NumModulo
<1> QED BY <1>1, <1>2

\* Shifts by any number of bits, that of registers narrower than 32 as well.
LEMMA ShiftsAre ==
    ASSUME NEW a \in Word, NEW n \in 0 .. 31
    PROVE  LET x == Num(a)
               left == IF n < XLen THEN (x % Power(2, XLen - n)) * Power(2, n) ELSE 0
               right == IF n < XLen THEN x \div Power(2, n) ELSE 0
               signed == IF n < XLen THEN SignedNum(a) \div Power(2, n)
                         ELSE -Manual!Truth(SignedNum(a) < 0)
           IN  /\ Num(ShiftLeft(a, n)) = left % Power(2, XLen)
               /\ Num(ShiftRight(a, n)) = right % Power(2, XLen)
               /\ Num(Sra(a, n)) = signed % Power(2, XLen)
<1>1. n \in Nat /\ XLen \in Nat
  BY XLenAssumption
<1>2. Sra(a, n) \in Word /\ Sra(a, n) = {i \in Bit : i + n \in a \/ (i + n >= XLen /\ Sign \in a)}
  <2>1. Sra(a, n) \in Word BY DEF Sra, ShiftRight, Word
  <2> QED BY <2>1, SraFillsTheSign
<1>3. CASE n < XLen
  <2>1. n \in 0 .. XLen BY <1>1, <1>3
  <2>2. Num(ShiftLeft(a, n)) = ((Num(a) % Power(2, XLen - n)) * Power(2, n)) % Power(2, XLen)
    BY <2>1, ShiftLeftMultiplies
  <2>3. Num(ShiftRight(a, n)) = (Num(a) \div Power(2, n)) % Power(2, XLen)
    BY <1>1, ShiftRightDivides
  <2>4. Num(Sra(a, n)) = (SignedNum(a) \div Power(2, n)) % Power(2, XLen)
    <3> DEFINE s == Sra(a, n)
    <3>1. s \in Word /\ s = {i \in Bit : i + n \in a \/ (i + n >= XLen /\ Sign \in a)}
      BY <1>2
    <3> HIDE DEF s
    <3>2. Num(s) = (SignedNum(a) \div Power(2, n)) % Power(2, XLen)
      BY <1>1, <3>1, ShiftSignedDivides
    <3> QED BY <3>2 DEF s
  <2> QED BY <1>3, <2>2, <2>3, <2>4
<1>4. CASE ~(n < XLen)
  <2>1. ShiftLeft(a, n) = {} /\ ShiftRight(a, n) = {}
    BY <1>1, <1>4 DEF ShiftLeft, ShiftRight, Word, Bit
  <2>2. Num({}) = 0 % Power(2, XLen)
    BY SmallNumbers, NumModulo
  <2>3. Num(Sra(a, n)) = (-Manual!Truth(SignedNum(a) < 0)) % Power(2, XLen)
    <3>1. CASE Sign \in a
      <4>1. Sra(a, n) = Bit
        BY <1>1, <1>2, <1>4, <3>1 DEF Bit
      <4>2. Manual!Truth(SignedNum(a) < 0) = 1
        BY <3>1, SignedRange DEF Manual!Truth
      <4>3. \A k \in Bit : BitOf(-1, k) = 1
        <5>1. ASSUME NEW k \in Bit PROVE BitOf(-1, k) = 1
          <6>1. k \in Nat /\ k >= 0 /\ Power(2, 0) = 1 /\ 0 \in Nat BY SmallPowers DEF Bit
          <6> DEFINE x == -1
          <6>2. x \in Int /\ x = -1 OBVIOUS
          <6> HIDE DEF x
          <6>3. -Power(2, 0) <= x /\ x < Power(2, 0) BY <6>1, <6>2
          <6>4. BitOf(x, k) = IF x < 0 THEN 1 ELSE 0 BY <6>1, <6>2, <6>3, BitsAbove
          <6>5. BitOf(x, k) = 1 BY <6>2, <6>4
          <6> QED BY <6>5 DEF x
        <5> QED BY <5>1
      <4>4. Num(Bit) = (-1) % Power(2, XLen)
        <5>1. Bit \in Word /\ -1 \in Int BY DEF Word
        <5> QED BY <4>3, <5>1, NumIs
      <4> QED BY <4>1, <4>2, <4>4
    <3>2. CASE Sign \notin a
      <4>1. Sra(a, n) = {}
        BY <1>1, <1>2, <1>4, <3>2 DEF Bit, Word
      <4>2. Manual!Truth(SignedNum(a) < 0) = 0
        BY <3>2, SignedRange DEF Manual!Truth
      <4>3. \A z \in Int : z + z = z => -z = z OBVIOUS
      <4> QED BY <2>2, <4>1, <4>2, <4>3
    <3> QED BY <3>1, <3>2
  <2> QED BY <1>4, <2>1, <2>2, <2>3
<1> QED BY <1>3, <1>4

\* Each of the instructions that compute gives what the manual says, in all
\* the operands and widths: the carries, borrows, shifts and comparisons of sets
\* of bits are the sums, differences, products, quotients and orders of numbers.
THEOREM OperationIsResult ==
    ASSUME NEW n \in Names(R) \cup Immediates, NEW a \in Word, NEW b \in Word
    PROVE  Num(Operation(n, a, b)) = Manual!Wrap(Manual!Result(n, Num(a), Num(b)))
<1> DEFINE x == Num(a)
           y == Num(b)
           m == Power(2, XLen)
           r == Manual!Result(n, x, y)
           o == Operation(n, a, b)
<1>1. Manual!Wrap(r) = r % m
  BY ManualNumbers
<1>2. x \in Int /\ y \in Int
  BY NumBound
<1>3. Manual!Signed(x) = SignedNum(a) /\ Manual!Signed(y) = SignedNum(b)
  BY ManualNumbers
<1>4. CASE n \in {"add", "addi"}
  <2>1. r = x + SignedNum(b) BY <1>3, <1>4 DEF Manual!Result
  <2>2. o = Plus(a, b) BY <1>4 DEF Operation
  <2>3. Num(Plus(a, b)) = (x + y) % m BY PlusIsSum
  <2>4. (x + SignedNum(b)) % m = (x + y) % m BY <1>2, SignedSum
  <2> QED BY <1>1, <2>1, <2>2, <2>3, <2>4
<1>5. CASE n = "sub"
  <2>1. r = x - y BY <1>5 DEF Manual!Result
  <2>2. o = Minus(a, b) BY <1>5 DEF Operation
  <2> QED BY <1>1, <2>1, <2>2, MinusIsDifference
<1>6. CASE n \in {"sll", "slli", "srl", "srli", "sra", "srai"}
  <2> DEFINE s == Shamt(b)
  <2>1. s \in 0 .. 31 /\ y % 32 = s BY ShamtIs
  <2>2. \A k : Manual!Power(2, k) = Power(2, k) BY ManualNumbers
  <2>3. /\ Num(ShiftLeft(a, s))
              = (IF s < XLen THEN (x % Power(2, XLen - s)) * Power(2, s) ELSE 0) % m
        /\ Num(ShiftRight(a, s)) = (IF s < XLen THEN x \div Power(2, s) ELSE 0) % m
        /\ Num(Sra(a, s)) = (IF s < XLen THEN SignedNum(a) \div Power(2, s)
                             ELSE -Manual!Truth(SignedNum(a) < 0)) % m
    <3> HIDE DEF s
    <3> QED BY <2>1, ShiftsAre
  <2>4. CASE n \in {"sll", "slli"}
    <3>1. o = ShiftLeft(a, s) BY <2>4 DEF Operation
    <3>2. r = IF s < XLen THEN (x % Power(2, XLen - s)) * Power(2, s) ELSE 0
      BY <2>1, <2>2, <2>4 DEF Manual!Result
    <3> QED BY <1>1, <2>3, <3>1, <3>2
  <2>5. CASE n \in {"srl", "srli"}
    <3>1. o = ShiftRight(a, s) BY <2>5 DEF Operation
    <3>2. r = IF s < XLen THEN x \div Power(2, s) ELSE 0
      BY <2>1, <2>2, <2>5 DEF Manual!Result
    <3> QED BY <1>1, <2>3, <3>1, <3>2
  <2>6. CASE n \in {"sra", "srai"}
    <3>1. o = Sra(a, s) BY <2>6 DEF Operation
    <3>2. r = IF s < XLen THEN SignedNum(a) \div Power(2, s)
              ELSE -Manual!Truth(SignedNum(a) < 0)
      BY <1>3, <2>1, <2>2, <2>6 DEF Manual!Result
    <3> QED BY <1>1, <2>3, <3>1, <3>2
  <2> QED BY <1>6, <2>4, <2>5, <2>6
<1>7. CASE n \in {"slt", "slti"}
  <2>1. o = Flag(SignedLess(a, b)) BY <1>7 DEF Operation
  <2>2. r = Manual!Truth(SignedNum(a) < SignedNum(b)) BY <1>3, <1>7 DEF Manual!Result
  <2>3. SignedLess(a, b) <=> SignedNum(a) < SignedNum(b) BY SignedLessIsLess
  <2>4. Flag(SignedLess(a, b)) = Flag(SignedNum(a) < SignedNum(b)) BY <2>3 DEF Flag
  <2>5. (SignedNum(a) < SignedNum(b)) \in BOOLEAN OBVIOUS
  <2> QED BY <1>1, <2>1, <2>2, <2>4, <2>5, FlagIs
<1>8. CASE n \in {"sltu", "sltiu"}
  <2>1. o = Flag(Below(a, b)) BY <1>8 DEF Operation
  <2>2. r = Manual!Truth(x < y) BY <1>8 DEF Manual!Result
  <2>3. Below(a, b) <=> x < y BY BelowIsLess, MinusIsDifference
  <2>4. Flag(Below(a, b)) = Flag(x < y) BY <2>3 DEF Flag
  <2>5. (x < y) \in BOOLEAN OBVIOUS
  <2> QED BY <1>1, <2>1, <2>2, <2>4, <2>5, FlagIs
<1>9. a \cap b \in Word /\ a \cup b \in Word /\ Differ(a, b) \in Word
  BY DEF Word, Differ
<1>10. /\ Manual!Ones(x) = a /\ Manual!Ones(y) = b
       /\ Manual!Number(a \cap b) = Num(a \cap b)
       /\ Manual!Number(a \cup b) = Num(a \cup b)
  BY <1>9, ManualNumbers
<1>11. CASE n \in {"xor", "xori"}
  <2> DEFINE d == Num(Differ(a, b))
             c == Num(a \cap b)
  <2>1. o = Differ(a, b) BY <1>11 DEF Operation
  <2>2. r = x + y - 2 * c BY <1>10, <1>11 DEF Manual!Result
  <2>3. x + y = d + 2 * c BY DifferIsSum
  <2>4. d \in Int /\ c \in Int BY NumBound
  <2>5. d % m = d BY <1>9, NumModulo
  <2> HIDE DEF d, c, x, y, r, m
  <2>6. r = d BY <1>2, <2>2, <2>3, <2>4
  <2> QED BY <1>1, <2>1, <2>5, <2>6 DEF d, r, x, y
<1>12. CASE n \in {"or", "ori"}
  <2>1. o = a \cup b BY <1>12 DEF Operation
  <2>2. r = Num(a \cup b) BY <1>10, <1>12 DEF Manual!Result
  <2> QED BY <1>1, <1>9, <2>1, <2>2, NumModulo
<1>13. CASE n \in {"and", "andi"}
  <2>1. o = a \cap b BY <1>13 DEF Operation
  <2>2. r = Num(a \cap b) BY <1>10, <1>13 DEF Manual!Result
  <2> QED BY <1>1, <1>9, <2>1, <2>2, NumModulo
<1>14. n \in {"add", "sub", "sll", "slt", "sltu", "xor", "srl", "sra", "or", "and"} \cup Immediates
  BY DEF Names, R
<1> QED BY <1>4, <1>5, <1>6, <1>7, <1>8, <1>11, <1>12, <1>13, <1>14 DEF Immediates

\* The conditions of the branches.
THEOREM TakenIsHolds ==
    ASSUME NEW n \in Branches, A \in Word, B \in Word
    PROVE  Taken(n) <=> Manual!Holds(n, Num(A), Num(B))
<1> DEFINE a == A
           b == B
<1>1. a \in Word /\ b \in Word
  OBVIOUS
<1> HIDE DEF a, b
<1> DEFINE x == Num(a)
           y == Num(b)
<1>2. a = b <=> x = y
  BY <1>1, NumInjective
<1>3. SignedLess(a, b) <=> SignedNum(a) < SignedNum(b)
  BY <1>1, SignedLessIsLess
<1>4. Less(a, b) <=> x < y
  BY <1>1, MinusIsDifference
<1>5. Manual!Signed(x) = SignedNum(a) /\ Manual!Signed(y) = SignedNum(b)
  BY <1>1, ManualNumbers
<1>6. x \in Int /\ y \in Int /\ SignedNum(a) \in Int /\ SignedNum(b) \in Int
  BY <1>1, NumBound, SignedRange
<1>7. /\ SignedNum(a) >= SignedNum(b) <=> ~SignedLess(a, b)
      /\ x >= y <=> ~Less(a, b)
  BY <1>3, <1>4, <1>6
<1> HIDE DEF x, y
<1>8. /\ n = "beq" => (Taken(n) <=> a = b) /\ (Manual!Holds(n, x, y) <=> x = y)
      /\ n = "bne" => (Taken(n) <=> a # b) /\ (Manual!Holds(n, x, y) <=> x # y)
      /\ n = "blt" => (Taken(n) <=> SignedLess(a, b))
                      /\ (Manual!Holds(n, x, y) <=> SignedNum(a) < SignedNum(b))
      /\ n = "bge" => (Taken(n) <=> ~SignedLess(a, b))
                      /\ (Manual!Holds(n, x, y) <=> SignedNum(a) >= SignedNum(b))
      /\ n = "bltu" => (Taken(n) <=> Less(a, b)) /\ (Manual!Holds(n, x, y) <=> x < y)
      /\ n = "bgeu" => (Taken(n) <=> ~Less(a, b)) /\ (Manual!Holds(n, x, y) <=> x >= y)
  BY <1>5 DEF Taken, Manual!Holds, a, b
<1>9. Taken(n) <=> Manual!Holds(n, x, y)
  BY <1>2, <1>3, <1>4, <1>7, <1>8 DEF Branches
<1> QED BY <1>9 DEF x, y, a, b

-----------------------------------------------------------------------------
(* The executors, on the manual's numbers *)

\* The temporaries are what instruction i says.
Decodes(i) ==
    /\ i.name \notin Stores \cup Branches \cup {"fence"} => dec'.rd = i.rd
    /\ i.name \notin {"lui", "auipc", "jal", "fence"} => dec'.rs1 = i.rs1
    /\ i.name \in Names(R) \cup Stores \cup Branches => dec'.rs2 = i.rs2
    /\ i.name \notin Names(R) \cup {"fence"} => dec'.imm = WordOf(i.imm)

\* i has registers and an immediate.
WellFormed(i) == i.rd \in RegNum /\ i.rs1 \in RegNum /\ i.rs2 \in RegNum /\ i.imm \in Int

\* Sums of words whose numbers are remainders.
LEMMA SumIs ==
    ASSUME NEW a \in Word, NEW b \in Word, NEW x \in Int, NEW y \in Int,
           Num(a) = x % Power(2, XLen), Num(b) = y % Power(2, XLen)
    PROVE  Num(Plus(a, b)) = (x + y) % Power(2, XLen) /\ Plus(a, b) \in Word
<1> DEFINE m == Power(2, XLen)
<1>1. Num(Plus(a, b)) = ((x % m) + (y % m)) % m
  BY PlusIsSum
<1>2. m \in Nat /\ m > 0
  BY NumBound
<1> HIDE DEF m
<1>3. x % m \in Int
  BY <1>2, Remainder
<1>4. ((x % m) + (y % m)) % m = ((x % m) + y) % m
  BY <1>2, <1>3, Modulo
<1>5. ((x % m) + y) % m = (x + y) % m
  BY <1>2, Modulo
<1>6. Num(Plus(a, b)) = (x + y) % m
  BY <1>1, <1>4, <1>5 DEF m
<1> QED BY <1>6, WordOperations DEF m

\* SetReg writes a register.
LEMMA SetRegWrites ==
    ASSUME IInv, NEW i, i.rd \in RegNum, NEW w \in Word, SetReg(i.rd, w),
           NEW x, Num(w) = Manual!Wrap(x)
    PROVE  Manual!Writes(i, x)
<1>1. reg \in [RegNum -> Word] /\ reg[0] = {}
  BY DEF IInv, TypeOK, X0AndPc
<1>2. CASE i.rd = 0
  <2>1. reg' = reg BY <1>2 DEF SetReg
  <2>2. Numbers' = Numbers BY <2>1 DEF Numbers
  <2>3. Numbers[0] = 0 BY <1>1, SmallNumbers DEF Numbers, RegNum
  <2>4. Numbers = [Numbers EXCEPT ![0] = 0] BY <2>3 DEF Numbers
  <2> QED BY <1>2, <2>2, <2>4 DEF Manual!Writes
<1>3. CASE i.rd # 0
  <2>1. reg' = [reg EXCEPT ![i.rd] = w] BY <1>3 DEF SetReg
  <2>2. \A n \in RegNum : Num(reg'[n]) = IF n = i.rd THEN Num(w) ELSE Num(reg[n])
    BY <1>1, <2>1
  <2>3. Numbers' = [Numbers EXCEPT ![i.rd] = Num(w)] BY <2>2 DEF Numbers
  <2> QED BY <1>3, <2>3 DEF Manual!Writes
<1> QED BY <1>2, <1>3

\* The next instruction.
LEMMA NextIs ==
    ASSUME IInv
    PROVE  Num(NextPc) = Manual!Wrap(Num(pc) + 4) /\ NextPc \in Word
<1>1. pc \in Word
  BY DEF IInv, TypeOK
<1>2. Num(Plus(pc, {2})) = (Num(pc) + Num({2})) % Power(2, XLen)
  BY <1>1, SmallNumbers, PlusIsSum
<1> QED BY <1>1, <1>2, SmallNumbers, ManualNumbers, WordOperations DEF NextPc

\* Jumps, and the way on.
LEMMA GoesTo ==
    ASSUME IInv, NEW to, Goes(to)
    PROVE  /\ to = NextPc => Manual!Continues
           /\ \A x : Num(to) = Manual!Wrap(x) => Manual!JumpsTo(x)
<1>1. pc' = to /\ trap' = "none"
  BY DEF Goes
<1> QED BY <1>1, NextIs DEF Manual!Continues, Manual!JumpsTo

\* What stays.
LEMMA Stays ==
    /\ reg' = reg => UNCHANGED Numbers
    /\ mem' = mem => UNCHANGED Memory
BY DEF Numbers, Memory

\* Traps.
LEMMA RaisesTraps ==
    ASSUME NEW e, Raises(e)
    PROVE  Manual!Traps(e)
BY Stays DEF Raises, Manual!Traps

\* The operands of i, as numbers.
LEMMA OperandsAre ==
    ASSUME IInv, dec' \in Temporaries, NEW i, WellFormed(i), Decodes(i)
    PROVE  /\ i.name \notin {"lui", "auipc", "jal", "fence"} => Numbers[i.rs1] = Num(A)
           /\ i.name \in Names(R) \cup Stores \cup Branches => Numbers[i.rs2] = Num(B)
           /\ i.name \notin Names(R) \cup {"fence"} => /\ Num(Imm) = Manual!Wrap(i.imm)
                                                       /\ Num(Imm) = i.imm % Power(2, XLen)
<1>1. i.imm \in Int /\ Num(WordOf(i.imm)) = i.imm % Power(2, XLen)
  BY NumWordOf DEF WellFormed
<1>2. Manual!Wrap(i.imm) = i.imm % Power(2, XLen)
  BY ManualNumbers
<1> QED BY <1>1, <1>2 DEF WellFormed, Decodes, Numbers, A, B, Imm

\* Arithmetic, logic, lui and auipc.
LEMMA ComputeRuns ==
    ASSUME IInv, dec' \in Temporaries, NEW i, WellFormed(i), Decodes(i), Compute(i.name)
    PROVE  Manual!Runs(i)
<1> DEFINE n == i.name
<1>1. /\ A \in Word /\ B \in Word /\ Imm \in Word /\ pc \in Word
      /\ i.rd \in RegNum /\ i.imm \in Int
  BY Operands DEF Even, WellFormed
<1>2. n \in Names(R) \cup Immediates \cup {"lui", "auipc"}
  BY DEF Compute
<1>3. dec'.rd = i.rd
  BY <1>2 DEF Decodes, Names, R, Immediates, Stores, Branches
<1>4. Manual!Continues /\ UNCHANGED Memory
  BY GoesTo, Stays DEF Compute
<1>5. CASE n \in Names(R) /\ SetReg(dec'.rd, Operation(n, A, B))
  <2>1. Numbers[i.rs1] = Num(A) /\ Numbers[i.rs2] = Num(B)
    <3>1. n \notin {"lui", "auipc", "jal", "fence"} BY <1>5 DEF Names, R
    <3> QED BY <1>5, <3>1, OperandsAre
  <2> DEFINE w == Operation(n, A, B)
             x == Manual!Result(n, Num(A), Num(B))
  <2>2. w \in Word /\ Num(w) = Manual!Wrap(x)
    BY <1>1, <1>5, OperationWord, OperationIsResult
  <2>3. SetReg(i.rd, w) BY <1>3, <1>5
  <2> HIDE DEF w, x
  <2>4. Manual!Writes(i, x) BY <1>1, <2>2, <2>3, SetRegWrites
  <2>5. n \in Manual!Op BY <1>5 DEF Names, R, Manual!Op
  <2> QED BY <1>4, <2>1, <2>4, <2>5 DEF Manual!Runs, x
<1>6. CASE n \in Immediates /\ SetReg(dec'.rd, Operation(n, A, Imm))
  <2>1. Numbers[i.rs1] = Num(A) /\ Num(Imm) = Manual!Wrap(i.imm)
    <3>1. n \notin {"lui", "auipc", "jal", "fence"} /\ n \notin Names(R) \cup {"fence"}
      BY <1>6 DEF Names, R, Immediates
    <3> QED BY <3>1, OperandsAre
  <2> DEFINE w == Operation(n, A, Imm)
             x == Manual!Result(n, Num(A), Num(Imm))
  <2>2. w \in Word /\ Num(w) = Manual!Wrap(x)
    BY <1>1, <1>6, OperationWord, OperationIsResult
  <2>3. SetReg(i.rd, w) BY <1>3, <1>6
  <2> HIDE DEF w, x
  <2>4. Manual!Writes(i, x) BY <1>1, <2>2, <2>3, SetRegWrites
  <2>5. n \in Manual!OpImm BY <1>6 DEF Immediates, Manual!OpImm
  <2>6. x = Manual!Result(n, Numbers[i.rs1], Manual!Wrap(i.imm)) BY <2>1 DEF x
  <2> QED BY <1>4, <2>4, <2>5, <2>6 DEF Manual!Runs
<1>7. CASE n = "lui" /\ SetReg(dec'.rd, Imm)
  <2>1. n \notin Names(R) \cup {"fence"} BY <1>7 DEF Names, R
  <2>2. Num(Imm) = Manual!Wrap(i.imm) BY <2>1, OperandsAre
  <2>3. SetReg(i.rd, Imm) BY <1>3, <1>7
  <2>4. Manual!Writes(i, i.imm) BY <1>1, <2>2, <2>3, SetRegWrites
  <2> QED BY <1>4, <1>7, <2>4 DEF Manual!Runs
<1>8. CASE n = "auipc" /\ SetReg(dec'.rd, Plus(Imm, pc))
  <2>1. n \notin Names(R) \cup {"fence"} BY <1>8 DEF Names, R
  <2> DEFINE w == Plus(Imm, pc)
             p == Num(pc)
             y == Num(Imm)
             m == Power(2, XLen)
             x == Manual!Wrap(p) + Manual!Signed(Manual!Wrap(i.imm))
  <2>2. y = Manual!Wrap(i.imm) BY <2>1, OperandsAre
  <2>3. Manual!Wrap(p) = p BY <1>1, NumModulo, ManualNumbers
  <2>4. x = p + SignedNum(Imm) BY <1>1, <2>2, <2>3, ManualNumbers
  <2>5. p \in Int /\ y \in Int BY NumBound
  <2>6. (p + SignedNum(Imm)) % m = (p + y) % m BY <1>1, <2>5, SignedSum
  <2>7. Num(w) = (y + p) % m BY <1>1, PlusIsSum
  <2>8. y + p = p + y BY <2>5
  <2>9. Num(w) = Manual!Wrap(x) BY <2>4, <2>6, <2>7, <2>8, ManualNumbers
  <2>10. w \in Word BY <1>1, WordOperations
  <2>11. SetReg(i.rd, w) BY <1>3, <1>8
  <2> HIDE DEF w, x
  <2>12. Manual!Writes(i, x) BY <1>1, <2>9, <2>10, <2>11, SetRegWrites
  <2> QED BY <1>4, <1>8, <2>12 DEF Manual!Runs, x
<1> QED BY <1>5, <1>6, <1>7, <1>8 DEF Compute

\* An even modulus keeps what is odd.
LEMMA EvenModulo ==
    ASSUME NEW z \in Int, NEW h \in Nat, h > 0
    PROVE  (z - (z % 2)) % (2 * h) = (z % (2 * h)) - ((z % (2 * h)) % 2)
<1> DEFINE m == 2 * h
           q == z \div m
           r == z % m
           e == r % 2
           f == r \div 2
           g == q * h
<1>1. m \in Nat /\ m > 0
  OBVIOUS
<1>2. q \in Int /\ r \in Nat /\ r < m /\ z = q * m + r
  <2> HIDE DEF m
  <2> QED BY <1>1, Remainder
<1>3. q * m = 2 * g /\ g \in Int
  <2>1. q \in Int BY <1>2
  <2> HIDE DEF q
  <2> QED BY <2>1
<1>4. r = 2 * f + e /\ e \in {0, 1} /\ f \in Nat
  <2> HIDE DEF r
  <2> QED BY <1>2
<1> HIDE DEF m, q, r, e, f, g
<1>5. z = 2 * (g + f) + e
  BY <1>2, <1>3, <1>4
<1>6. z % 2 = e
  BY <1>3, <1>4, <1>5
<1> DEFINE y == z - (z % 2)
           t == r - e
<1>7. y = q * m + t /\ t \in Nat /\ t < m
  BY <1>1, <1>2, <1>3, <1>4, <1>6
<1> HIDE DEF y, t
<1>8. y % m = t
  BY <1>1, <1>2, <1>7, Division
<1> QED BY <1>8 DEF y, t, m, r, e

\* jal and jalr.
LEMMA JumpRuns ==
    ASSUME IInv, dec' \in Temporaries, NEW i, WellFormed(i), Decodes(i), Jump(i.name)
    PROVE  Manual!Runs(i)
<1> DEFINE m == Power(2, XLen)
<1>1. /\ A \in Word /\ Imm \in Word /\ pc \in Word
      /\ i.rd \in RegNum /\ i.imm \in Int /\ Num(pc) \in Int /\ Num(A) \in Int
  BY Operands, NumBound DEF Even, WellFormed
<1>2. i.name \in {"jal", "jalr"}
  BY DEF Jump
<1>3. dec'.rd = i.rd /\ i.name \notin Names(R) \cup {"fence"}
  BY <1>2 DEF Decodes, Names, R, Stores, Branches
<1>4. Num(Imm) = i.imm % m
  BY <1>3, OperandsAre
<1>5. Manual!Writes(i, Num(pc) + 4)
  <2>1. SetReg(i.rd, NextPc) BY <1>3 DEF Jump
  <2> QED BY <1>1, <2>1, NextIs, SetRegWrites
<1>6. UNCHANGED Memory
  BY Stays DEF Jump
<1>7. Num(pc) = Num(pc) % m /\ Num(A) = Num(A) % m
  BY <1>1, NumModulo
<1>8. CASE i.name = "jal" /\ Goes(Plus(pc, Imm))
  <2>1. Num(Plus(pc, Imm)) = (Num(pc) + i.imm) % m
    BY <1>1, <1>4, <1>7, SumIs
  <2>2. Num(Plus(pc, Imm)) = Manual!Wrap(Num(pc) + i.imm)
    BY <2>1, ManualNumbers
  <2>3. Manual!JumpsTo(Num(pc) + i.imm)
    BY <1>8, <2>2, GoesTo
  <2> QED BY <1>5, <1>6, <1>8, <2>3 DEF Manual!Runs, Manual!Target
<1>9. CASE i.name = "jalr" /\ Goes(Plus(A, Imm) \ {0})
  <2> DEFINE z == Num(A) + i.imm
             y == z - (z % 2)
             s == Plus(A, Imm)
             h == Power(2, XLen - 1)
  <2>1. Num(s) = z % m /\ s \in Word /\ z \in Int
    BY <1>1, <1>4, <1>7, SumIs
  <2>2. m = 2 * h /\ h \in Nat /\ h > 0
    BY <1>1, SignHalf
  <2>3. Goes(s \ {0})
    BY <1>9
  <2> HIDE DEF s, m, h, z
  <2>4. (z - (z % 2)) % (2 * h) = (z % (2 * h)) - ((z % (2 * h)) % 2)
    BY <2>1, <2>2, EvenModulo
  <2>5. Num(s \ {0}) = Num(s) - (Num(s) % 2)
    BY <2>1, NumEven
  <2>6. Num(s \ {0}) = y % m
    BY <2>1, <2>2, <2>4, <2>5
  <2> HIDE DEF y
  <2>7. Num(s \ {0}) = Manual!Wrap(y)
    BY <2>6, ManualNumbers DEF m
  <2>8. Manual!JumpsTo(y)
    BY <2>3, <2>7, GoesTo
  <2>9. Numbers[i.rs1] = Num(A)
    BY <1>9, OperandsAre
  <2> QED BY <1>5, <1>6, <1>9, <2>8, <2>9 DEF Manual!Runs, Manual!Target, y, z
<1> QED BY <1>8, <1>9 DEF Jump

\* The branches.
LEMMA BranchRuns ==
    ASSUME IInv, dec' \in Temporaries, NEW i, WellFormed(i), Decodes(i), Branch(i.name)
    PROVE  Manual!Runs(i)
<1> DEFINE m == Power(2, XLen)
<1>1. /\ A \in Word /\ B \in Word /\ Imm \in Word /\ pc \in Word
      /\ i.imm \in Int /\ Num(pc) \in Int
  BY Operands, NumBound DEF Even, WellFormed
<1>2. i.name \in Branches
  BY DEF Branch
<1>3. /\ i.name \notin Names(R) \cup {"fence"}
      /\ i.name \notin {"lui", "auipc", "jal", "fence"}
      /\ i.name \in Manual!Branch
  BY <1>2 DEF Branches, Names, R, Manual!Branch
<1>4. Num(Imm) = i.imm % m /\ Numbers[i.rs1] = Num(A) /\ Numbers[i.rs2] = Num(B)
  BY <1>2, <1>3, OperandsAre
<1>5. Taken(i.name) <=> Manual!Holds(i.name, Numbers[i.rs1], Numbers[i.rs2])
  BY <1>1, <1>2, <1>4, TakenIsHolds
<1>6. UNCHANGED <<Numbers, Memory>>
  BY Stays DEF Branch
<1>0. /\ Taken(i.name) <=> Manual!Jumps(i)
      /\ Manual!Target(i) = Num(pc) + i.imm
  BY <1>2, <1>3, <1>5 DEF Manual!Jumps, Manual!Target, Branches
<1>7. CASE Taken(i.name)
  <2>1. Num(pc) = Num(pc) % m
    BY <1>1, NumModulo
  <2>2. Num(Plus(pc, Imm)) = (Num(pc) + i.imm) % m
    BY <1>1, <1>4, <2>1, SumIs
  <2>3. Num(Plus(pc, Imm)) = Manual!Wrap(Num(pc) + i.imm)
    BY <2>2, ManualNumbers
  <2>4. Goes(Plus(pc, Imm))
    BY <1>7 DEF Branch
  <2>5. Manual!JumpsTo(Num(pc) + i.imm)
    BY <2>3, <2>4, GoesTo
  <2> QED BY <1>0, <1>3, <1>6, <1>7, <2>5 DEF Manual!Runs
<1>8. CASE ~Taken(i.name)
  <2>1. Goes(NextPc)
    BY <1>8 DEF Branch
  <2>2. Manual!Continues
    BY <2>1, GoesTo
  <2> QED BY <1>0, <1>3, <1>6, <1>8, <2>2 DEF Manual!Runs
<1> QED BY <1>7, <1>8

-----------------------------------------------------------------------------
(* Loads and stores, on the manual's numbers *)

\* The width of registers, in parts.
LEMMA Widths ==
    /\ XLen \in Nat /\ XLen >= 25 /\ XLen <= 32
    /\ Power(2, XLen) \in Nat /\ Power(2, XLen) >= 256
    /\ \E h \in Nat : Power(2, XLen) = 4 * h
<1>1. XLen \in Nat /\ XLen >= 25 /\ XLen <= 32 /\ 8 \in 0 .. XLen /\ 2 \in 0 .. XLen
  BY InstructionsAssumption
<1>2. Power(2, 8) = 256 /\ Power(2, 2) = 4
  BY SmallPowers
<1> DEFINE m == Power(2, XLen)
           g == Power(2, XLen - 8)
           h == Power(2, XLen - 2)
<1>3. m = g * 256 /\ g \in Nat /\ g > 0
  <2>1. m = g * Power(2, 8) /\ g \in Nat /\ g > 0 BY <1>1, PowerDifference
  <2> QED BY <1>2, <2>1
<1>4. m = h * 4 /\ h \in Nat
  <2>1. m = h * Power(2, 2) /\ h \in Nat BY <1>1, PowerDifference
  <2> QED BY <1>2, <2>1
<1> HIDE DEF m, g, h
<1>5. m \in Nat /\ m >= 256 /\ m = 4 * h
  BY <1>3, <1>4
<1> QED BY <1>1, <1>4, <1>5 DEF m

\* The number of a byte.
LEMMA ByteNumber ==
    ASSUME NEW v \in Byte, NEW x \in Int, \A j \in 0 .. 7 : j \in v <=> BitOf(x, j) = 1
    PROVE  v \in Word /\ Num(v) = x % 256 /\ Num(v) \in 0 .. 255
<1>1. XLen \in Nat /\ XLen >= 25
  BY Widths
<1>2. v \in Word
  BY <1>1 DEF Byte, Word, Bit
<1> DEFINE y == x % 256
           m == Power(2, XLen)
<1>3. Power(2, 8) = 256 /\ 8 \in Nat
  BY SmallPowers
<1>4. y \in 0 .. 255
  OBVIOUS
<1>5. ASSUME NEW k \in Bit PROVE k \in v <=> BitOf(y, k) = 1
  <2>1. k \in Nat BY DEF Bit
  <2>2. CASE k \in 0 .. 7
    <3>1. k \in 0 .. 8 - 1 BY <2>2
    <3>2. BitOf(y, k) = BitOf(x, k) BY <1>3, <3>1, BitsOfRemainder
    <3> QED BY <2>2, <3>2
  <2>3. CASE k >= 8
    <3>1. y \in Int /\ -Power(2, 8) <= y /\ y < Power(2, 8) /\ y >= 0 BY <1>3, <1>4
    <3> HIDE DEF y
    <3>2. BitOf(y, k) = IF y < 0 THEN 1 ELSE 0 BY <1>3, <2>1, <2>3, <3>1, BitsAbove
    <3>3. k \notin v BY <2>1, <2>3 DEF Byte
    <3> QED BY <3>1, <3>2, <3>3
  <2> QED BY <2>1, <2>2, <2>3
<1> HIDE DEF y
<1>6. y \in Int
  BY <1>4
<1>7. Num(v) = y % m
  BY <1>2, <1>5, <1>6, NumIs
<1>8. m \in Nat /\ m >= 256
  BY Widths
<1> HIDE DEF m
<1>9. y \in Nat /\ y < m
  BY <1>4, <1>8
<1>10. y % m = y
  BY <1>8, <1>9, SmallRemainder
<1> QED BY <1>2, <1>4, <1>7, <1>10 DEF y

\* What memory holds, and its bits.
LEMMA ByteIs ==
    ASSUME NEW v \in Byte
    PROVE  /\ v \in Word /\ Num(v) \in 0 .. 255
           /\ \A j \in Nat : BitOf(Num(v), j) = 1 <=> j \in v
<1>1. XLen \in Nat /\ XLen >= 25
  BY Widths
<1>2. v \in Word
  BY <1>1 DEF Byte, Word, Bit
<1>3. \A j \in Nat : BitOf(Num(v), j) = 1 <=> j \in v
  BY <1>2, NumBits DEF One
<1>4. Num(v) \in Int /\ \A j \in 0 .. 7 : j \in v <=> BitOf(Num(v), j) = 1
  BY <1>3, NumBound
<1> QED BY <1>2, <1>3, <1>4, ByteNumber

\* Memory by address and by number.
LEMMA MemoryIs ==
    /\ \A p \in MemAddr : Num(p) \in DOMAIN AddressOf /\ AddressOf[Num(p)] = p
    /\ \A n \in DOMAIN AddressOf : AddressOf[n] \in MemAddr /\ Num(AddressOf[n]) = n
    /\ DOMAIN Memory = DOMAIN AddressOf
    /\ \A p \in MemAddr : Memory[Num(p)] = Num(mem[p])
<1>1. MemAddr \subseteq Word
  BY InstructionsAssumption
<1>2. DOMAIN AddressOf = {Num(p) : p \in MemAddr}
  BY DEF AddressOf
<1>3. ASSUME NEW n \in DOMAIN AddressOf
      PROVE  AddressOf[n] \in MemAddr /\ Num(AddressOf[n]) = n
  <2>1. \E p \in MemAddr : Num(p) = n BY <1>2
  <2>2. AddressOf[n] = CHOOSE p \in MemAddr : Num(p) = n BY <1>2 DEF AddressOf
  <2> QED BY <2>1, <2>2
<1>4. ASSUME NEW p \in MemAddr
      PROVE  Num(p) \in DOMAIN AddressOf /\ AddressOf[Num(p)] = p
  <2>1. Num(p) \in DOMAIN AddressOf BY <1>2
  <2>2. AddressOf[Num(p)] \in MemAddr /\ Num(AddressOf[Num(p)]) = Num(p) BY <1>3, <2>1
  <2>3. AddressOf[Num(p)] \in Word /\ p \in Word BY <1>1, <2>2
  <2>4. AddressOf[Num(p)] = p BY <2>2, <2>3, NumInjective
  <2> QED BY <2>1, <2>4
<1> QED BY <1>3, <1>4 DEF Memory

\* The places of an access: its bytes are those at the number of its address
\* and at the next ones.
LEMMA LaneIs ==
    ASSUME IInv, dec' \in Temporaries, NEW k \in 0 .. 3
    PROVE  /\ Address \in Word
           /\ Lane(k) \in Word
           /\ Num(Lane(k)) = (Num(Address) + k) % Power(2, XLen)
<1>1. Address \in Word
  BY Operands, WordOperations DEF Address
<1> DEFINE s == {i \in {0, 1} : (i = 0 /\ k % 2 = 1) \/ (i = 1 /\ k >= 2)}
<1>2. s \in Word /\ Num(s) = k
  <2>1. CASE k = 0
    <3>1. s = {} BY <2>1
    <3> QED BY <2>1, <3>1, SmallNumbers
  <2>2. CASE k = 1
    <3>1. s = {0} BY <2>2
    <3> QED BY <2>2, <3>1, SmallNumbers
  <2>3. CASE k = 2
    <3>1. s = {1} BY <2>3
    <3> QED BY <2>3, <3>1, SmallNumbers
  <2>4. CASE k = 3
    <3>1. s = {0, 1} BY <2>4
    <3> QED BY <2>4, <3>1, SmallNumbers
  <2> QED BY <2>1, <2>2, <2>3, <2>4
<1>3. Lane(k) = Plus(Address, s)
  BY DEF Lane
<1> HIDE DEF s
<1> QED BY <1>1, <1>2, <1>3, PlusIsSum, WordOperations

\* Aligned accesses.
LEMMA AlignedIs ==
    ASSUME IInv, dec' \in Temporaries, NEW n \in Loads \cup Stores
    PROVE  /\ Size(n) = Manual!Width(n) /\ Size(n) \in {1, 2, 4}
           /\ IsAligned(n) <=> Num(Address) % Size(n) = 0
<1>1. Size(n) = Manual!Width(n) /\ Size(n) \in {1, 2, 4}
  BY DEF Size, Manual!Width, Loads, Stores
<1> DEFINE a == Address
           x == One(0 \in a)
           y == One(1 \in a)
           z == Num(a)
<1>2. Address \in Word
  BY LaneIs
<1>3. z % 2 = x /\ z % 4 = x + 2 * y /\ z \in Int
  BY <1>2, LowBits, NumBound
<1>4. x = (IF 0 \in a THEN 1 ELSE 0) /\ y = (IF 1 \in a THEN 1 ELSE 0)
  BY DEF One
<1>5. IsAligned(n) <=> \/ Size(n) = 1
                       \/ Size(n) = 2 /\ 0 \notin a
                       \/ Size(n) = 4 /\ 0 \notin a /\ 1 \notin a
  <2>1. CASE Size(n) = 1 BY <2>1 DEF IsAligned
  <2>2. CASE Size(n) = 2 BY <2>2 DEF IsAligned
  <2>3. CASE Size(n) = 4 BY <2>3 DEF IsAligned
  <2> QED BY <1>1, <2>1, <2>2, <2>3
<1> HIDE DEF x, y, z, a
<1>6. z % 2 = 0 <=> 0 \notin a
  BY <1>3, <1>4
<1>7. z % 4 = 0 <=> 0 \notin a /\ 1 \notin a
  BY <1>3, <1>4
<1>8. z % 1 = 0
  BY <1>3
<1>9. IsAligned(n) <=> z % Size(n) = 0
  BY <1>1, <1>5, <1>6, <1>7, <1>8
<1> QED BY <1>1, <1>9 DEF z, a

\* What the manual reads at the places of an access of n bytes.
Read(n) == [k \in 0 .. n - 1 |->
               Memory[Manual!Wrap(Num(Address) + k)] % Power(2, XLen - 8 * k)]
\* What the code puts together of them.
Data(n) == {i \in Bit : i < 8 * n /\ i % 8 \in mem[Lane(i \div 8)]}

\* The bits of the bytes that are read are those of the number that they make.
LEMMA DataIs ==
    ASSUME IInv, dec' \in Temporaries, NEW n \in {1, 2, 4},
           \A k \in 0 .. n - 1 : Lane(k) \in MemAddr
    PROVE  /\ FromDigits(Read(n), 256, n) \in Nat
           /\ FromDigits(Read(n), 256, n) < Power(2, 8 * n)
           /\ Data(n) \in Word
           /\ \A i \in Bit : i < 8 * n => (i \in Data(n) <=> BitOf(FromDigits(Read(n), 256, n), i) = 1)
<1> DEFINE d == Read(n)
           x == FromDigits(d, 256, n)
<1>1. /\ n \in Nat /\ 0 .. n - 1 \subseteq 0 .. 3
      /\ XLen \in Nat /\ XLen >= 25 /\ XLen <= 32
  BY Widths
<1>2. mem \in [MemAddr -> Byte]
  BY DEF IInv, TypeOK
<1>3. ASSUME NEW k \in 0 .. n - 1
      PROVE  /\ mem[Lane(k)] \in Byte
             /\ d[k] = Num(mem[Lane(k)]) % Power(2, XLen - 8 * k)
             /\ XLen - 8 * k \in Nat
  <2>1. k \in 0 .. 3 /\ Lane(k) \in MemAddr BY <1>1, <1>3
  <2>2. Num(Lane(k)) = Manual!Wrap(Num(Address) + k) BY <2>1, LaneIs, ManualNumbers
  <2>3. Memory[Num(Lane(k))] = Num(mem[Lane(k)]) BY <2>1, MemoryIs
  <2>4. XLen - 8 * k \in Nat BY <1>1, <2>1
  <2> QED BY <1>2, <2>1, <2>2, <2>3, <2>4 DEF Read
<1>4. ASSUME NEW k \in 0 .. n - 1 PROVE d[k] \in 0 .. 256 - 1
  <2> DEFINE v == Num(mem[Lane(k)])
             p == Power(2, XLen - 8 * k)
  <2>1. v \in 0 .. 255 BY <1>3, ByteIs
  <2>2. p \in Nat /\ p > 0 BY <1>3, Two
  <2>3. d[k] = v % p BY <1>3
  <2> HIDE DEF v, p, d
  <2> QED BY <2>1, <2>2, <2>3, Remainder
<1>5. InBase(d, 256, n)
  BY <1>4 DEF InBase
<1>6. x \in 0 .. Power(256, n) - 1
  <2> HIDE DEF d
  <2> QED BY <1>1, <1>5, DigitsBound
<1>7. x \in Nat /\ x < Power(2, 8 * n)
  <2>1. Power(256, n) = Power(2, 8 * n) /\ Power(2, 8 * n) \in Nat BY <1>1, BytePower, Two
  <2> HIDE DEF x
  <2> QED BY <1>6, <2>1
<1>8. ASSUME NEW i \in Bit, i < 8 * n PROVE i \in Data(n) <=> BitOf(x, i) = 1
  <2> DEFINE k == i \div 8
             j == i % 8
  <2>1. i \in Nat /\ i < XLen BY <1>1 DEF Bit
  <2>2. k \in 0 .. n - 1 /\ j \in 0 .. 7 /\ i = 8 * k + j BY <1>1, <1>8, <2>1
  <2>3. i \in Data(n) <=> j \in mem[Lane(k)] BY <1>8 DEF Data
  <2> HIDE DEF k, j
  <2>4. BitOf(x, 8 * k + j) = BitOf(d[k], j)
    <3> HIDE DEF d
    <3> QED BY <1>1, <1>5, <2>2, BitsOfBytes
  <2> DEFINE v == Num(mem[Lane(k)])
             r == XLen - 8 * k
  <2>5. BitOf(v, j) = 1 <=> j \in mem[Lane(k)] BY <1>3, <2>2, ByteIs
  <2>6. BitOf(v % Power(2, r), j) = BitOf(v, j)
    <3>1. v \in Int BY NumBound
    <3>2. r \in Nat /\ j \in 0 .. r - 1 BY <1>1, <1>3, <2>1, <2>2
    <3> HIDE DEF v, r
    <3> QED BY <3>1, <3>2, BitsOfRemainder
  <2>7. d[k] = v % Power(2, r) BY <1>3, <2>2
  <2> QED BY <2>2, <2>3, <2>4, <2>5, <2>6, <2>7
<1>9. Data(n) \in Word
  BY DEF Data, Word
<1> HIDE DEF d, x
<1>10. \A i \in Bit : i < 8 * n => (i \in Data(n) <=> BitOf(x, i) = 1)
  BY <1>8
<1> QED BY <1>7, <1>9, <1>10 DEF x, d

\* With the sign extension of lb and lh: the number less 2 to its bits.
LEMMA ExtendedIs ==
    ASSUME NEW n \in {1, 2}, NEW w \in Word, NEW x \in Nat, x < Power(2, 8 * n),
           \A i \in w : i < 8 * n,
           \A i \in Bit : i < 8 * n => (i \in w <=> BitOf(x, i) = 1)
    PROVE  /\ Extended(w, 8 * n) \in Word
           /\ Num(Extended(w, 8 * n))
                  = (IF x >= Power(2, 8 * n - 1) THEN x - Power(2, 8 * n) ELSE x) % Power(2, XLen)
<1> DEFINE t == 8 * n
           p == Power(2, t)
           y == x - p
<1>1. /\ t \in Nat /\ t - 1 \in Nat /\ (t - 1) + 1 = t
      /\ t \in Bit /\ t - 1 \in Bit /\ t - 1 < t
  BY Widths DEF Bit
<1>2. p \in Nat /\ p > 0
  BY <1>1, Two
<1>3. x >= Power(2, t - 1) <=> BitOf(x, t - 1) = 1
  <2> DEFINE s == t - 1
  <2>1. s \in Nat /\ s + 1 = t BY <1>1
  <2> HIDE DEF s, t
  <2>2. x < Power(2, s + 1) BY <2>1 DEF t
  <2>3. x >= Power(2, s) <=> BitOf(x, s) = 1 BY <2>1, <2>2, TopBit
  <2> QED BY <2>3 DEF s
<1>4. t - 1 \in w <=> BitOf(x, t - 1) = 1
  BY <1>1
<1>5. \A k \in Bit : k >= t => BitOf(x, k) = 0 /\ BitOf(y, k) = 1
  <2>1. x \in Int /\ x >= 0 /\ -p <= x /\ x < p /\ y \in Int /\ y < 0 /\ -p <= y /\ y < p
    BY <1>2
  <2> SUFFICES ASSUME NEW k \in Bit, k >= t PROVE BitOf(x, k) = 0 /\ BitOf(y, k) = 1
    OBVIOUS
  <2>2. k \in Nat BY DEF Bit
  <2> HIDE DEF t, y
  <2>3. BitOf(x, k) = IF x < 0 THEN 1 ELSE 0 BY <1>1, <2>1, <2>2, BitsAbove
  <2>4. BitOf(y, k) = IF y < 0 THEN 1 ELSE 0 BY <1>1, <2>1, <2>2, BitsAbove
  <2> QED BY <2>1, <2>3, <2>4
<1>6. \A k \in Bit : k < t => BitOf(y, k) = BitOf(x, k)
  <2> SUFFICES ASSUME NEW k \in Bit, k < t PROVE BitOf(y, k) = BitOf(x, k)
    OBVIOUS
  <2>1. k \in 0 .. t - 1 BY <1>1 DEF Bit
  <2>2. y = x + (-1) * p /\ -1 \in Int BY <1>2
  <2> HIDE DEF t, y
  <2>3. BitOf(x + (-1) * Power(2, t), k) = BitOf(x, k) BY <1>1, <2>1, <2>2, BitsBelow
  <2> QED BY <2>2, <2>3
<1>7. CASE t - 1 \in w
  <2> DEFINE e == w \cup {i \in Bit : i >= t}
  <2>1. Extended(w, t) = e BY <1>7 DEF Extended
  <2>2. e \in Word BY DEF Word
  <2>3. ASSUME NEW k \in Bit PROVE k \in e <=> BitOf(y, k) = 1
    <3>1. k \in Int BY DEF Bit
    <3>2. CASE k >= t BY <1>5, <3>2
    <3>3. CASE k < t
      <4>1. ~(k >= t) BY <1>1, <3>1, <3>3
      <4> QED BY <1>6, <3>3, <4>1
    <3> QED BY <1>1, <3>1, <3>2, <3>3
  <2>4. y \in Int BY <1>2
  <2> HIDE DEF e, y, t
  <2>5. Num(e) = y % Power(2, XLen) BY <2>2, <2>3, <2>4, NumIs
  <2> QED BY <1>3, <1>4, <1>7, <2>1, <2>2, <2>5 DEF y, t
<1>8. CASE t - 1 \notin w
  <2>1. Extended(w, t) = w BY <1>8 DEF Extended
  <2>2. ASSUME NEW k \in Bit PROVE k \in w <=> BitOf(x, k) = 1
    <3>1. k \in Int BY DEF Bit
    <3>2. CASE k >= t
      <4>1. ~(k < t) BY <1>1, <3>1, <3>2
      <4> QED BY <1>5, <3>2, <4>1
    <3>3. CASE k < t BY <3>3
    <3> QED BY <1>1, <3>1, <3>2, <3>3
  <2>3. Num(w) = x % Power(2, XLen) BY <2>2, NumIs
  <2> QED BY <1>3, <1>4, <1>8, <2>1, <2>3
<1> QED BY <1>7, <1>8

\* The loads.
LEMMA LoadRuns ==
    ASSUME IInv, dec' \in Temporaries, NEW i, WellFormed(i), Decodes(i), Load(i.name)
    PROVE  Manual!Runs(i)
<1> DEFINE n == Size(i.name)
           a == Num(Address)
           x == FromDigits(Read(n), 256, n)
           neg == i.name \in {"lb", "lh"} /\ x >= Power(2, 8 * n - 1)
           y == IF neg THEN x - Power(2, 8 * n) ELSE x
           w == IF i.name \in {"lb", "lh"} THEN Extended(Data(n), 8 * n) ELSE Data(n)
<1>1. /\ A \in Word /\ Imm \in Word /\ i.rd \in RegNum /\ i.imm \in Int /\ Num(A) \in Int
  BY Operands, NumBound DEF WellFormed
<1>2. i.name \in Loads
  BY DEF Load
<1>3. /\ i.name \notin Names(R) \cup {"fence"}
      /\ i.name \notin {"lui", "auipc", "jal", "fence"}
      /\ i.name \notin Stores \cup Branches \cup {"fence"}
      /\ i.name \in Manual!Load
  BY <1>2 DEF Loads, Stores, Branches, Names, R, Manual!Load
<1>4. dec'.rd = i.rd /\ Num(Imm) = i.imm % Power(2, XLen) /\ Numbers[i.rs1] = Num(A)
  BY <1>3, OperandsAre DEF Decodes
<1>5. a = Manual!Wrap(Numbers[i.rs1] + i.imm)
  <2>1. Num(A) = Num(A) % Power(2, XLen) BY <1>1, NumModulo
  <2>2. Num(Plus(A, Imm)) = (Num(A) + i.imm) % Power(2, XLen) BY <1>1, <1>4, <2>1, SumIs
  <2> QED BY <1>4, <2>2, ManualNumbers DEF Address
<1>6. n = Manual!Width(i.name) /\ n \in {1, 2, 4} /\ (IsAligned(i.name) <=> a % n = 0)
  BY <1>2, AlignedIs
<1>7. CASE ~IsAligned(i.name) /\ Raises("load_misaligned")
  <2>1. Manual!Traps("load_misaligned") BY <1>7, RaisesTraps
  <2>2. Manual!Loads(i, a) BY <1>6, <1>7, <2>1 DEF Manual!Loads
  <2> QED BY <1>3, <1>5, <2>2 DEF Manual!Runs
<1>8. CASE /\ IsAligned(i.name) /\ Lanes(i.name) \subseteq MemAddr
           /\ SetReg(dec'.rd, w)
           /\ Goes(NextPc) /\ UNCHANGED mem
  <2>1. \A k \in 0 .. n - 1 : Lane(k) \in MemAddr
    BY <1>8 DEF Lanes
  <2>2. /\ x \in Nat /\ x < Power(2, 8 * n) /\ Data(n) \in Word
        /\ \A j \in Bit : j < 8 * n => (j \in Data(n) <=> BitOf(x, j) = 1)
    BY <1>6, <2>1, DataIs
  <2>3. \A j \in Data(n) : j < 8 * n
    BY DEF Data
  <2>4. w \in Word /\ Num(w) = y % Power(2, XLen)
    <3>1. CASE i.name \in {"lb", "lh"}
      <4>1. n \in {1, 2} BY <3>1 DEF Size
      <4> DEFINE v == Data(n)
      <4> HIDE DEF n, x, v
      <4>2. /\ Extended(v, 8 * n) \in Word
            /\ Num(Extended(v, 8 * n))
                   = (IF x >= Power(2, 8 * n - 1) THEN x - Power(2, 8 * n) ELSE x) % Power(2, XLen)
        BY <2>2, <2>3, <4>1, ExtendedIs DEF v
      <4> QED BY <3>1, <4>2 DEF v
    <3>2. CASE i.name \notin {"lb", "lh"}
      <4> DEFINE v == Data(n)
      <4>1. n \in Nat /\ 8 * n \in Nat BY <1>6
      <4> HIDE DEF n, x, v
      <4>2. ASSUME NEW j \in Bit PROVE j \in v <=> BitOf(x, j) = 1
        <5>1. j \in Nat BY DEF Bit
        <5>2. CASE j < 8 * n BY <2>2, <5>2 DEF v
        <5>3. CASE j >= 8 * n
          <6>1. x \in Int /\ x >= 0 /\ -Power(2, 8 * n) <= x BY <2>2, <4>1, Two
          <6>2. BitOf(x, j) = IF x < 0 THEN 1 ELSE 0
            BY <2>2, <4>1, <5>1, <5>3, <6>1, BitsAbove
          <6>3. j \notin v BY <2>3, <4>1, <5>1, <5>3 DEF v
          <6> QED BY <6>1, <6>2, <6>3
        <5> QED BY <4>1, <5>1, <5>2, <5>3
      <4>3. v \in Word /\ x \in Int BY <2>2 DEF v
      <4>4. Num(v) = x % Power(2, XLen) BY <4>2, <4>3, NumIs
      <4> QED BY <3>2, <4>3, <4>4 DEF v
    <3> QED BY <3>1, <3>2
  <2>5. SetReg(i.rd, w) BY <1>4, <1>8
  <2>6. Num(w) = Manual!Wrap(y) BY <2>4, ManualNumbers
  <2>7. Manual!Writes(i, y)
    <3> HIDE DEF w, y
    <3> QED BY <1>1, <2>4, <2>5, <2>6, SetRegWrites
  <2>8. Manual!Continues /\ UNCHANGED Memory
    BY <1>8, GoesTo, Stays
  <2>9. Manual!Loads(i, a)
    <3>1. /\ \A k : Manual!Power(2, k) = Power(2, k)
          /\ \A d : Manual!FromDigits(d, 256, n) = FromDigits(d, 256, n)
      BY ManualNumbers
    <3>2. x = Manual!FromDigits([k \in 0 .. n - 1 |->
                                     Memory[Manual!Wrap(a + k)] % Manual!Power(2, XLen - 8 * k)], 256, n)
      BY <3>1 DEF Read
    <3> HIDE DEF x, n, a
    <3>3. a % n = 0 BY <1>6, <1>8
    <3> QED BY <1>6, <2>7, <2>8, <3>1, <3>2, <3>3 DEF Manual!Loads
  <2> QED BY <1>3, <1>5, <2>9 DEF Manual!Runs
<1> QED BY <1>7, <1>8 DEF Load, Data

\* An aligned access does not wrap around.
LEMMA NoWrap ==
    ASSUME IInv, dec' \in Temporaries, NEW n \in {1, 2, 4}, Num(Address) % n = 0,
           NEW k \in 0 .. n - 1
    PROVE  Num(Lane(k)) = Num(Address) + k
<1> DEFINE a == Num(Address)
           m == Power(2, XLen)
<1>1. PICK h \in Nat : m = 4 * h
  BY Widths
<1>2. a \in Nat /\ a < m
  BY NumBound
<1>3. k \in 0 .. 3 /\ k \in Nat
  OBVIOUS
<1>4. Num(Lane(k)) = (a + k) % m
  BY <1>3, LaneIs
<1> HIDE DEF a, m
<1>5. a + k < m
  <2> USE <1>1, <1>2, <1>3
  <2>1. CASE n = 1 BY <2>1
  <2>2. CASE n = 2
    <3>1. a % 2 = 0 BY <2>2 DEF a
    <3> QED BY <2>2, <3>1
  <2>3. CASE n = 4
    <3>1. a % 4 = 0 BY <2>3 DEF a
    <3> QED BY <2>3, <3>1
  <2> QED BY <2>1, <2>2, <2>3
<1>6. (a + k) % m = a + k
  <2>1. m \in Nat /\ a + k \in Nat BY <1>1, <1>2, <1>3
  <2> QED BY <1>5, <2>1, SmallRemainder
<1> QED BY <1>4, <1>6 DEF a, m

\* A byte of a register is that of its number.
LEMMA ByteOf ==
    ASSUME NEW w \in Word, NEW k \in 0 .. 3, NEW v,
           v = {j \in 0 .. 7 : 8 * k + j \in w}
    PROVE  Num(v) = (Num(w) \div Power(256, k)) % 256
<1> DEFINE x == Num(w)
           q == x \div Power(256, k)
<1>1. x \in Int /\ k \in Nat /\ 8 * k \in Nat /\ Power(256, k) = Power(2, 8 * k)
  BY NumBound, BytePower
<1>2. q \in Int
  BY <1>1, Two, Remainder
<1>3. ASSUME NEW j \in 0 .. 7 PROVE j \in v <=> BitOf(q, j) = 1
  <2>1. j \in Nat /\ 8 * k + j \in Nat BY <1>1
  <2>2. BitOf(q, j) = BitOf(x, 8 * k + j) BY <1>1, <2>1, BitShifted
  <2>3. BitOf(x, 8 * k + j) = One(8 * k + j \in w) BY <2>1, NumBits
  <2> QED BY <2>2, <2>3 DEF One
<1>4. v \in Byte
  BY DEF Byte
<1> HIDE DEF q
<1>5. Num(v) = q % 256
  BY <1>2, <1>3, <1>4, ByteNumber
<1> QED BY <1>5 DEF q

\* The stores.
LEMMA StoreRuns ==
    ASSUME IInv, dec' \in Temporaries, NEW i, WellFormed(i), Decodes(i), Store(i.name)
    PROVE  Manual!Runs(i)
<1> DEFINE n == Size(i.name)
           a == Num(Address)
<1>1. /\ A \in Word /\ B \in Word /\ Imm \in Word /\ i.imm \in Int /\ Num(A) \in Int
  BY Operands, NumBound DEF WellFormed
<1>2. i.name \in Stores
  BY DEF Store
<1>3. /\ i.name \notin Names(R) \cup {"fence"}
      /\ i.name \notin {"lui", "auipc", "jal", "fence"}
      /\ i.name \in Manual!Store
  BY <1>2 DEF Stores, Names, R, Manual!Store
<1>4. Num(Imm) = i.imm % Power(2, XLen) /\ Numbers[i.rs1] = Num(A) /\ Numbers[i.rs2] = Num(B)
  BY <1>2, <1>3, OperandsAre
<1>5. a = Manual!Wrap(Numbers[i.rs1] + i.imm)
  <2>1. Num(A) = Num(A) % Power(2, XLen) BY <1>1, NumModulo
  <2>2. Num(Plus(A, Imm)) = (Num(A) + i.imm) % Power(2, XLen) BY <1>1, <1>4, <2>1, SumIs
  <2> QED BY <1>4, <2>2, ManualNumbers DEF Address
<1>6. n = Manual!Width(i.name) /\ n \in {1, 2, 4} /\ (IsAligned(i.name) <=> a % n = 0)
  BY <1>2, AlignedIs
<1>7. CASE ~IsAligned(i.name) /\ Raises("store_misaligned")
  <2>1. Manual!Traps("store_misaligned") BY <1>7, RaisesTraps
  <2>2. Manual!Stores(i, a) BY <1>6, <1>7, <2>1 DEF Manual!Stores
  <2> QED BY <1>3, <1>5, <2>2 DEF Manual!Runs
<1> DEFINE
        Put(p) == IF \E k \in 0 .. n - 1 : p = Lane(k)
                  THEN {j \in 0 .. 7 : \E k \in 0 .. n - 1 : p = Lane(k) /\ 8 * k + j \in B}
                  ELSE mem[p]
<1>8. CASE /\ IsAligned(i.name)
           /\ mem' = [p \in MemAddr |-> Put(p)]
           /\ Goes(NextPc) /\ UNCHANGED reg
  <2>1. a % n = 0 /\ n \in Nat /\ a \in Nat /\ 0 .. n - 1 \subseteq 0 .. 3
    BY <1>6, <1>8, NumBound
  <2>2. \A k \in 0 .. n - 1 : Num(Lane(k)) = a + k /\ Lane(k) \in Word
    <3> SUFFICES ASSUME NEW k \in 0 .. n - 1 PROVE Num(Lane(k)) = a + k /\ Lane(k) \in Word
      OBVIOUS
    <3>1. k \in 0 .. 3 BY <2>1
    <3>2. Lane(k) \in Word BY <3>1, LaneIs
    <3> HIDE DEF n
    <3>3. Num(Lane(k)) = a + k BY <1>6, <2>1, NoWrap
    <3> QED BY <3>2, <3>3
  <2>3. ASSUME NEW b \in DOMAIN AddressOf
        PROVE  Num(mem'[AddressOf[b]])
                   = IF b \in a .. a + n - 1 THEN (Num(B) \div Power(256, b - a)) % 256
                     ELSE Memory[b]
    <3> DEFINE p == AddressOf[b]
    <3>1. p \in MemAddr /\ Num(p) = b BY MemoryIs
    <3>2. p \in Word BY <3>1, InstructionsAssumption
    <3>3. mem'[p] = Put(p) BY <1>8, <3>1
    <3>4. b \in Nat BY <3>1, NumBound
    <3>5. Memory[b] = Num(mem[p]) BY <3>1, MemoryIs
    <3> HIDE DEF n, a
    <3>6. CASE b \in a .. a + n - 1
      <4> DEFINE k == b - a
                 v == {j \in 0 .. 7 : 8 * k + j \in B}
      <4>1. k \in 0 .. n - 1 /\ k \in 0 .. 3 /\ a + k = b BY <2>1, <3>4, <3>6
      <4> HIDE DEF k, p
      <4>2. Num(Lane(k)) = b /\ Lane(k) \in Word BY <2>2, <4>1
      <4>3. p = Lane(k) BY <3>1, <3>2, <4>2, NumInjective
      <4>4. \A l \in 0 .. n - 1 : p = Lane(l) => l = k
        <5>1. ASSUME NEW l \in 0 .. n - 1, p = Lane(l) PROVE l = k
          <6>1. a + l = a + k BY <2>2, <4>1, <4>2, <4>3, <5>1
          <6> QED BY <2>1, <4>1, <6>1
        <5> QED BY <5>1
      <4>5. Put(p) = v BY <4>1, <4>3, <4>4
      <4> HIDE DEF v
      <4>6. Num(v) = (Num(B) \div Power(256, k)) % 256 BY <1>1, <4>1, ByteOf DEF v
      <4> QED BY <3>3, <3>6, <4>5, <4>6 DEF k, p
    <3>7. CASE b \notin a .. a + n - 1
      <4>1. \A k \in 0 .. n - 1 : p # Lane(k)
        <5>1. ASSUME NEW k \in 0 .. n - 1, p = Lane(k) PROVE FALSE
          <6>1. b = a + k BY <2>2, <3>1, <5>1
          <6> QED BY <2>1, <3>4, <3>7, <6>1
        <5> QED BY <5>1
      <4>2. Put(p) = mem[p] BY <4>1
      <4> QED BY <3>3, <3>5, <3>7, <4>2
    <3> QED BY <3>6, <3>7
  <2>4. Memory' = [b \in DOMAIN Memory |->
                      IF b \in a .. a + n - 1 THEN (Numbers[i.rs2] \div Manual!Power(256, b - a)) % 256
                      ELSE Memory[b]]
    <3>1. Memory' = [b \in DOMAIN AddressOf |-> Num(mem'[AddressOf[b]])] BY DEF Memory
    <3>2. DOMAIN Memory = DOMAIN AddressOf BY MemoryIs
    <3>3. \A k : Manual!Power(256, k) = Power(256, k) BY ManualNumbers
    <3> HIDE DEF n, a
    <3> QED BY <1>4, <2>3, <3>1, <3>2, <3>3
  <2>5. Manual!Continues /\ UNCHANGED Numbers
    BY <1>8, GoesTo, Stays
  <2>6. Manual!Stores(i, a)
    <3> HIDE DEF n, a
    <3> QED BY <1>6, <2>1, <2>4, <2>5 DEF Manual!Stores
  <2> QED BY <1>3, <1>5, <2>6 DEF Manual!Runs
<1> QED BY <1>7, <1>8 DEF Store

\* fence.
LEMMA FenceRuns ==
    ASSUME IInv, NEW i, Fence(i.name)
    PROVE  Manual!Runs(i)
<1>1. i.name = "fence" /\ Goes(NextPc) /\ UNCHANGED <<Numbers, Memory>>
  BY Stays DEF Fence
<1>2. Manual!Continues
  BY <1>1, GoesTo
<1> QED BY <1>1, <1>2 DEF Manual!Runs

\* What is decoded as instruction i is run as the manual runs i, or is none of
\* the manual's instructions.
LEMMA ExecutorsRun ==
    ASSUME IInv, dec' \in Temporaries, NEW i, WellFormed(i), Decodes(i),
           i.name \notin {"ecall", "ebreak", "mret"} \cup Csrs,
           \/ Compute(i.name) \/ Jump(i.name) \/ Branch(i.name) \/ Load(i.name)
           \/ Store(i.name) \/ Fence(i.name) \/ Privileged(i.name)
    PROVE  Manual!Runs(i)
<1>1. ~Privileged(i.name)
  BY DEF Privileged
<1> QED BY <1>1, ComputeRuns, JumpRuns, BranchRuns, LoadRuns, StoreRuns, FenceRuns

-----------------------------------------------------------------------------
(* The decoders, on what an assembler writes *)

\* The bits of a part of an instruction word.
LEMMA BitsAre ==
    ASSUME NEW x \in Int, NEW hi \in Nat, NEW lo \in Nat, NEW b \in Nat, NEW k \in Int
    PROVE  k \in Asm!Bits(x, hi, lo, b)
               <=> b <= k /\ (k - b) + lo <= hi /\ BitOf(x, (k - b) + lo) = 1
<1>1. \A j : (x \div Asm!Power(2, j)) % 2 = BitOf(x, j)
  BY DEF Asm!Power, Power, BitOf
<1>2. k \in Asm!Bits(x, hi, lo, b) <=> \E j \in lo .. hi : BitOf(x, j) = 1 /\ k = b + j - lo
  BY <1>1 DEF Asm!Bits
<1>3. ASSUME NEW j \in lo .. hi, k = b + j - lo PROVE b <= k /\ (k - b) + lo = j /\ j <= hi
  BY <1>3
<1>4. ASSUME b <= k, (k - b) + lo <= hi
      PROVE  (k - b) + lo \in lo .. hi /\ k = b + ((k - b) + lo) - lo
  BY <1>4
<1> QED BY <1>2, <1>3, <1>4

\* A number of up to seven bits is the sum of them.
LEMMA SevenBits ==
    ASSUME NEW x \in 0 .. 127
    PROVE  x = BitOf(x, 0) + 2 * BitOf(x, 1) + 4 * BitOf(x, 2) + 8 * BitOf(x, 3)
               + 16 * BitOf(x, 4) + 32 * BitOf(x, 5) + 64 * BitOf(x, 6)
<1>1. /\ BitOf(x, 0) = (x \div 1) % 2 /\ BitOf(x, 1) = (x \div 2) % 2
      /\ BitOf(x, 2) = (x \div 4) % 2 /\ BitOf(x, 3) = (x \div 8) % 2
      /\ BitOf(x, 4) = (x \div 16) % 2 /\ BitOf(x, 5) = (x \div 32) % 2
      /\ BitOf(x, 6) = (x \div 64) % 2
  BY SmallPowers DEF BitOf
<1>2. x = ((x \div 1) % 2) + 2 * ((x \div 2) % 2) + 4 * ((x \div 4) % 2) + 8 * ((x \div 8) % 2)
          + 16 * ((x \div 16) % 2) + 32 * ((x \div 32) % 2) + 64 * ((x \div 64) % 2)
  BY SMTT(60)
<1> QED BY <1>1, <1>2

\* The manual's listing of instruction n.
Op7(n) == Asm!Listing[n][1]
F3(n) == Asm!Listing[n][2]
F7(n) == Asm!Listing[n][3]

\* The tables have the instructions of the listing, all but srai: those on
\* registers,
LEMMA ListedR == \A n \in Asm!Op : <<n, Op7(n), F3(n), F7(n)>> \in R
BY DEF Asm!Op, Asm!Listing, R, Op7, F3, F7

\* those with immediates, loads, stores and branches,
LEMMA ListedISB ==
    \A n \in (Asm!OpImm \cup Asm!Shifts \cup Asm!Load \cup Asm!Store \cup Asm!Branch \cup {"jalr"})
             \ {"srai"} :
       <<n, Op7(n), F3(n), 0>> \in ISB /\ F7(n) = 0
<1>1. \A n \in Asm!OpImm \cup {"jalr"} : <<n, Op7(n), F3(n), 0>> \in ISB /\ F7(n) = 0
  BY DEF Asm!OpImm, Asm!Listing, ISB, Op7, F3, F7
<1>2. \A n \in Asm!Load : <<n, Op7(n), F3(n), 0>> \in ISB /\ F7(n) = 0
  BY DEF Asm!Load, Asm!Listing, ISB, Op7, F3, F7
<1>3. \A n \in Asm!Store : <<n, Op7(n), F3(n), 0>> \in ISB /\ F7(n) = 0
  BY DEF Asm!Store, Asm!Listing, ISB, Op7, F3, F7
<1>4. \A n \in Asm!Branch : <<n, Op7(n), F3(n), 0>> \in ISB /\ F7(n) = 0
  BY DEF Asm!Branch, Asm!Listing, ISB, Op7, F3, F7
<1>5. \A n \in Asm!Shifts \ {"srai"} : <<n, Op7(n), F3(n), 0>> \in ISB /\ F7(n) = 0
  BY DEF Asm!Shifts, Asm!Listing, ISB, Op7, F3, F7
<1> QED BY <1>1, <1>2, <1>3, <1>4, <1>5

\* lui, auipc and jal,
LEMMA ListedUJ == \A n \in {"lui", "auipc", "jal"} : <<n, Op7(n), 0, 0>> \in UJ
BY DEF Asm!Listing, UJ, Op7

\* and fence.
LEMMA ListedSys == <<"fence", Op7("fence"), 0, 0>> \in Sys /\ F3("fence") = 0
BY DEF Asm!Listing, Sys, Op7, F3

\* Opcodes, funct3 and funct7 fit into their fields.
LEMMA ListedFits ==
    \A n \in DOMAIN Asm!Listing : Op7(n) \in 0 .. 127 /\ F3(n) \in 0 .. 7 /\ F7(n) \in 0 .. 127
BY SMTT(60) DEF Asm!Listing, Op7, F3, F7

\* The names that there are.
LEMMA ListedNames ==
    DOMAIN Asm!Listing = Asm!OpImm \cup Asm!Shifts \cup Asm!Load \cup Asm!Store \cup Asm!Branch
                         \cup Asm!Op \cup {"jalr", "lui", "auipc", "jal", "fence"}
BY DEF Asm!Listing, Asm!OpImm, Asm!Shifts, Asm!Load, Asm!Store, Asm!Branch, Asm!Op

\* A field that holds the number x is read as x.
LEMMA FieldIs ==
    ASSUME NEW c, NEW b \in Nat, NEW n \in {3, 5, 7}, NEW x \in Nat, x < Power(2, n),
           \A k \in b .. b + n - 1 : k \in c <=> k \in Asm!Bits(x, n - 1, 0, b)
    PROVE  Field(c, b, n) = x
<1> DEFINE v(j) == IF j < n /\ b + j \in c THEN 1 ELSE 0
<1>1. x \in 0 .. 127 /\ x \in Int
  BY SmallPowers
<1>2. ASSUME NEW j \in 0 .. 6 PROVE v(j) = BitOf(x, j)
  <2>1. BitOf(x, j) \in {0, 1} BY BitIs
  <2>2. CASE j < n
    <3>1. b + j \in b .. b + n - 1 /\ b + j \in Int /\ ((b + j) - b) + 0 = j /\ j <= n - 1 /\ b <= b + j
      BY <2>2
    <3> DEFINE k == b + j
               h == n - 1
    <3>2. h \in Nat /\ 0 \in Nat OBVIOUS
    <3> HIDE DEF k, h
    <3>3. k \in Asm!Bits(x, h, 0, b) <=> b <= k /\ (k - b) + 0 <= h /\ BitOf(x, (k - b) + 0) = 1
      BY <1>1, <3>1, <3>2, BitsAre DEF k
    <3>4. k \in Asm!Bits(x, h, 0, b) <=> BitOf(x, j) = 1
      BY <3>1, <3>3 DEF k, h
    <3> QED BY <2>1, <2>2, <3>1, <3>4 DEF k, h
  <2>3. CASE ~(j < n)
    <3>1. -Power(2, n) <= x /\ n \in Nat /\ j \in Nat /\ j >= n /\ ~(x < 0)
      BY <1>1, <2>3, Two
    <3>2. BitOf(x, j) = IF x < 0 THEN 1 ELSE 0
      BY <1>1, <3>1, BitsAbove
    <3> QED BY <2>3, <3>1, <3>2
  <2> QED BY <2>2, <2>3
<1>3. Field(c, b, n) = v(0) + 2 * v(1) + 4 * v(2) + 8 * v(3) + 16 * v(4) + 32 * v(5) + 64 * v(6)
  BY DEF Field
<1>4. /\ v(0) = BitOf(x, 0) /\ v(1) = BitOf(x, 1) /\ v(2) = BitOf(x, 2) /\ v(3) = BitOf(x, 3)
      /\ v(4) = BitOf(x, 4) /\ v(5) = BitOf(x, 5) /\ v(6) = BitOf(x, 6)
  BY <1>2
<1> HIDE DEF v
<1> QED BY <1>1, <1>3, <1>4, SevenBits

\* The same for the fields of each width.
LEMMA FieldsAre ==
    ASSUME NEW c, NEW b \in Nat, NEW x \in Nat
    PROVE  /\ x <= 127 /\ (\A k \in b .. b + 6 : k \in c <=> k \in Asm!Bits(x, 6, 0, b))
                 => Field(c, b, 7) = x
           /\ x <= 31 /\ (\A k \in b .. b + 4 : k \in c <=> k \in Asm!Bits(x, 4, 0, b))
                 => Field(c, b, 5) = x
           /\ x <= 7 /\ (\A k \in b .. b + 2 : k \in c <=> k \in Asm!Bits(x, 2, 0, b))
                 => Field(c, b, 3) = x
<1>1. Power(2, 7) = 128 /\ Power(2, 5) = 32 /\ Power(2, 3) = 8
  BY SmallPowers
<1>2. ASSUME x <= 127, \A k \in b .. b + 6 : k \in c <=> k \in Asm!Bits(x, 6, 0, b)
      PROVE  Field(c, b, 7) = x
  <2> DEFINE n == 7
  <2>1. n = 7 /\ n - 1 = 6 /\ b + n - 1 = b + 6 /\ n \in {3, 5, 7} OBVIOUS
  <2> HIDE DEF n
  <2>2. x < Power(2, n) BY <1>1, <1>2, <2>1
  <2>3. \A k \in b .. b + n - 1 : k \in c <=> k \in Asm!Bits(x, n - 1, 0, b) BY <1>2, <2>1
  <2>4. Field(c, b, n) = x BY <2>1, <2>2, <2>3, FieldIs
  <2> QED BY <2>1, <2>4
<1>3. ASSUME x <= 31, \A k \in b .. b + 4 : k \in c <=> k \in Asm!Bits(x, 4, 0, b)
      PROVE  Field(c, b, 5) = x
  <2> DEFINE n == 5
  <2>1. n = 5 /\ n - 1 = 4 /\ b + n - 1 = b + 4 /\ n \in {3, 5, 7} OBVIOUS
  <2> HIDE DEF n
  <2>2. x < Power(2, n) BY <1>1, <1>3, <2>1
  <2>3. \A k \in b .. b + n - 1 : k \in c <=> k \in Asm!Bits(x, n - 1, 0, b) BY <1>3, <2>1
  <2>4. Field(c, b, n) = x BY <2>1, <2>2, <2>3, FieldIs
  <2> QED BY <2>1, <2>4
<1>4. ASSUME x <= 7, \A k \in b .. b + 2 : k \in c <=> k \in Asm!Bits(x, 2, 0, b)
      PROVE  Field(c, b, 3) = x
  <2> DEFINE n == 3
  <2>1. n = 3 /\ n - 1 = 2 /\ b + n - 1 = b + 2 /\ n \in {3, 5, 7} OBVIOUS
  <2> HIDE DEF n
  <2>2. x < Power(2, n) BY <1>1, <1>4, <2>1
  <2>3. \A k \in b .. b + n - 1 : k \in c <=> k \in Asm!Bits(x, n - 1, 0, b) BY <1>4, <2>1
  <2>4. Field(c, b, n) = x BY <2>1, <2>2, <2>3, FieldIs
  <2> QED BY <2>1, <2>4
<1> QED BY <1>2, <1>3, <1>4

\* The places of the fields.
LEMMA Places ==
    ASSUME NEW x
    PROVE  /\ Asm!Bits(x, 6, 0, 0) \subseteq 0 .. 6
           /\ Asm!Bits(x, 4, 0, 7) \subseteq 7 .. 11
           /\ Asm!Bits(x, 2, 0, 12) \subseteq 12 .. 14
           /\ Asm!Bits(x, 4, 0, 15) \subseteq 15 .. 19
           /\ Asm!Bits(x, 4, 0, 20) \subseteq 20 .. 24
           /\ Asm!Bits(x, 6, 0, 25) \subseteq 25 .. 31
           /\ Asm!Bits(x, 11, 0, 20) \subseteq 20 .. 31
           /\ Asm!Bits(x, 11, 5, 25) \subseteq 25 .. 31
           /\ Asm!Bits(x, 12, 12, 31) \subseteq 31 .. 31
           /\ Asm!Bits(x, 10, 5, 25) \subseteq 25 .. 30
           /\ Asm!Bits(x, 4, 1, 8) \subseteq 8 .. 11
           /\ Asm!Bits(x, 11, 11, 7) \subseteq 7 .. 7
           /\ Asm!Bits(x, 19, 0, 12) \subseteq 12 .. 31
           /\ Asm!Bits(x, 20, 20, 31) \subseteq 31 .. 31
           /\ Asm!Bits(x, 10, 1, 21) \subseteq 21 .. 30
           /\ Asm!Bits(x, 11, 11, 20) \subseteq 20 .. 20
           /\ Asm!Bits(x, 19, 12, 12) \subseteq 12 .. 19
<1>1. Asm!Bits(x, 6, 0, 0) \subseteq 0 .. 6 BY DEF Asm!Bits
<1>2. Asm!Bits(x, 4, 0, 7) \subseteq 7 .. 11 BY DEF Asm!Bits
<1>3. Asm!Bits(x, 2, 0, 12) \subseteq 12 .. 14 BY DEF Asm!Bits
<1>4. Asm!Bits(x, 4, 0, 15) \subseteq 15 .. 19 BY DEF Asm!Bits
<1>5. Asm!Bits(x, 4, 0, 20) \subseteq 20 .. 24 BY DEF Asm!Bits
<1>6. Asm!Bits(x, 6, 0, 25) \subseteq 25 .. 31 BY DEF Asm!Bits
<1>7. Asm!Bits(x, 11, 0, 20) \subseteq 20 .. 31 BY DEF Asm!Bits
<1>8. Asm!Bits(x, 11, 5, 25) \subseteq 25 .. 31 BY DEF Asm!Bits
<1>9. Asm!Bits(x, 12, 12, 31) \subseteq 31 .. 31 BY DEF Asm!Bits
<1>10. Asm!Bits(x, 10, 5, 25) \subseteq 25 .. 30 BY DEF Asm!Bits
<1>11. Asm!Bits(x, 4, 1, 8) \subseteq 8 .. 11 BY DEF Asm!Bits
<1>12. Asm!Bits(x, 11, 11, 7) \subseteq 7 .. 7 BY DEF Asm!Bits
<1>13. Asm!Bits(x, 19, 0, 12) \subseteq 12 .. 31 BY DEF Asm!Bits
<1>14. Asm!Bits(x, 20, 20, 31) \subseteq 31 .. 31 BY DEF Asm!Bits
<1>15. Asm!Bits(x, 10, 1, 21) \subseteq 21 .. 30 BY DEF Asm!Bits
<1>16. Asm!Bits(x, 11, 11, 20) \subseteq 20 .. 20 BY DEF Asm!Bits
<1>17. Asm!Bits(x, 19, 12, 12) \subseteq 12 .. 19 BY DEF Asm!Bits
<1> QED BY <1>1, <1>2, <1>3, <1>4, <1>5, <1>6, <1>7, <1>8, <1>9,
           <1>10, <1>11, <1>12, <1>13, <1>14, <1>15, <1>16, <1>17

\* The bits of the immediates, in their places.
LEMMA PlacedBits ==
    ASSUME NEW x \in Int
    PROVE  /\ (\A k \in 20 .. 31 : k \in Asm!Bits(x, 11, 0, 20) <=> BitOf(x, k - 20) = 1)
           /\ (\A k \in 20 .. 24 : k \in Asm!Bits(x, 4, 0, 20) <=> BitOf(x, k - 20) = 1)
           /\ (\A k \in 25 .. 31 : k \in Asm!Bits(x, 11, 5, 25) <=> BitOf(x, k - 20) = 1)
           /\ (\A k \in 7 .. 11 : k \in Asm!Bits(x, 4, 0, 7) <=> BitOf(x, k - 7) = 1)
           /\ (31 \in Asm!Bits(x, 12, 12, 31) <=> BitOf(x, 12) = 1)
           /\ (\A k \in 25 .. 30 : k \in Asm!Bits(x, 10, 5, 25) <=> BitOf(x, k - 20) = 1)
           /\ (\A k \in 8 .. 11 : k \in Asm!Bits(x, 4, 1, 8) <=> BitOf(x, k - 7) = 1)
           /\ (7 \in Asm!Bits(x, 11, 11, 7) <=> BitOf(x, 11) = 1)
           /\ (\A k \in 12 .. 31 : k \in Asm!Bits(x, 19, 0, 12) <=> BitOf(x, k - 12) = 1)
           /\ (31 \in Asm!Bits(x, 20, 20, 31) <=> BitOf(x, 20) = 1)
           /\ (\A k \in 21 .. 30 : k \in Asm!Bits(x, 10, 1, 21) <=> BitOf(x, k - 20) = 1)
           /\ (20 \in Asm!Bits(x, 11, 11, 20) <=> BitOf(x, 11) = 1)
           /\ (\A k \in 12 .. 19 : k \in Asm!Bits(x, 19, 12, 12) <=> BitOf(x, k) = 1)
<1>0. \A j : (x \div Asm!Power(2, j)) % 2 = BitOf(x, j)
  BY DEF Asm!Power, Power, BitOf
<1>1. \A k \in 20 .. 31 : k \in Asm!Bits(x, 11, 0, 20) <=> BitOf(x, k - 20) = 1
  <2> SUFFICES ASSUME NEW k \in 20 .. 31
               PROVE  k \in Asm!Bits(x, 11, 0, 20) <=> BitOf(x, k - 20) = 1
    OBVIOUS
  <2>1. k \in Asm!Bits(x, 11, 0, 20) <=> \E j \in 0 .. 11 : BitOf(x, j) = 1 /\ k = 20 + j - 0
    BY <1>0 DEF Asm!Bits
  <2>2. \A j \in 0 .. 11 : k = 20 + j - 0 <=> j = k - 20
    OBVIOUS
  <2>3. k - 20 \in 0 .. 11
    OBVIOUS
  <2> QED BY <2>1, <2>2, <2>3
<1>2. \A k \in 20 .. 24 : k \in Asm!Bits(x, 4, 0, 20) <=> BitOf(x, k - 20) = 1
  <2> SUFFICES ASSUME NEW k \in 20 .. 24
               PROVE  k \in Asm!Bits(x, 4, 0, 20) <=> BitOf(x, k - 20) = 1
    OBVIOUS
  <2>1. k \in Asm!Bits(x, 4, 0, 20) <=> \E j \in 0 .. 4 : BitOf(x, j) = 1 /\ k = 20 + j - 0
    BY <1>0 DEF Asm!Bits
  <2>2. \A j \in 0 .. 4 : k = 20 + j - 0 <=> j = k - 20
    OBVIOUS
  <2>3. k - 20 \in 0 .. 4
    OBVIOUS
  <2> QED BY <2>1, <2>2, <2>3
<1>3. \A k \in 25 .. 31 : k \in Asm!Bits(x, 11, 5, 25) <=> BitOf(x, k - 20) = 1
  <2> SUFFICES ASSUME NEW k \in 25 .. 31
               PROVE  k \in Asm!Bits(x, 11, 5, 25) <=> BitOf(x, k - 20) = 1
    OBVIOUS
  <2>1. k \in Asm!Bits(x, 11, 5, 25) <=> \E j \in 5 .. 11 : BitOf(x, j) = 1 /\ k = 25 + j - 5
    BY <1>0 DEF Asm!Bits
  <2>2. \A j \in 5 .. 11 : k = 25 + j - 5 <=> j = k - 20
    OBVIOUS
  <2>3. k - 20 \in 5 .. 11
    OBVIOUS
  <2> QED BY <2>1, <2>2, <2>3
<1>4. \A k \in 7 .. 11 : k \in Asm!Bits(x, 4, 0, 7) <=> BitOf(x, k - 7) = 1
  <2> SUFFICES ASSUME NEW k \in 7 .. 11
               PROVE  k \in Asm!Bits(x, 4, 0, 7) <=> BitOf(x, k - 7) = 1
    OBVIOUS
  <2>1. k \in Asm!Bits(x, 4, 0, 7) <=> \E j \in 0 .. 4 : BitOf(x, j) = 1 /\ k = 7 + j - 0
    BY <1>0 DEF Asm!Bits
  <2>2. \A j \in 0 .. 4 : k = 7 + j - 0 <=> j = k - 7
    OBVIOUS
  <2>3. k - 7 \in 0 .. 4
    OBVIOUS
  <2> QED BY <2>1, <2>2, <2>3
<1>5. 31 \in Asm!Bits(x, 12, 12, 31) <=> BitOf(x, 12) = 1
  <2>1. 31 \in Asm!Bits(x, 12, 12, 31) <=> \E j \in {12} : BitOf(x, j) = 1
    <3>1. 12 .. 12 = {12} /\ \A j \in {12} : (31 + j) - 12 = 31 OBVIOUS
    <3> QED BY <3>1, <1>0 DEF Asm!Bits
  <2> QED BY <2>1
<1>6. \A k \in 25 .. 30 : k \in Asm!Bits(x, 10, 5, 25) <=> BitOf(x, k - 20) = 1
  <2> SUFFICES ASSUME NEW k \in 25 .. 30
               PROVE  k \in Asm!Bits(x, 10, 5, 25) <=> BitOf(x, k - 20) = 1
    OBVIOUS
  <2>1. k \in Asm!Bits(x, 10, 5, 25) <=> \E j \in 5 .. 10 : BitOf(x, j) = 1 /\ k = 25 + j - 5
    BY <1>0 DEF Asm!Bits
  <2>2. \A j \in 5 .. 10 : k = 25 + j - 5 <=> j = k - 20
    OBVIOUS
  <2>3. k - 20 \in 5 .. 10
    OBVIOUS
  <2> QED BY <2>1, <2>2, <2>3
<1>7. \A k \in 8 .. 11 : k \in Asm!Bits(x, 4, 1, 8) <=> BitOf(x, k - 7) = 1
  <2> SUFFICES ASSUME NEW k \in 8 .. 11
               PROVE  k \in Asm!Bits(x, 4, 1, 8) <=> BitOf(x, k - 7) = 1
    OBVIOUS
  <2>1. k \in Asm!Bits(x, 4, 1, 8) <=> \E j \in 1 .. 4 : BitOf(x, j) = 1 /\ k = 8 + j - 1
    BY <1>0 DEF Asm!Bits
  <2>2. \A j \in 1 .. 4 : k = 8 + j - 1 <=> j = k - 7
    OBVIOUS
  <2>3. k - 7 \in 1 .. 4
    OBVIOUS
  <2> QED BY <2>1, <2>2, <2>3
<1>8. 7 \in Asm!Bits(x, 11, 11, 7) <=> BitOf(x, 11) = 1
  <2>1. 7 \in Asm!Bits(x, 11, 11, 7) <=> \E j \in {11} : BitOf(x, j) = 1
    <3>1. 11 .. 11 = {11} /\ \A j \in {11} : (7 + j) - 11 = 7 OBVIOUS
    <3> QED BY <3>1, <1>0 DEF Asm!Bits
  <2> QED BY <2>1
<1>9. \A k \in 12 .. 31 : k \in Asm!Bits(x, 19, 0, 12) <=> BitOf(x, k - 12) = 1
  <2> SUFFICES ASSUME NEW k \in 12 .. 31
               PROVE  k \in Asm!Bits(x, 19, 0, 12) <=> BitOf(x, k - 12) = 1
    OBVIOUS
  <2>1. k \in Asm!Bits(x, 19, 0, 12) <=> \E j \in 0 .. 19 : BitOf(x, j) = 1 /\ k = 12 + j - 0
    BY <1>0 DEF Asm!Bits
  <2>2. \A j \in 0 .. 19 : k = 12 + j - 0 <=> j = k - 12
    OBVIOUS
  <2>3. k - 12 \in 0 .. 19
    OBVIOUS
  <2> QED BY <2>1, <2>2, <2>3
<1>10. 31 \in Asm!Bits(x, 20, 20, 31) <=> BitOf(x, 20) = 1
  <2>1. 31 \in Asm!Bits(x, 20, 20, 31) <=> \E j \in {20} : BitOf(x, j) = 1
    <3>1. 20 .. 20 = {20} /\ \A j \in {20} : (31 + j) - 20 = 31 OBVIOUS
    <3> QED BY <3>1, <1>0 DEF Asm!Bits
  <2> QED BY <2>1
<1>11. \A k \in 21 .. 30 : k \in Asm!Bits(x, 10, 1, 21) <=> BitOf(x, k - 20) = 1
  <2> SUFFICES ASSUME NEW k \in 21 .. 30
               PROVE  k \in Asm!Bits(x, 10, 1, 21) <=> BitOf(x, k - 20) = 1
    OBVIOUS
  <2>1. k \in Asm!Bits(x, 10, 1, 21) <=> \E j \in 1 .. 10 : BitOf(x, j) = 1 /\ k = 21 + j - 1
    BY <1>0 DEF Asm!Bits
  <2>2. \A j \in 1 .. 10 : k = 21 + j - 1 <=> j = k - 20
    OBVIOUS
  <2>3. k - 20 \in 1 .. 10
    OBVIOUS
  <2> QED BY <2>1, <2>2, <2>3
<1>12. 20 \in Asm!Bits(x, 11, 11, 20) <=> BitOf(x, 11) = 1
  <2>1. 20 \in Asm!Bits(x, 11, 11, 20) <=> \E j \in {11} : BitOf(x, j) = 1
    <3>1. 11 .. 11 = {11} /\ \A j \in {11} : (20 + j) - 11 = 20 OBVIOUS
    <3> QED BY <3>1, <1>0 DEF Asm!Bits
  <2> QED BY <2>1
<1>13. \A k \in 12 .. 19 : k \in Asm!Bits(x, 19, 12, 12) <=> BitOf(x, k) = 1
  <2> SUFFICES ASSUME NEW k \in 12 .. 19
               PROVE  k \in Asm!Bits(x, 19, 12, 12) <=> BitOf(x, k) = 1
    OBVIOUS
  <2>1. k \in Asm!Bits(x, 19, 12, 12) <=> \E j \in 12 .. 19 : BitOf(x, j) = 1 /\ k = 12 + j - 12
    BY <1>0 DEF Asm!Bits
  <2>2. \A j \in 12 .. 19 : k = 12 + j - 12 <=> j = k
    OBVIOUS
  <2>3. k \in 12 .. 19
    OBVIOUS
  <2> QED BY <2>1, <2>2, <2>3
<1> QED BY <1>1, <1>2, <1>3, <1>4, <1>5, <1>6, <1>7,
           <1>8, <1>9, <1>10, <1>11, <1>12, <1>13

\* What Fits says of the registers and of the name.
LEMMA FitsIn ==
    ASSUME NEW i, Asm!Fits(i)
    PROVE  /\ i.rd \in Nat /\ i.rd <= 31 /\ i.rs1 \in Nat /\ i.rs1 <= 31
           /\ i.rs2 \in Nat /\ i.rs2 <= 31 /\ i.imm \in Int
           /\ Op7(i.name) \in Nat /\ Op7(i.name) <= 127
           /\ F3(i.name) \in Nat /\ F3(i.name) <= 7
           /\ F7(i.name) \in Nat /\ F7(i.name) <= 127
<1>1. i.rd \in 0 .. 31 /\ i.rs1 \in 0 .. 31 /\ i.rs2 \in 0 .. 31 /\ i.imm \in Int
  BY DEF Asm!Fits
<1>2. Op7(i.name) \in 0 .. 127 /\ F3(i.name) \in 0 .. 7 /\ F7(i.name) \in 0 .. 127
  BY ListedFits DEF Asm!Fits
<1> QED BY <1>1, <1>2

\* Immediates have twelve bits,
LEMMA FitsTwelve ==
    ASSUME NEW i, Asm!Fits(i)
    PROVE  i.name \in Asm!OpImm \cup Asm!Load \cup Asm!Store \cup {"jalr"} =>
              i.imm \in -2048 .. 2047
BY ZenonT(60) DEF Asm!Fits

\* and the targets of branches thirteen.
LEMMA FitsBranch ==
    ASSUME NEW i, Asm!Fits(i)
    PROVE  i.name \in Asm!Branch => i.imm \in -4096 .. 4095 /\ i.imm % 2 = 0
BY ZenonT(60) DEF Asm!Fits

\* Upper immediates end in twelve zeroes.
LEMMA FitsUpper ==
    ASSUME NEW i, Asm!Fits(i)
    PROVE  i.name \in {"lui", "auipc"} => i.imm % 4096 = 0
<1>1. i.name \in {"lui", "auipc"} =>
         /\ i.imm % 4096 = 0
         /\ i.imm \div 4096 \in -Asm!Power(2, 19) .. Asm!Power(2, 19) - 1
  BY ZenonT(60) DEF Asm!Fits
<1> QED BY <1>1

\* And jal goes twenty bits far.
LEMMA FitsJump ==
    ASSUME NEW i, Asm!Fits(i)
    PROVE  i.name = "jal" => i.imm \in -Power(2, 20) .. Power(2, 20) - 1 /\ i.imm % 2 = 0
<1>1. Asm!Power(2, 20) = Power(2, 20)
  BY DEF Asm!Power, Power
<1>2. i.name = "jal" => i.imm \in -Asm!Power(2, 20) .. Asm!Power(2, 20) - 1 /\ i.imm % 2 = 0
  BY ZenonT(60) DEF Asm!Fits
<1> QED BY <1>1, <1>2

\* The kinds of instructions have no name in common.
LEMMA KindsApart ==
    ASSUME NEW n
    PROVE  /\ n \in Asm!Op => n \notin Asm!Shifts \cup Asm!OpImm \cup Asm!Load \cup Asm!Store
                                       \cup Asm!Branch \cup {"jalr", "fence", "lui", "auipc", "jal"}
           /\ n \in Asm!Shifts => n \notin Asm!OpImm \cup Asm!Load \cup Asm!Store
                                       \cup Asm!Branch \cup {"jalr", "fence", "lui", "auipc", "jal"}
           /\ n \in Asm!OpImm \cup Asm!Load \cup {"jalr", "fence"} =>
                 n \notin Asm!Store \cup Asm!Branch \cup {"lui", "auipc", "jal"}
           /\ n \in Asm!Store => n \notin Asm!Branch \cup {"lui", "auipc", "jal"}
           /\ n \in Asm!Branch => n \notin {"lui", "auipc", "jal"}
BY DEF Asm!Op, Asm!Shifts, Asm!OpImm, Asm!Load, Asm!Store, Asm!Branch

\* The formats.
LEMMA FormatOf ==
    ASSUME NEW i
    PROVE  LET rd == Asm!Bits(i.rd, 4, 0, 7)
               rs1 == Asm!Bits(i.rs1, 4, 0, 15)
               rs2 == Asm!Bits(i.rs2, 4, 0, 20)
               f3 == Asm!Bits(F3(i.name), 2, 0, 12)
               f7 == Asm!Bits(F7(i.name), 6, 0, 25)
               op == Asm!Bits(Op7(i.name), 6, 0, 0)
               c == Asm!Encoding(i)
           IN  /\ i.name \in Asm!Op => c = op \cup (rd \cup rs1 \cup rs2 \cup f3 \cup f7)
               /\ i.name \in Asm!Shifts =>
                     c = op \cup (rd \cup rs1 \cup f3 \cup Asm!Bits(i.imm, 4, 0, 20) \cup f7)
               /\ i.name \in Asm!OpImm \cup Asm!Load \cup {"jalr", "fence"} =>
                     c = op \cup (rd \cup rs1 \cup f3 \cup Asm!Bits(i.imm, 11, 0, 20))
               /\ i.name \in Asm!Store =>
                     c = op \cup (rs1 \cup rs2 \cup f3 \cup Asm!Bits(i.imm, 11, 5, 25)
                                  \cup Asm!Bits(i.imm, 4, 0, 7))
               /\ i.name \in Asm!Branch =>
                     c = op \cup (rs1 \cup rs2 \cup f3
                                  \cup Asm!Bits(i.imm, 12, 12, 31) \cup Asm!Bits(i.imm, 10, 5, 25)
                                  \cup Asm!Bits(i.imm, 4, 1, 8) \cup Asm!Bits(i.imm, 11, 11, 7))
               /\ i.name \in {"lui", "auipc"} =>
                     c = op \cup (rd \cup Asm!Bits(i.imm \div 4096, 19, 0, 12))
               /\ i.name = "jal" =>
                     c = op \cup (rd \cup Asm!Bits(i.imm, 20, 20, 31) \cup Asm!Bits(i.imm, 10, 1, 21)
                                  \cup Asm!Bits(i.imm, 11, 11, 20) \cup Asm!Bits(i.imm, 19, 12, 12))
<1> DEFINE n == i.name
<1>1. CASE n \in Asm!Op
  BY <1>1, KindsApart DEF Asm!Encoding, Asm!Fields, Op7, F3, F7
<1>2. CASE n \in Asm!Shifts
  BY <1>2, KindsApart DEF Asm!Encoding, Asm!Fields, Op7, F3, F7
<1>3. CASE n \in Asm!OpImm \cup Asm!Load \cup {"jalr", "fence"}
  BY <1>3, KindsApart DEF Asm!Encoding, Asm!Fields, Op7, F3, F7
<1>4. CASE n \in Asm!Store
  BY <1>4, KindsApart DEF Asm!Encoding, Asm!Fields, Op7, F3, F7
<1>5. CASE n \in Asm!Branch
  BY <1>5, KindsApart DEF Asm!Encoding, Asm!Fields, Op7, F3, F7
<1>6. CASE n \in {"lui", "auipc"}
  BY <1>6, KindsApart DEF Asm!Encoding, Asm!Fields, Op7, F3, F7
<1>7. CASE n = "jal"
  BY <1>7, KindsApart DEF Asm!Encoding, Asm!Fields, Op7, F3, F7
<1> QED BY <1>1, <1>2, <1>3, <1>4, <1>5, <1>6, <1>7

\* The fields of the instructions on registers.
LEMMA FormatR ==
    ASSUME NEW i, Asm!Fits(i), i.name \in Asm!Op, NEW c, c = Asm!Encoding(i)
    PROVE  /\ Opcode(c) = Op7(i.name) /\ Funct3(c) = F3(i.name) /\ Funct7(c) = F7(i.name)
           /\ Rd(c) = i.rd /\ Rs1(c) = i.rs1 /\ Rs2(c) = i.rs2
<1> DEFINE op == Asm!Bits(Op7(i.name), 6, 0, 0)
           rd == Asm!Bits(i.rd, 4, 0, 7)
           f3 == Asm!Bits(F3(i.name), 2, 0, 12)
           rs1 == Asm!Bits(i.rs1, 4, 0, 15)
           rs2 == Asm!Bits(i.rs2, 4, 0, 20)
           f7 == Asm!Bits(F7(i.name), 6, 0, 25)
<1>1. c = op \cup (rd \cup rs1 \cup rs2 \cup f3 \cup f7)
  BY FormatOf
<1>2. /\ op \subseteq 0 .. 6 /\ rd \subseteq 7 .. 11 /\ f3 \subseteq 12 .. 14
      /\ rs1 \subseteq 15 .. 19 /\ rs2 \subseteq 20 .. 24 /\ f7 \subseteq 25 .. 31
  BY Places
<1> HIDE DEF op, rd, f3, rs1, rs2, f7
<1>3. /\ \A k \in 0 .. 0 + 6 : k \in c <=> k \in op
      /\ \A k \in 7 .. 7 + 4 : k \in c <=> k \in rd
      /\ \A k \in 12 .. 12 + 2 : k \in c <=> k \in f3
      /\ \A k \in 15 .. 15 + 4 : k \in c <=> k \in rs1
      /\ \A k \in 20 .. 20 + 4 : k \in c <=> k \in rs2
      /\ \A k \in 25 .. 25 + 6 : k \in c <=> k \in f7
  BY <1>1, <1>2
<1>4. Opcode(c) = Op7(i.name) BY <1>3, FitsIn, FieldsAre DEF op, Opcode
<1>5. Funct3(c) = F3(i.name) BY <1>3, FitsIn, FieldsAre DEF f3, Funct3
<1>6. Funct7(c) = F7(i.name) BY <1>3, FitsIn, FieldsAre DEF f7, Funct7
<1>7. Rd(c) = i.rd BY <1>3, FitsIn, FieldsAre DEF rd, Rd
<1>8. Rs1(c) = i.rs1 BY <1>3, FitsIn, FieldsAre DEF rs1, Rs1
<1>9. Rs2(c) = i.rs2 BY <1>3, FitsIn, FieldsAre DEF rs2, Rs2
<1> QED BY <1>4, <1>5, <1>6, <1>7, <1>8, <1>9

\* In two's complement the sign goes on to the left.
LEMMA SignGoesOn ==
    ASSUME NEW n \in Nat, NEW x \in Int, -Power(2, n) <= x, x < Power(2, n),
           NEW k \in Nat, k >= n
    PROVE  BitOf(x, k) = BitOf(x, n)
<1>1. BitOf(x, k) = IF x < 0 THEN 1 ELSE 0
  BY BitsAbove
<1>2. BitOf(x, n) = IF x < 0 THEN 1 ELSE 0
  <2>1. n >= n OBVIOUS
  <2> QED BY <2>1, BitsAbove
<1> QED BY <1>1, <1>2

\* An immediate of twelve bits at the top of the word.
LEMMA ImmIIs ==
    ASSUME NEW x \in Int, -2048 <= x, x <= 2047, NEW c,
           \A k \in 20 .. 31 : k \in c <=> BitOf(x, k - 20) = 1
    PROVE  ImmI(c) = WordOf(x)
<1>1. XLen \in Nat /\ XLen >= 25
  BY Widths
<1>2. \A k \in 0 .. 11 : k \in ImmI(c) <=> BitOf(x, k) = 1
  <2> SUFFICES ASSUME NEW k \in 0 .. 11 PROVE k \in ImmI(c) <=> BitOf(x, k) = 1
    OBVIOUS
  <2>1. k + 20 \in 20 .. 31 /\ (k + 20) - 20 = k /\ ~(k >= 12) OBVIOUS
  <2>2. k + 20 \in c <=> BitOf(x, k) = 1 BY <2>1
  <2> QED BY <2>1, <2>2 DEF ImmI, SignFrom
<1>3. \A k \in Bit : k >= 12 => (k \in ImmI(c) <=> BitOf(x, k) = 1)
  <2> SUFFICES ASSUME NEW k \in Bit, k >= 12 PROVE k \in ImmI(c) <=> BitOf(x, k) = 1
    OBVIOUS
  <2>1. k \in Nat /\ k \notin 0 .. 11 /\ k >= 11 BY DEF Bit
  <2>2. Power(2, 11) = 2048 BY SmallPowers
  <2>3. -Power(2, 11) <= x /\ x < Power(2, 11) BY <2>2
  <2>4. BitOf(x, k) = BitOf(x, 11) BY <2>1, <2>3, SignGoesOn
  <2>5. 31 \in c <=> BitOf(x, 11) = 1
    <3>1. 31 \in 20 .. 31 /\ 31 - 20 = 11 OBVIOUS
    <3> QED BY <3>1
  <2> QED BY <2>1, <2>4, <2>5 DEF ImmI, SignFrom
<1>4. \A k \in ImmI(c) : k \in Bit
  BY <1>1 DEF ImmI, SignFrom, Bit
<1>5. \A k \in Bit : k \in 0 .. 11 \/ k >= 12
  BY DEF Bit
<1> QED BY <1>2, <1>3, <1>4, <1>5 DEF WordOf

\* Those of stores, in two parts.
LEMMA ImmSIs ==
    ASSUME NEW x \in Int, -2048 <= x, x <= 2047, NEW c,
           \A k \in 7 .. 11 : k \in c <=> BitOf(x, k - 7) = 1,
           \A k \in 25 .. 31 : k \in c <=> BitOf(x, k - 20) = 1
    PROVE  ImmS(c) = WordOf(x)
<1>1. XLen \in Nat /\ XLen >= 25
  BY Widths
<1>2. \A k \in 0 .. 4 : k \in ImmS(c) <=> BitOf(x, k) = 1
  <2> SUFFICES ASSUME NEW k \in 0 .. 4 PROVE k \in ImmS(c) <=> BitOf(x, k) = 1
    OBVIOUS
  <2>1. k + 7 \in 7 .. 11 /\ (k + 7) - 7 = k /\ ~(k >= 12) /\ k \notin 5 .. 11 OBVIOUS
  <2>2. k + 7 \in c <=> BitOf(x, k) = 1 BY <2>1
  <2> QED BY <2>1, <2>2 DEF ImmS, SignFrom
<1>3. \A k \in 5 .. 11 : k \in ImmS(c) <=> BitOf(x, k) = 1
  <2> SUFFICES ASSUME NEW k \in 5 .. 11 PROVE k \in ImmS(c) <=> BitOf(x, k) = 1
    OBVIOUS
  <2>1. k + 20 \in 25 .. 31 /\ (k + 20) - 20 = k /\ ~(k >= 12) /\ k \notin 0 .. 4 OBVIOUS
  <2>2. k + 20 \in c <=> BitOf(x, k) = 1 BY <2>1
  <2> QED BY <2>1, <2>2 DEF ImmS, SignFrom
<1>4. \A k \in Bit : k >= 12 => (k \in ImmS(c) <=> BitOf(x, k) = 1)
  <2> SUFFICES ASSUME NEW k \in Bit, k >= 12 PROVE k \in ImmS(c) <=> BitOf(x, k) = 1
    OBVIOUS
  <2>1. k \in Nat /\ k \notin 0 .. 4 /\ k \notin 5 .. 11 /\ k >= 11 BY DEF Bit
  <2>2. Power(2, 11) = 2048 BY SmallPowers
  <2>3. -Power(2, 11) <= x /\ x < Power(2, 11) BY <2>2
  <2>4. BitOf(x, k) = BitOf(x, 11) BY <2>1, <2>3, SignGoesOn
  <2>5. 31 \in c <=> BitOf(x, 11) = 1
    <3>1. 31 \in 25 .. 31 /\ 31 - 20 = 11 OBVIOUS
    <3> QED BY <3>1
  <2> QED BY <2>1, <2>4, <2>5 DEF ImmS, SignFrom
<1>5. \A k \in ImmS(c) : k \in Bit
  BY <1>1 DEF ImmS, SignFrom, Bit
<1>6. \A k \in Bit : k \in 0 .. 4 \/ k \in 5 .. 11 \/ k >= 12
  BY DEF Bit
<1> QED BY <1>2, <1>3, <1>4, <1>5, <1>6 DEF WordOf

\* Those of branches, in four, without the lowest bit.
LEMMA ImmBIs ==
    ASSUME NEW x \in Int, -4096 <= x, x <= 4095, x % 2 = 0, NEW c,
           \A k \in 8 .. 11 : k \in c <=> BitOf(x, k - 7) = 1,
           \A k \in 25 .. 30 : k \in c <=> BitOf(x, k - 20) = 1,
           7 \in c <=> BitOf(x, 11) = 1,
           31 \in c <=> BitOf(x, 12) = 1
    PROVE  ImmB(c) = WordOf(x)
<1>1. XLen \in Nat /\ XLen >= 25
  BY Widths
<1>2. \A k \in 1 .. 4 : k \in ImmB(c) <=> BitOf(x, k) = 1
  <2> SUFFICES ASSUME NEW k \in 1 .. 4 PROVE k \in ImmB(c) <=> BitOf(x, k) = 1
    OBVIOUS
  <2>1. /\ k + 7 \in 8 .. 11 /\ (k + 7) - 7 = k /\ ~(k >= 13) /\ k \notin 5 .. 10
        /\ k # 11 /\ k # 12
    OBVIOUS
  <2>2. k + 7 \in c <=> BitOf(x, k) = 1 BY <2>1
  <2> QED BY <2>1, <2>2 DEF ImmB, SignFrom
<1>3. \A k \in 5 .. 10 : k \in ImmB(c) <=> BitOf(x, k) = 1
  <2> SUFFICES ASSUME NEW k \in 5 .. 10 PROVE k \in ImmB(c) <=> BitOf(x, k) = 1
    OBVIOUS
  <2>1. /\ k + 20 \in 25 .. 30 /\ (k + 20) - 20 = k /\ ~(k >= 13) /\ k \notin 1 .. 4
        /\ k # 11 /\ k # 12
    OBVIOUS
  <2>2. k + 20 \in c <=> BitOf(x, k) = 1 BY <2>1
  <2> QED BY <2>1, <2>2 DEF ImmB, SignFrom
<1>4. 11 \in ImmB(c) <=> BitOf(x, 11) = 1
  BY DEF ImmB, SignFrom
<1>5. 12 \in ImmB(c) <=> BitOf(x, 12) = 1
  BY DEF ImmB, SignFrom
<1>6. 0 \notin ImmB(c) /\ BitOf(x, 0) = 0
  <2>1. BitOf(x, 0) = (x \div 1) % 2 BY SmallPowers DEF BitOf
  <2>2. x \div 1 = x OBVIOUS
  <2> QED BY <2>1, <2>2 DEF ImmB, SignFrom
<1>7. \A k \in Bit : k >= 13 => (k \in ImmB(c) <=> BitOf(x, k) = 1)
  <2> SUFFICES ASSUME NEW k \in Bit, k >= 13 PROVE k \in ImmB(c) <=> BitOf(x, k) = 1
    OBVIOUS
  <2>1. k \in Nat /\ k \notin 1 .. 4 /\ k \notin 5 .. 10 /\ k # 11 /\ k # 12 /\ k >= 12 BY DEF Bit
  <2>2. Power(2, 12) = 4096 BY SmallPowers
  <2>3. -Power(2, 12) <= x /\ x < Power(2, 12) BY <2>2
  <2>4. BitOf(x, k) = BitOf(x, 12) BY <2>1, <2>3, SignGoesOn
  <2> QED BY <2>1, <2>4 DEF ImmB, SignFrom
<1>8. \A k \in ImmB(c) : k \in Bit
  BY <1>1 DEF ImmB, SignFrom, Bit
<1>9. \A k \in Bit : k = 0 \/ k \in 1 .. 4 \/ k \in 5 .. 10 \/ k = 11 \/ k = 12 \/ k >= 13
  BY DEF Bit
<1> QED BY <1>2, <1>3, <1>4, <1>5, <1>6, <1>7, <1>8, <1>9 DEF WordOf

\* Those of lui and auipc.
LEMMA ImmUIs ==
    ASSUME NEW x \in Int, x % 4096 = 0, NEW c,
           \A k \in 12 .. 31 : k \in c <=> BitOf(x \div 4096, k - 12) = 1
    PROVE  ImmU(c) = WordOf(x)
<1> DEFINE q == x \div 4096
<1>1. XLen \in Nat /\ XLen >= 25 /\ XLen <= 32
  BY Widths
<1>2. q \in Int /\ x = q * 4096
  OBVIOUS
<1>3. Power(2, 12) = 4096 /\ 12 \in Nat
  BY SmallPowers
<1>4. ASSUME NEW k \in Bit PROVE k \in ImmU(c) <=> BitOf(x, k) = 1
  <2>1. k \in Nat /\ k < 32 BY <1>1 DEF Bit
  <2>2. BitOf(x, k) = IF k < 12 THEN 0 ELSE BitOf(q, k - 12)
    <3> HIDE DEF q
    <3>1. BitOf(q * Power(2, 12), k) = IF k < 12 THEN 0 ELSE BitOf(q, k - 12)
      BY <1>2, <1>3, <2>1, BitsOfProduct
    <3> QED BY <1>2, <1>3, <3>1
  <2>3. CASE k < 12
    <3>1. ~(k >= 12) BY <2>1, <2>3
    <3> QED BY <2>2, <2>3, <3>1 DEF ImmU
  <2>4. CASE k >= 12
    <3>1. k \in 12 .. 31 /\ ~(k < 12) BY <2>1, <2>4
    <3> QED BY <2>2, <2>4, <3>1 DEF ImmU
  <2> QED BY <2>1, <2>3, <2>4
<1> QED BY <1>4 DEF ImmU, WordOf

\* Those of jal, in four parts.
LEMMA ImmJIs ==
    ASSUME NEW x \in Int, -Power(2, 20) <= x, x < Power(2, 20), x % 2 = 0, NEW c,
           \A k \in 21 .. 30 : k \in c <=> BitOf(x, k - 20) = 1,
           20 \in c <=> BitOf(x, 11) = 1,
           \A k \in 12 .. 19 : k \in c <=> BitOf(x, k) = 1,
           31 \in c <=> BitOf(x, 20) = 1
    PROVE  ImmJ(c) = WordOf(x)
<1>1. XLen \in Nat /\ XLen >= 25
  BY Widths
<1>2. \A k \in 1 .. 10 : k \in ImmJ(c) <=> BitOf(x, k) = 1
  <2> SUFFICES ASSUME NEW k \in 1 .. 10 PROVE k \in ImmJ(c) <=> BitOf(x, k) = 1
    OBVIOUS
  <2>1. /\ k + 20 \in 21 .. 30 /\ (k + 20) - 20 = k /\ ~(k >= 21) /\ k \notin 12 .. 19
        /\ k # 11 /\ k # 20
    OBVIOUS
  <2>2. k + 20 \in c <=> BitOf(x, k) = 1 BY <2>1
  <2> QED BY <2>1, <2>2 DEF ImmJ, SignFrom
<1>3. \A k \in 12 .. 19 : k \in ImmJ(c) <=> BitOf(x, k) = 1
  <2> SUFFICES ASSUME NEW k \in 12 .. 19 PROVE k \in ImmJ(c) <=> BitOf(x, k) = 1
    OBVIOUS
  <2>1. ~(k >= 21) /\ k \notin 1 .. 10 /\ k # 11 /\ k # 20
    OBVIOUS
  <2> QED BY <2>1 DEF ImmJ, SignFrom
<1>4. 11 \in ImmJ(c) <=> BitOf(x, 11) = 1
  BY DEF ImmJ, SignFrom
<1>5. 20 \in ImmJ(c) <=> BitOf(x, 20) = 1
  BY DEF ImmJ, SignFrom
<1>6. 0 \notin ImmJ(c) /\ BitOf(x, 0) = 0
  <2>1. BitOf(x, 0) = (x \div 1) % 2 BY SmallPowers DEF BitOf
  <2>2. x \div 1 = x OBVIOUS
  <2> QED BY <2>1, <2>2 DEF ImmJ, SignFrom
<1>7. \A k \in Bit : k >= 21 => (k \in ImmJ(c) <=> BitOf(x, k) = 1)
  <2> SUFFICES ASSUME NEW k \in Bit, k >= 21 PROVE k \in ImmJ(c) <=> BitOf(x, k) = 1
    OBVIOUS
  <2>1. k \in Nat /\ k \notin 1 .. 10 /\ k \notin 12 .. 19 /\ k # 11 /\ k # 20 /\ k >= 20 BY DEF Bit
  <2>2. BitOf(x, k) = BitOf(x, 20) BY <2>1, SignGoesOn
  <2> QED BY <2>1, <2>2 DEF ImmJ, SignFrom
<1>8. \A k \in ImmJ(c) : k \in Bit
  BY <1>1 DEF ImmJ, SignFrom, Bit
<1>9. \A k \in Bit : k = 0 \/ k \in 1 .. 10 \/ k = 11 \/ k \in 12 .. 19 \/ k = 20 \/ k >= 21
  BY DEF Bit
<1> QED BY <1>2, <1>3, <1>4, <1>5, <1>6, <1>7, <1>8, <1>9 DEF WordOf

\* The instructions with an immediate of twelve bits, and fence.
LEMMA FormatI ==
    ASSUME NEW i, Asm!Fits(i), i.name \in Asm!OpImm \cup Asm!Load \cup {"jalr", "fence"},
           NEW c, c = Asm!Encoding(i)
    PROVE  /\ Opcode(c) = Op7(i.name) /\ Funct3(c) = F3(i.name)
           /\ Rd(c) = i.rd /\ Rs1(c) = i.rs1
           /\ i.name # "fence" => ImmI(c) = WordOf(i.imm)
           /\ i.imm = 0 => High12(c) = 0
<1> DEFINE op == Asm!Bits(Op7(i.name), 6, 0, 0)
           rd == Asm!Bits(i.rd, 4, 0, 7)
           f3 == Asm!Bits(F3(i.name), 2, 0, 12)
           rs1 == Asm!Bits(i.rs1, 4, 0, 15)
           imm == Asm!Bits(i.imm, 11, 0, 20)
<1>1. c = op \cup (rd \cup rs1 \cup f3 \cup imm)
  BY FormatOf
<1>2. /\ op \subseteq 0 .. 6 /\ rd \subseteq 7 .. 11 /\ f3 \subseteq 12 .. 14
      /\ rs1 \subseteq 15 .. 19 /\ imm \subseteq 20 .. 31
  BY Places
<1> HIDE DEF op, rd, f3, rs1, imm
<1>3. /\ \A k \in 0 .. 0 + 6 : k \in c <=> k \in op
      /\ \A k \in 7 .. 7 + 4 : k \in c <=> k \in rd
      /\ \A k \in 12 .. 12 + 2 : k \in c <=> k \in f3
      /\ \A k \in 15 .. 15 + 4 : k \in c <=> k \in rs1
      /\ \A k \in 20 .. 31 : k \in c <=> k \in imm
  BY <1>1, <1>2
<1>4. Opcode(c) = Op7(i.name) BY <1>3, FitsIn, FieldsAre DEF op, Opcode
<1>5. Funct3(c) = F3(i.name) BY <1>3, FitsIn, FieldsAre DEF f3, Funct3
<1>6. Rd(c) = i.rd BY <1>3, FitsIn, FieldsAre DEF rd, Rd
<1>7. Rs1(c) = i.rs1 BY <1>3, FitsIn, FieldsAre DEF rs1, Rs1
<1>8. \A k \in 20 .. 31 : k \in c <=> BitOf(i.imm, k - 20) = 1
  <2>1. i.imm \in Int BY FitsIn
  <2>2. \A k \in 20 .. 31 : k \in imm <=> BitOf(i.imm, k - 20) = 1 BY <2>1, PlacedBits DEF imm
  <2> QED BY <1>3, <2>2
<1>9. ASSUME i.name # "fence" PROVE ImmI(c) = WordOf(i.imm)
  <2> DEFINE x == i.imm
  <2>1. x \in -2048 .. 2047 BY <1>9, FitsTwelve
  <2> HIDE DEF x
  <2>2. x \in Int /\ -2048 <= x /\ x <= 2047 BY <2>1
  <2> USE DEF x
  <2> QED BY <1>8, <2>2, ImmIIs
<1>10. ASSUME i.imm = 0 PROVE High12(c) = 0
  <2>1. \A k \in 20 .. 31 : k \notin c
    <3> SUFFICES ASSUME NEW k \in 20 .. 31 PROVE BitOf(0, k - 20) # 1
      BY <1>8, <1>10
    <3>1. Power(2, k - 20) \in Nat /\ Power(2, k - 20) > 0
      <4>1. k - 20 \in Nat OBVIOUS
      <4> QED BY <4>1, Two
    <3>2. 0 \div Power(2, k - 20) = 0 BY <3>1
    <3> QED BY <3>2 DEF BitOf
  <2> QED BY <2>1 DEF High12, Funct7, Field
<1> QED BY <1>4, <1>5, <1>6, <1>7, <1>9, <1>10

\* The shifts by an immediate.
LEMMA FormatShift ==
    ASSUME NEW i, Asm!Fits(i), i.name \in Asm!Shifts \ {"srai"}, NEW c, c = Asm!Encoding(i)
    PROVE  /\ Opcode(c) = Op7(i.name) /\ Funct3(c) = F3(i.name)
           /\ Rd(c) = i.rd /\ Rs1(c) = i.rs1 /\ ImmI(c) = WordOf(i.imm)
<1> DEFINE op == Asm!Bits(Op7(i.name), 6, 0, 0)
           rd == Asm!Bits(i.rd, 4, 0, 7)
           f3 == Asm!Bits(F3(i.name), 2, 0, 12)
           rs1 == Asm!Bits(i.rs1, 4, 0, 15)
           imm == Asm!Bits(i.imm, 4, 0, 20)
           f7 == Asm!Bits(F7(i.name), 6, 0, 25)
<1>1. c = op \cup (rd \cup rs1 \cup f3 \cup imm \cup f7)
  BY FormatOf
<1>2. /\ op \subseteq 0 .. 6 /\ rd \subseteq 7 .. 11 /\ f3 \subseteq 12 .. 14
      /\ rs1 \subseteq 15 .. 19 /\ imm \subseteq 20 .. 24 /\ f7 \subseteq 25 .. 31
  BY Places
<1>3. i.imm \in Int /\ 0 <= i.imm /\ i.imm <= 31
  BY DEF Asm!Fits
<1>4. f7 = {}
  <2>1. F7(i.name) = 0 BY ListedISB
  <2>2. ASSUME NEW k \in 25 .. 31 PROVE k \notin Asm!Bits(0, 6, 0, 25)
    <3>1. k \in Int /\ (k - 25) + 0 \in Nat OBVIOUS
    <3>2. Power(2, (k - 25) + 0) \in Nat /\ Power(2, (k - 25) + 0) > 0 BY <3>1, Two
    <3>3. 0 \div Power(2, (k - 25) + 0) = 0 BY <3>2
    <3>4. BitOf(0, (k - 25) + 0) # 1 BY <3>3 DEF BitOf
    <3>5. 0 \in Int /\ 6 \in Nat /\ 0 \in Nat /\ 25 \in Nat OBVIOUS
    <3> QED BY <3>1, <3>4, <3>5, BitsAre
  <2> QED BY <1>2, <2>1, <2>2
<1> HIDE DEF op, rd, f3, rs1, imm, f7
<1>5. /\ \A k \in 0 .. 0 + 6 : k \in c <=> k \in op
      /\ \A k \in 7 .. 7 + 4 : k \in c <=> k \in rd
      /\ \A k \in 12 .. 12 + 2 : k \in c <=> k \in f3
      /\ \A k \in 15 .. 15 + 4 : k \in c <=> k \in rs1
      /\ \A k \in 20 .. 24 : k \in c <=> k \in imm
      /\ \A k \in 25 .. 31 : k \notin c
  BY <1>1, <1>2, <1>4
<1>6. Opcode(c) = Op7(i.name) BY <1>5, FitsIn, FieldsAre DEF op, Opcode
<1>7. Funct3(c) = F3(i.name) BY <1>5, FitsIn, FieldsAre DEF f3, Funct3
<1>8. Rd(c) = i.rd BY <1>5, FitsIn, FieldsAre DEF rd, Rd
<1>9. Rs1(c) = i.rs1 BY <1>5, FitsIn, FieldsAre DEF rs1, Rs1
<1>10. \A k \in 20 .. 31 : k \in c <=> BitOf(i.imm, k - 20) = 1
  <2> SUFFICES ASSUME NEW k \in 20 .. 31 PROVE k \in c <=> BitOf(i.imm, k - 20) = 1
    OBVIOUS
  <2>1. CASE k \in 20 .. 24
    <3>1. i.imm \in Int BY <1>3
    <3>2. k \in imm <=> BitOf(i.imm, k - 20) = 1 BY <2>1, <3>1, PlacedBits DEF imm
    <3> QED BY <1>5, <2>1, <3>2
  <2>2. CASE k \in 25 .. 31
    <3>1. k - 20 \in Nat /\ k - 20 >= 5 /\ 5 \in Nat BY <2>2
    <3>2. Power(2, 5) = 32 BY SmallPowers
    <3>3. -Power(2, 5) <= i.imm /\ i.imm < Power(2, 5) /\ ~(i.imm < 0) BY <1>3, <3>2
    <3>4. BitOf(i.imm, k - 20) = IF i.imm < 0 THEN 1 ELSE 0 BY <1>3, <3>1, <3>3, BitsAbove
    <3> QED BY <1>5, <2>2, <3>3, <3>4
  <2> QED BY <2>1, <2>2
<1>11. ImmI(c) = WordOf(i.imm)
  <2>1. -2048 <= i.imm /\ i.imm <= 2047 BY <1>3
  <2> QED BY <1>3, <1>10, <2>1, ImmIIs
<1> QED BY <1>6, <1>7, <1>8, <1>9, <1>11

\* The stores.
LEMMA FormatS ==
    ASSUME NEW i, Asm!Fits(i), i.name \in Asm!Store, NEW c, c = Asm!Encoding(i)
    PROVE  /\ Opcode(c) = Op7(i.name) /\ Funct3(c) = F3(i.name)
           /\ Rs1(c) = i.rs1 /\ Rs2(c) = i.rs2 /\ ImmS(c) = WordOf(i.imm)
<1> DEFINE op == Asm!Bits(Op7(i.name), 6, 0, 0)
           f3 == Asm!Bits(F3(i.name), 2, 0, 12)
           rs1 == Asm!Bits(i.rs1, 4, 0, 15)
           rs2 == Asm!Bits(i.rs2, 4, 0, 20)
           high == Asm!Bits(i.imm, 11, 5, 25)
           low == Asm!Bits(i.imm, 4, 0, 7)
           x == i.imm
<1>1. c = op \cup (rs1 \cup rs2 \cup f3 \cup high \cup low)
  BY FormatOf
<1>2. /\ op \subseteq 0 .. 6 /\ low \subseteq 7 .. 11 /\ f3 \subseteq 12 .. 14
      /\ rs1 \subseteq 15 .. 19 /\ rs2 \subseteq 20 .. 24 /\ high \subseteq 25 .. 31
  BY Places
<1>3. x \in -2048 .. 2047
  BY FitsTwelve
<1> HIDE DEF op, f3, rs1, rs2, high, low, x
<1>4. /\ \A k \in 0 .. 0 + 6 : k \in c <=> k \in op
      /\ \A k \in 7 .. 11 : k \in c <=> k \in low
      /\ \A k \in 12 .. 12 + 2 : k \in c <=> k \in f3
      /\ \A k \in 15 .. 15 + 4 : k \in c <=> k \in rs1
      /\ \A k \in 20 .. 20 + 4 : k \in c <=> k \in rs2
      /\ \A k \in 25 .. 31 : k \in c <=> k \in high
  BY <1>1, <1>2
<1>5. Opcode(c) = Op7(i.name) BY <1>4, FitsIn, FieldsAre DEF op, Opcode
<1>6. Funct3(c) = F3(i.name) BY <1>4, FitsIn, FieldsAre DEF f3, Funct3
<1>7. Rs1(c) = i.rs1 BY <1>4, FitsIn, FieldsAre DEF rs1, Rs1
<1>8. Rs2(c) = i.rs2 BY <1>4, FitsIn, FieldsAre DEF rs2, Rs2
<1>9. x \in Int /\ -2048 <= x /\ x <= 2047
  BY <1>3
<1>10. \A k \in 7 .. 11 : k \in c <=> BitOf(x, k - 7) = 1
  <2>1. x \in Int BY <1>9
  <2>2. \A k \in 7 .. 11 : k \in low <=> BitOf(x, k - 7) = 1 BY <2>1, PlacedBits DEF low, x
  <2> QED BY <1>4, <2>2
<1>11. \A k \in 25 .. 31 : k \in c <=> BitOf(x, k - 20) = 1
  <2>1. x \in Int BY <1>9
  <2>2. \A k \in 25 .. 31 : k \in high <=> BitOf(x, k - 20) = 1 BY <2>1, PlacedBits DEF high, x
  <2> QED BY <1>4, <2>2
<1>12. ImmS(c) = WordOf(x)
  BY <1>9, <1>10, <1>11, ImmSIs
<1> QED BY <1>5, <1>6, <1>7, <1>8, <1>12 DEF x

\* The branches.
LEMMA FormatB ==
    ASSUME NEW i, Asm!Fits(i), i.name \in Asm!Branch, NEW c, c = Asm!Encoding(i)
    PROVE  /\ Opcode(c) = Op7(i.name) /\ Funct3(c) = F3(i.name)
           /\ Rs1(c) = i.rs1 /\ Rs2(c) = i.rs2 /\ ImmB(c) = WordOf(i.imm)
<1> DEFINE op == Asm!Bits(Op7(i.name), 6, 0, 0)
           f3 == Asm!Bits(F3(i.name), 2, 0, 12)
           rs1 == Asm!Bits(i.rs1, 4, 0, 15)
           rs2 == Asm!Bits(i.rs2, 4, 0, 20)
           b12 == Asm!Bits(i.imm, 12, 12, 31)
           high == Asm!Bits(i.imm, 10, 5, 25)
           low == Asm!Bits(i.imm, 4, 1, 8)
           b11 == Asm!Bits(i.imm, 11, 11, 7)
           x == i.imm
<1>1. c = op \cup (rs1 \cup rs2 \cup f3 \cup b12 \cup high \cup low \cup b11)
  BY FormatOf
<1>2. /\ op \subseteq 0 .. 6 /\ low \subseteq 8 .. 11 /\ b11 \subseteq 7 .. 7
      /\ f3 \subseteq 12 .. 14 /\ rs1 \subseteq 15 .. 19 /\ rs2 \subseteq 20 .. 24
      /\ high \subseteq 25 .. 30 /\ b12 \subseteq 31 .. 31
  BY Places
<1>3. x \in -4096 .. 4095 /\ x % 2 = 0
  BY FitsBranch
<1> HIDE DEF op, f3, rs1, rs2, b12, high, low, b11, x
<1>4. /\ \A k \in 0 .. 0 + 6 : k \in c <=> k \in op
      /\ \A k \in 8 .. 11 : k \in c <=> k \in low
      /\ 7 \in c <=> 7 \in b11
      /\ \A k \in 12 .. 12 + 2 : k \in c <=> k \in f3
      /\ \A k \in 15 .. 15 + 4 : k \in c <=> k \in rs1
      /\ \A k \in 20 .. 20 + 4 : k \in c <=> k \in rs2
      /\ \A k \in 25 .. 30 : k \in c <=> k \in high
      /\ 31 \in c <=> 31 \in b12
  BY <1>1, <1>2
<1>5. Opcode(c) = Op7(i.name) BY <1>4, FitsIn, FieldsAre DEF op, Opcode
<1>6. Funct3(c) = F3(i.name) BY <1>4, FitsIn, FieldsAre DEF f3, Funct3
<1>7. Rs1(c) = i.rs1 BY <1>4, FitsIn, FieldsAre DEF rs1, Rs1
<1>8. Rs2(c) = i.rs2 BY <1>4, FitsIn, FieldsAre DEF rs2, Rs2
<1>9. x \in Int /\ -4096 <= x /\ x <= 4095
  BY <1>3
<1>10. \A k \in 8 .. 11 : k \in c <=> BitOf(x, k - 7) = 1
  <2>1. x \in Int BY <1>9
  <2>2. \A k \in 8 .. 11 : k \in low <=> BitOf(x, k - 7) = 1 BY <2>1, PlacedBits DEF low, x
  <2> QED BY <1>4, <2>2
<1>11. \A k \in 25 .. 30 : k \in c <=> BitOf(x, k - 20) = 1
  <2>1. x \in Int BY <1>9
  <2>2. \A k \in 25 .. 30 : k \in high <=> BitOf(x, k - 20) = 1 BY <2>1, PlacedBits DEF high, x
  <2> QED BY <1>4, <2>2
<1>12. 7 \in c <=> BitOf(x, 11) = 1
  <2>1. x \in Int BY <1>9
  <2>2. 7 \in b11 <=> BitOf(x, 11) = 1 BY <2>1, PlacedBits DEF b11, x
  <2> QED BY <1>4, <2>2
<1>13. 31 \in c <=> BitOf(x, 12) = 1
  <2>1. x \in Int BY <1>9
  <2>2. 31 \in b12 <=> BitOf(x, 12) = 1 BY <2>1, PlacedBits DEF b12, x
  <2> QED BY <1>4, <2>2
<1>14. ImmB(c) = WordOf(x)
  BY <1>3, <1>9, <1>10, <1>11, <1>12, <1>13, ImmBIs
<1> QED BY <1>5, <1>6, <1>7, <1>8, <1>14 DEF x

\* lui and auipc.
LEMMA FormatU ==
    ASSUME NEW i, Asm!Fits(i), i.name \in {"lui", "auipc"}, NEW c, c = Asm!Encoding(i)
    PROVE  Opcode(c) = Op7(i.name) /\ Rd(c) = i.rd /\ ImmU(c) = WordOf(i.imm)
<1> DEFINE op == Asm!Bits(Op7(i.name), 6, 0, 0)
           rd == Asm!Bits(i.rd, 4, 0, 7)
           imm == Asm!Bits(i.imm \div 4096, 19, 0, 12)
           x == i.imm
           q == x \div 4096
<1>1. c = op \cup (rd \cup imm)
  BY FormatOf
<1>2. op \subseteq 0 .. 6 /\ rd \subseteq 7 .. 11 /\ imm \subseteq 12 .. 31
  BY Places
<1>3. x % 4096 = 0 /\ x \in Int
  <2>1. i.imm \in Int BY FitsIn
  <2> QED BY <2>1, FitsUpper
<1> HIDE DEF op, rd, imm, x
<1>4. /\ \A k \in 0 .. 0 + 6 : k \in c <=> k \in op
      /\ \A k \in 7 .. 7 + 4 : k \in c <=> k \in rd
      /\ \A k \in 12 .. 31 : k \in c <=> k \in imm
  BY <1>1, <1>2
<1>5. Opcode(c) = Op7(i.name) BY <1>4, FitsIn, FieldsAre DEF op, Opcode
<1>6. Rd(c) = i.rd BY <1>4, FitsIn, FieldsAre DEF rd, Rd
<1>7. q \in Int
  BY <1>3
<1> HIDE DEF q
<1>8. \A k \in 12 .. 31 : k \in c <=> BitOf(q, k - 12) = 1
  <2>1. q \in Int BY <1>7
  <2>2. \A k \in 12 .. 31 : k \in imm <=> BitOf(q, k - 12) = 1 BY <2>1, PlacedBits DEF imm, q, x
  <2> QED BY <1>4, <2>2
<1>9. ImmU(c) = WordOf(x)
  BY <1>3, <1>8, ImmUIs DEF q
<1> QED BY <1>5, <1>6, <1>9 DEF x

\* jal.
LEMMA FormatJ ==
    ASSUME NEW i, Asm!Fits(i), i.name = "jal", NEW c, c = Asm!Encoding(i)
    PROVE  Opcode(c) = Op7(i.name) /\ Rd(c) = i.rd /\ ImmJ(c) = WordOf(i.imm)
<1> DEFINE op == Asm!Bits(Op7(i.name), 6, 0, 0)
           rd == Asm!Bits(i.rd, 4, 0, 7)
           b20 == Asm!Bits(i.imm, 20, 20, 31)
           low == Asm!Bits(i.imm, 10, 1, 21)
           b11 == Asm!Bits(i.imm, 11, 11, 20)
           high == Asm!Bits(i.imm, 19, 12, 12)
           x == i.imm
<1>1. c = op \cup (rd \cup b20 \cup low \cup b11 \cup high)
  BY FormatOf
<1>2. /\ op \subseteq 0 .. 6 /\ rd \subseteq 7 .. 11 /\ high \subseteq 12 .. 19
      /\ b11 \subseteq 20 .. 20 /\ low \subseteq 21 .. 30 /\ b20 \subseteq 31 .. 31
  BY Places
<1>3. x \in -Power(2, 20) .. Power(2, 20) - 1 /\ x % 2 = 0 /\ x \in Int
  <2>1. i.imm \in Int BY FitsIn
  <2> QED BY <2>1, FitsJump
<1> HIDE DEF op, rd, b20, low, b11, high, x
<1>4. /\ \A k \in 0 .. 0 + 6 : k \in c <=> k \in op
      /\ \A k \in 7 .. 7 + 4 : k \in c <=> k \in rd
      /\ \A k \in 12 .. 19 : k \in c <=> k \in high
      /\ 20 \in c <=> 20 \in b11
      /\ \A k \in 21 .. 30 : k \in c <=> k \in low
      /\ 31 \in c <=> 31 \in b20
  BY <1>1, <1>2
<1>5. Opcode(c) = Op7(i.name) BY <1>4, FitsIn, FieldsAre DEF op, Opcode
<1>6. Rd(c) = i.rd BY <1>4, FitsIn, FieldsAre DEF rd, Rd
<1>7. -Power(2, 20) <= x /\ x < Power(2, 20)
  <2> DEFINE p == Power(2, 20)
  <2>1. p \in Nat BY Two
  <2> HIDE DEF p
  <2>2. -p <= x /\ x < p BY <1>3, <2>1 DEF p
  <2> QED BY <2>2 DEF p
<1>8. \A k \in 12 .. 19 : k \in c <=> BitOf(x, k) = 1
  <2>1. x \in Int BY <1>3
  <2>2. \A k \in 12 .. 19 : k \in high <=> BitOf(x, k) = 1 BY <2>1, PlacedBits DEF high, x
  <2> QED BY <1>4, <2>2
<1>9. \A k \in 21 .. 30 : k \in c <=> BitOf(x, k - 20) = 1
  <2>1. x \in Int BY <1>3
  <2>2. \A k \in 21 .. 30 : k \in low <=> BitOf(x, k - 20) = 1 BY <2>1, PlacedBits DEF low, x
  <2> QED BY <1>4, <2>2
<1>10. 20 \in c <=> BitOf(x, 11) = 1
  <2>1. x \in Int BY <1>3
  <2>2. 20 \in b11 <=> BitOf(x, 11) = 1 BY <2>1, PlacedBits DEF b11, x
  <2> QED BY <1>4, <2>2
<1>11. 31 \in c <=> BitOf(x, 20) = 1
  <2>1. x \in Int BY <1>3
  <2>2. 31 \in b20 <=> BitOf(x, 20) = 1 BY <2>1, PlacedBits DEF b20, x
  <2> QED BY <1>4, <2>2
<1>12. ImmJ(c) = WordOf(x)
  BY <1>3, <1>7, <1>8, <1>9, <1>10, <1>11, ImmJIs
<1> QED BY <1>5, <1>6, <1>12 DEF x

-----------------------------------------------------------------------------
(* The look-up, the decoders and the steps *)

\* The model's kinds of instructions are the assembler's.
LEMMA Kinds ==
    /\ Names(R) = Asm!Op /\ Stores = Asm!Store /\ Branches = Asm!Branch
    /\ Names(Sys) = {"fence", "ecall", "ebreak", "mret"}
    /\ (DOMAIN Asm!Listing) \cap ({"ecall", "ebreak", "mret"} \cup Csrs) = {}
<1>1. Names(R) = Asm!Op
  BY DEF Names, R, Asm!Op
<1>2. Names(Sys) = {"fence", "ecall", "ebreak", "mret"}
  BY DEF Names, Sys
<1>3. (DOMAIN Asm!Listing) \cap ({"ecall", "ebreak", "mret"} \cup Csrs) = {}
  BY DEF Asm!Listing, Csrs
<1> QED BY <1>1, <1>2, <1>3 DEF Stores, Asm!Store, Branches, Asm!Branch

\* The name of an instruction that there is.
LEMMA FitsName ==
    ASSUME NEW i, Asm!Fits(i)
    PROVE  /\ i.name \in DOMAIN Asm!Listing
           /\ i.name \in Asm!OpImm \cup Asm!Shifts \cup Asm!Load \cup Asm!Store \cup Asm!Branch
                         \cup Asm!Op \cup {"jalr", "lui", "auipc", "jal", "fence"}
<1>1. i.name \in DOMAIN Asm!Listing
  BY DEF Asm!Fits
<1> QED BY <1>1, ListedNames

\* A row is found under its key.
LEMMA RowFound ==
    ASSUME NEW table, NEW n, NEW x, NEW y, NEW z, <<n, x, y, z>> \in table
    PROVE  n \in Found(table, <<x, y, z>>)
<1> DEFINE q == <<n, x, y, z>>
<1>1. q \in table /\ q[1] = n /\ <<q[2], q[3], q[4]>> = <<x, y, z>>
  OBVIOUS
<1> HIDE DEF q
<1> QED BY <1>1 DEF Found

\* What the tables have is looked up.
LEMMA LookupIs ==
    ASSUME NEW c, NEW n \in Matches(c)
    PROVE  Lookup(c) = {n}
<1>1. \A m \in Matches(c) : m = n
  BY OneMatch
<1>2. /\ Found(R, KeyR(c)) \subseteq {n} /\ Found(ISB, KeyISB(c)) \subseteq {n}
      /\ Found(UJ, KeyUJ(c)) \subseteq {n} /\ Found(Sys, KeySys(c)) \subseteq {n}
  BY <1>1 DEF Matches
<1>3. \/ n \in Found(R, KeyR(c)) \/ n \in Found(ISB, KeyISB(c))
      \/ n \in Found(UJ, KeyUJ(c)) \/ n \in Found(Sys, KeySys(c))
  BY DEF Matches
<1> QED BY <1>2, <1>3 DEF Lookup

\* An instruction that the tables have is found under what the assembler has
\* written for it.
LEMMA MatchesIt ==
    ASSUME NEW i, Asm!Fits(i), i.name # "srai", i.name = "fence" => i.imm = 0,
           NEW c, c = Asm!Encoding(i)
    PROVE  i.name \in Matches(c)
<1> DEFINE n == i.name
<1>1. n \in Asm!OpImm \cup Asm!Shifts \cup Asm!Load \cup Asm!Store \cup Asm!Branch
           \cup Asm!Op \cup {"jalr", "lui", "auipc", "jal", "fence"}
  BY FitsName
<1>2. CASE n \in Asm!Op
  <2>1. KeyR(c) = <<Op7(n), F3(n), F7(n)>> BY <1>2, FormatR DEF KeyR
  <2>2. n \in Found(R, KeyR(c)) BY <1>2, <2>1, ListedR, RowFound
  <2> QED BY <2>2 DEF Matches
<1>3. CASE n \in Asm!OpImm \cup Asm!Shifts \cup Asm!Load \cup Asm!Store \cup Asm!Branch \cup {"jalr"}
  <2>1. Opcode(c) = Op7(n) /\ Funct3(c) = F3(n)
    <3>1. CASE n \in Asm!OpImm \cup Asm!Load \cup {"jalr"} BY <3>1, FormatI
    <3>2. CASE n \in Asm!Shifts BY <3>2, FormatShift
    <3>3. CASE n \in Asm!Store BY <3>3, FormatS
    <3>4. CASE n \in Asm!Branch BY <3>4, FormatB
    <3> QED BY <1>3, <3>1, <3>2, <3>3, <3>4
  <2>2. KeyISB(c) = <<Op7(n), F3(n), 0>> BY <2>1 DEF KeyISB
  <2>3. <<n, Op7(n), F3(n), 0>> \in ISB BY <1>3, ListedISB
  <2>4. n \in Found(ISB, KeyISB(c)) BY <2>2, <2>3, RowFound
  <2> QED BY <2>4 DEF Matches
<1>4. CASE n \in {"lui", "auipc", "jal"}
  <2>1. Opcode(c) = Op7(n)
    <3>1. CASE n \in {"lui", "auipc"} BY <3>1, FormatU
    <3>2. CASE n = "jal" BY <3>2, FormatJ
    <3> QED BY <1>4, <3>1, <3>2
  <2>2. KeyUJ(c) = <<Op7(n), 0, 0>> BY <2>1 DEF KeyUJ
  <2>3. n \in Found(UJ, KeyUJ(c)) BY <1>4, <2>2, ListedUJ, RowFound
  <2> QED BY <2>3 DEF Matches
<1>5. CASE n = "fence"
  <2>1. Opcode(c) = Op7("fence") /\ Funct3(c) = 0 /\ High12(c) = 0 BY <1>5, FormatI, ListedSys
  <2>2. KeySys(c) = <<Op7("fence"), 0, 0>> BY <2>1 DEF KeySys
  <2>3. n \in Found(Sys, KeySys(c)) BY <1>5, <2>2, ListedSys, RowFound
  <2> QED BY <2>3 DEF Matches
<1> QED BY <1>1, <1>2, <1>3, <1>4, <1>5

\* Each instruction has the decoder of its format.
LEMMA DecoderOf ==
    ASSUME NEW n, NEW c
    PROVE  /\ n \in Asm!Op => Decoded(n, c) = decode_R(c)
           /\ n \in Asm!OpImm \cup Asm!Shifts \cup Asm!Load \cup {"jalr"} =>
                 Decoded(n, c) = decode_I(c)
           /\ n \in Asm!Store => Decoded(n, c) = decode_S(c)
           /\ n \in Asm!Branch => Decoded(n, c) = decode_B(c)
           /\ n \in {"lui", "auipc"} => Decoded(n, c) = decode_U(c)
           /\ n = "jal" => Decoded(n, c) = decode_J(c)
<1> DEFINE Apart == /\ n \in Names(R) => n \notin Stores \cup Branches \cup {"lui", "auipc", "jal"}
                    /\ n \in Stores => n \notin Branches \cup {"lui", "auipc", "jal"}
                    /\ n \in Branches => n \notin {"lui", "auipc", "jal"}
                    /\ n \in Names(Sys) => n \notin Names(R) \cup Stores \cup Branches
                                                   \cup {"lui", "auipc", "jal"}
                    /\ n \in Asm!OpImm \cup Asm!Shifts \cup Asm!Load \cup {"jalr"} =>
                          n \notin Names(R) \cup Stores \cup Branches \cup Names(Sys)
                                   \cup {"lui", "auipc", "jal"}
<1>1. Apart
  <2>1. Names(R) = Asm!Op /\ Stores = Asm!Store /\ Branches = Asm!Branch
        /\ Names(Sys) = {"fence", "ecall", "ebreak", "mret"}
    BY Kinds
  <2> QED BY <2>1 DEF Asm!OpImm, Asm!Shifts, Asm!Load, Asm!Op, Asm!Store, Asm!Branch
<1>2. ASSUME n \in Asm!Op PROVE Decoded(n, c) = decode_R(c)
  <2>1. n \in Names(R) BY <1>2, Kinds
  <2> QED BY <1>1, <2>1 DEF Decoded
<1>3. ASSUME n \in Asm!OpImm \cup Asm!Shifts \cup Asm!Load \cup {"jalr"} PROVE Decoded(n, c) = decode_I(c)
  BY <1>1, <1>3 DEF Decoded
<1>4. ASSUME n \in Asm!Store PROVE Decoded(n, c) = decode_S(c)
  <2>1. n \in Stores BY <1>4, Kinds
  <2> QED BY <1>1, <2>1 DEF Decoded
<1>5. ASSUME n \in Asm!Branch PROVE Decoded(n, c) = decode_B(c)
  <2>1. n \in Branches BY <1>5, Kinds
  <2> QED BY <1>1, <2>1 DEF Decoded
<1>6. ASSUME n \in {"lui", "auipc"} PROVE Decoded(n, c) = decode_U(c)
  BY <1>1, <1>6 DEF Decoded
<1>7. ASSUME n = "jal" PROVE Decoded(n, c) = decode_J(c)
  BY <1>1, <1>7 DEF Decoded
<1> QED BY <1>2, <1>3, <1>4, <1>5, <1>6, <1>7

\* And finds there what the assembler has put.
LEMMA DecodesIt ==
    ASSUME dec \in Temporaries, NEW i, Asm!Fits(i), i.name # "srai",
           NEW c, c = Asm!Encoding(i), dec' = Decoded(i.name, c)
    PROVE  Decodes(i)
<1> DEFINE n == i.name
<1>0. /\ n \in Asm!OpImm \cup Asm!Shifts \cup Asm!Load \cup Asm!Store \cup Asm!Branch
             \cup Asm!Op \cup {"jalr", "lui", "auipc", "jal", "fence"}
      /\ dec \in Temporaries
  BY FitsName
<1>1. CASE n \in Asm!Op
  <2>1. dec' = decode_R(c) BY <1>1, DecoderOf
  <2>2. dec'.rd = i.rd /\ dec'.rs1 = i.rs1 /\ dec'.rs2 = i.rs2
    BY <1>0, <1>1, <2>1, FormatR DEF decode_R, Temporaries
  <2> QED BY <1>1, <2>2, Kinds DEF Decodes
<1>2. CASE n \in Asm!OpImm \cup Asm!Shifts \cup Asm!Load \cup {"jalr"}
  <2>1. dec' = decode_I(c) BY <1>2, DecoderOf
  <2>2. Rd(c) = i.rd /\ Rs1(c) = i.rs1 /\ ImmI(c) = WordOf(i.imm)
    <3>1. CASE n \in Asm!Shifts BY <3>1, FormatShift
    <3>2. CASE n \in Asm!OpImm \cup Asm!Load \cup {"jalr"}
      <4>1. n # "fence" BY <3>2 DEF Asm!OpImm, Asm!Load
      <4> QED BY <3>2, <4>1, FormatI
    <3> QED BY <1>2, <3>1, <3>2
  <2>3. dec'.rd = i.rd /\ dec'.rs1 = i.rs1 /\ dec'.imm = WordOf(i.imm)
    BY <1>0, <2>1, <2>2 DEF decode_I, Temporaries
  <2>4. n \notin Names(R) \cup Stores \cup Branches BY <1>2, KindsApart, Kinds
  <2> QED BY <2>3, <2>4 DEF Decodes
<1>3. CASE n \in Asm!Store
  <2>1. dec' = decode_S(c) BY <1>3, DecoderOf
  <2>2. dec'.rs1 = i.rs1 /\ dec'.rs2 = i.rs2 /\ dec'.imm = WordOf(i.imm)
    BY <1>0, <1>3, <2>1, FormatS DEF decode_S, Temporaries
  <2> QED BY <1>3, <2>2, Kinds DEF Decodes
<1>4. CASE n \in Asm!Branch
  <2>1. dec' = decode_B(c) BY <1>4, DecoderOf
  <2>2. dec'.rs1 = i.rs1 /\ dec'.rs2 = i.rs2 /\ dec'.imm = WordOf(i.imm)
    BY <1>0, <1>4, <2>1, FormatB DEF decode_B, Temporaries
  <2> QED BY <1>4, <2>2, Kinds DEF Decodes
<1>5. CASE n \in {"lui", "auipc"}
  <2>1. dec' = decode_U(c) BY <1>5, DecoderOf
  <2>2. dec'.rd = i.rd /\ dec'.imm = WordOf(i.imm)
    BY <1>0, <1>5, <2>1, FormatU DEF decode_U, Temporaries
  <2>3. n \notin Names(R) \cup Stores \cup Branches BY <1>5, KindsApart, Kinds
  <2> QED BY <1>5, <2>2, <2>3 DEF Decodes
<1>6. CASE n = "jal"
  <2>1. dec' = decode_J(c) BY <1>6, DecoderOf
  <2>2. dec'.rd = i.rd /\ dec'.imm = WordOf(i.imm)
    BY <1>0, <1>6, <2>1, FormatJ DEF decode_J, Temporaries
  <2>3. n \notin Names(R) \cup Stores \cup Branches BY <1>6, KindsApart, Kinds
  <2> QED BY <1>6, <2>2, <2>3 DEF Decodes
<1>7. CASE n = "fence"
  <2>1. n \notin Names(R) \cup Stores \cup Branches BY <1>7, KindsApart, Kinds
  <2> QED BY <1>7, <2>1 DEF Decodes
<1> QED BY <1>0, <1>1, <1>2, <1>3, <1>4, <1>5, <1>6, <1>7

\* What a word means is an instruction that is written so.
LEMMA MeaningIs ==
    ASSUME NEW c \in DOMAIN Kept
    PROVE  /\ Asm!Fits(Kept[c]) /\ Asm!Encoding(Kept[c]) = c
           /\ Kept[c].name # "srai" /\ (Kept[c].name = "fence" => Kept[c].imm = 0)
<1>1. c \in Encodings /\ Meaning[c] \notin Missing /\ Kept[c] = Meaning[c]
  BY DEF Kept
<1>2. \E i \in Assembly : Asm!Encoding(i) = c
  BY <1>1 DEF Encodings
<1>3. Meaning[c] \in Assembly /\ Asm!Encoding(Meaning[c]) = c
  BY <1>1, <1>2 DEF Meaning
<1> QED BY <1>1, <1>3, AssemblyAssumption DEF Missing

\* A program counter that is no multiple of four.
LEMMA PcAligned ==
    ASSUME IInv
    PROVE  pc \cap {0, 1} = {} <=> Num(pc) % 4 = 0
<1>1. Num(pc) % 4 = One(0 \in pc) + 2 * One(1 \in pc)
  BY LowBits DEF IInv, TypeOK
<1>2. pc \cap {0, 1} = {} <=> 0 \notin pc /\ 1 \notin pc
  OBVIOUS
<1> QED BY <1>1, <1>2 DEF One

\* Every step is one that the manual has, or a jump whose target is misaligned.
LEMMA StepRuns ==
    ASSUME IInv, [Next]_vars
    PROVE  [Manual!Step \/ LateJump]_(Manual!vars)
<1>1. CASE UNCHANGED vars
  <2>1. UNCHANGED <<Num(pc), Numbers, Memory, cmd, trap>> BY <1>1, Stays DEF vars
  <2> QED BY <2>1 DEF Manual!vars
<1>2. ASSUME NEW c \in Command, Misaligned(c) \/ Illegal(c) \/ Execute(c), c \in DOMAIN Kept
      PROVE  \/ Num(pc) % 4 # 0 /\ Manual!Traps("fetch_misaligned")
             \/ Num(pc) % 4 = 0 /\ Manual!Runs(Kept[c])
  <2> DEFINE i == Kept[c]
  <2>1. /\ Asm!Fits(i) /\ Asm!Encoding(i) = c
        /\ i.name # "srai" /\ (i.name = "fence" => i.imm = 0)
    BY <1>2, MeaningIs
  <2> HIDE DEF i
  <2>2. Lookup(c) = {i.name} BY <2>1, MatchesIt, LookupIs
  <2>3. CASE Misaligned(c)
    BY <2>3, PcAligned, RaisesTraps DEF Misaligned
  <2>4. CASE Illegal(c)
    BY <2>2, <2>4 DEF Illegal
  <2>5. CASE Execute(c)
    <3>1. /\ pc \cap {0, 1} = {} /\ dec' = Decoded(i.name, c)
          /\ \/ Compute(i.name) \/ Jump(i.name) \/ Branch(i.name) \/ Load(i.name)
             \/ Store(i.name) \/ Fence(i.name) \/ Privileged(i.name)
      BY <2>2, <2>5 DEF Execute
    <3>2. dec \in Temporaries /\ dec' \in Temporaries
      BY <3>1, DecodedType DEF IInv, TypeOK
    <3>3. Decodes(i) BY <2>1, <3>1, <3>2, DecodesIt
    <3>4. WellFormed(i) BY <2>1, FitsIn DEF WellFormed, RegNum
    <3>5. i.name \notin {"ecall", "ebreak", "mret"} \cup Csrs
      BY <2>1, FitsName, Kinds
    <3>6. Manual!Runs(i) BY <3>1, <3>2, <3>3, <3>4, <3>5, ExecutorsRun
    <3> QED BY <3>1, <3>6, PcAligned DEF i
  <2> QED BY <1>2, <2>3, <2>4, <2>5
<1>3. ASSUME NEW c \in Command, Misaligned(c) \/ Illegal(c) \/ Execute(c)
      PROVE  Manual!Step \/ LateJump
  <2>1. cmd' = c BY <1>3 DEF Misaligned, Illegal, Execute, Fetches
  <2> QED BY <1>2, <1>3, <2>1 DEF Manual!Step, LateJump
<1> QED BY <1>1, <1>3 DEF Next

\* The look-up, the decoders and the executors of RiscvProcessor implement the
\* manual's instruction set, but for srai, for fences with operands and for
\* jumps and taken branches whose target is no multiple of four, which retire
\* and leave the exception to the next fetch: for every instruction, every
\* content of the registers and of memory, every program counter and every
\* width of registers from 25 to 32 bits.
THEOREM RunsRv32i == Spec => IsRv32i
<1>1. IInv /\ [Next]_vars => [Manual!Step \/ LateJump]_(Manual!vars)
  BY StepRuns
<1> QED BY <1>1, Invariance, PTL DEF Spec, IsRv32i

\* find_instruction finds, for an instruction of the manual as the assembler
\* writes it, that instruction and no other, whatever its registers and its
\* immediate are: all of RV32I but srai and fences with operands.
THEOREM LooksUpWhatIsWritten ==
    ASSUME NEW i, Asm!Fits(i), i.name # "srai", i.name = "fence" => i.imm = 0
    PROVE  Lookup(Asm!Encoding(i)) = {i.name}
<1> DEFINE c == Asm!Encoding(i)
<1>1. i.name \in Matches(c)
  BY MatchesIt
<1> HIDE DEF c
<1>2. Lookup(c) = {i.name}
  BY <1>1, LookupIs
<1> QED BY <1>2 DEF c

\* The exceptions are needed: the key of srai has a bit that the mask of its
\* table lacks, so that no word finds it, and every srai is run as srli.
THEOREM SraiRunsAsSrli ==
    /\ \A c : "srai" \notin Lookup(c)
    /\ \A i : Asm!Fits(i) /\ i.name = "srai" => Lookup(Asm!Encoding(i)) = {"srli"}
<1>1. ASSUME NEW c, "srai" \in Lookup(c) PROVE FALSE
  <2>1. "srai" \notin Found(R, KeyR(c)) BY FoundRow DEF KeyR, R
  <2>2. "srai" \notin Found(UJ, KeyUJ(c)) BY FoundRow DEF KeyUJ, UJ
  <2>3. "srai" \notin Found(Sys, KeySys(c)) BY FoundRow DEF KeySys, Sys
  <2>4. "srai" \notin Found(ISB, KeyISB(c))
    <3>1. \A q \in ISB : q[1] = "srai" => q[4] = 32 BY SMTT(60) DEF ISB
    <3> QED BY <3>1, FoundRow DEF KeyISB
  <2> QED BY <1>1, <2>1, <2>2, <2>3, <2>4 DEF Lookup
<1>2. ASSUME NEW i, Asm!Fits(i), i.name = "srai" PROVE Lookup(Asm!Encoding(i)) = {"srli"}
  <2> DEFINE c == Asm!Encoding(i)
             op == Asm!Bits(Op7(i.name), 6, 0, 0)
             rd == Asm!Bits(i.rd, 4, 0, 7)
             f3 == Asm!Bits(F3(i.name), 2, 0, 12)
             rs1 == Asm!Bits(i.rs1, 4, 0, 15)
             imm == Asm!Bits(i.imm, 4, 0, 20)
             f7 == Asm!Bits(F7(i.name), 6, 0, 25)
  <2>1. c = op \cup (rd \cup rs1 \cup f3 \cup imm \cup f7)
    <3>1. i.name \in Asm!Shifts BY <1>2 DEF Asm!Shifts
    <3> QED BY <3>1, FormatOf
  <2>2. /\ op \subseteq 0 .. 6 /\ rd \subseteq 7 .. 11 /\ f3 \subseteq 12 .. 14
        /\ rs1 \subseteq 15 .. 19 /\ imm \subseteq 20 .. 24 /\ f7 \subseteq 25 .. 31
    BY Places
  <2>3. Op7(i.name) = 19 /\ F3(i.name) = 5
    BY <1>2 DEF Asm!Listing, Op7, F3
  <2> HIDE DEF c, op, rd, f3, rs1, imm, f7
  <2>4. /\ \A k \in 0 .. 0 + 6 : k \in c <=> k \in op
        /\ \A k \in 12 .. 12 + 2 : k \in c <=> k \in f3
    BY <2>1, <2>2
  <2>5. Opcode(c) = 19 BY <1>2, <2>3, <2>4, FitsIn, FieldsAre DEF op, Opcode
  <2>6. Funct3(c) = 5 BY <1>2, <2>3, <2>4, FitsIn, FieldsAre DEF f3, Funct3
  <2>7. <<"srli", 19, 5, 0>> \in ISB BY DEF ISB
  <2>8. "srli" \in Matches(c) BY <2>5, <2>6, <2>7, RowFound DEF KeyISB, Matches
  <2>9. Lookup(c) = {"srli"} BY <2>8, LookupIs
  <2> QED BY <2>9 DEF c
<1> QED BY <1>1, <1>2

\* A word is a fence only when the twelve bits above funct3 and rs1 are zero:
\* a fence that names what it orders is an illegal instruction.
THEOREM FencesAreBare ==
    \A c : "fence" \in Lookup(c) => High12(c) = 0
<1> SUFFICES ASSUME NEW c, "fence" \in Lookup(c) PROVE High12(c) = 0
  OBVIOUS
<1>1. "fence" \notin Found(R, KeyR(c)) BY FoundRow DEF KeyR, R
<1>2. "fence" \notin Found(UJ, KeyUJ(c)) BY FoundRow DEF KeyUJ, UJ
<1>3. "fence" \notin Found(ISB, KeyISB(c))
  <2>1. \A q \in ISB : q[1] # "fence" BY SMTT(60) DEF ISB
  <2> QED BY <2>1, FoundRow DEF KeyISB
<1>4. "fence" \in Found(Sys, KeySys(c))
  BY <1>1, <1>2, <1>3 DEF Lookup
<1>5. \A q \in Sys : q[1] = "fence" => q[4] = 0
  BY DEF Sys
<1> QED BY <1>4, <1>5, FoundRow DEF KeySys
=============================================================================
