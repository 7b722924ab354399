-------------------------- MODULE Terminal_proofs --------------------------
(***************************************************************************)
(* Proofs about the breakpoint table, for any set of addresses and any     *)
(* bound on the counter below the range of unsigned int, and about what    *)
(* print shows: for any memory, any symbols, any lines that can be typed   *)
(* and any bases.                                                          *)
(***************************************************************************)
EXTENDS Terminal, Numbers_proofs

-----------------------------------------------------------------------------
(* The table *)

\* The table's inductive invariant: its three invariants together.
TableInv == TypeOK /\ NumbersIssued /\ NumbersUnique

\* The empty table satisfies it.
LEMMA TableInit == Init => TableInv
  BY BreakpointsAssumption
     DEF Init, TableInv, TypeOK, NumbersIssued, NumbersUnique, Live

\* Adding a breakpoint draws a number that no breakpoint has.
LEMMA AddKeeps ==
  ASSUME TableInv, NEW a \in Addr, AddBreakpoint(a)
  PROVE  TableInv' /\ NoneRevived
  <1> USE BreakpointsAssumption
          DEF TableInv, TypeOK, NumbersIssued, NumbersUnique, Live, AddBreakpoint
  <1>1. TypeOK'
    OBVIOUS
  <1>2. NumbersIssued'
    OBVIOUS
  <1>3. NumbersUnique'
    OBVIOUS
  <1>4. NoneRevived
    BY DEF NoneRevived, Numbers
  <1> QED  BY <1>1, <1>2, <1>3, <1>4

\* Removing one keeps the others' numbers and issues none.
LEMMA RemoveKeeps ==
  ASSUME TableInv, NEW k, RemoveBreakpoint(k)
  PROVE  TableInv' /\ Numbers' \subseteq Numbers /\ bkptCount' = bkptCount
  <1> USE DEF TableInv, TypeOK, NumbersIssued, NumbersUnique, Live
  <1>1. PICK a \in Live : /\ bkpts' = [x \in Live \ {a} |-> bkpts[x]]
                          /\ bkptCount' = bkptCount
    BY DEF RemoveBreakpoint
  <1>2. TableInv'
    BY <1>1
  <1>3. Numbers' \subseteq Numbers
    BY <1>1 DEF Numbers
  <1> QED  BY <1>1, <1>2, <1>3

\* Clearing the table keeps the counter.
LEMMA ClearKeeps ==
  ASSUME TableInv, ClearBreakpoints
  PROVE  TableInv' /\ Numbers' = {} /\ bkptCount' = bkptCount
  BY DEF TableInv, TypeOK, NumbersIssued, NumbersUnique, Live, Numbers, ClearBreakpoints

\* Every step keeps the invariant and revives no retired number.
LEMMA TableStep ==
  ASSUME TableInv, [Next]_vars
  PROVE  TableInv' /\ NoneRevived
  <1>1. ASSUME NEW a \in Addr, AddBreakpoint(a)
        PROVE  TableInv' /\ NoneRevived
    BY <1>1, AddKeeps
  <1>2. ASSUME NEW n \in 0 .. ULongMod - 1, DeleteNumber(n)
        PROVE  TableInv' /\ Numbers' \subseteq Numbers /\ bkptCount' = bkptCount
    BY <1>2, RemoveKeeps DEF DeleteNumber
  <1>3. CASE ClearBreakpoints
    BY <1>3, ClearKeeps DEF NoneRevived, TableInv, TypeOK
  <1>4. CASE UNCHANGED vars
    BY <1>4 DEF vars, NoneRevived, TableInv, TypeOK, NumbersIssued, NumbersUnique, Live, Numbers
  <1> QED  BY <1>1, <1>2, <1>3, <1>4 DEF Next, NoneRevived, TableInv, TypeOK

\* The table's invariant holds, whatever is set, deleted and cleared.
THEOREM TableInvariance == Spec => []TableInv
  <1>1. TableInv /\ [Next]_vars => TableInv'
    BY TableStep
  <1> QED  BY <1>1, TableInit, PTL DEF Spec

\* Type correctness of m_breakpoints and its counter.
THEOREM TypeCorrect == Spec => []TypeOK
  BY TableInvariance, PTL DEF TableInv

\* The counter of AddBreakpoint is ahead of every number in the table.
THEOREM NumbersWereIssued == Spec => []NumbersIssued
  BY TableInvariance, PTL DEF TableInv

\* A live number names one breakpoint, so that RemoveBreakpoint's find_if
\* finds the one meant.
THEOREM NumbersNameBreakpoints == Spec => []NumbersUnique
  BY TableInvariance, PTL DEF TableInv

\* A number that was deleted or cleared never names a breakpoint again.
THEOREM RetiredForever == Spec => RetiredStaysRetired
  <1>1. TableInv /\ [Next]_vars => [NoneRevived]_vars
    BY TableStep
  <1> QED  BY <1>1, TableInvariance, PTL DEF Spec, RetiredStaysRetired

\* On the terminal, too, the commands move the table as Breakpoints says: no
\* print, info, load or report of a run touches it.
THEOREM TerminalKeepsTheTable == TerminalSpec => Spec
  <1>1. TerminalInit => Init
    BY DEF TerminalInit
  <1>2. [TerminalNext]_terminalVars => [Next]_vars
    <2> SUFFICES ASSUME TerminalNext PROVE [Next]_vars
      BY DEF terminalVars, vars
    <2>1. ASSUME NEW a \in Addr, CmdBreak(a) PROVE [Next]_vars
      BY <2>1 DEF CmdBreak, Next
    <2>2. CASE CmdDelete
      BY <2>2 DEF CmdDelete, Next
    <2>3. CASE CmdInfo \/ Report \/ CmdLoad
      BY <2>3 DEF CmdInfo, Report, CmdLoad
    <2>4. ASSUME NEW l \in PrintLine, CmdPrint(l) PROVE [Next]_vars
      BY <2>4 DEF CmdPrint
    <2> QED BY <2>1, <2>2, <2>3, <2>4 DEF TerminalNext
  <1> QED BY <1>1, <1>2, PTL DEF TerminalSpec, Spec

\* So that what holds of the table holds of it there.
THEOREM TableOnTerminal ==
    TerminalSpec => /\ []TypeOK /\ []NumbersIssued /\ []NumbersUnique
                    /\ RetiredStaysRetired
  BY TerminalKeepsTheTable, TypeCorrect, NumbersWereIssued, NumbersNameBreakpoints,
     RetiredForever

-----------------------------------------------------------------------------
(* Lines *)

\* A set of natural numbers that is not empty has a Min.
LEMMA MinIs ==
    ASSUME NEW S \in SUBSET Nat, S # {}
    PROVE  Min(S) \in S /\ \A i \in S : Min(S) <= i
BY Smallest DEF Min

\* The parts of a line that is not refused are what they should be.
LEMMA LineParts ==
    ASSUME NEW l \in PrintLine, ValidLine(l), ~Help(l)
    PROVE  /\ Format(l) \in Formats
           /\ Sized(l) => Size(l) \in Nat
           /\ l[1].is = "0x" => l[1].n \in Nat
           /\ l[1].name \in DOMAIN Symbols => Symbols[l[1].name] \in Nat
<1>0. l \in Seq(Word)
  BY TerminalAssumption
<1>1. Len(l) \in {1, 2, 3}
  BY <1>0 DEF ValidLine
<1>2. DOMAIN l = 1 .. Len(l) /\ (\A i \in 1 .. Len(l) : l[i] \in Word)
      /\ Len(l) \in Nat /\ Len(l) <= 3
  <2>1. Len(l) \in Nat /\ Len(l) <= 3 BY <1>1
  <2>2. DOMAIN l = 1 .. Len(l) BY <1>0
  <2>3. \A i \in 1 .. Len(l) : l[i] \in Word BY <1>0
  <2> QED BY <2>1, <2>2, <2>3
<1>3. Parsed(l) = 1 .. Len(l)
  <2>1. ASSUME NEW i \in 1 .. Len(l), NEW j \in 1 .. i PROVE l[j].is # "-h"
    <3>1. j \in 1 .. Len(l) BY <1>2
    <3> QED BY <1>2, <3>1 DEF Help
  <2> QED BY <1>2, <2>1 DEF Parsed
<1>4. \A i \in 2 .. Len(l) : i \in 1 .. Len(l) /\ ValidOption(l[i])
  <2>1. ASSUME NEW i \in 2 .. Len(l) PROVE i \in 1 .. Len(l) /\ i # 1
    BY <1>2
  <2> QED BY <1>3, <2>1 DEF ValidLine
<1>5. ValidItem(l[1])
  BY <1>1, <1>3 DEF ValidLine
<1>6. ASSUME NEW S \in SUBSET (2 .. Len(l)), S # {} PROVE Max(S) \in S
  <2>1. ASSUME NEW i \in S PROVE i = 2 \/ i = 3
    <3>1. i \in 2 .. Len(l) OBVIOUS
    <3> QED BY <1>2, <3>1
  <2>2. \E x \in S : \A y \in S : x >= y
    <3>1. CASE 3 \in S BY <2>1, <3>1
    <3>2. CASE 3 \notin S
      <4>1. \A i \in S : i = 2 BY <2>1, <3>2
      <4>2. 2 \in S BY <1>6, <4>1
      <4> QED BY <4>1, <4>2
    <3> QED BY <3>1, <3>2
  <2> QED BY <2>2 DEF Max
<1>7. Format(l) \in Formats
  <2> DEFINE at == {i \in 2 .. Len(l) : l[i].is = "type"}
  <2>1. Format(l) = IF at = {} THEN "raw" ELSE l[Max(at)].name
    BY DEF Format, LastOption
  <2>2. at # {} => Max(at) \in at
    BY <1>6
  <2>3. \A i \in at : l[i].name \in Formats
    BY <1>2, <1>4 DEF Word
  <2> HIDE DEF at
  <2> QED BY <2>1, <2>2, <2>3 DEF Formats
<1>8. Sized(l) => Size(l) \in Nat
  <2> DEFINE at == {i \in 2 .. Len(l) : l[i].is = "0x"}
  <2>1. Sized(l) => at # {} /\ Size(l) = l[Max(at)].n
    BY DEF Sized, Size, LastOption
  <2>2. at # {} => Max(at) \in at
    BY <1>6
  <2>3. \A i \in at : l[i].n \in Nat
    <3>1. ASSUME NEW i \in at PROVE l[i] \in Word /\ l[i].is = "0x" /\ l[i].n # NaN
      BY <1>2, <1>4 DEF ValidOption
    <3> HIDE DEF at
    <3> QED BY <3>1 DEF Word
  <2> HIDE DEF at
  <2> QED BY <2>1, <2>2, <2>3
<1>9. l[1].is = "0x" => l[1].n \in Nat
  BY <1>1, <1>2, <1>5 DEF ValidItem, Word
<1> QED BY <1>7, <1>8, <1>9, TerminalAssumption

-----------------------------------------------------------------------------
(* Values *)

\* The widths of the types.
LEMMA Widths == \A f \in Formats : Width(f) \in {1, 2, 4, 8}
BY DEF Formats, Width

\* The bytes of a value are digits.
LEMMA Bytes ==
    ASSUME NEW a \in Nat, NEW n \in Nat, \A i \in 0 .. n - 1 : a + i \in Mapped
    PROVE  InBase([j \in 0 .. n - 1 |-> Memory[a + j]], ByteMod, n)
BY TerminalAssumption DEF InBase, Mapped

\* What can be read before Get throws.
LEMMA ReadableBytes ==
    ASSUME NEW a \in Nat, NEW n \in Nat
    PROVE  /\ Readable(a, n) \in 0 .. n
           /\ \A i \in 0 .. Readable(a, n) - 1 : a + i \in Mapped
<1> DEFINE bad == {i \in 0 .. n - 1 : a + i \notin Mapped}
<1>1. bad # {} => Min(bad) \in bad /\ \A i \in bad : Min(bad) <= i
  <2>1. bad \in SUBSET Nat OBVIOUS
  <2> HIDE DEF bad
  <2> QED BY <2>1, MinIs
<1>2. Readable(a, n) = IF bad = {} THEN n ELSE Min(bad)
  BY DEF Readable
<1>3. CASE bad = {}
  <2>1. Readable(a, n) = n BY <1>2, <1>3
  <2>2. \A i \in 0 .. n - 1 : a + i \in Mapped BY <1>3
  <2> QED BY <2>1, <2>2
<1>4. CASE bad # {}
  <2> DEFINE m == Min(bad)
  <2>1. m \in bad /\ \A i \in bad : m <= i BY <1>1, <1>4
  <2> HIDE DEF m
  <2>2. Readable(a, n) = m BY <1>2, <1>4 DEF m
  <2> QED BY <2>1, <2>2
<1> QED BY <1>3, <1>4

\* A value cast to a type of w bytes has the low w bytes for its digits, and
\* is in the range of the type: the casts of svalue, two's complement.
LEMMA CastRepresents ==
    ASSUME NEW a \in Nat, NEW n \in Nat, \A i \in 0 .. n - 1 : a + i \in Mapped,
           NEW f \in Formats, Width(f) <= n
    PROVE  Represents(Cast(Value(a, n), f), a, Width(f), Signed(f))
<1> DEFINE d == [j \in 0 .. n - 1 |-> Memory[a + j]]
           b == ByteMod
           w == Width(f)
           m == Power(b, w)
           low == Value(a, n) % m
           v == Cast(Value(a, n), f)
<1>1. b \in Nat /\ b > 1 /\ b % 2 = 0
  BY TerminalAssumption
<1>2. w \in Nat /\ w - 1 \in Nat /\ w \in 0 .. n
  BY Widths
<1>3. InBase(d, b, n)
  BY Bytes
<1>4. Value(a, n) = FromDigits(d, b, n)
  BY DEF Value
<1>5. v = IF Signed(f) /\ low >= m \div 2 THEN low - m ELSE low
  BY DEF Cast
<1>6. \A j \in 0 .. w - 1 : d[j] = Memory[a + j]
  BY <1>2
<1>7. Represents(v, a, w, Signed(f))
          = /\ \A j \in 0 .. w - 1 : (v \div Power(b, j)) % b = Memory[a + j]
            /\ IF Signed(f) THEN -m <= 2 * v /\ 2 * v < m ELSE 0 <= v /\ v < m
  BY DEF Represents
<1> HIDE DEF d, w, v, b
<1>8. low = FromDigits(d, b, w) /\ InBase(d, b, w)
  BY <1>1, <1>2, <1>3, <1>4, DigitsDivided
<1>9. low \in 0 .. m - 1
  BY <1>1, <1>2, <1>8, DigitsBound
<1>10. m \in Nat /\ m > 0 /\ m = b * Power(b, w - 1) /\ Power(b, w - 1) \in Nat
  <2>1. m = b * Power(b, w - 1) /\ Power(b, w - 1) \in Nat
    <3>1. Power(b, (w - 1) + 1) = b * Power(b, w - 1) /\ Power(b, w - 1) \in Nat
      BY <1>1, <1>2, PowerStep
    <3>2. (w - 1) + 1 = w BY <1>2
    <3> QED BY <3>1, <3>2
  <2> QED BY <1>1, <1>2, <2>1, PowerPositive
<1>11. m % 2 = 0
  <2> DEFINE k == b \div 2
             q == Power(b, w - 1)
  <2>1. k \in Int /\ b = k * 2 BY <1>1, Remainder
  <2>2. q \in Nat BY <1>10
  <2>3. m = b * q BY <1>10
  <2> HIDE DEF k, q, m
  <2>4. m = (k * q) * 2 + 0 /\ k * q \in Int BY <2>1, <2>2, <2>3
  <2> QED BY <2>4, Division
<1> HIDE DEF low, m
<1>12. v \in Int /\ v % m = low
  <2>1. v = 0 * m + low \/ v = (-1) * m + low BY <1>5, <1>9, <1>10
  <2>2. low \in Nat /\ low < m /\ 0 \in Int /\ -1 \in Int BY <1>9, <1>10
  <2>3. v % m = low
    <3>1. CASE v = 0 * m + low BY <1>10, <2>2, <3>1, Division
    <3>2. CASE v = (-1) * m + low BY <1>10, <2>2, <3>2, Division
    <3> QED BY <2>1, <3>1, <3>2
  <2> QED BY <1>5, <1>9, <1>10, <2>3
<1>13. IF Signed(f) THEN -m <= 2 * v /\ 2 * v < m ELSE 0 <= v /\ v < m
  <2>1. CASE Signed(f) /\ low >= m \div 2 BY <1>5, <1>9, <1>10, <1>11, <2>1
  <2>2. CASE Signed(f) /\ ~(low >= m \div 2) BY <1>5, <1>9, <1>10, <1>11, <2>2
  <2>3. CASE ~Signed(f) BY <1>5, <1>9, <1>10, <2>3
  <2> QED BY <2>1, <2>2, <2>3
<1>14. ASSUME NEW j \in 0 .. w - 1 PROVE (v \div Power(b, j)) % b = d[j]
  <2> DEFINE e == DigitsOf(v, b, w)
  <2>1. InBase(e, b, w) /\ FromDigits(e, b, w) = low
    BY <1>1, <1>2, <1>12, DigitsMake DEF m
  <2>2. e[j] = (v \div Power(b, j)) % b
    BY DEF DigitsOf
  <2> HIDE DEF e
  <2>3. (FromDigits(e, b, w) \div Power(b, j)) % b = e[j]
    BY <1>1, <1>2, <2>1, DigitAt
  <2>4. (FromDigits(d, b, w) \div Power(b, j)) % b = d[j]
    BY <1>1, <1>2, <1>8, DigitAt
  <2> QED BY <1>8, <2>1, <2>2, <2>3, <2>4
<1>15. Represents(v, a, w, Signed(f))
  BY <1>6, <1>7, <1>13, <1>14
<1> QED BY <1>15 DEF v, w

\* A byte is the number of itself, also after the cast of PrintMemString.
LEMMA ByteRepresents ==
    ASSUME NEW a \in Nat, a \in Mapped
    PROVE  Represents(Memory[a], a, 1, FALSE) /\ Cast(Memory[a], "string") = Memory[a]
<1>1. Memory[a] \in Nat /\ Memory[a] < ByteMod /\ ByteMod \in Nat
  BY TerminalAssumption DEF Mapped
<1>2. Power(ByteMod, 0) = 1 /\ Power(ByteMod, 0 + 1) = ByteMod * Power(ByteMod, 0)
  BY <1>1, PowerStep
<1>3. Power(ByteMod, 1) = ByteMod
  BY <1>1, <1>2
<1> DEFINE v == Memory[a]
           b == ByteMod
<1> HIDE DEF v, b
<1>4. v \div 1 = v /\ v % b = v
  BY <1>1 DEF v, b
<1>5. Represents(v, a, 1, FALSE)
  <2>1. \A j \in 0 .. 1 - 1 : j = 0 /\ Memory[a + j] = v
    <3>1. a + 0 = a OBVIOUS
    <3> QED BY <3>1 DEF v
  <2> QED BY <1>1, <1>2, <1>3, <1>4, <2>1 DEF Represents, v, b
<1>6. Cast(v, "string") = v
  BY <1>3, <1>4 DEF Cast, Width, Signed, b
<1> QED BY <1>5, <1>6 DEF v

-----------------------------------------------------------------------------
(* print *)

\* What both invariants say of a print, of the parts of what it shows.
Shown(f, a, n, text, ok) ==
    LET w == IF f = "raw" /\ n # NaN THEN 1 ELSE Width(f)
        asked == IF n = NaN THEN 1 ELSE n \div w
        m == Len(text)
    IN  /\ m <= asked
        /\ \A i \in 1 .. m : Represents(text[i].value, a + w * (i - 1), w, Signed(f))
        /\ ok /\ m < asked => f = "string" /\ Memory[a + m] = 0
        /\ \A i \in DOMAIN text : text[i].base = IF f = "raw" THEN Hex ELSE Dec

\* They are what the invariants say.
LEMMA ShownRight ==
    ASSUME NEW f, NEW a, NEW n, NEW text, NEW ok,
           Shows(f, a, n, text, ok), Shown(f, a, n, text, ok)
    PROVE  ShowsMemory' /\ PrintSetsItsBase'
BY DEF Shows, Shown, ShowsMemory, PrintSetsItsBase, Element

\* An error shows nothing, and says so.
LEMMA NothingShown ==
    ASSUME NEW f \in Formats, NEW a \in Nat, NEW n \in Nat \cup {NaN}
    PROVE  Shown(f, a, n, <<>>, FALSE)
<1>1. Width(f) \in {1, 2, 4, 8}
  BY Widths
<1>2. n \in Nat => n \div 1 >= 0 /\ n \div 2 >= 0 /\ n \div 4 >= 0 /\ n \div 8 >= 0
  OBVIOUS
<1> QED BY <1>1, <1>2 DEF Shown

\* A value alone.
LEMMA SingleShown ==
    ASSUME NEW f \in Formats, NEW a \in Nat, PrintMemSingle(f, a)
    PROVE  ShowsMemory' /\ PrintSetsItsBase'
<1>1. CASE Shows(f, a, NaN, <<>>, FALSE)
  BY <1>1, NothingShown, ShownRight
<1>2. CASE /\ Readable(a, 8) = 8
           /\ base' = IF f = "raw" THEN Hex ELSE Dec
           /\ Shows(f, a, NaN, <<Number(Cast(Value(a, 8), f), base')>>, TRUE)
  <2> DEFINE v == Cast(Value(a, 8), f)
             text == <<Number(v, base')>>
  <2>1. \A i \in 0 .. 8 - 1 : a + i \in Mapped
    BY <1>2, ReadableBytes
  <2>2. Width(f) \in Nat /\ Width(f) <= 8
    BY Widths
  <2>3. Represents(v, a, Width(f), Signed(f))
    BY <2>1, <2>2, CastRepresents
  <2> HIDE DEF v
  <2>4. Len(text) = 1 /\ DOMAIN text = {1} /\ text[1].value = v /\ text[1].base = base'
    BY DEF Number
  <2> HIDE DEF text
  <2>5. a + Width(f) * (1 - 1) = a
    BY <2>2
  <2>6. \A i \in 1 .. Len(text) :
            Represents(text[i].value, a + Width(f) * (i - 1), Width(f), Signed(f))
    <3>1. \A i \in 1 .. Len(text) : i = 1 BY <2>4
    <3> QED BY <2>3, <2>4, <2>5, <3>1
  <2>7. Shown(f, a, NaN, text, TRUE)
    BY <1>2, <2>4, <2>6 DEF Shown
  <2> QED BY <1>2, <2>7, ShownRight DEF text, v
<1> QED BY <1>1, <1>2 DEF PrintMemSingle

\* A dump of bytes.
LEMMA BlockShown ==
    ASSUME NEW a \in Nat, NEW n \in Nat, PrintMemBlock(a, n)
    PROVE  ShowsMemory' /\ PrintSetsItsBase'
<1> DEFINE m == Readable(a, n)
           text == [i \in 1 .. m |-> Number(Memory[a + i - 1], base')]
<1>1. m \in Nat /\ m <= n /\ \A i \in 0 .. m - 1 : a + i \in Mapped
  BY ReadableBytes
<1>2. Len(text) = m /\ DOMAIN text = 1 .. m
  BY <1>1
<1>3. \A i \in 1 .. m : text[i].value = Memory[a + i - 1] /\ text[i].base = base'
  BY DEF Number
<1>4. ASSUME NEW i \in 1 .. m
      PROVE  Represents(text[i].value, a + 1 * (i - 1), 1, Signed("raw")) /\ text[i].base = Hex
  <2>1. a + 1 * (i - 1) = a + i - 1 /\ a + i - 1 \in Nat /\ i - 1 \in 0 .. m - 1
        /\ a + i - 1 = a + (i - 1) /\ n > 0
    BY <1>1
  <2>2. a + i - 1 \in Mapped
    BY <1>1, <2>1
  <2>3. base' = Hex
    BY <2>1 DEF PrintMemBlock
  <2>4. Represents(Memory[a + i - 1], a + i - 1, 1, FALSE)
    BY <2>1, <2>2, ByteRepresents
  <2>5. Signed("raw") = FALSE
    BY DEF Signed
  <2>6. text[i].value = Memory[a + i - 1] /\ text[i].base = Hex
    BY <1>3, <2>3
  <2> HIDE DEF text
  <2> QED BY <2>1, <2>4, <2>5, <2>6
<1>5. Shows("raw", a, n, text, m = n)
  BY DEF PrintMemBlock
<1> HIDE DEF text, m
<1>6. n # NaN /\ n \div 1 = n
  BY DEF NaN
<1>7. Shown("raw", a, n, text, m = n)
  BY <1>1, <1>2, <1>4, <1>6 DEF Shown
<1> QED BY <1>5, <1>7, ShownRight

\* A string.
LEMMA StringShown ==
    ASSUME NEW a \in Nat, NEW n \in Nat, PrintMemString(a, n)
    PROVE  ShowsMemory' /\ PrintSetsItsBase'
<1> DEFINE r == Readable(a, n)
           zeros == {i \in 0 .. r - 1 : Memory[a + i] = 0}
           m == IF zeros = {} THEN r ELSE Min(zeros)
           text == [i \in 1 .. m |-> Number(Cast(Memory[a + i - 1], "string"), Dec)]
           ok == zeros # {} \/ m = n
<1>1. r \in Nat /\ r <= n /\ \A i \in 0 .. r - 1 : a + i \in Mapped
  BY ReadableBytes
<1>2. zeros # {} => m \in zeros
  <2>1. zeros \in SUBSET Nat BY <1>1
  <2> HIDE DEF zeros
  <2> QED BY <2>1, MinIs
<1>3. m \in Nat /\ m <= r
  BY <1>1, <1>2
<1>4. ok /\ m < n => Memory[a + m] = 0
  BY <1>2
<1>5. Shows("string", a, n, text, ok)
  BY DEF PrintMemString
<1> HIDE DEF m, ok, r
<1>6. Len(text) = m /\ DOMAIN text = 1 .. m
  BY <1>3
<1>7. ASSUME NEW i \in 1 .. m
      PROVE  Represents(text[i].value, a + 1 * (i - 1), 1, FALSE) /\ text[i].base = Dec
  <2>1. a + 1 * (i - 1) = a + i - 1 /\ a + i - 1 \in Nat /\ i - 1 \in 0 .. r - 1
        /\ a + i - 1 = a + (i - 1)
    BY <1>1, <1>3
  <2>2. a + i - 1 \in Mapped
    BY <1>1, <2>1
  <2>3. text[i].value = Cast(Memory[a + i - 1], "string") /\ text[i].base = Dec
    BY DEF Number
  <2> QED BY <2>1, <2>2, <2>3, ByteRepresents
<1> HIDE DEF text
<1>8. n # NaN /\ n \div 1 = n /\ Width("string") = 1 /\ Signed("string") = FALSE
  BY DEF NaN, Width, Signed
<1>9. Shown("string", a, n, text, ok)
  <2> DEFINE w == Width("string")
             g == Signed("string")
  <2>1. w = 1 /\ g = FALSE BY <1>8
  <2> HIDE DEF w, g
  <2>2. \A i \in 1 .. m : Represents(text[i].value, a + w * (i - 1), w, g) /\ text[i].base = Dec
    BY <1>7, <2>1
  <2>3. "string" # "raw" /\ n \div w = n BY <1>8, <2>1
  <2> QED BY <1>1, <1>3, <1>4, <1>6, <1>8, <2>2, <2>3 DEF Shown, w, g
<1> QED BY <1>5, <1>9, ShownRight

\* The places of values of w bytes among the first r.
LEMMA Places ==
    ASSUME NEW w \in {1, 2, 4, 8}, NEW n \in Nat, NEW r \in Nat, r <= n
    PROVE  /\ r \div w \in Nat /\ r \div w <= n \div w
           /\ \A i \in 1 .. r \div w : \A j \in 0 .. w - 1 : w * (i - 1) + j \in 0 .. r - 1
<1>1. CASE w = 1 BY <1>1
<1>2. CASE w = 2 BY <1>2
<1>3. CASE w = 4 BY <1>3
<1>4. CASE w = 8 BY <1>4
<1> QED BY <1>1, <1>2, <1>3, <1>4

\* A list of values.
LEMMA ValuesShown ==
    ASSUME NEW f \in Formats, f \notin {"raw", "string"}, NEW a \in Nat, NEW n \in Nat,
           PrintMemValues(f, a, n)
    PROVE  ShowsMemory' /\ PrintSetsItsBase'
<1> DEFINE w == Width(f)
           r == Readable(a, n)
           m == r \div w
           text == [i \in 1 .. m |-> Number(Cast(Value(a + w * (i - 1), w), f), base')]
<1>1. CASE Shows(f, a, n, <<>>, FALSE)
  BY <1>1, NothingShown, ShownRight
<1>2. CASE /\ base' = IF m > 0 THEN Dec ELSE base
           /\ Shows(f, a, n, text, r = n)
  <2>1. w \in {1, 2, 4, 8}
    BY Widths
  <2>2. r \in Nat /\ r <= n /\ \A i \in 0 .. r - 1 : a + i \in Mapped
    BY ReadableBytes
  <2> HIDE DEF r, w
  <2>3. /\ m \in Nat /\ m <= n \div w
        /\ \A i \in 1 .. m : \A j \in 0 .. w - 1 : w * (i - 1) + j \in 0 .. r - 1
    BY <2>1, <2>2, Places
  <2>4. r = n => m = n \div w
    OBVIOUS
  <2> HIDE DEF m
  <2>5. Len(text) = m /\ DOMAIN text = 1 .. m
    BY <2>3
  <2>6. ASSUME NEW i \in 1 .. m
        PROVE  Represents(text[i].value, a + w * (i - 1), w, Signed(f)) /\ text[i].base = Dec
    <3> DEFINE b == a + w * (i - 1)
    <3>1. w \in Nat /\ b \in Nat /\ w <= w
      BY <2>1, <2>3
    <3>2. \A j \in 0 .. w - 1 : b + j \in Mapped
      <4>1. ASSUME NEW j \in 0 .. w - 1 PROVE b + j \in Mapped
        <5>1. w * (i - 1) + j \in 0 .. r - 1 BY <2>3
        <5>2. a + (w * (i - 1) + j) \in Mapped BY <2>2, <5>1
        <5>3. b + j = a + (w * (i - 1) + j) BY <2>1, <2>3
        <5> QED BY <5>2, <5>3
      <4> QED BY <4>1
    <3>3. text[i].value = Cast(Value(b, w), f) /\ text[i].base = base'
      BY DEF Number
    <3>4. base' = Dec
      BY <1>2, <2>3
    <3> HIDE DEF b, text
    <3>5. Represents(Cast(Value(b, w), f), b, Width(f), Signed(f))
      BY <3>1, <3>2, CastRepresents DEF w
    <3> QED BY <3>3, <3>4, <3>5 DEF b, w
  <2>7. n # NaN
    BY DEF NaN
  <2>8. Shows(f, a, n, text, r = n)
    BY <1>2
  <2> HIDE DEF text
  <2>9. Shown(f, a, n, text, r = n)
    BY <2>3, <2>4, <2>5, <2>6, <2>7 DEF Shown, w
  <2> QED BY <2>8, <2>9, ShownRight
<1> QED BY <1>1, <1>2 DEF PrintMemValues

\* print, with any line.
LEMMA PrintShows ==
    ASSUME NEW l \in PrintLine, CmdPrint(l)
    PROVE  ShowsMemory' /\ PrintSetsItsBase'
<1>1. CASE out' = Silence
  BY <1>1 DEF Silence, ShowsMemory, PrintSetsItsBase
<1>2. ASSUME NEW a \in Nat, PrintMem(a, l), ValidLine(l), ~Help(l)
      PROVE  ShowsMemory' /\ PrintSetsItsBase'
  <2>1. Format(l) \in Formats /\ (Sized(l) => Size(l) \in Nat)
    BY <1>2, LineParts
  <2> QED BY <1>2, <2>1, SingleShown, BlockShown, StringShown, ValuesShown DEF PrintMem
<1>3. CASE ValidLine(l) /\ ~Help(l) /\ l[1].is = "0x" /\ PrintMem(l[1].n, l)
  BY <1>2, <1>3, LineParts
<1>4. CASE ValidLine(l) /\ ~Help(l) /\ l[1].name \in DOMAIN Symbols
           /\ PrintMem(Symbols[l[1].name], l)
  BY <1>2, <1>4, LineParts
<1> QED BY <1>1, <1>3, <1>4 DEF CmdPrint

\* Every step keeps both, whatever the table and the number base are.
LEMMA ShowStep ==
    ASSUME ShowsMemory, PrintSetsItsBase, [TerminalNext]_terminalVars
    PROVE  ShowsMemory' /\ PrintSetsItsBase'
<1>1. CASE UNCHANGED terminalVars
  BY <1>1 DEF terminalVars, ShowsMemory, PrintSetsItsBase, Element
<1>2. ASSUME NEW l \in PrintLine, CmdPrint(l)
      PROVE  ShowsMemory' /\ PrintSetsItsBase'
  BY <1>2, PrintShows
<1>3. ASSUME out'.cmd # "print"
      PROVE  ShowsMemory' /\ PrintSetsItsBase'
  BY <1>3 DEF ShowsMemory, PrintSetsItsBase
<1>4. ASSUME NEW a \in Addr, CmdBreak(a) PROVE out'.cmd # "print"
  BY <1>4 DEF CmdBreak, Announces, Silence
<1>5. CmdDelete \/ CmdInfo \/ Report \/ CmdLoad => out'.cmd # "print"
  BY DEF CmdDelete, CmdInfo, Report, CmdLoad, Announces, Silence
<1> QED BY <1>1, <1>2, <1>3, <1>4, <1>5 DEF TerminalNext

\* The first screen shows nothing.
LEMMA ShowInit == TerminalInit => ShowsMemory /\ PrintSetsItsBase
BY DEF TerminalInit, Silence, ShowsMemory, PrintSetsItsBase

\* What print shows of memory is what is there, in every format and size, for
\* every memory: the values, their sign, their number and where they stop.
THEOREM PrintShowsMemory == TerminalSpec => []ShowsMemory
<1>1. ShowsMemory /\ PrintSetsItsBase /\ [TerminalNext]_terminalVars
          => (ShowsMemory /\ PrintSetsItsBase)'
  BY ShowStep
<1> QED BY <1>1, ShowInit, PTL DEF TerminalSpec

\* It is in base 10, or in base 16 for raw memory, whichever base another
\* command has left std::cout in.
THEOREM PrintsInItsBase == TerminalSpec => []PrintSetsItsBase
<1>1. ShowsMemory /\ PrintSetsItsBase /\ [TerminalNext]_terminalVars
          => (ShowsMemory /\ PrintSetsItsBase)'
  BY ShowStep
<1> QED BY <1>1, ShowInit, PTL DEF TerminalSpec
=============================================================================
