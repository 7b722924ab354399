------------------------------ MODULE Terminal ------------------------------
(***************************************************************************)
(* What the user reads and types: print, info, break, delete and what the  *)
(* other commands report.  They share std::cout, whose number base stays   *)
(* what the last output has made it, and break and delete share the table  *)
(* of module Breakpoints.                                                  *)
(*                                                                         *)
(* A number on the screen is its value and the base that it is written in; *)
(* addresses of rows, alignment and words are left out.                    *)
(***************************************************************************)
EXTENDS Breakpoints, Numbers, Sequences, FiniteSetsExt

CONSTANTS
    Dec, Hex,   \* the bases, 10 and 16 in the code
    ByteMod,    \* 2^8 in the code: the range of a byte
    Registers,  \* 32 in the code
    Memory,     \* what is in memory, as a function from addresses to bytes
    Symbols,    \* m_symbolMap, as a function from names to addresses
    PrintLine   \* what can be typed after "print": sequences of words

NaN == -1

Formats == {"raw", "string", "int8_t", "uint8_t", "int16_t", "uint16_t",
            "int32_t", "uint32_t", "int64_t", "uint64_t"}

\* A word as the parser of print looks at it: what it begins with ("0x" before
\* a name, "x" before "pc" for a name in x), the number that stoul or stoull
\* makes of the rest, or NaN if it throws, and the word itself.
Word == {w \in [is : {"-h", "pc", "x", "0x", "type", "name"}, n : {NaN} \cup Nat, name : STRING] :
            w.is = "type" => w.name \in Formats}

ASSUME TerminalAssumption ==
    /\ Dec \in Nat /\ Hex \in Nat /\ 1 < Dec /\ Dec < Hex
    /\ ByteMod \in Nat /\ ByteMod > 1 /\ ByteMod % 2 = 0
    /\ \A a \in DOMAIN Memory : Memory[a] \in 0 .. ByteMod - 1
    /\ Symbols \in [DOMAIN Symbols -> Nat]
    /\ \A l \in PrintLine : l \in Seq(Word)

VARIABLES
    base,   \* the base in which std::cout writes
    out     \* what the last command has put on the screen

terminalVars == <<bkpts, bkptCount, base, out>>

Silence == [cmd |-> "other"]

TerminalInit == Init /\ base = Dec /\ out = Silence

-----------------------------------------------------------------------------
(* The parser: ArgParse *)

\* Words after a -h are not looked at.
Parsed(l) == {i \in DOMAIN l : \A j \in 1 .. i : l[j].is # "-h"}

Help(l) == \E i \in DOMAIN l : l[i].is = "-h"

\* What is not a register, the pc or an address is the name of a symbol.
ValidItem(w) ==
    CASE w.is = "x" -> w.n # NaN /\ w.n % UIntMod < Registers
      [] w.is = "0x" -> w.n # NaN
      [] OTHER -> TRUE

ValidOption(w) == w.is = "type" \/ (w.is = "0x" /\ w.n # NaN)

ValidLine(l) ==
    /\ Len(l) \in 1 .. 3
    /\ \A i \in Parsed(l) : IF i = 1 THEN ValidItem(l[1]) ELSE ValidOption(l[i])

\* The last size and the last type count.
LastOption(l, is, default) ==
    LET at == {i \in 2 .. Len(l) : l[i].is = is}
    IN  IF at = {} THEN default ELSE l[Max(at)]

Sized(l) == \E i \in 2 .. Len(l) : l[i].is = "0x"
Size(l) == LastOption(l, "0x", [n |-> 0]).n
Format(l) == LastOption(l, "type", [name |-> "raw"]).name

-----------------------------------------------------------------------------
(* Values: the template svalue *)

Width(f) ==
    CASE f \in {"string", "int8_t", "uint8_t"} -> 1     \* FORMAT_SIZES
      [] f \in {"int16_t", "uint16_t"} -> 2
      [] f \in {"raw", "int32_t", "uint32_t"} -> 4      \* raw: unsigned int
      [] f \in {"int64_t", "uint64_t"} -> 8

Signed(f) == f \in {"int8_t", "int16_t", "int32_t", "int64_t"}

\* Mutation: the narrow types are taken for unsigned.
CastUnsigned(x, f) == x % Power(ByteMod, Width(f))

\* Only the low bytes count, and in a signed type the highest bit of these.
Cast(x, f) ==
    LET m == Power(ByteMod, Width(f))
        low == x % m
    IN  IF Signed(f) /\ low >= m \div 2 THEN low - m ELSE low

\* n bytes from address a, the lowest first.
Value(a, n) == FromDigits([j \in 0 .. n - 1 |-> Memory[a + j]], ByteMod, n)

Mapped == DOMAIN Memory

\* How many of n bytes from a on can be read before Get throws.
Readable(a, n) ==
    LET bad == {i \in 0 .. n - 1 : a + i \notin Mapped}
    IN  IF bad = {} THEN n ELSE Min(bad)

-----------------------------------------------------------------------------
(* print *)

Shows(f, a, n, text, ok) ==
    out' = [cmd |-> "print", format |-> f, addr |-> a, size |-> n, text |-> text, ok |-> ok]

Number(v, b) == [value |-> v, base |-> b]

\* Two words are read whatever is to be shown of them.
PrintMemSingle(f, a) ==
    \/ /\ Readable(a, 8) < 8
       /\ Shows(f, a, NaN, <<>>, FALSE)
       /\ UNCHANGED base
    \/ /\ Readable(a, 8) = 8
       /\ base' = IF f = "raw" THEN Hex ELSE Dec
       /\ Shows(f, a, NaN, <<Number(Cast(Value(a, 8), f), base')>>, TRUE)

\* The dump: what was shown before a byte throws stays on the screen.
PrintMemBlock(a, n) ==
    /\ base' = IF n > 0 THEN Hex ELSE base
    /\ Shows("raw", a, n, [i \in 1 .. Readable(a, n) |-> Number(Memory[a + i - 1], base')],
             Readable(a, n) = n)

\* Characters up to the first that is zero.
PrintMemString(a, n) ==
    LET zeros == {i \in 0 .. Readable(a, n) - 1 : Memory[a + i] = 0}
        m == IF zeros = {} THEN Readable(a, n) ELSE Min(zeros)
    IN  /\ base' = Dec
        /\ Shows("string", a, n, [i \in 1 .. m |-> Number(Cast(Memory[a + i - 1], "string"), Dec)],
                 zeros # {} \/ m = n)

\* Mutation: the base is set only when a value is shown alone.
PrintMemValuesInBase(f, a, n) ==
    LET w == Width(f)
        m == Readable(a, n) \div w
    IN  \/ n % w # 0 /\ Shows(f, a, n, <<>>, FALSE) /\ UNCHANGED base
        \/ /\ n % w = 0
           /\ UNCHANGED base
           /\ Shows(f, a, n, [i \in 1 .. m |-> Number(Cast(Value(a + w * (i - 1), w), f), base')],
                    Readable(a, n) = n)

PrintMemValues(f, a, n) ==
    LET w == Width(f)
        m == Readable(a, n) \div w
    IN  \/ n % w # 0 /\ Shows(f, a, n, <<>>, FALSE) /\ UNCHANGED base
        \/ /\ n % w = 0
           /\ base' = IF m > 0 THEN Dec ELSE base
           /\ Shows(f, a, n, [i \in 1 .. m |-> Number(Cast(Value(a + w * (i - 1), w), f), base')],
                    Readable(a, n) = n)

PrintMem(a, l) ==
    LET f == Format(l)
    IN  \/ ~Sized(l) /\ PrintMemSingle(f, a)
        \/ Sized(l) /\ f = "raw" /\ PrintMemBlock(a, Size(l))
        \/ Sized(l) /\ f = "string" /\ PrintMemString(a, Size(l))
        \/ Sized(l) /\ f \notin {"raw", "string"} /\ PrintMemValues(f, a, Size(l))

\* Errors and help go to the screen without a number.
CmdPrint(l) ==
    LET w == l[1]
        quiet == out' = Silence /\ UNCHANGED base
    IN  /\ \/ (~ValidLine(l) \/ Help(l)) /\ quiet
           \/ /\ ValidLine(l) /\ ~Help(l)
              /\ \/ w.is \in {"pc", "x"} /\ Sized(l) /\ quiet
                 \/ w.is \in {"pc", "x"} /\ ~Sized(l) /\ out' = Silence /\ base' = Hex
                 \/ w.is = "0x" /\ PrintMem(w.n, l)
                 \/ /\ w.is \in {"name", "type"} /\ w.name \in DOMAIN Symbols
                    /\ PrintMem(Symbols[w.name], l)
                 \/ w.is \in {"name", "type"} /\ w.name \notin DOMAIN Symbols /\ quiet
        /\ UNCHANGED vars

-----------------------------------------------------------------------------
(* The other commands *)

Numeral(v, b) ==
    LET digits[n \in Nat] == IF n < b THEN <<n>> ELSE Append(digits[n \div b], n % b)
    IN  digits[v]

Announces(a, n, b) == out' = [cmd |-> "break", addr |-> a, text |-> Numeral(n, b)]

\* "Breakpoint n set at", in whatever base std::cout is in; or a location that
\* is refused.
CmdBreak(a) ==
    /\ \/ AddBreakpoint(a) /\ Announces(a, bkpts'[a], base)
       \/ UNCHANGED vars /\ out' = Silence
    /\ UNCHANGED base

\* All of them, one of them, or a number that there is not.
CmdDelete ==
    /\ \/ ClearBreakpoints
       \/ \E n \in 0 .. ULongMod - 1 : DeleteNumber(n)
       \/ UNCHANGED vars
    /\ out' = Silence
    /\ UNCHANGED base

\* The pc and the registers; the last of them is written in base 16.
CmdInfo ==
    /\ base' = Hex
    /\ out' = Silence
    /\ UNCHANGED vars

\* run, continue or step: the worker may announce a host breakpoint, or an
\* address in base 16; the report ends with the number of instructions.  Before
\* the announcement the tables of a reload, or with "verbose" the listing of
\* the instructions, leave a base of their own.
Report ==
    /\ base' = Dec
    /\ \/ out' = Silence
       \/ \E a \in Live, b \in {base, Dec, Hex} : Announces(a, bkpts[a], b)
    /\ UNCHANGED vars

\* The loader's tables end in base 10, or in 16 if a segment is out of range.
CmdLoad ==
    /\ base' \in {base, Dec, Hex}
    /\ out' = Silence
    /\ UNCHANGED vars

TerminalNext ==
    \/ \E l \in PrintLine : CmdPrint(l)
    \/ \E a \in Addr : CmdBreak(a)
    \/ CmdDelete \/ CmdInfo \/ Report \/ CmdLoad

TerminalSpec == TerminalInit /\ [][TerminalNext]_terminalVars

-----------------------------------------------------------------------------
\* The width of the things that a print of that format and size shows.
Element == IF out.format = "raw" /\ out.size # NaN THEN 1 ELSE Width(out.format)

\* Those n bytes are the number v in two's complement, the lowest byte first.
Represents(v, a, n, signed) ==
    LET m == Power(ByteMod, n)
    IN  /\ \A j \in 0 .. n - 1 : (v \div Power(ByteMod, j)) % ByteMod = Memory[a + j]
        /\ IF signed THEN -m <= 2 * v /\ 2 * v < m ELSE 0 <= v /\ v < m

\* What print shows of memory is what is there, each byte once and in order,
\* and if it reports no error it is everything that was asked for: all of the
\* size, or a string up to its end.
ShowsMemory ==
    out.cmd = "print" =>
        LET w == Element
            asked == IF out.size = NaN THEN 1 ELSE out.size \div w
            m == Len(out.text)
        IN  /\ m <= asked
            /\ \A i \in 1 .. m :
                  Represents(out.text[i].value, out.addr + w * (i - 1), w, Signed(out.format))
            /\ out.ok /\ m < asked => out.format = "string" /\ Memory[out.addr + m] = 0

\* Values are written in base 10 and raw memory in base 16, whatever has been
\* written before.
PrintSetsItsBase ==
    out.cmd = "print" =>
        \A i \in DOMAIN out.text :
            out.text[i].base = IF out.format = "raw" THEN Hex ELSE Dec

\* std::stoul of what was on the screen, as delete applies it: it reads as far
\* as there are decimal digits, and throws if there are none.
Stoul(s) ==
    LET m == Min({i \in DOMAIN s : s[i] >= Dec} \cup {Len(s) + 1}) - 1
    IN  IF m = 0 THEN NaN ELSE MapThenSumSet(LAMBDA i : s[i] * Dec ^ (m - i), 1 .. m)

\* "specify a breakpoint number to delete that one": delete, given the number
\* that break or a run has just announced, deletes that breakpoint.
NumberReadsBack == out.cmd = "break" => Stoul(out.text) = bkpts[out.addr]
=============================================================================
