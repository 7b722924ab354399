------------------------------- MODULE Words -------------------------------
(***************************************************************************)
(* The unsigned arithmetic of C++ on words of XLen bits (uint32_t in the   *)
(* code).  A word is the set of its one bits, so that and, or and masks    *)
(* are operations on sets.                                                 *)
(***************************************************************************)
EXTENDS Numbers

CONSTANT XLen   \* bits of a word: 32

ASSUME XLenAssumption == XLen \in Nat /\ XLen > 13

Bit == 0 .. XLen - 1
Word == SUBSET Bit
Sign == XLen - 1

\* The number that a word is.
Num(w) == IF w = {} THEN 0 ELSE FromDigits([i \in Bit |-> IF i \in w THEN 1 ELSE 0], 2, XLen)

\* The carries of a + b: into bit i from a lower bit that both have, past bits
\* of which at least one has each.
Carries(a, b) ==
    LET both == a \cap b
        either == a \cup b
    IN  {i \in 1 .. XLen : \E j \in both : j < i /\ \A k \in j + 1 .. i - 1 : k \in either}

\* a + b with its carry, as an addition in 64 bits gives it, and without.
Differ(a, b) == (a \ b) \cup (b \ a)
Sum(a, b) == Differ(Differ(a, b), Carries(a, b))
Plus(a, b) == Sum(a, b) \cap Bit

\* The borrows of a - b likewise.
Borrows(a, b) ==
    {i \in Bit : \E j \in b \ a : j < i /\ \A k \in j + 1 .. i - 1 : k \in b \/ k \notin a}
Minus(a, b) == Differ(Differ(a, b), Borrows(a, b))

\* The highest bit in which a and b differ is one of b.
Less(a, b) == \E i \in b \ a : \A k \in a \ b : k < i
SignedLess(a, b) == IF Sign \in a <=> Sign \in b THEN Less(a, b) ELSE Sign \in a

ShiftLeft(w, n) == {i \in Bit : i - n \in w}
ShiftRight(w, n) == {i \in Bit : i + n \in w}
=============================================================================
