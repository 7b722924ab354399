------------------------------ MODULE Numbers ------------------------------
(***************************************************************************)
(* Numbers as their digits: what a word is of its bits, and what memory    *)
(* holds of its bytes, the lowest first.  Defined by recursive functions,  *)
(* for any base and any length.                                            *)
(***************************************************************************)
EXTENDS Integers

\* b to the n.
Power(b, n) ==
    LET power[k \in Nat] == IF k = 0 THEN 1 ELSE b * power[k - 1]
    IN  power[n]

\* The number in base b that the first n digits of d make, by Horner's scheme:
\* top[k] is that of the highest k of them.
FromDigits(d, b, n) ==
    LET top[k \in 0 .. n] == IF k = 0 THEN 0 ELSE d[n - k] + b * top[k - 1]
    IN  top[n]
=============================================================================
