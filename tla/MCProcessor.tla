---------------------------- MODULE MCProcessor ----------------------------
(***************************************************************************)
(* Model values for Processor: words of 14 bits, three words of memory,    *)
(* one jump to an aligned address and one to a misaligned one.             *)
(***************************************************************************)
EXTENDS Processor

MCMemUpper == {2, 3}        \* 12
MCEntry == {{}}
MCTarget == {{1}, {3}}      \* 2 and 8
MCDataAddr == {{0, 3}, {2, 3}}  \* 9 and 12
\* In mstatus, mie, mip and mtvec: MIE and a level between the two; the three
\* interrupts that one can enable with these bits; the two that a program can
\* make pending; vectored, outside of memory.
MCOperand == {{}, {0, 3, 4, 11}}
MCWritable == {"mstatus", "mie", "mip", "mtvec", "undefined"}
=============================================================================
