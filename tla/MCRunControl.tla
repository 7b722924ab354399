---------------------------- MODULE MCRunControl ----------------------------
(***************************************************************************)
(* Model values for RunControl: three addresses, one of which is the reset *)
(* pc, and two programs, one with _start and _exit and one with neither.   *)
(***************************************************************************)
EXTENDS RunControl

CONSTANTS zero, a1, a2, none

MCAddr == {zero, a1, a2}
MCSymbolTables ==
    {[start |-> none, exit |-> none], [start |-> a1, exit |-> a2]}
=============================================================================
