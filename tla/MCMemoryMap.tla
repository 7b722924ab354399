---------------------------- MODULE MCMemoryMap ----------------------------
(***************************************************************************)
(* Model values for MemoryMap: blocks of two bytes, memory from the middle *)
(* of block 0 to the end of block 2, bytes of one bit.                     *)
(***************************************************************************)
EXTENDS MemoryMap

MCAddress == 0 .. 6
MCDatas == {<<>>, <<0, 1>>, <<1, 1, 0, 1>>}
MCWords == {<<0, 0, 0, 0>>, <<1, 0, 1, 1>>}
MCMasks == {{1, 2}, 0 .. 3}
=============================================================================
