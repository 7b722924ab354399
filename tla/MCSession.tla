----------------------------- MODULE MCSession -----------------------------
(***************************************************************************)
(* Model values for Session: three bytes of memory, one file that can be   *)
(* loaded with everything in it, and files that break at each place.       *)
(***************************************************************************)
EXTENDS Session

CONSTANTS a, b, t, nopath, nofile

LOCAL Seg(p, bytes) == [type |-> "LOAD", paddr |-> p, bytes |-> bytes]
LOCAL Sym(n, x) == [name |-> n, addr |-> x]
LOCAL Full == <<"other", "symtab", "strtab", "shstrtab">>

\* Segments that overlap, a name defined twice, a section of symbols without
\* a name.
Good ==
    [header |-> "good",
     segments |-> <<Seg(0, <<1, 1>>), [type |-> "other", paddr |-> 9, bytes |-> <<1>>],
                    Seg(1, <<0>>)>>,
     sections |-> Full,
     symbols |-> <<Sym("", 0), Sym("_start", 1), Sym("_start", 0)>>]
\* No string table, so no symbols; most of memory is left alone.
Stripped ==
    [header |-> "good", segments |-> <<Seg(2, <<1>>)>>, sections |-> <<"symtab", "shstrtab">>,
     symbols |-> <<Sym("_start", 0)>>]
\* The second segment goes past the end of memory.
TooLarge == [Good EXCEPT !.segments = <<Seg(0, <<1>>), Seg(2, <<1, 1>>)>>]
TwoTables == [Good EXCEPT !.sections = Full \o <<"strtab">>]
BadHeader == [Good EXCEPT !.header = "bad"]

MCFile == {Good, Stripped, TooLarge, TwoTables, BadHeader}
L(v) == [verb |-> v, path |-> a]
MCScript == {<<L("load"), L("run"), L("run")>>, <<L("other"), L("unknown"), L("resume"), L("quit")>>}
=============================================================================
