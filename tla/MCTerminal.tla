----------------------------- MODULE MCTerminal -----------------------------
(***************************************************************************)
(* Model values for Terminal: 12 bytes of 2 bits, bases 2 and 3, which     *)
(* first differ at 2 as 10 and 16 do at 10.                                *)
(***************************************************************************)
EXTENDS Terminal

CONSTANTS a1, a2, a3

MCAddr == {a1, a2, a3}

\* A string with an end, values with and without their highest bit.
MCMemory == [a \in 1 .. 12 |-> <<3, 1, 0, 2, 1, 0, 3, 3, 3, 2, 2, 3>>[a]]
MCSymbols == [s \in {"main"} |-> 5]

LOCAL W(is, n) == [is |-> is, n |-> n, name |-> is]
LOCAL N(name) == [is |-> "name", n |-> NaN, name |-> name]
LOCAL T(name) == [is |-> "type", n |-> NaN, name |-> name]

LOCAL Types ==
    {T("raw"), T("string"), T("int8_t"), T("uint8_t"), T("int16_t"), T("uint16_t"),
     T("int32_t"), T("uint32_t"), T("int64_t"), T("uint64_t")}
\* The last address whose next 8 bytes are in memory, and the one after it.
LOCAL Items == {W("0x", 1), N("main"), W("0x", 6)}
LOCAL Sizes == {W("0x", 0), W("0x", 2), W("0x", 8)}

\* Every item, size and type, and one of each kind of misuse.
MCPrintLine ==
    {<<i>> : i \in Items} \cup {<<i, f>> : i \in Items, f \in Types}
    \cup {<<i, s>> : i \in Items, s \in Sizes}
    \cup {<<i, s, f>> : i \in Items, s \in Sizes, f \in Types}
    \cup {<<W("pc", NaN)>>, <<W("x", 1)>>, <<W("x", 2)>>, <<W("x", NaN)>>, <<W("x", 1), W("0x", 8)>>,
          <<W("-h", NaN)>>, <<N("main"), W("-h", NaN)>>, <<N("other")>>, <<T("raw")>>,
          <<W("0x", NaN)>>, <<W("0x", 1), N("main")>>, <<W("0x", 1), T("string"), W("0x", 8)>>}
=============================================================================
