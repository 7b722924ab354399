----------------------------- MODULE FlatMemory -----------------------------
(***************************************************************************)
(* What class MemoryMap promises: an array of bytes, zero after Clear,     *)
(* whose calls take effect at once or throw and change nothing, and throw  *)
(* only for addresses out of range.  Reading changes nothing.              *)
(*                                                                         *)
(* The range is the code's: Upper = Lower + Size is itself an address for  *)
(* the accesses by byte, and out of range for a Put of a vector.           *)
(***************************************************************************)
EXTENDS Integers, Sequences

CONSTANTS Lower, Upper, Address, Byte, Zero, Datas, Words, Masks

VARIABLES
    mem,    \* the array
    out     \* the last call, its address, and what it returned or threw

vars == <<mem, out>>

Return(call, a, bytes) ==
    out' = [call |-> call, at |-> a, threw |-> FALSE, bytes |-> bytes]

Throw(call, a) ==
    /\ out' = [call |-> call, at |-> a, threw |-> TRUE, bytes |-> <<>>]
    /\ UNCHANGED mem

Init ==
    /\ mem = [x \in Lower .. Upper |-> Zero]
    /\ out = [call |-> "none", at |-> Lower, threw |-> FALSE, bytes |-> <<>>]

PutByte(a, b) ==
    IF a \in Lower .. Upper
    THEN /\ Return("PutByte", a, <<>>)
         /\ mem' = [mem EXCEPT ![a] = b]
    ELSE Throw("PutByte", a)

PutBytes(a, d) ==
    IF a >= Lower /\ a + Len(d) <= Upper
    THEN /\ Return("Put", a, <<>>)
         /\ mem' = [x \in Lower .. Upper |->
                       IF x \in a .. a + Len(d) - 1 THEN d[x - a + 1] ELSE mem[x]]
    ELSE Throw("Put", a)

Get(a) ==
    IF a \in Lower .. Upper
    THEN Return("Get", a, <<mem[a]>>) /\ UNCHANGED mem
    ELSE Throw("Get", a)

ReadWord(a) ==
    IF a >= Lower /\ a + 3 <= Upper
    THEN Return("ReadWord", a, [k \in 1 .. 4 |-> mem[a + k - 1]]) /\ UNCHANGED mem
    ELSE Throw("ReadWord", a)

\* mask is a set of byte lanes: the other bytes of the word keep their value.
WriteWord(a, w, mask) ==
    IF a >= Lower /\ a + 4 <= Upper
    THEN /\ Return("WriteWord", a, <<>>)
         /\ mem' = [x \in Lower .. Upper |->
                       IF x \in a .. a + 3 /\ x - a \in mask THEN w[x - a + 1] ELSE mem[x]]
    ELSE Throw("WriteWord", a)

Clear ==
    /\ Return("Clear", Lower, <<>>)
    /\ mem' = [x \in Lower .. Upper |-> Zero]

Next ==
    \/ \E a \in Address :
          \/ \E b \in Byte : PutByte(a, b)
          \/ \E d \in Datas : PutBytes(a, d)
          \/ Get(a)
          \/ ReadWord(a)
          \/ \E w \in Words, mask \in Masks : WriteWord(a, w, mask)
    \/ Clear

Spec == Init /\ [][Next]_vars
=============================================================================
