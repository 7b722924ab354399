------------------------------ MODULE MemoryMap ------------------------------
(***************************************************************************)
(* Class MemoryMap: a sparse byte memory kept as blocks that are allocated *)
(* by the first access to one of their bytes, reads included.  A Put of a  *)
(* vector is split at the block boundaries; its loop is modelled chunk by  *)
(* chunk.  Addresses are 64-bit in the code and come from 32-bit           *)
(* registers and headers, so their sums do not wrap.                       *)
(***************************************************************************)
EXTENDS Integers, Sequences

CONSTANTS
    Lower,      \* m_addrLower
    Size,       \* m_memSize
    BlockSize,  \* DEFAULT_BLOCK_SIZE
    Address,    \* addresses the callers ask for, in and out of range
    Byte, Zero, \* byte values
    Datas,      \* vectors the callers Put
    Words,      \* words the callers write, as their four bytes, lowest first
    Masks       \* masks of WriteWord, as sets of byte lanes

ASSUME MemoryMapAssumption ==
    /\ Lower \in Nat /\ Size \in Nat
    /\ BlockSize \in Nat \ {0}
    /\ Address \subseteq Nat
    /\ Zero \in Byte
    /\ Datas \subseteq Seq(Byte)
    /\ Words \subseteq [1 .. 4 -> Byte]
    /\ Masks \subseteq SUBSET (0 .. 3)

Upper == Lower + Size   \* m_addrUpper

VARIABLES
    blocks,         \* m_mem: from block numbers to blocks
    data, address,  \* the arguments of the Put that is under way
    i, currentAddr, bytesRemaining,     \* and its locals
    out             \* the last call and what it returned or threw

putVars == <<data, address, i, currentAddr, bytesRemaining>>
vars == <<blocks, putVars, out>>

Offset == 0 .. BlockSize - 1
NewBlock == [o \in Offset |-> Zero]
BlockOf(x) == x \div BlockSize
OffsetOf(x) == x % BlockSize

\* m_mem[b], allocated if it is not there.
BlockAt(b) == IF b \in DOMAIN blocks THEN blocks[b] ELSE NewBlock
ByteAt(x) == BlockAt(BlockOf(x))[OffsetOf(x)]

\* Mutation: an access allocates the block that is there anew.
TouchedAfresh(S) ==
    [b \in DOMAIN blocks \cup {BlockOf(x) : x \in S} |->
        IF b \in {BlockOf(x) : x \in S} THEN NewBlock ELSE BlockAt(b)]

\* The blocks after the blocks of the addresses S have been looked up.
Touched(S) == [b \in DOMAIN blocks \cup {BlockOf(x) : x \in S} |-> BlockAt(b)]

Idle == bytesRemaining = 0
NoPut == UNCHANGED putVars

Return(call, a, bytes) ==
    out' = [call |-> call, at |-> a, threw |-> FALSE, bytes |-> bytes]
Throw(call, a) ==
    out' = [call |-> call, at |-> a, threw |-> TRUE, bytes |-> <<>>]

Init ==
    /\ blocks = [b \in {} |-> NewBlock]
    /\ data = <<>> /\ address = Lower
    /\ i = 0 /\ currentAddr = Lower /\ bytesRemaining = 0
    /\ out = [call |-> "none", at |-> Lower, threw |-> FALSE, bytes |-> <<>>]

-----------------------------------------------------------------------------
\* Mutation: the upper limit is not tested.
InRangeBelow(a) == a >= Lower

InRange(a) == a >= Lower /\ a <= Upper

PutByte(a, b) ==
    /\ Idle /\ NoPut
    /\ IF InRange(a)
       THEN /\ blocks' = [Touched({a}) EXCEPT ![BlockOf(a)][OffsetOf(a)] = b]
            /\ Return("PutByte", a, <<>>)
       ELSE Throw("PutByte", a) /\ UNCHANGED blocks

\* Mutation: only the first address is tested.
PutStartFits(a, d) == a >= Lower /\ a <= Upper

\* Put of a vector: the test, and the locals before the loop.  out is set
\* here, where the call is known to succeed.
PutFits(a, d) == a >= Lower /\ a + Len(d) <= Upper

\* Mutation: the loop is given the last index for the length.
StartPutLastIndex(call, a, d) ==
    /\ data' = d /\ address' = a
    /\ i' = 0 /\ currentAddr' = a /\ bytesRemaining' = Len(d) - 1
    /\ Return(call, a, <<>>)

StartPut(call, a, d) ==
    /\ data' = d /\ address' = a
    /\ i' = 0 /\ currentAddr' = a /\ bytesRemaining' = Len(d)
    /\ Return(call, a, <<>>)

PutBytes(a, d) ==
    /\ Idle
    /\ UNCHANGED blocks
    /\ \/ PutFits(a, d) /\ StartPut("Put", a, d)
       \/ ~PutFits(a, d) /\ Throw("Put", a) /\ NoPut

\* Mutation: the room in the block is one too small.
BytesToCopyOneLess ==
    LET room == BlockSize - OffsetOf(currentAddr) - 1
    IN  IF room < bytesRemaining THEN room ELSE bytesRemaining

\* One turn of the loop: as many bytes as fit into the current block.  The
\* locals die with the last.
BytesToCopy ==
    LET room == BlockSize - OffsetOf(currentAddr)
    IN  IF room < bytesRemaining THEN room ELSE bytesRemaining

CopyChunk ==
    LET b == BlockOf(currentAddr)
        o == OffsetOf(currentAddr)
        n == BytesToCopy
    IN  /\ bytesRemaining > 0
        /\ blocks' = [Touched({currentAddr}) EXCEPT ![b] =
                         [p \in Offset |-> IF p \in o .. o + n - 1
                                           THEN data[i + (p - o) + 1]
                                           ELSE BlockAt(b)[p]]]
        /\ bytesRemaining' = bytesRemaining - n
        /\ IF n < bytesRemaining
           THEN /\ i' = i + n
                /\ currentAddr' = currentAddr + n
                /\ UNCHANGED <<data, address>>
           ELSE data' = <<>> /\ address' = Lower /\ i' = 0 /\ currentAddr' = Lower
        /\ UNCHANGED out

Get(a) ==
    /\ Idle /\ NoPut
    /\ IF InRange(a)
       THEN blocks' = Touched({a}) /\ Return("Get", a, <<ByteAt(a)>>)
       ELSE Throw("Get", a) /\ UNCHANGED blocks

\* ReadWord is four Gets: the bytes before the one that throws are looked up.
WordInRange(a) == InRange(a) /\ InRange(a + 3)
GotBytes(a) == IF InRange(a) THEN {x \in a .. a + 3 : InRange(x)} ELSE {}
WordAt(a) == [k \in 1 .. 4 |-> ByteAt(a + k - 1)]

ReadWord(a) ==
    /\ Idle /\ NoPut
    /\ blocks' = Touched(GotBytes(a))
    /\ IF WordInRange(a) THEN Return("ReadWord", a, WordAt(a)) ELSE Throw("ReadWord", a)

\* ReadWord, merge, Put.
Merged(a, w, mask) ==
    [k \in 1 .. 4 |-> IF k - 1 \in mask THEN w[k] ELSE WordAt(a)[k]]

WriteWord(a, w, mask) ==
    /\ Idle
    /\ blocks' = Touched(GotBytes(a))
    /\ IF WordInRange(a) /\ PutFits(a, Merged(a, w, mask))
       THEN StartPut("WriteWord", a, Merged(a, w, mask))
       ELSE Throw("WriteWord", a) /\ NoPut

Clear ==
    /\ Idle /\ NoPut
    /\ blocks' = [b \in {} |-> NewBlock]
    /\ Return("Clear", Lower, <<>>)

Next ==
    \/ \E a \in Address :
          \/ \E b \in Byte : PutByte(a, b)
          \/ \E d \in Datas : PutBytes(a, d)
          \/ Get(a)
          \/ ReadWord(a)
          \/ \E w \in Words, mask \in Masks : WriteWord(a, w, mask)
    \/ CopyChunk
    \/ Clear

Spec == Init /\ [][Next]_vars

\* A call that has begun goes on.
FairSpec == Spec /\ WF_vars(CopyChunk)

-----------------------------------------------------------------------------
\* Types, and the relation between the locals of a Put.
TypeOK ==
    /\ DOMAIN blocks \subseteq Nat
    /\ blocks \in [DOMAIN blocks -> [Offset -> Byte]]
    /\ data \in Seq(Byte)
    /\ address \in Nat
    /\ i \in Nat /\ currentAddr \in Nat /\ bytesRemaining \in Nat

\* The loop's invariant: the three counters of Put move together, and the
\* chunk to come lies inside memory.
PutLoop ==
    /\ currentAddr = address + i
    /\ i + bytesRemaining = Len(data)
    /\ bytesRemaining > 0 => address >= Lower /\ address + Len(data) <= Upper

\* Blocks are only allocated where memory is: no access, failed or not,
\* leaves a block that lies outside of it.
BlocksInMemory == \A b \in DOMAIN blocks : b \in BlockOf(Lower) .. BlockOf(Upper)

\* The sparse blocks behave as the flat array: splitting a Put at block
\* boundaries, allocating on first access and the merge of WriteWord are not
\* to be seen, and a call that throws has changed no byte.  The bytes that the
\* loop of a Put has still to copy are mapped to their new values.
Contents ==
    [x \in Lower .. Upper |->
        IF x \in currentAddr .. currentAddr + bytesRemaining - 1
        THEN data[x - currentAddr + i + 1]
        ELSE ByteAt(x)]

Flat == INSTANCE FlatMemory WITH mem <- Contents

IsFlat == Flat!Spec

\* Every Put comes to its end.
PutEnds == bytesRemaining > 0 ~> bytesRemaining = 0
=============================================================================
