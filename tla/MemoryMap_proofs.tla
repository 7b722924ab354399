-------------------------- MODULE MemoryMap_proofs --------------------------
(***************************************************************************)
(* Proofs about the memory, for any range, block size, bytes and vectors.  *)
(***************************************************************************)
EXTENDS MemoryMap, SequenceTheorems, TLAPS

\* A natural number is its block's first address plus its offset.
LEMMA DivMod ==
  ASSUME NEW x \in Nat, NEW B \in Nat \ {0}
  PROVE  \E q \in Nat, r \in 0 .. B - 1 :
            x \div B = q /\ x % B = r /\ x = B * q + r
  <1>1. x \div B \in Nat /\ x % B \in 0 .. B - 1
    OBVIOUS
  <1>2. x % B = x - B * (x \div B)
    OBVIOUS
  <1>3. PICK q \in Nat, r \in 0 .. B - 1 : x \div B = q /\ x % B = r
    BY <1>1
  <1>4. r = x - B * q
    BY <1>2, <1>3, Zenon
  <1>5. x = B * q + r
    BY <1>4
  <1> QED  BY <1>3, <1>5, Zenon

\* And in one way only.
LEMMA DivModUnique ==
  ASSUME NEW B \in Nat \ {0}, NEW q \in Nat, NEW r \in 0 .. B - 1,
         NEW p \in Nat, NEW s \in 0 .. B - 1, B * q + r = B * p + s
  PROVE  q = p /\ r = s
  <1>1. ~(q < p)
    <2> SUFFICES ASSUME q < p PROVE FALSE
      OBVIOUS
    <2>1. q + 1 <= p
      OBVIOUS
    <2>2. B * (q + 1) <= B * p
      BY <2>1
    <2>3. B * (q + 1) = B * q + B
      OBVIOUS
    <2> QED  BY <2>2, <2>3
  <1>2. ~(p < q)
    <2> SUFFICES ASSUME p < q PROVE FALSE
      OBVIOUS
    <2>1. p + 1 <= q
      OBVIOUS
    <2>2. B * (p + 1) <= B * q
      BY <2>1
    <2>3. B * (p + 1) = B * p + B
      OBVIOUS
    <2> QED  BY <2>2, <2>3
  <1> QED  BY <1>1, <1>2

\* Inside a block the offsets follow the addresses.
LEMMA SameBlock ==
  ASSUME NEW c \in Nat, NEW k \in 0 .. BlockSize - OffsetOf(c) - 1
  PROVE  BlockOf(c + k) = BlockOf(c) /\ OffsetOf(c + k) = OffsetOf(c) + k
  <1>1. BlockSize \in Nat \ {0}
    BY MemoryMapAssumption
  <1>2. PICK p \in Nat, t \in 0 .. BlockSize - 1 :
           BlockOf(c) = p /\ OffsetOf(c) = t /\ c = BlockSize * p + t
    BY <1>1, DivMod, Zenon DEF BlockOf, OffsetOf
  <1>3. k \in 0 .. BlockSize - t - 1
    BY <1>2, Zenon
  <1>4. c + k \in Nat /\ t + k \in 0 .. BlockSize - 1
    BY <1>1, <1>3
  <1>5. PICK q \in Nat, r \in 0 .. BlockSize - 1 :
           BlockOf(c + k) = q /\ OffsetOf(c + k) = r /\ c + k = BlockSize * q + r
    BY <1>1, <1>4, DivMod, Zenon DEF BlockOf, OffsetOf
  <1>6. BlockSize * q + r = BlockSize * p + (t + k)
    <2> DEFINE Bp == BlockSize * p
    <2>1. Bp \in Int
      BY <1>1
    <2>2. c = Bp + t /\ c + k = BlockSize * q + r
      BY <1>2, <1>5, Zenon
    <2> HIDE DEF Bp
    <2>3. c + k = Bp + (t + k)
      BY <2>1, <2>2, <1>1, <1>3
    <2> QED  BY <2>2, <2>3, Zenon DEF Bp
  <1>7. q = p /\ r = t + k
    BY <1>1, <1>4, <1>6, DivModUnique
  <1> QED  BY <1>2, <1>5, <1>7, Zenon

\* Two addresses of a block are as far apart as their offsets.
LEMMA BlockDistance ==
  ASSUME NEW x \in Nat, NEW c \in Nat, BlockOf(x) = BlockOf(c)
  PROVE  x - c = OffsetOf(x) - OffsetOf(c)
  <1>1. BlockSize \in Nat \ {0}
    BY MemoryMapAssumption
  <1>2. PICK p \in Nat, t \in 0 .. BlockSize - 1 :
           BlockOf(c) = p /\ OffsetOf(c) = t /\ c = BlockSize * p + t
    BY <1>1, DivMod, Zenon DEF BlockOf, OffsetOf
  <1>3. PICK q \in Nat, r \in 0 .. BlockSize - 1 :
           BlockOf(x) = q /\ OffsetOf(x) = r /\ x = BlockSize * q + r
    BY <1>1, DivMod, Zenon DEF BlockOf, OffsetOf
  <1>4. x = BlockSize * p + r
    BY <1>2, <1>3, Zenon
  <1>5. x - c = r - t
    BY <1>1, <1>2, <1>4
  <1> QED  BY <1>2, <1>3, <1>5, Zenon

\* Blocks follow the addresses.
LEMMA BlockMonotone ==
  ASSUME NEW x \in Nat, NEW y \in Nat, x <= y
  PROVE  BlockOf(x) \in Nat /\ BlockOf(x) <= BlockOf(y)
  <1>1. BlockSize \in Nat \ {0}
    BY MemoryMapAssumption
  <1>2. PICK q \in Nat, r \in 0 .. BlockSize - 1 :
           BlockOf(x) = q /\ OffsetOf(x) = r /\ x = BlockSize * q + r
    BY <1>1, DivMod, Zenon DEF BlockOf, OffsetOf
  <1>3. PICK p \in Nat, t \in 0 .. BlockSize - 1 :
           BlockOf(y) = p /\ OffsetOf(y) = t /\ y = BlockSize * p + t
    BY <1>1, DivMod, Zenon DEF BlockOf, OffsetOf
  <1>4. ~(p + 1 <= q)
    <2> SUFFICES ASSUME p + 1 <= q PROVE FALSE
      OBVIOUS
    <2>1. BlockSize * (p + 1) <= BlockSize * q
      BY <1>1
    <2>2. BlockSize * (p + 1) = BlockSize * p + BlockSize
      BY <1>1
    <2>3. BlockSize * q + r <= BlockSize * p + t
      BY <1>2, <1>3, Zenon
    <2> QED  BY <1>1, <2>1, <2>2, <2>3
  <1>5. q <= p
    BY <1>4
  <1> QED  BY <1>2, <1>3, <1>5, Zenon

-----------------------------------------------------------------------------
\* The offset of an address lies inside its block.
LEMMA OffsetInBlock ==
  ASSUME NEW x \in Nat
  PROVE  OffsetOf(x) \in Offset /\ BlockOf(x) \in Nat
  <1>1. BlockSize \in Nat \ {0}
    BY MemoryMapAssumption
  <1> QED  BY <1>1, DivMod, Zenon DEF BlockOf, OffsetOf, Offset

\* Every block is a block of bytes, the one that would be allocated included.
LEMMA BlocksHoldBytes ==
  ASSUME TypeOK, NEW b
  PROVE  BlockAt(b) \in [Offset -> Byte]
  <1>1. NewBlock \in [Offset -> Byte]
    BY MemoryMapAssumption DEF NewBlock
  <1>2. blocks \in [DOMAIN blocks -> [Offset -> Byte]]
    BY DEF TypeOK
  <1> QED  BY <1>1, <1>2, Zenon DEF BlockAt

\* A byte that is looked up is a byte, whether or not its block is there.
LEMMA BytesAreBytes ==
  ASSUME TypeOK, NEW x \in Nat
  PROVE  ByteAt(x) \in Byte
  BY OffsetInBlock, BlocksHoldBytes, Zenon DEF ByteAt

\* Looking blocks up allocates some, and keeps the types and every byte.
LEMMA TouchedTypes ==
  ASSUME TypeOK, NEW S \in SUBSET Nat
  PROVE  /\ DOMAIN Touched(S) \subseteq Nat
         /\ Touched(S) \in [DOMAIN Touched(S) -> [Offset -> Byte]]
         /\ \A x \in S : BlockOf(x) \in DOMAIN Touched(S)
  <1>1. DOMAIN Touched(S) = DOMAIN blocks \cup {BlockOf(x) : x \in S}
    BY Zenon DEF Touched
  <1>2. DOMAIN Touched(S) \subseteq Nat
    BY <1>1, OffsetInBlock DEF TypeOK
  <1>3. Touched(S) \in [DOMAIN Touched(S) -> [Offset -> Byte]]
    BY <1>1, BlocksHoldBytes, Zenon DEF Touched
  <1> QED  BY <1>1, <1>2, <1>3, Zenon

\* The bytes themselves: operator[] of m_mem gives a new block of zeros, and
\* zeros are what a byte without a block reads as.
LEMMA TouchKeepsBytes ==
  ASSUME NEW S, blocks' = Touched(S), NEW x
  PROVE  ByteAt(x)' = ByteAt(x)
  <1>1. BlockAt(BlockOf(x))' = BlockAt(BlockOf(x))
    BY Zenon DEF BlockAt, Touched
  <1> QED  BY <1>1, Zenon DEF ByteAt

\* Four bytes are a vector.
LEMMA WordsAreVectors ==
  ASSUME NEW w \in [1 .. 4 -> Byte]
  PROVE  w \in Seq(Byte) /\ Len(w) = 4
  <1>1. w \in Seq(Byte)
    BY SeqDef
  <1>2. DOMAIN w = 1 .. Len(w) /\ DOMAIN w = 1 .. 4 /\ Len(w) \in Nat
    BY <1>1, LenProperties
  <1> QED  BY <1>1, <1>2

-----------------------------------------------------------------------------
\* The inductive invariant is the type invariant with that of the loop: which
\* element of data a chunk copies is a matter of both.
Inv == TypeOK /\ PutLoop

\* The empty memory satisfies the invariant.
LEMMA InitInv == Init => Inv
  <1> SUFFICES ASSUME Init PROVE Inv
    OBVIOUS
  <1>1. TypeOK
    BY MemoryMapAssumption, EmptySeq DEF Init, TypeOK
  <1>2. PutLoop
    BY MemoryMapAssumption, EmptySeq DEF Init, PutLoop
  <1> QED  BY <1>1, <1>2 DEF Inv

\* A step that only looks blocks up.
LEMMA TouchInv ==
  ASSUME Inv, NEW S \in SUBSET Nat, blocks' = Touched(S), NoPut
  PROVE  Inv'
  <1>1. /\ DOMAIN blocks' \subseteq Nat
        /\ blocks' \in [DOMAIN blocks' -> [Offset -> Byte]]
    BY TouchedTypes, Zenon DEF Inv
  <1> QED  BY <1>1 DEF Inv, TypeOK, PutLoop, NoPut, putVars

\* A step that keeps the blocks and the locals.
LEMMA KeepInv ==
  ASSUME Inv, UNCHANGED blocks, NoPut
  PROVE  Inv'
  BY DEF Inv, TypeOK, PutLoop, NoPut, putVars

\* The start of a Put that fits.
LEMMA StartInv ==
  ASSUME Inv, NEW call, NEW a \in Nat, NEW d \in Seq(Byte),
         PutFits(a, d), StartPut(call, a, d),
         DOMAIN blocks' \subseteq Nat,
         blocks' \in [DOMAIN blocks' -> [Offset -> Byte]]
  PROVE  Inv'
  <1>1. Len(d) \in Nat
    BY LenProperties
  <1>2. TypeOK'
    BY <1>1 DEF TypeOK, StartPut
  <1>3. PutLoop'
    BY <1>1 DEF PutLoop, StartPut, PutFits
  <1> QED  BY <1>2, <1>3 DEF Inv

\* The bytes that a chunk takes lie in its block and in the vector.
LEMMA ChunkFits ==
  ASSUME Inv, bytesRemaining > 0
  PROVE  /\ BytesToCopy \in 1 .. bytesRemaining
         /\ OffsetOf(currentAddr) + BytesToCopy <= BlockSize
         /\ OffsetOf(currentAddr) \in Offset
         /\ \A k \in 0 .. bytesRemaining - 1 : data[i + k + 1] \in Byte
  <1>1. BlockSize \in Nat \ {0}
    BY MemoryMapAssumption
  <1>2. currentAddr \in Nat /\ bytesRemaining \in Nat /\ i \in Nat /\ data \in Seq(Byte)
    BY DEF Inv, TypeOK
  <1>3. OffsetOf(currentAddr) \in Offset
    BY <1>2, OffsetInBlock
  <1>4. BytesToCopy \in 1 .. bytesRemaining /\ OffsetOf(currentAddr) + BytesToCopy <= BlockSize
    BY <1>1, <1>2, <1>3 DEF BytesToCopy, Offset
  <1>5. ASSUME NEW k \in 0 .. bytesRemaining - 1
        PROVE  data[i + k + 1] \in Byte
    <2>1. i + k + 1 \in 1 .. Len(data)
      BY <1>2 DEF Inv, PutLoop
    <2> QED  BY <1>2, <2>1, ElementOfSeq
  <1> QED  BY <1>3, <1>4, <1>5

\* One turn of the loop of Put keeps the invariant: i, currentAddr and
\* bytesRemaining move together, and the last turn resets them.
LEMMA ChunkInv ==
  ASSUME Inv, CopyChunk
  PROVE  Inv'
  <1> DEFINE b == BlockOf(currentAddr)  o == OffsetOf(currentAddr)  n == BytesToCopy
             new == [p \in Offset |-> IF p \in o .. o + n - 1
                                      THEN data[i + (p - o) + 1]
                                      ELSE BlockAt(b)[p]]
  <1>1. bytesRemaining > 0
    BY DEF CopyChunk
  <1>2. /\ currentAddr \in Nat /\ bytesRemaining \in Nat /\ i \in Nat /\ address \in Nat
        /\ data \in Seq(Byte) /\ Lower \in Nat /\ BlockSize \in Nat \ {0}
    BY MemoryMapAssumption DEF Inv, TypeOK
  <1>3. new \in [Offset -> Byte]
    <2> SUFFICES ASSUME NEW p \in Offset PROVE new[p] \in Byte
      BY Zenon
    <2>1. CASE p \in o .. o + n - 1
      <3>1. p - o \in 0 .. bytesRemaining - 1 /\ i + (p - o) + 1 = i + (p - o) + 1
        BY <1>1, <1>2, <2>1, ChunkFits DEF Offset
      <3> QED  BY <1>1, <2>1, <3>1, ChunkFits, Zenon
    <2>2. CASE p \notin o .. o + n - 1
      BY <2>2, BlocksHoldBytes, Zenon DEF Inv
    <2> QED  BY <2>1, <2>2, Zenon
  <1>4. blocks' = [Touched({currentAddr}) EXCEPT ![b] = new]
    BY Zenon DEF CopyChunk
  <1>5. /\ DOMAIN Touched({currentAddr}) \subseteq Nat
        /\ Touched({currentAddr}) \in [DOMAIN Touched({currentAddr}) -> [Offset -> Byte]]
    BY <1>2, TouchedTypes DEF Inv
  <1> HIDE DEF new
  <1>6. /\ DOMAIN blocks' \subseteq Nat
        /\ blocks' \in [DOMAIN blocks' -> [Offset -> Byte]]
    BY <1>3, <1>4, <1>5
  <1>7. n \in 1 .. bytesRemaining
    BY <1>1, ChunkFits, Zenon
  <1>8. bytesRemaining' = bytesRemaining - n
    BY Zenon DEF CopyChunk
  <1> HIDE DEF n
  <1>9. CASE n < bytesRemaining
    <2>1. i' = i + n /\ currentAddr' = currentAddr + n /\ UNCHANGED <<data, address>>
      BY <1>9, Zenon DEF CopyChunk, n
    <2>2. i' \in Nat /\ currentAddr' \in Nat /\ bytesRemaining' \in Nat
      BY <1>2, <1>7, <1>8, <2>1
    <2>3. TypeOK'
      BY <1>2, <1>6, <2>1, <2>2, Zenon DEF TypeOK
    <2>4. /\ currentAddr = address + i /\ i + bytesRemaining = Len(data)
          /\ address >= Lower /\ address + Len(data) <= Upper
      BY <1>1, Zenon DEF Inv, PutLoop
    <2>5. PutLoop'
      <3>1. currentAddr + n = address + (i + n) /\ (i + n) + (bytesRemaining - n) = Len(data)
        BY <1>2, <1>7, <2>4
      <3> QED  BY <1>8, <2>1, <2>4, <3>1, Zenon DEF PutLoop, Upper
    <2> QED  BY <2>3, <2>5, Zenon DEF Inv
  <1>10. CASE ~(n < bytesRemaining)
    <2>1. data' = <<>> /\ address' = Lower /\ i' = 0 /\ currentAddr' = Lower
      BY <1>10, Zenon DEF CopyChunk, n
    <2>2. bytesRemaining' = 0
      BY <1>2, <1>7, <1>8, <1>10
    <2> QED  BY <1>2, <1>6, <2>1, <2>2, EmptySeq DEF Inv, TypeOK, PutLoop
  <1> QED  BY <1>9, <1>10

\* The word that WriteWord puts.
LEMMA MergedWord ==
  ASSUME Inv, NEW a \in Nat, NEW w \in Words, NEW mask
  PROVE  /\ Merged(a, w, mask) \in Seq(Byte) /\ Len(Merged(a, w, mask)) = 4
         /\ \A k \in 1 .. 4 :
               Merged(a, w, mask)[k] = IF k - 1 \in mask THEN w[k] ELSE ByteAt(a + k - 1)
  <1>1. w \in [1 .. 4 -> Byte]
    BY MemoryMapAssumption
  <1>2. ASSUME NEW k \in 1 .. 4
        PROVE  WordAt(a)[k] = ByteAt(a + k - 1) /\ ByteAt(a + k - 1) \in Byte
    <2>1. a + k - 1 \in Nat
      OBVIOUS
    <2> QED  BY <2>1, BytesAreBytes, Zenon DEF WordAt, Inv
  <1>3. Merged(a, w, mask) \in [1 .. 4 -> Byte]
    BY <1>1, <1>2, Zenon DEF Merged
  <1>4. Merged(a, w, mask) \in Seq(Byte) /\ Len(Merged(a, w, mask)) = 4
    BY <1>3, WordsAreVectors
  <1> QED  BY <1>2, <1>4, Zenon DEF Merged

\* The addresses that a word access looks up are addresses of memory.
LEMMA GotInRange ==
  ASSUME NEW a \in Nat
  PROVE  GotBytes(a) \in SUBSET {x \in Nat : InRange(x)}
  <1> SUFFICES ASSUME NEW x \in GotBytes(a) PROVE x \in Nat /\ InRange(x)
    OBVIOUS
  <1>1. a \in Nat /\ x \in a .. a + 3 /\ InRange(x)
    BY Zenon DEF GotBytes
  <1> QED  BY <1>1

\* WriteWord, which reads a word and starts a Put of four bytes, keeps the
\* invariant.
LEMMA WriteWordInv ==
  ASSUME Inv, NEW a \in Nat, NEW w \in Words, NEW mask \in Masks, WriteWord(a, w, mask)
  PROVE  Inv'
  <1> DEFINE new == Merged(a, w, mask)
  <1>1. new \in Seq(Byte)
    BY MergedWord
  <1>2. blocks' = Touched(GotBytes(a)) /\ GotBytes(a) \in SUBSET Nat
    BY GotInRange DEF WriteWord
  <1>3. \/ PutFits(a, new) /\ StartPut("WriteWord", a, new)
        \/ NoPut
    BY Zenon DEF WriteWord
  <1> HIDE DEF new
  <1>4. /\ DOMAIN blocks' \subseteq Nat
        /\ blocks' \in [DOMAIN blocks' -> [Offset -> Byte]]
    BY <1>2, TouchedTypes, Zenon DEF Inv
  <1>5. CASE PutFits(a, new) /\ StartPut("WriteWord", a, new)
    BY <1>1, <1>4, <1>5, StartInv, Zenon
  <1>6. CASE NoPut
    BY <1>2, <1>6, TouchInv, Zenon
  <1> QED  BY <1>3, <1>5, <1>6

\* Put of a byte keeps it.
LEMMA PutByteInv ==
  ASSUME Inv, NEW a \in Nat, NEW b \in Byte, PutByte(a, b)
  PROVE  Inv'
  <1>1. NoPut
    BY DEF PutByte
  <1>2. CASE ~InRange(a)
    BY <1>1, <1>2, KeepInv DEF PutByte
  <1>3. CASE InRange(a)
    <2>1. blocks' = [Touched({a}) EXCEPT ![BlockOf(a)][OffsetOf(a)] = b]
      BY <1>3 DEF PutByte
    <2>2. /\ DOMAIN Touched({a}) \subseteq Nat
          /\ Touched({a}) \in [DOMAIN Touched({a}) -> [Offset -> Byte]]
          /\ BlockOf(a) \in DOMAIN Touched({a})
      BY TouchedTypes DEF Inv
    <2>3. OffsetOf(a) \in Offset
      BY OffsetInBlock
    <2>4. /\ DOMAIN blocks' \subseteq Nat
          /\ blocks' \in [DOMAIN blocks' -> [Offset -> Byte]]
      BY <2>1, <2>2, <2>3
    <2> QED  BY <1>1, <2>4 DEF Inv, TypeOK, PutLoop, NoPut, putVars
  <1> QED  BY <1>2, <1>3

\* Every call, and every turn of the loop, keeps it.
LEMMA NextInv == Inv /\ [Next]_vars => Inv'
  <1> SUFFICES ASSUME Inv, [Next]_vars PROVE Inv'
    OBVIOUS
  <1> USE MemoryMapAssumption
  <1>1. ASSUME NEW a \in Address, NEW b \in Byte, PutByte(a, b) PROVE Inv'
    BY <1>1, PutByteInv
  <1>2. ASSUME NEW a \in Address, NEW d \in Datas, PutBytes(a, d) PROVE Inv'
    <2>1. a \in Nat /\ d \in Seq(Byte) /\ UNCHANGED blocks
      BY <1>2 DEF PutBytes
    <2>2. CASE PutFits(a, d) /\ StartPut("Put", a, d)
      <3>1. /\ DOMAIN blocks' \subseteq Nat
            /\ blocks' \in [DOMAIN blocks' -> [Offset -> Byte]]
        BY <2>1 DEF Inv, TypeOK
      <3> QED  BY <2>1, <2>2, <3>1, StartInv, Zenon
    <2>3. CASE NoPut
      BY <2>1, <2>3, KeepInv
    <2> QED  BY <1>2, <2>2, <2>3, Zenon DEF PutBytes
  <1>3. ASSUME NEW a \in Address, Get(a) PROVE Inv'
    <2>1. NoPut /\ (blocks' = Touched({a}) \/ UNCHANGED blocks)
      BY <1>3, Zenon DEF Get
    <2> QED  BY <2>1, TouchInv, KeepInv
  <1>4. ASSUME NEW a \in Address, ReadWord(a) PROVE Inv'
    <2>1. NoPut /\ blocks' = Touched(GotBytes(a)) /\ GotBytes(a) \in SUBSET Nat
      BY <1>4, GotInRange DEF ReadWord
    <2> QED  BY <2>1, TouchInv, Zenon
  <1>5. ASSUME NEW a \in Address, NEW w \in Words, NEW mask \in Masks, WriteWord(a, w, mask)
        PROVE  Inv'
    BY <1>5, WriteWordInv
  <1>6. CASE CopyChunk
    BY <1>6, ChunkInv
  <1>7. CASE Clear
    <2>1. NoPut /\ blocks' = [b \in {} |-> NewBlock]
      BY <1>7 DEF Clear
    <2>2. /\ DOMAIN blocks' \subseteq Nat
          /\ blocks' \in [DOMAIN blocks' -> [Offset -> Byte]]
      BY <2>1
    <2> QED  BY <2>1, <2>2 DEF Inv, TypeOK, PutLoop, NoPut, putVars
  <1>8. CASE UNCHANGED vars
    BY <1>8, KeepInv DEF vars, NoPut, putVars
  <1> QED  BY <1>1, <1>2, <1>3, <1>4, <1>5, <1>6, <1>7, <1>8, Zenon DEF Next

\* The types of the memory's state, and the loop of Put.
THEOREM Invariance == Spec => []Inv
  BY InitInv, NextInv, PTL DEF Spec

\* Put of a vector (memorymap.cpp): its counters stay in step, and what it
\* has still to copy lies inside memory and inside the vector.
THEOREM PutStaysInside == Spec => []PutLoop
  BY Invariance, PTL DEF Inv

\* Type correctness of the blocks and of Put's variables.
THEOREM TypeCorrect == Spec => []TypeOK
  BY Invariance, PTL DEF Inv

-----------------------------------------------------------------------------
\* The addresses in range are in the blocks of memory.
LEMMA InRangeBlock ==
  ASSUME NEW x \in Nat, InRange(x)
  PROVE  BlockOf(x) \in BlockOf(Lower) .. BlockOf(Upper)
  <1>1. Lower \in Nat /\ Upper \in Nat /\ Lower <= x /\ x <= Upper
    BY MemoryMapAssumption DEF InRange, Upper
  <1>2. BlockOf(Lower) \in Nat /\ BlockOf(x) \in Nat /\ BlockOf(Upper) \in Nat
    BY <1>1, OffsetInBlock
  <1>3. BlockOf(Lower) <= BlockOf(x) /\ BlockOf(x) <= BlockOf(Upper)
    BY <1>1, BlockMonotone
  <1> QED  BY <1>2, <1>3

\* A step that looks up blocks of addresses in range.
LEMMA TouchInMemory ==
  ASSUME BlocksInMemory, NEW S \in SUBSET {x \in Nat : InRange(x)},
         DOMAIN blocks' = DOMAIN Touched(S)
  PROVE  BlocksInMemory'
  <1>1. DOMAIN blocks' = DOMAIN blocks \cup {BlockOf(x) : x \in S}
    BY Zenon DEF Touched
  <1>2. ASSUME NEW b \in DOMAIN blocks' PROVE b \in BlockOf(Lower) .. BlockOf(Upper)
    BY <1>1, InRangeBlock, Zenon DEF BlocksInMemory
  <1> QED  BY <1>2, Zenon DEF BlocksInMemory, BlockOf, Upper

\* Every call looks up addresses in range only.
LEMMA NextInMemory == Inv /\ BlocksInMemory /\ [Next]_vars => BlocksInMemory'
  <1> SUFFICES ASSUME Inv, BlocksInMemory, [Next]_vars PROVE BlocksInMemory'
    OBVIOUS
  <1> USE MemoryMapAssumption
  <1>0. ASSUME UNCHANGED blocks PROVE BlocksInMemory'
    BY <1>0, Zenon DEF BlocksInMemory, BlockOf, Upper
  <1>1. ASSUME NEW a \in Address, NEW b \in Byte, PutByte(a, b) PROVE BlocksInMemory'
    <2>1. CASE InRange(a)
      <3>1. DOMAIN blocks' = DOMAIN Touched({a})
        BY <1>1, <2>1 DEF PutByte
      <3> QED  BY <2>1, <3>1, TouchInMemory
    <2> QED  BY <1>0, <1>1, <2>1 DEF PutByte
  <1>2. ASSUME NEW a \in Address, NEW d \in Datas, PutBytes(a, d) PROVE BlocksInMemory'
    BY <1>0, <1>2 DEF PutBytes
  <1>3. ASSUME NEW a \in Address, Get(a) PROVE BlocksInMemory'
    <2>1. CASE InRange(a)
      <3>1. blocks' = Touched({a})
        BY <1>3, <2>1, Zenon DEF Get
      <3> QED  BY <2>1, <3>1, TouchInMemory
    <2> QED  BY <1>0, <1>3, <2>1, Zenon DEF Get
  <1>4. ASSUME NEW a \in Address, ReadWord(a) PROVE BlocksInMemory'
    <2>1. blocks' = Touched(GotBytes(a)) /\ GotBytes(a) \in SUBSET {x \in Nat : InRange(x)}
      BY <1>4, GotInRange DEF ReadWord
    <2> QED  BY <2>1, TouchInMemory, Zenon
  <1>5. ASSUME NEW a \in Address, NEW w \in Words, NEW mask \in Masks, WriteWord(a, w, mask)
        PROVE  BlocksInMemory'
    <2>1. blocks' = Touched(GotBytes(a)) /\ GotBytes(a) \in SUBSET {x \in Nat : InRange(x)}
      BY <1>5, GotInRange DEF WriteWord
    <2> QED  BY <2>1, TouchInMemory, Zenon
  <1>6. CASE CopyChunk
    <2>1. bytesRemaining > 0 /\ DOMAIN blocks' = DOMAIN Touched({currentAddr})
      BY <1>6 DEF CopyChunk
    <2>2. currentAddr \in Nat /\ InRange(currentAddr)
      BY <2>1 DEF Inv, TypeOK, PutLoop, InRange, Upper
    <2> QED  BY <2>1, <2>2, TouchInMemory
  <1>7. CASE Clear
    <2>1. DOMAIN blocks' = {}
      BY <1>7 DEF Clear
    <2> QED  BY <2>1, Zenon DEF BlocksInMemory
  <1>8. CASE UNCHANGED vars
    BY <1>0, <1>8 DEF vars
  <1> QED  BY <1>1, <1>2, <1>3, <1>4, <1>5, <1>6, <1>7, <1>8, Zenon DEF Next

\* No call, failed or not, allocates a block that lies outside of memory.
THEOREM BlocksStayInMemory == Spec => []BlocksInMemory
  <1>1. Init => BlocksInMemory
    BY DEF Init, BlocksInMemory
  <1> QED  BY <1>1, NextInMemory, Invariance, PTL DEF Spec

-----------------------------------------------------------------------------
\* Between calls the contents are what the blocks hold.
LEMMA IdleContents ==
  ASSUME Inv, Idle
  PROVE  Contents = [x \in Lower .. Upper |-> ByteAt(x)]
  <1>1. currentAddr .. currentAddr + bytesRemaining - 1 = {}
    BY DEF Idle, Inv, TypeOK
  <1> QED  BY <1>1, Zenon DEF Contents

\* The same after a step that leaves no Put under way.
LEMMA IdleContentsAfter ==
  ASSUME Inv', bytesRemaining' = 0
  PROVE  Contents' = [x \in Lower .. Upper |-> ByteAt(x)']
  <1>1. currentAddr' .. currentAddr' + bytesRemaining' - 1 = {}
    BY DEF Inv, TypeOK
  <1> QED  BY <1>1, Zenon DEF Contents, Upper

\* A call that only looks blocks up changes no byte.
LEMMA SameContents ==
  ASSUME Inv, Inv', Idle, NoPut,
         \A x \in Lower .. Upper : ByteAt(x)' = ByteAt(x)
  PROVE  Contents' = Contents
  <1>1. bytesRemaining' = 0
    BY DEF Idle, NoPut, putVars
  <1> QED  BY <1>1, IdleContents, IdleContentsAfter, Zenon

\* The start of a Put changes, all at once, the bytes that it is about to copy.
LEMMA StartContents ==
  ASSUME Inv, Idle, currentAddr' \in Nat, i' = 0, bytesRemaining' = Len(data'),
         \A x \in Lower .. Upper : ByteAt(x)' = ByteAt(x)
  PROVE  Contents' = [x \in Lower .. Upper |->
                         IF x \in currentAddr' .. currentAddr' + Len(data') - 1
                         THEN data'[x - currentAddr' + 1]
                         ELSE Contents[x]]
  <1>1. ASSUME NEW x \in Lower .. Upper
        PROVE  x - currentAddr' + i' + 1 = x - currentAddr' + 1
    BY MemoryMapAssumption DEF Upper
  <1>2. Contents' = [x \in Lower .. Upper |->
                        IF x \in currentAddr' .. currentAddr' + Len(data') - 1
                        THEN data'[x - currentAddr' + i' + 1]
                        ELSE ByteAt(x)]
    BY Zenon DEF Contents, Upper
  <1>3. \A x \in Lower .. Upper : Contents[x] = ByteAt(x)
    BY IdleContents, Zenon
  <1> QED  BY <1>1, <1>2, <1>3, Zenon

\* A chunk writes what the vector holds, and nothing else: each address of its
\* block is as far from the first as the offsets say.
LEMMA ChunkBytes ==
  ASSUME Inv, CopyChunk, NEW x \in Nat
  PROVE  ByteAt(x)' = IF x \in currentAddr .. currentAddr + BytesToCopy - 1
                      THEN data[x - currentAddr + i + 1]
                      ELSE ByteAt(x)
  <1> DEFINE c == currentAddr  b == BlockOf(c)  o == OffsetOf(c)  n == BytesToCopy
             new == [p \in Offset |-> IF p \in o .. o + n - 1
                                      THEN data[i + (p - o) + 1]
                                      ELSE BlockAt(b)[p]]
  <1>1. bytesRemaining > 0
    BY DEF CopyChunk
  <1>2. /\ c \in Nat /\ bytesRemaining \in Nat /\ i \in Nat /\ BlockSize \in Nat \ {0}
    BY MemoryMapAssumption DEF Inv, TypeOK
  <1>3. n \in Nat /\ o + n <= BlockSize /\ o \in Offset /\ o \in Nat
    BY <1>1, <1>2, ChunkFits DEF Offset
  <1>4. OffsetOf(x) \in Offset /\ OffsetOf(x) \in Nat
    BY <1>2, OffsetInBlock DEF Offset
  <1>5. blocks' = [Touched({c}) EXCEPT ![b] = new]
    BY Zenon DEF CopyChunk
  <1>6. b \in DOMAIN Touched({c})
    BY <1>2, TouchedTypes DEF Inv
  <1> DEFINE d == BlockOf(x)
  <1>7. BlockAt(d)' = IF d = b THEN new ELSE BlockAt(d)
    <2> HIDE DEF new, d
    <2>1. DOMAIN blocks' = DOMAIN Touched({c})
      BY <1>5
    <2>2. CASE d = b
      BY <1>5, <1>6, <2>1, <2>2 DEF BlockAt
    <2>3. CASE d # b
      <3>1. \A e \in DOMAIN Touched({c}) : Touched({c})[e] = BlockAt(e)
        BY Zenon DEF Touched
      <3>2. d \in DOMAIN Touched({c}) => blocks'[d] = BlockAt(d)
        BY <1>5, <2>3, <3>1
      <3>3. d \notin DOMAIN Touched({c}) => BlockAt(d) = NewBlock
        BY Zenon DEF Touched, BlockAt
      <3>4. d \in DOMAIN Touched({c}) => BlockAt(d)' = blocks'[d]
        BY <2>1, Zenon DEF BlockAt
      <3>5. d \notin DOMAIN Touched({c}) => BlockAt(d)' = NewBlock
        BY <2>1, Zenon DEF BlockAt, NewBlock, Offset
      <3> QED  BY <2>3, <3>2, <3>3, <3>4, <3>5, Zenon
    <2> QED  BY <2>2, <2>3
  <1>8. ByteAt(x)' = IF BlockOf(x) = b THEN new[OffsetOf(x)] ELSE ByteAt(x)
    <2>1. ByteAt(x)' = BlockAt(BlockOf(x))'[OffsetOf(x)]
      BY Zenon DEF ByteAt, BlockOf, OffsetOf
    <2> QED  BY <1>7, <2>1, Zenon DEF ByteAt
  <1>9. CASE x \in c .. c + n - 1
    <2>1. x - c \in 0 .. BlockSize - o - 1 /\ c + (x - c) = x /\ o + (x - c) \in o .. o + n - 1
      BY <1>2, <1>3, <1>9
    <2>2. BlockOf(x) = b /\ OffsetOf(x) = o + (x - c)
      BY <1>2, <2>1, SameBlock, Zenon
    <2>3. new[OffsetOf(x)] = data[i + (OffsetOf(x) - o) + 1]
      BY <1>4, <2>1, <2>2, Zenon
    <2>4. i + (OffsetOf(x) - o) + 1 = x - c + i + 1
      BY <1>2, <1>3, <2>2
    <2> QED  BY <1>8, <1>9, <2>2, <2>3, <2>4, Zenon
  <1>10. CASE x \notin c .. c + n - 1
    <2>1. CASE BlockOf(x) = b
      <3>1. x - c = OffsetOf(x) - o
        BY <1>2, <2>1, BlockDistance
      <3>2. OffsetOf(x) \notin o .. o + n - 1
        BY <1>2, <1>3, <1>4, <1>10, <3>1
      <3>3. new[OffsetOf(x)] = ByteAt(x)
        BY <1>4, <2>1, <3>2, Zenon DEF ByteAt
      <3> QED  BY <1>8, <1>10, <2>1, <3>3, Zenon
    <2> QED  BY <1>8, <1>10, <2>1, Zenon
  <1> QED  BY <1>9, <1>10

\* So a chunk is not to be seen: what it writes had been promised.
LEMMA ChunkContents ==
  ASSUME Inv, Inv', CopyChunk
  PROVE  Contents' = Contents
  <1> DEFINE c == currentAddr  n == BytesToCopy  m == bytesRemaining
  <1>1. bytesRemaining > 0 /\ m' = m - n
    BY Zenon DEF CopyChunk
  <1>2. n \in 1 .. m /\ c \in Nat /\ m \in Nat /\ i \in Nat
    BY <1>1, ChunkFits, Zenon DEF Inv, TypeOK
  <1>3. ASSUME NEW x \in Lower .. Upper
        PROVE  Contents'[x] = Contents[x]
    <2>1. x \in Nat
      BY MemoryMapAssumption DEF Upper
    <2>2. Contents'[x] = IF x \in c' .. c' + m' - 1
                         THEN data'[x - c' + i' + 1]
                         ELSE IF x \in c .. c + n - 1
                              THEN data[x - c + i + 1]
                              ELSE ByteAt(x)
      BY <2>1, ChunkBytes, Zenon DEF Contents, Upper
    <2>3. Contents[x] = IF x \in c .. c + m - 1 THEN data[x - c + i + 1] ELSE ByteAt(x)
      BY Zenon DEF Contents
    <2> HIDE DEF n
    <2>4. CASE n < m
      <3>1. i' = i + n /\ c' = c + n /\ data' = data
        BY <2>4, Zenon DEF CopyChunk, n
      <3>2. x - (c + n) + (i + n) + 1 = x - c + i + 1
        BY <1>2, <2>1
      <3>3. x \in c + n .. c + n + (m - n) - 1 <=> x \in c .. c + m - 1 /\ x \notin c .. c + n - 1
        BY <1>2, <2>1
      <3>4. x \in c .. c + n - 1 => x \in c .. c + m - 1
        BY <1>2, <2>1
      <3>5. Contents'[x] = IF x \in c + n .. c + n + (m - n) - 1
                           THEN data[x - (c + n) + (i + n) + 1]
                           ELSE IF x \in c .. c + n - 1
                                THEN data[x - c + i + 1]
                                ELSE ByteAt(x)
        BY <1>1, <2>2, <3>1, Zenon
      <3> QED  BY <2>3, <3>2, <3>3, <3>4, <3>5, Zenon
    <2>5. CASE ~(n < m)
      <3>1. m' = 0 /\ n = m
        BY <1>1, <1>2, <2>5
      <3>2. c' .. c' + m' - 1 = {}
        BY <3>1 DEF Inv, TypeOK
      <3>3. x \notin c' .. c' + m' - 1
        BY <3>2, Zenon
      <3>4. Contents'[x] = IF x \in c .. c + n - 1
                           THEN data[x - c + i + 1]
                           ELSE ByteAt(x)
        BY <2>2, <3>3, Zenon
      <3>5. Contents'[x] = IF x \in c .. c + m - 1
                           THEN data[x - c + i + 1]
                           ELSE ByteAt(x)
        <4> HIDE DEF m, c
        <4> QED  BY <3>1, <3>4
      <3> QED  BY <2>3, <3>5
    <2> QED  BY <2>4, <2>5
  <1>4. /\ Contents = [x \in Lower .. Upper |-> Contents[x]]
        /\ Contents' = [x \in Lower .. Upper |-> Contents'[x]]
    BY Zenon DEF Contents, Upper
  <1> QED  BY <1>3, <1>4, Zenon

\* The test of the byte accesses is the range of the flat memory.
LEMMA RangeIsInterval ==
  ASSUME NEW a \in Nat
  PROVE  /\ InRange(a) <=> a \in Lower .. Upper
         /\ WordInRange(a) <=> a >= Lower /\ a + 3 <= Upper
  BY MemoryMapAssumption DEF InRange, WordInRange, Upper

\* Each call, as the flat memory's call of the same name.
LEMMA PutByteMaps ==
  ASSUME Inv, Inv', NEW a \in Nat, NEW b \in Byte, PutByte(a, b)
  PROVE  Flat!PutByte(a, b)
  <1>1. Idle /\ NoPut
    BY DEF PutByte
  <1>2. CASE ~InRange(a)
    <2>1. Throw("PutByte", a) /\ UNCHANGED blocks
      BY <1>2 DEF PutByte
    <2>2. \A x \in Lower .. Upper : ByteAt(x)' = ByteAt(x)
      BY <2>1, Zenon DEF ByteAt, BlockAt, BlockOf, OffsetOf, NewBlock, Offset
    <2> QED  BY <1>1, <1>2, <2>1, <2>2, SameContents, RangeIsInterval, Zenon
             DEF Flat!PutByte, Flat!Throw, Throw
  <1>3. CASE InRange(a)
    <2> DEFINE old == Touched({a})  d == BlockOf(a)  o == OffsetOf(a)
    <2>1. blocks' = [old EXCEPT ![d][o] = b] /\ Return("PutByte", a, <<>>)
      BY <1>3, Zenon DEF PutByte
    <2>2. old \in [DOMAIN old -> [Offset -> Byte]] /\ d \in DOMAIN old /\ o \in Offset
      BY TouchedTypes, OffsetInBlock DEF Inv
    <2>3. ASSUME NEW x \in Lower .. Upper
          PROVE  ByteAt(x)' = IF x = a THEN b ELSE ByteAt(x)
      <3>1. x \in Nat
        BY MemoryMapAssumption DEF Upper
      <3> DEFINE e == BlockOf(x)  p == OffsetOf(x)
      <3>2. e = d /\ p = o <=> x = a
        <4>1. e = d => x - a = p - o
          BY <3>1, BlockDistance
        <4>2. p \in Nat /\ o \in Nat
          BY <3>1, OffsetInBlock, MemoryMapAssumption DEF Offset
        <4>3. ASSUME e = d, p = o PROVE x = a
          <5>1. x - a = p - o
            BY <4>1, <4>3
          <5> HIDE DEF p
          <5> QED  BY <3>1, <4>2, <4>3, <5>1
        <4> QED  BY <4>3
      <3>3. BlockAt(e) = IF e \in DOMAIN old THEN old[e] ELSE NewBlock
        BY Zenon DEF Touched, BlockAt
      <3>4. p \in Offset
        BY <3>1, OffsetInBlock
      <3>5. ByteAt(x)' = (IF e \in DOMAIN blocks' THEN blocks'[e] ELSE NewBlock)[p]
        BY Zenon DEF ByteAt, BlockAt, BlockOf, OffsetOf, NewBlock, Offset
      <3>6. ByteAt(x) = (IF e \in DOMAIN old THEN old[e] ELSE NewBlock)[p]
        BY <3>3, Zenon DEF ByteAt
      <3> HIDE DEF e, p, d, o, old
      <3> QED  BY <2>1, <2>2, <3>2, <3>4, <3>5, <3>6
    <2>4. bytesRemaining' = 0
      BY <1>1 DEF Idle, NoPut, putVars
    <2>5. Contents' = [x \in Lower .. Upper |-> IF x = a THEN b ELSE ByteAt(x)]
      BY <2>3, <2>4, IdleContentsAfter, Zenon
    <2>6. Contents = [x \in Lower .. Upper |-> ByteAt(x)]
      BY <1>1, IdleContents
    <2>7. Contents' = [Contents EXCEPT ![a] = b]
      <3> HIDE DEF old, d, o
      <3> QED  BY <1>3, <2>5, <2>6, RangeIsInterval
    <2> QED  BY <1>3, <2>1, <2>7, RangeIsInterval, Zenon
             DEF Flat!PutByte, Flat!Return, Return
  <1> QED  BY <1>2, <1>3

\* Put of a vector: it takes effect where it starts.
LEMMA PutBytesMaps ==
  ASSUME Inv, Inv', NEW a \in Nat, NEW d \in Seq(Byte), PutBytes(a, d)
  PROVE  Flat!PutBytes(a, d)
  <1>1. Idle /\ UNCHANGED blocks
    BY DEF PutBytes
  <1>2. \A x \in Lower .. Upper : ByteAt(x)' = ByteAt(x)
    BY <1>1, Zenon DEF ByteAt, BlockAt, BlockOf, OffsetOf, NewBlock, Offset
  <1>3. CASE PutFits(a, d) /\ StartPut("Put", a, d)
    <2>1. Contents' = [x \in Lower .. Upper |->
                          IF x \in a .. a + Len(d) - 1 THEN d[x - a + 1] ELSE Contents[x]]
      <3>1. data' = d /\ currentAddr' = a /\ i' = 0 /\ bytesRemaining' = Len(d)
        BY <1>3, Zenon DEF StartPut
      <3>2. currentAddr' \in Nat /\ bytesRemaining' = Len(data')
        BY <3>1, Zenon
      <3>3. Contents' = [x \in Lower .. Upper |->
                            IF x \in currentAddr' .. currentAddr' + Len(data') - 1
                            THEN data'[x - currentAddr' + 1]
                            ELSE Contents[x]]
        BY <1>1, <1>2, <3>1, <3>2, StartContents, Zenon
      <3> QED  BY <3>1, <3>3, Zenon
    <2> QED  BY <1>3, <2>1, Zenon DEF Flat!PutBytes, Flat!Return, Return, StartPut, PutFits
  <1>4. CASE ~PutFits(a, d) /\ Throw("Put", a) /\ NoPut
    <2>1. Contents' = Contents
      BY <1>1, <1>2, <1>4, SameContents, Zenon
    <2> QED  BY <1>4, <2>1, Zenon DEF Flat!PutBytes, Flat!Throw, Throw, PutFits
  <1> QED  BY <1>3, <1>4, Zenon DEF PutBytes

\* Get of a byte: the block it may allocate is not to be seen.
LEMMA GetMaps ==
  ASSUME Inv, Inv', NEW a \in Nat, Get(a)
  PROVE  Flat!Get(a)
  <1>1. Idle /\ NoPut
    BY DEF Get
  <1>2. \A x \in Lower .. Upper : ByteAt(x)' = ByteAt(x)
    <2>1. CASE InRange(a)
      BY <2>1, TouchKeepsBytes, Zenon DEF Get
    <2>2. CASE ~InRange(a)
      BY <2>2, Zenon DEF Get, ByteAt, BlockAt, BlockOf, OffsetOf, NewBlock, Offset
    <2> QED  BY <2>1, <2>2
  <1>3. Contents' = Contents
    BY <1>1, <1>2, SameContents, Zenon
  <1>4. a \in Lower .. Upper => Contents[a] = ByteAt(a)
    BY <1>1, IdleContents, Zenon
  <1> QED  BY <1>3, <1>4, RangeIsInterval, Zenon
           DEF Get, Flat!Get, Flat!Return, Flat!Throw, Return, Throw

\* ReadWord: the blocks of the bytes before the one that throws are not to be seen.
LEMMA ReadWordMaps ==
  ASSUME Inv, Inv', NEW a \in Nat, ReadWord(a)
  PROVE  Flat!ReadWord(a)
  <1>1. Idle /\ NoPut /\ blocks' = Touched(GotBytes(a))
    BY DEF ReadWord
  <1>2. Contents' = Contents
    <2>1. \A x \in Lower .. Upper : ByteAt(x)' = ByteAt(x)
      BY <1>1, TouchKeepsBytes, Zenon
    <2> QED  BY <1>1, <2>1, SameContents, Zenon
  <1>3. CASE WordInRange(a)
    <2>1. ASSUME NEW k \in 1 .. 4
          PROVE  Contents[a + k - 1] = ByteAt(a + k - 1)
      <3>1. a + k - 1 \in Lower .. Upper
        BY <1>3, RangeIsInterval, MemoryMapAssumption DEF Upper
      <3> QED  BY <1>1, <3>1, IdleContents, Zenon
    <2>2. WordAt(a) = [k \in 1 .. 4 |-> Contents[a + k - 1]]
      BY <2>1, Zenon DEF WordAt
    <2> QED  BY <1>2, <1>3, <2>2, RangeIsInterval, Zenon
             DEF ReadWord, Flat!ReadWord, Flat!Return, Return
  <1>4. CASE ~WordInRange(a)
    BY <1>2, <1>4, RangeIsInterval, Zenon DEF ReadWord, Flat!ReadWord, Flat!Throw, Throw
  <1> QED  BY <1>3, <1>4

\* WriteWord: the bytes that the mask leaves out are put back as they were.
LEMMA WriteWordMaps ==
  ASSUME Inv, Inv', NEW a \in Nat, NEW w \in Words, NEW mask \in Masks,
         WriteWord(a, w, mask)
  PROVE  Flat!WriteWord(a, w, mask)
  <1> DEFINE new == Merged(a, w, mask)
  <1>1. Idle /\ blocks' = Touched(GotBytes(a))
    BY DEF WriteWord
  <1>2. \A x \in Lower .. Upper : ByteAt(x)' = ByteAt(x)
    BY <1>1, TouchKeepsBytes, Zenon
  <1>3. /\ new \in Seq(Byte) /\ Len(new) = 4
        /\ \A k \in 1 .. 4 : new[k] = IF k - 1 \in mask THEN w[k] ELSE ByteAt(a + k - 1)
    <2>1. new \in Seq(Byte) /\ Len(new) = 4
      BY MergedWord
    <2>2. ASSUME NEW k \in 1 .. 4
          PROVE  new[k] = IF k - 1 \in mask THEN w[k] ELSE ByteAt(a + k - 1)
      BY MergedWord
    <2> QED  BY <2>1, <2>2
  <1>4. PutFits(a, new) <=> a >= Lower /\ a + 4 <= Upper
    BY <1>3, Zenon DEF PutFits
  <1>5. PutFits(a, new) => WordInRange(a)
    BY <1>4, RangeIsInterval, MemoryMapAssumption DEF Upper
  <1> HIDE DEF new
  <1>6. CASE PutFits(a, new)
    <2>1. StartPut("WriteWord", a, new)
      BY <1>5, <1>6, Zenon DEF WriteWord, new
    <2>2. Contents' = [x \in Lower .. Upper |->
                          IF x \in a .. a + Len(new) - 1 THEN new[x - a + 1] ELSE Contents[x]]
      <3>1. data' = new /\ currentAddr' = a /\ i' = 0 /\ bytesRemaining' = Len(new)
        BY <2>1, Zenon DEF StartPut
      <3>2. currentAddr' \in Nat /\ bytesRemaining' = Len(data')
        BY <3>1, Zenon
      <3>3. Contents' = [x \in Lower .. Upper |->
                            IF x \in currentAddr' .. currentAddr' + Len(data') - 1
                            THEN data'[x - currentAddr' + 1]
                            ELSE Contents[x]]
        BY <1>1, <1>2, <3>1, <3>2, StartContents, Zenon
      <3> QED  BY <3>1, <3>3, Zenon
    <2>3. ASSUME NEW x \in Lower .. Upper
          PROVE  (IF x \in a .. a + Len(new) - 1 THEN new[x - a + 1] ELSE Contents[x])
                  = IF x \in a .. a + 3 /\ x - a \in mask THEN w[x - a + 1] ELSE Contents[x]
      <3>1. Contents[x] = ByteAt(x)
        BY <1>1, IdleContents, Zenon
      <3>2. a .. a + Len(new) - 1 = a .. a + 3
        <4>1. a + Len(new) - 1 = a + 3
          BY <1>3
        <4> QED  BY <4>1, Zenon
      <3>3. CASE x \in a .. a + 3
        <4>1. /\ x - a + 1 \in 1 .. 4 /\ (x - a + 1) - 1 = x - a
              /\ a + (x - a + 1) - 1 = x
          BY <3>3, MemoryMapAssumption DEF Upper
        <4>2. new[x - a + 1] = IF x - a \in mask THEN w[x - a + 1] ELSE ByteAt(x)
          BY <1>3, <4>1, Zenon
        <4> QED  BY <3>1, <3>2, <3>3, <4>2, Zenon
      <3>4. CASE x \notin a .. a + 3
        BY <3>2, <3>4, Zenon
      <3> QED  BY <3>3, <3>4
    <2>4. Contents' = [x \in Lower .. Upper |->
                          IF x \in a .. a + 3 /\ x - a \in mask THEN w[x - a + 1] ELSE Contents[x]]
      BY <2>2, <2>3, Zenon
    <2> QED  BY <1>4, <1>6, <2>1, <2>4, Zenon
             DEF Flat!WriteWord, Flat!Return, Return, StartPut
  <1>7. CASE ~PutFits(a, new)
    <2>1. Throw("WriteWord", a) /\ NoPut
      BY <1>7, Zenon DEF WriteWord, new
    <2>2. Contents' = Contents
      BY <1>1, <1>2, <2>1, SameContents, Zenon
    <2> QED  BY <1>4, <1>7, <2>1, <2>2, Zenon DEF Flat!WriteWord, Flat!Throw, Throw
  <1> QED  BY <1>6, <1>7

\* Clear: no blocks, all zeros.
LEMMA ClearMaps ==
  ASSUME Inv, Inv', Clear
  PROVE  Flat!Clear
  <1>1. bytesRemaining' = 0 /\ blocks' = [b \in {} |-> NewBlock]
    BY DEF Clear, Idle, NoPut, putVars
  <1>2. ASSUME NEW x \in Lower .. Upper PROVE ByteAt(x)' = Zero
    <2>1. x \in Nat
      BY MemoryMapAssumption DEF Upper
    <2>2. OffsetOf(x) \in Offset
      BY <2>1, OffsetInBlock
    <2>3. BlockAt(BlockOf(x))' = NewBlock
      BY <1>1, Zenon DEF BlockAt, NewBlock, Offset
    <2>4. ByteAt(x)' = NewBlock[OffsetOf(x)]
      BY <2>3, Zenon DEF ByteAt, BlockOf, OffsetOf
    <2> QED  BY <2>2, <2>4, Zenon DEF NewBlock
  <1>3. Contents' = [x \in Lower .. Upper |-> Zero]
    BY <1>1, <1>2, IdleContentsAfter, Zenon
  <1> QED  BY <1>3, Zenon DEF Clear, Return, Flat!Clear, Flat!Return

\* The initial memory is zero.
LEMMA InitMaps == Init => Flat!Init
  <1> SUFFICES ASSUME Init PROVE Flat!Init
    OBVIOUS
  <1>1. Inv /\ Idle
    BY InitInv DEF Init, Idle
  <1>2. ASSUME NEW x \in Lower .. Upper PROVE ByteAt(x) = Zero
    <2>1. x \in Nat
      BY MemoryMapAssumption DEF Upper
    <2>2. OffsetOf(x) \in Offset
      BY <2>1, OffsetInBlock
    <2>3. BlockAt(BlockOf(x)) = NewBlock
      BY Zenon DEF Init, BlockAt
    <2> QED  BY <2>2, <2>3, Zenon DEF NewBlock, ByteAt
  <1>3. Contents = [x \in Lower .. Upper |-> Zero]
    BY <1>1, <1>2, IdleContents, Zenon
  <1> QED  BY <1>3, Zenon DEF Init, Flat!Init

\* Every step is a step of the flat memory or changes nothing of it.
LEMMA NextMaps == Inv /\ Inv' /\ [Next]_vars => [Flat!Next]_(Flat!vars)
  <1> SUFFICES ASSUME Inv, Inv', [Next]_vars PROVE Flat!Next \/ UNCHANGED Flat!vars
    BY Zenon
  <1>0. Address \subseteq Nat /\ Datas \subseteq Seq(Byte)
    BY MemoryMapAssumption
  <1>1. ASSUME NEW a \in Address, NEW b \in Byte, PutByte(a, b) PROVE Flat!Next
    BY <1>0, <1>1, PutByteMaps, Zenon DEF Flat!Next
  <1>2. ASSUME NEW a \in Address, NEW d \in Datas, PutBytes(a, d) PROVE Flat!Next
    BY <1>0, <1>2, PutBytesMaps, Zenon DEF Flat!Next
  <1>3. ASSUME NEW a \in Address, Get(a) PROVE Flat!Next
    BY <1>0, <1>3, GetMaps, Zenon DEF Flat!Next
  <1>4. ASSUME NEW a \in Address, ReadWord(a) PROVE Flat!Next
    BY <1>0, <1>4, ReadWordMaps, Zenon DEF Flat!Next
  <1>5. ASSUME NEW a \in Address, NEW w \in Words, NEW mask \in Masks, WriteWord(a, w, mask)
        PROVE  Flat!Next
    BY <1>0, <1>5, WriteWordMaps, Zenon DEF Flat!Next
  <1>6. CASE CopyChunk
    BY <1>6, ChunkContents, Zenon DEF CopyChunk, Flat!vars
  <1>7. CASE Clear
    BY <1>7, ClearMaps, Zenon DEF Flat!Next
  <1>8. CASE UNCHANGED vars
    <2>1. \A x \in Lower .. Upper : ByteAt(x)' = ByteAt(x)
      BY <1>8, Zenon DEF vars, ByteAt, BlockAt, BlockOf, OffsetOf, NewBlock, Offset
    <2>2. UNCHANGED putVars
      BY <1>8, Zenon DEF vars
    <2>3. Contents' = Contents
      BY <2>1, <2>2, Zenon DEF Contents, Upper, putVars
    <2> QED  BY <1>8, <2>3, Zenon DEF vars, Flat!vars
  <1> QED  BY <1>1, <1>2, <1>3, <1>4, <1>5, <1>6, <1>7, <1>8, Zenon DEF Next

\* MemoryMap's sparse blocks implement the flat memory, for every range,
\* block size and vector: where the block boundaries lie is not to be seen.
THEOREM MemoryIsFlat == Spec => IsFlat
  BY InitMaps, NextMaps, Invariance, PTL DEF Spec, IsFlat, Flat!Spec
=============================================================================
