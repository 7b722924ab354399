--------------------------- MODULE Session_proofs ---------------------------
(***************************************************************************)
(* Proofs about Loader and about Session, for any scripts, files, memory   *)
(* and program: what a load and a reload leave; that a session uses the    *)
(* loader as module Loader describes it, so that what holds of the loader  *)
(* holds in every session; and that what IDLE stands for is fresh.         *)
(***************************************************************************)
EXTENDS Session, TLAPS

-----------------------------------------------------------------------------
(* The loader.  Inv says of each place in LoadFile how much of the file    *)
(* has been worked through there.                                          *)

AllFit(n) == \A j \in 1 .. n : file.segments[j].type = "LOAD" => Fits(file.segments[j])

NoDoubles(n) ==
    \A i, j \in 1 .. n :
        i # j /\ file.sections[i] = file.sections[j]
        => file.sections[i] \notin {"strtab", "symtab"}

Tables(n) == {t \in {"strtab", "symtab"} : \E j \in 1 .. n : file.sections[j] = t}

Segments == Len(file.segments)
Sections == Len(file.sections)
Symbols == IF HasTables(file) THEN Len(file.symbols) ELSE 0

InLoad ==
    at # "idle" =>
        /\ ~ran /\ ~whole /\ loadedBin # NoPath
        /\ call = "reset" => pc = ResetPc /\ regs = "reset"

InSegments ==
    at = "segments" =>
        /\ k <= Segments /\ Image(k) /\ AllFit(k)
        /\ symbols = NoSymbols /\ found = {}

PastSegments ==
    at \in {"sections", "symbols", "start"} => Image(Segments) /\ AllFit(Segments)

InSections ==
    at = "sections" =>
        /\ k <= Sections /\ found = Tables(k) /\ NoDoubles(k)
        /\ symbols = NoSymbols

PastSections == at \in {"symbols", "start"} => NoDoubles(Sections)

InSymbols == at = "symbols" => HasTables(file) /\ k <= Len(file.symbols) /\ Table(k)

AtStart == at = "start" => Table(Symbols)

NothingLoaded ==
    file = NoFile => ~whole /\ (~ran => mem = Cleared /\ symbols = NoSymbols)

Progress ==
    /\ InLoad /\ InSegments /\ PastSegments /\ InSections /\ PastSections
    /\ InSymbols /\ AtStart

Results ==
    /\ NothingLoaded /\ WholeIfLoadable /\ CompleteImage /\ NoMixture
    /\ RestartIsFresh

Inv == LoaderTypeOK /\ Progress /\ Results

-----------------------------------------------------------------------------
\* What a loaded file is made of.
LEMMA FileParts ==
    ASSUME NEW f \in File
    PROVE  /\ f.segments \in Seq(Segment)
           /\ f.sections \in Seq(SectionType)
           /\ f.symbols \in Seq(Symbol)
BY LoaderAssumption

\* The initial state satisfies the invariant.
LEMMA InitInv == LoaderInit => Inv
<1> SUFFICES ASSUME LoaderInit PROVE Inv OBVIOUS
<1>1. LoaderTypeOK
  BY LoaderAssumption DEF LoaderInit, LoaderTypeOK, Cleared, NoSymbols
<1>2. Progress
  BY DEF LoaderInit, Progress, InLoad, InSegments, PastSegments, InSections,
         PastSections, InSymbols, AtStart
<1>3. NothingLoaded /\ WholeIfLoadable /\ CompleteImage /\ RestartIsFresh
  BY DEF LoaderInit, NothingLoaded, WholeIfLoadable, CompleteImage, RestartIsFresh
<1>4. NoMixture
  BY DEF LoaderInit, NoMixture, Cleared, NoSymbols
<1> QED BY <1>1, <1>2, <1>3, <1>4 DEF Inv, Results

\* A file that has just been opened: memory and the symbol map are empty.
LEMMA OpensInv ==
    ASSUME Inv, NEW p \in Path \cup {NoPath}, Accepted(p), Opens(p), disk' = disk,
           pc' \in Pc, regs' \in {"reset", "used"}, call' \in {"load", "reset"},
           call' = "reset" => pc' = ResetPc /\ regs' = "reset"
    PROVE  Inv'
<1>1. p \in Path /\ p # NoPath /\ disk[p] \in File /\ file' \in File /\ file' # NoFile
  BY LoaderAssumption DEF Accepted, Opens, Inv, LoaderTypeOK
<1>2. LoaderTypeOK'
  BY <1>1, LoaderAssumption DEF Inv, LoaderTypeOK, Opens, Cleared, NoSymbols
<1>3. InLoad'
  BY <1>1 DEF Opens, InLoad
<1>4. InSegments'
  <2>1. Image(0)'
    BY DEF Opens, Image, Cleared
  <2>2. AllFit(0)' /\ 0 <= Segments'
    BY <1>1, FileParts DEF AllFit, Segments
  <2> QED BY <2>1, <2>2 DEF Opens, InSegments
<1>5. PastSegments' /\ InSections' /\ PastSections' /\ InSymbols' /\ AtStart'
  BY DEF Opens, PastSegments, InSections, PastSections, InSymbols, AtStart
<1>6. NothingLoaded' /\ WholeIfLoadable' /\ CompleteImage' /\ RestartIsFresh'
  BY <1>1 DEF Opens, NothingLoaded, WholeIfLoadable, CompleteImage, RestartIsFresh
<1>7. NoMixture'
  BY <1>1 DEF Opens, NoMixture, Cleared, NoSymbols
<1> QED BY <1>2, <1>3, <1>4, <1>5, <1>6, <1>7 DEF Inv, Progress, Results

\* LoadFile, whether it refuses the file or opens it.
LEMMA LoadFileInv ==
    ASSUME Inv, NEW p \in Path, LoadFile(p)
    PROVE  Inv'
<1>1. CASE ~Accepted(p)
  <2>1. /\ at = "idle" /\ at' = at /\ call' = "load" /\ ret' = "error"
        /\ UNCHANGED <<disk, mem, symbols, loadedBin, pc, regs, file, k, found, whole, ran>>
    BY <1>1 DEF LoadFile, history
  <2>2. LoaderTypeOK'
    BY <2>1 DEF Inv, LoaderTypeOK
  <2>3. Progress'
    BY <2>1 DEF Progress, InLoad, InSegments, PastSegments, InSections, PastSections,
                InSymbols, AtStart
  <2>4. NothingLoaded' /\ WholeIfLoadable' /\ RestartIsFresh'
    BY <2>1 DEF Inv, Results, NothingLoaded, WholeIfLoadable, RestartIsFresh
  <2>5. CompleteImage'
    BY <2>1 DEF Inv, Results, CompleteImage, Image, Table
  <2>6. NoMixture'
    BY <2>1 DEF Inv, Results, NoMixture
  <2> QED BY <2>2, <2>3, <2>4, <2>5, <2>6 DEF Inv, Results
<1>2. CASE Accepted(p)
  <2>1. Opens(p) /\ disk' = disk /\ pc' \in Pc /\ regs' \in {"reset", "used"} /\ call' = "load"
    BY <1>2 DEF LoadFile, Inv, LoaderTypeOK
  <2> QED BY <1>2, <2>1, OpensInv
<1> QED BY <1>1, <1>2

\* ResetSim, whether or not there is a file to load again.
LEMMA ResetSimInv ==
    ASSUME Inv, ResetSim
    PROVE  Inv'
<1>1. loadedBin \in Path \cup {NoPath} BY DEF Inv, LoaderTypeOK
<1>2. CASE ~Accepted(loadedBin)
  <2>1. /\ at = "idle" /\ at' = at /\ call' = "reset" /\ ret' = "error"
        /\ mem' = Cleared /\ symbols' = NoSymbols /\ file' = NoFile
        /\ pc' = ResetPc /\ regs' = "reset" /\ ~whole' /\ ~ran'
        /\ whole' = FALSE /\ ran' = FALSE
        /\ UNCHANGED <<disk, loadedBin, k, found>>
    BY <1>2 DEF ResetSim
  <2>2. LoaderTypeOK'
    BY <2>1, LoaderAssumption DEF Inv, LoaderTypeOK, Cleared, NoSymbols
  <2>3. Progress'
    BY <2>1 DEF Progress, InLoad, InSegments, PastSegments, InSections, PastSections,
                InSymbols, AtStart
  <2>4. NothingLoaded' /\ WholeIfLoadable' /\ CompleteImage' /\ RestartIsFresh'
    BY <2>1 DEF NothingLoaded, WholeIfLoadable, CompleteImage, RestartIsFresh
  <2>5. NoMixture'
    BY <2>1 DEF NoMixture, Cleared, NoSymbols
  <2> QED BY <2>2, <2>3, <2>4, <2>5 DEF Inv, Results
<1>3. CASE Accepted(loadedBin)
  <2>1. /\ Opens(loadedBin) /\ disk' = disk /\ call' = "reset"
        /\ pc' = ResetPc /\ regs' = "reset" /\ pc' \in Pc
    BY <1>3, LoaderAssumption DEF ResetSim
  <2> QED BY <1>1, <1>3, <2>1, OpensInv
<1> QED BY <1>2, <1>3

\* A load that is given up leaves part of the file, and says so.
LEMMA ThrowsInv ==
    ASSUME Inv, at # "idle", ~Loadable(file),
           NEW how \in {"error", "out_of_range"}, Throws(how),
           UNCHANGED <<disk, loadedBin, regs, call, ran>>
    PROVE  Inv'
<1>1. /\ at' = "idle" /\ k' = 0 /\ found' = {} /\ ret' = how /\ ~whole /\ ~whole'
      /\ UNCHANGED <<disk, mem, symbols, loadedBin, pc, regs, file, call, whole, ran>>
  BY DEF Throws, Inv, Progress, InLoad
<1>2. LoaderTypeOK'
  BY <1>1 DEF Inv, LoaderTypeOK
<1>3. Progress'
  BY <1>1 DEF Progress, InLoad, InSegments, PastSegments, InSections, PastSections,
              InSymbols, AtStart
<1>4. file # NoFile BY DEF Inv, LoaderTypeOK
<1>5. WholeIfLoadable' 
  <2>1. ~Loadable(file)' BY <1>1 DEF Loadable, Fits
  <2> QED BY <1>1, <2>1 DEF WholeIfLoadable
<1>6. NothingLoaded' /\ CompleteImage'
  BY <1>1, <1>4 DEF NothingLoaded, CompleteImage
<1>7. RestartIsFresh'
  BY <1>1, <1>4 DEF Inv, Progress, InLoad, RestartIsFresh
<1>8. NoMixture'
  BY <1>1 DEF Inv, Results, NoMixture
<1> QED BY <1>2, <1>3, <1>5, <1>6, <1>7, <1>8 DEF Inv, Results

\* While LoadFile goes on, no result is due.
LEMMA NoResultsYet ==
    ASSUME Inv, at # "idle", at' # "idle",
           UNCHANGED <<disk, loadedBin, regs, call, ran, pc, file, ret, whole>>
    PROVE  /\ InLoad'
           /\ NothingLoaded' /\ WholeIfLoadable' /\ CompleteImage' /\ RestartIsFresh'
<1>1. file # NoFile /\ ~whole' /\ InLoad BY DEF Inv, LoaderTypeOK, Progress, InLoad
<1>2. InLoad' BY <1>1 DEF InLoad
<1> QED
  BY <1>1, <1>2 DEF NothingLoaded, WholeIfLoadable, CompleteImage, RestartIsFresh

\* A segment is put over those before it, or the load is given up.
LEMMA PutSegmentInv ==
    ASSUME Inv, PutSegment, UNCHANGED <<disk, loadedBin, regs, call, ran>>
    PROVE  Inv'
<1> DEFINE s == file.segments[k + 1]
<1>1. /\ at = "segments" /\ k < Segments /\ k \in Nat /\ file \in File
      /\ Image(k) /\ AllFit(k) /\ symbols = NoSymbols /\ found = {}
  BY DEF PutSegment, Inv, LoaderTypeOK, Progress, InSegments, Segments
<1>2. file.segments \in Seq(Segment) /\ Segments \in Nat /\ k + 1 \in 1 .. Segments
  BY <1>1, FileParts DEF Segments
<1>3. s \in Segment /\ s.bytes \in Seq(Byte) /\ s.paddr \in Nat
  <2>1. s \in Segment BY <1>2 DEF Segments
  <2> QED BY <2>1 DEF Segment
<1>4. CASE s.type = "LOAD" /\ ~Fits(s)
  <2>1. Throws("out_of_range") BY <1>4 DEF PutSegment
  <2>2. ~Loadable(file) BY <1>2, <1>4 DEF Loadable, Segments
  <2> QED BY <1>1, <2>1, <2>2, ThrowsInv
<1>5. CASE s.type = "LOAD" => Fits(s)
  <2>1. /\ at' = "segments" /\ k' = k + 1
        /\ UNCHANGED <<disk, loadedBin, regs, call, ran, symbols, pc, file, found, ret, whole>>
        /\ \/ s.type # "LOAD" /\ mem' = mem
           \/ /\ s.type = "LOAD"
              /\ mem' = [a \in MemAddr |->
                            IF Covers(s, a) THEN s.bytes[a - s.paddr + 1] ELSE mem[a]]
    BY <1>1, <1>5 DEF PutSegment, Turn
  <2>2. \A a \in MemAddr : Covers(s, a) => s.bytes[a - s.paddr + 1] \in Byte
    BY <1>3, LoaderAssumption DEF Covers, MemAddr
  <2>3. /\ mem \in [MemAddr -> Byte]
        /\ \A a \in MemAddr :
              mem'[a] = IF Covers(s, a) THEN s.bytes[a - s.paddr + 1] ELSE mem[a]
    BY <2>1 DEF Inv, LoaderTypeOK, Covers
  <2>4. mem' \in [MemAddr -> Byte]
    BY <2>1, <2>2, <2>3
  <2>5. LoaderTypeOK'
    BY <1>1, <2>1, <2>4 DEF Inv, LoaderTypeOK
  <2>6. Image(k)'
    <3> SUFFICES ASSUME NEW a \in MemAddr
                 PROVE  /\ (\A j \in 1 .. k + 1 : ~Covers(file.segments[j], a)) => mem'[a] = Zero
                        /\ \A j \in 1 .. k + 1 :
                              /\ Covers(file.segments[j], a)
                              /\ \A i \in j + 1 .. k + 1 : ~Covers(file.segments[i], a)
                              => mem'[a] = file.segments[j].bytes[a - file.segments[j].paddr + 1]
      BY <1>1, <2>1 DEF Image, Covers
    <3>1. ASSUME \A j \in 1 .. k + 1 : ~Covers(file.segments[j], a) PROVE mem'[a] = Zero
      BY <1>1, <2>3, <3>1 DEF Image
    <3>2. ASSUME NEW j \in 1 .. k + 1, Covers(file.segments[j], a),
                 \A i \in j + 1 .. k + 1 : ~Covers(file.segments[i], a)
          PROVE  mem'[a] = file.segments[j].bytes[a - file.segments[j].paddr + 1]
      <4>1. CASE j = k + 1 BY <2>3, <3>2, <4>1
      <4>2. CASE j # k + 1
        <5>1. j \in 1 .. k /\ k + 1 \in j + 1 .. k + 1 /\ \A i \in j + 1 .. k : i \in j + 1 .. k + 1
          BY <1>1, <4>2
        <5>2. ~Covers(s, a) BY <3>2, <5>1
        <5> QED BY <1>1, <2>3, <3>2, <5>1, <5>2 DEF Image
      <4> QED BY <4>1, <4>2
    <3> QED BY <3>1, <3>2
  <2>7. AllFit(k)'
    BY <1>1, <1>5, <2>1 DEF AllFit, Fits
  <2>8. InSegments'
    BY <1>1, <1>2, <2>1, <2>6, <2>7 DEF InSegments, Segments
  <2>9. PastSegments' /\ InSections' /\ PastSections' /\ InSymbols' /\ AtStart'
    BY <2>1 DEF PastSegments, InSections, PastSections, InSymbols, AtStart
  <2>10. NoMixture'
    <3>1. NoMixture /\ ~ran /\ file # NoFile
      BY <1>1 DEF Inv, Results, Progress, InLoad, LoaderTypeOK
    <3>2. \A a \in MemAddr :
             mem'[a] = Zero \/ \E j \in DOMAIN file.segments :
                 Covers(file.segments[j], a)
                 /\ mem'[a] = file.segments[j].bytes[a - file.segments[j].paddr + 1]
      <4> SUFFICES ASSUME NEW a \in MemAddr, mem'[a] # Zero
                   PROVE  \E j \in DOMAIN file.segments :
                             Covers(file.segments[j], a)
                             /\ mem'[a] = file.segments[j].bytes[a - file.segments[j].paddr + 1]
        OBVIOUS
      <4>1. CASE Covers(s, a) BY <1>2, <2>3, <4>1 DEF Segments
      <4>2. CASE ~Covers(s, a) BY <2>3, <3>1, <4>2 DEF NoMixture
      <4> QED BY <4>1, <4>2
    <3> QED BY <1>1, <2>1, <3>1, <3>2 DEF NoMixture, NoSymbols, Covers
  <2> QED BY <1>1, <2>1, <2>5, <2>8, <2>9, <2>10, NoResultsYet DEF Inv, Progress, Results
<1> QED BY <1>4, <1>5

\* After the last segment, memory is that of the whole file.
LEMMA LastSegmentInv ==
    ASSUME Inv, LastSegment, UNCHANGED <<disk, loadedBin, regs, call, ran>>
    PROVE  Inv'
<1>1. /\ at = "segments" /\ at' = "sections" /\ k = Segments /\ k' = 0
      /\ file \in File /\ Sections \in Nat
      /\ UNCHANGED <<disk, mem, symbols, loadedBin, pc, regs, file, found, call, ret, whole, ran>>
  BY FileParts DEF LastSegment, Goto, Segments, Sections, Inv, LoaderTypeOK
<1>2. Image(Segments) /\ AllFit(Segments) /\ symbols = NoSymbols /\ found = {}
  BY <1>1 DEF Inv, Progress, InSegments
<1>3. LoaderTypeOK' BY <1>1 DEF Inv, LoaderTypeOK
<1>4. PastSegments'
  BY <1>1, <1>2 DEF PastSegments, Image, AllFit, Fits, Covers, Segments
<1>5. InSections'
  BY <1>1, <1>2 DEF InSections, Tables, NoDoubles, Sections
<1>6. InSegments' /\ PastSections' /\ InSymbols' /\ AtStart'
  BY <1>1 DEF InSegments, PastSections, InSymbols, AtStart
<1>7. NoMixture'
  BY <1>1 DEF Inv, Results, NoMixture, Covers
<1> QED BY <1>1, <1>3, <1>4, <1>5, <1>6, <1>7, NoResultsYet DEF Inv, Progress, Results

\* A section is counted, or is one table too many.
LEMMA ReadSectionInv ==
    ASSUME Inv, ReadSection, UNCHANGED <<disk, loadedBin, regs, call, ran>>
    PROVE  Inv'
<1> DEFINE s == file.sections[k + 1]
<1>1. /\ at = "sections" /\ k < Sections /\ k \in Nat /\ file \in File
      /\ found = Tables(k) /\ NoDoubles(k) /\ symbols = NoSymbols
      /\ Image(Segments) /\ AllFit(Segments)
  BY DEF ReadSection, Inv, LoaderTypeOK, Progress, InSections, PastSegments, Sections
<1>2. Sections \in Nat /\ k + 1 \in 1 .. Sections /\ DOMAIN file.sections = 1 .. Sections
  BY <1>1, FileParts DEF Sections
<1>3. CASE s \in found
  <2>1. Throws("error") BY <1>3 DEF ReadSection
  <2>2. PICK j \in 1 .. k : s \in {"strtab", "symtab"} /\ file.sections[j] = s
    BY <1>1, <1>3 DEF Tables
  <2>3. ~Loadable(file)
    BY <1>1, <1>2, <2>2 DEF Loadable
  <2> QED BY <1>1, <2>1, <2>3, ThrowsInv
<1>4. CASE s \notin found
  <2>1. /\ at' = "sections" /\ k' = k + 1
        /\ found' = found \cup ({s} \cap {"strtab", "symtab"})
        /\ UNCHANGED <<disk, mem, symbols, loadedBin, pc, regs, file, call, ret, whole, ran>>
    BY <1>1, <1>4 DEF ReadSection, Turn
  <2>2. LoaderTypeOK' BY <1>1, <2>1 DEF Inv, LoaderTypeOK
  <2>3. PastSegments'
    BY <1>1, <2>1 DEF PastSegments, Image, AllFit, Fits, Covers, Segments
  <2>4. found' = Tables(k)'
    <3>1. 1 .. k + 1 = 1 .. k \cup {k + 1} BY <1>1
    <3>2. \A u : (\E j \in 1 .. k + 1 : file.sections[j] = u)
                <=> u = s \/ \E j \in 1 .. k : file.sections[j] = u
      BY <3>1
    <3> QED BY <1>1, <2>1, <3>2 DEF Tables
  <2>5. NoDoubles(k)'
    <3> SUFFICES ASSUME NEW i \in 1 .. k + 1, NEW j \in 1 .. k + 1, i # j,
                        file.sections[i] = file.sections[j]
                 PROVE  file.sections[i] \notin {"strtab", "symtab"}
      BY <1>1, <2>1 DEF NoDoubles
    <3>1. CASE i \in 1 .. k /\ j \in 1 .. k BY <1>1, <3>1 DEF NoDoubles
    <3>2. CASE i = k + 1 /\ j \in 1 .. k BY <1>1, <1>4, <3>2 DEF Tables
    <3>3. CASE j = k + 1 /\ i \in 1 .. k BY <1>1, <1>4, <3>3 DEF Tables
    <3> QED BY <1>1, <3>1, <3>2, <3>3
  <2>6. InSections'
    BY <1>1, <1>2, <2>1, <2>4, <2>5 DEF InSections, Sections
  <2>7. InSegments' /\ PastSections' /\ InSymbols' /\ AtStart'
    BY <2>1 DEF InSegments, PastSections, InSymbols, AtStart
  <2>8. NoMixture'
    BY <2>1 DEF Inv, Results, NoMixture, Covers
  <2> QED BY <1>1, <2>1, <2>2, <2>3, <2>6, <2>7, <2>8, NoResultsYet
          DEF Inv, Progress, Results
<1> QED BY <1>3, <1>4

\* Symbols are read only from a file with both tables.
LEMMA LastSectionInv ==
    ASSUME Inv, LastSection, UNCHANGED <<disk, loadedBin, regs, call, ran>>
    PROVE  Inv'
<1>1. /\ at = "sections" /\ k = Sections /\ k' = 0 /\ file \in File
      /\ at' = IF found = {"strtab", "symtab"} THEN "symbols" ELSE "start"
      /\ UNCHANGED <<disk, mem, symbols, loadedBin, pc, regs, file, found, call, ret, whole, ran>>
  BY DEF LastSection, Goto, Sections, Inv, LoaderTypeOK
<1>2. /\ found = Tables(Sections) /\ NoDoubles(Sections) /\ symbols = NoSymbols
      /\ Image(Segments) /\ AllFit(Segments)
  BY <1>1 DEF Inv, Progress, InSections, PastSegments
<1>3. DOMAIN file.sections = 1 .. Sections /\ Len(file.symbols) \in Nat
  BY <1>1, FileParts DEF Sections
<1>4. found = {"strtab", "symtab"} <=> HasTables(file)
  <2>1. \A u \in {"strtab", "symtab"} : u \in found <=> Has(file, u)
    BY <1>2, <1>3 DEF Tables, Has
  <2>2. found \subseteq {"strtab", "symtab"} BY DEF Inv, LoaderTypeOK
  <2> QED BY <2>1, <2>2 DEF HasTables
<1>5. LoaderTypeOK' BY <1>1 DEF Inv, LoaderTypeOK
<1>6. PastSegments'
  BY <1>1, <1>2 DEF PastSegments, Image, AllFit, Fits, Covers, Segments
<1>7. PastSections'
  BY <1>1, <1>2 DEF PastSections, NoDoubles, Sections
<1>8. InSymbols' /\ AtStart'
  <2>1. Table(0)' BY <1>1, <1>2 DEF Table, NoSymbols
  <2>2. CASE HasTables(file)
    BY <1>1, <1>3, <1>4, <2>1, <2>2 DEF InSymbols, AtStart, HasTables, Has
  <2>3. CASE ~HasTables(file)
    <3>1. at' = "start" /\ Symbols' = 0
      BY <1>1, <1>4, <2>3 DEF Symbols, HasTables, Has
    <3> QED BY <2>1, <3>1 DEF InSymbols, AtStart
  <2> QED BY <2>2, <2>3
<1>9. InSegments' /\ InSections'
  BY <1>1 DEF InSegments, InSections
<1>10. NoMixture'
  BY <1>1 DEF Inv, Results, NoMixture, Covers
<1>11. at' # "idle" BY <1>1
<1> QED BY <1>1, <1>5, <1>6, <1>7, <1>8, <1>9, <1>10, <1>11, NoResultsYet
        DEF Inv, Progress, Results

\* A name that is new takes its address, one that is there keeps its own.
LEMMA ReadSymbolInv ==
    ASSUME Inv, ReadSymbol, UNCHANGED <<disk, loadedBin, regs, call, ran>>
    PROVE  Inv'
<1>0. k \in Nat /\ k < Len(file.symbols) /\ k' = k + 1 /\ file' = file
  BY DEF ReadSymbol, Turn, Inv, LoaderTypeOK
<1> DEFINE s == file.symbols[k + 1]
<1> DEFINE new == s.name # "" /\ s.name \notin DOMAIN symbols
<1>1. /\ at = "symbols" /\ at' = "symbols" /\ k' = k + 1 /\ k \in Nat /\ file \in File
      /\ k < Len(file.symbols)
      /\ symbols' = IF new THEN With(s.name, s.addr) ELSE symbols
      /\ UNCHANGED <<disk, mem, loadedBin, pc, regs, file, found, call, ret, whole, ran>>
  BY DEF ReadSymbol, Turn, Inv, LoaderTypeOK
<1>2. /\ Image(Segments) /\ AllFit(Segments) /\ NoDoubles(Sections)
      /\ HasTables(file) /\ Table(k) /\ symbols \in [DOMAIN symbols -> Pc]
  BY <1>1 DEF Inv, LoaderTypeOK, Progress, PastSegments, PastSections, InSymbols
<1>3. file.symbols \in Seq(Symbol)
  BY <1>1, FileParts
<1>31. Len(file.symbols) \in Nat /\ DOMAIN file.symbols = 1 .. Len(file.symbols)
  BY <1>3
<1>32. k + 1 \in 1 .. Len(file.symbols)
  BY <1>0, <1>31
<1>4. s \in Symbol BY <1>3, <1>32
<1>5. s.addr \in Pc BY <1>4 DEF Symbol
<1> DEFINE n == s.name
<1> DEFINE a == s.addr
<1>51. /\ new => /\ DOMAIN symbols' = DOMAIN symbols \cup {n}
                 /\ symbols'[n] = a
                 /\ \A x \in DOMAIN symbols : symbols'[x] = symbols[x]
                 /\ symbols' = [x \in DOMAIN symbols' |-> symbols'[x]]
       /\ ~new => symbols' = symbols
  <2> HIDE DEF n, a
  <2>1. ASSUME new, symbols' = With(n, a)
        PROVE  /\ DOMAIN symbols' = DOMAIN symbols \cup {n}
               /\ symbols'[n] = a
               /\ symbols' = [x \in DOMAIN symbols' |-> symbols'[x]]
    BY <2>1 DEF With
  <2>2. ASSUME new, symbols' = With(n, a), NEW x \in DOMAIN symbols
        PROVE  symbols'[x] = symbols[x]
    <3>1. x # n BY <2>2 DEF n
    <3> QED BY <2>2, <3>1 DEF With
  <2>3. new => symbols' = With(n, a) BY <1>1 DEF n, a
  <2>4. ~new => symbols' = symbols BY <1>1
  <2> QED BY <2>1, <2>2, <2>3, <2>4
<1>6. LoaderTypeOK'
  <2>1. symbols' \in [DOMAIN symbols' -> Pc]
    <3>1. CASE new
      <4> HIDE DEF new, n, a
      <4>1. \A x \in DOMAIN symbols' : symbols'[x] \in Pc
        BY <1>2, <1>5, <1>51, <3>1 DEF a
      <4> QED BY <1>51, <3>1, <4>1
    <3>2. CASE ~new BY <1>2, <1>51, <3>2
    <3> QED BY <3>1, <3>2
  <2> HIDE DEF new, s, n, a
  <2> QED BY <1>1, <1>0, <2>1 DEF Inv, LoaderTypeOK
<1>7. PastSegments' /\ PastSections'
  BY <1>1, <1>2 DEF PastSegments, PastSections, Image, AllFit, NoDoubles, Fits, Covers,
                    Segments, Sections
<1>8. Table(k)'
  <2>1. ASSUME NEW x \in DOMAIN symbols'
        PROVE  x # "" /\ \E j \in 1 .. k + 1 : file.symbols[j].name = x
    <3>1. CASE x \in DOMAIN symbols
      <4>1. x # "" BY <1>2, <3>1 DEF Table
      <4>2. PICK j \in 1 .. k : file.symbols[j].name = x
        BY <1>2, <3>1 DEF Table
      <4>3. j \in 1 .. k + 1 BY <1>0
      <4> QED BY <4>1, <4>2, <4>3
    <3>2. CASE x \notin DOMAIN symbols
      <4>1. new /\ x = n BY <1>51, <3>2, <2>1
      <4>2. k + 1 \in 1 .. k + 1 BY <1>0
      <4> QED BY <4>1, <4>2
    <3> QED BY <3>1, <3>2
  <2>2. ASSUME NEW j \in 1 .. k + 1, file.symbols[j].name # "",
               \A i \in 1 .. j - 1 : file.symbols[i].name # file.symbols[j].name
        PROVE  /\ file.symbols[j].name \in DOMAIN symbols'
               /\ symbols'[file.symbols[j].name] = file.symbols[j].addr
    <3>1. CASE j \in 1 .. k
      <4>1. /\ file.symbols[j].name \in DOMAIN symbols
            /\ symbols[file.symbols[j].name] = file.symbols[j].addr
        BY <1>2, <2>2, <3>1 DEF Table
      <4> HIDE DEF new, n, a
      <4> QED BY <1>51, <4>1
    <3>2. CASE j = k + 1
      <4>1. \A i \in 1 .. k : file.symbols[i].name # n
        <5>1. j - 1 = k BY <1>0, <3>2
        <5>2. file.symbols[j].name = n BY <3>2
        <5> HIDE DEF n
        <5> QED BY <2>2, <5>1, <5>2
      <4>2. n \notin DOMAIN symbols
        <5>1. \A x \in DOMAIN symbols : \E i \in 1 .. k : file.symbols[i].name = x
          BY <1>2 DEF Table
        <5> HIDE DEF n
        <5> QED BY <4>1, <5>1
      <4>3. new BY <2>2, <3>2, <4>2
      <4>4. n \in DOMAIN symbols' /\ symbols'[n] = a
        <5> HIDE DEF new, n, a
        <5> QED BY <1>51, <4>3
      <4> QED BY <3>2, <4>4
    <3> QED BY <1>0, <3>1, <3>2
  <2>3. k' = k + 1 /\ file' = file BY <1>0
  <2> HIDE DEF new, s, n, a
  <2> QED BY <2>1, <2>2, <2>3 DEF Table
<1>9. InSymbols'
  <2>1. k + 1 <= Len(file.symbols) BY <1>0, <1>31
  <2>2. HasTables(file)' /\ (k <= Len(file.symbols))'
    BY <1>0, <1>2, <2>1 DEF HasTables, Has
  <2> QED BY <1>8, <2>2 DEF InSymbols
<1>10. InSegments' /\ InSections' /\ AtStart'
  BY <1>1 DEF InSegments, InSections, AtStart
<1>11. NoMixture'
  <2>1. NoMixture /\ file # NoFile /\ ~ran
    BY <1>1, LoaderAssumption DEF Inv, Results, LoaderTypeOK, Progress, InLoad
  <2>2. ASSUME NEW x \in DOMAIN symbols'
        PROVE  \E j \in DOMAIN file.symbols : file.symbols[j].name = x
    <3>1. CASE x \in DOMAIN symbols BY <2>1, <3>1 DEF NoMixture
    <3>2. CASE x \notin DOMAIN symbols
      <4>1. x = n BY <1>51, <3>2, <2>2
      <4> QED BY <1>31, <1>32, <4>1
    <3> QED BY <3>1, <3>2
  <2> HIDE DEF new, s, n, a
  <2>3. \A x \in DOMAIN symbols' : file' # NoFile
           /\ \E j \in DOMAIN file'.symbols : file'.symbols[j].name = x
    BY <1>1, <2>1, <2>2
  <2>4. \A y \in MemAddr : (mem[y] = Zero \/ (file # NoFile /\ \E j \in DOMAIN file.segments :
                                    LET t == file.segments[j]
                                    IN  Covers(t, y) /\ mem[y] = t.bytes[y - t.paddr + 1]))'
    BY <1>1, <2>1 DEF NoMixture, Covers
  <2>5. (loadedBin = NoPath => file = NoFile)' BY <1>1, <2>1 DEF NoMixture
  <2> QED BY <2>3, <2>4, <2>5 DEF NoMixture
<1>12. at # "idle" /\ at' # "idle" BY <1>1
<1> QED BY <1>1, <1>6, <1>7, <1>9, <1>10, <1>11, <1>12, NoResultsYet
        DEF Inv, Progress, Results

\* After the last symbol, the symbol map is that of the whole file.
LEMMA LastSymbolInv ==
    ASSUME Inv, LastSymbol, UNCHANGED <<disk, loadedBin, regs, call, ran>>
    PROVE  Inv'
<1>1. /\ at = "symbols" /\ at' = "start" /\ k = Len(file.symbols) /\ k' = 0
      /\ UNCHANGED <<disk, mem, symbols, loadedBin, pc, regs, file, found, call, ret, whole, ran>>
  BY DEF LastSymbol, Goto
<1>2. LoaderTypeOK' BY <1>1 DEF Inv, LoaderTypeOK
<1>3. PastSegments' /\ PastSections'
  BY <1>1 DEF Inv, Progress, PastSegments, PastSections, Image, AllFit, NoDoubles, Fits,
              Covers, Segments, Sections
<1>4. AtStart'
  <2>1. HasTables(file) /\ Table(Len(file.symbols))
    BY <1>1 DEF Inv, Progress, InSymbols
  <2>2. Table(Symbols)
    BY <2>1 DEF Symbols
  <2>3. (Symbols = Symbols')
    BY <1>1 DEF Symbols, HasTables, Has
  <2>4. Table(Symbols)'
    BY <1>1, <2>2, <2>3 DEF Table
  <2> QED BY <2>4 DEF AtStart
<1>5. InSegments' /\ InSections' /\ InSymbols'
  BY <1>1 DEF InSegments, InSections, InSymbols
<1>6. NoMixture'
  BY <1>1 DEF Inv, Results, NoMixture, Covers
<1>7. at # "idle" /\ at' # "idle" BY <1>1
<1> QED BY <1>1, <1>2, <1>3, <1>4, <1>5, <1>6, <1>7, NoResultsYet
        DEF Inv, Progress, Results

\* The end of a load: all that a completed load promises holds.
LEMMA SetStartInv ==
    ASSUME Inv, SetStart, UNCHANGED <<disk, loadedBin, regs, call, ran>>
    PROVE  Inv'
<1>1. /\ at = "start" /\ at' = "idle" /\ k' = 0 /\ found' = {}
      /\ ret' = "ok" /\ whole' = TRUE /\ ~ran
      /\ pc' = IF "_start" \in DOMAIN symbols THEN symbols["_start"] ELSE pc
      /\ UNCHANGED <<disk, mem, symbols, loadedBin, regs, file, call, ran>>
  BY DEF SetStart, Goto, Inv, Progress, InLoad
<1>2. /\ Image(Segments) /\ AllFit(Segments) /\ NoDoubles(Sections) /\ Table(Symbols)
      /\ file \in File /\ file # NoFile
  BY <1>1 DEF Inv, LoaderTypeOK, Progress, PastSegments, PastSections, AtStart
<1>3. DOMAIN file.segments = 1 .. Segments /\ DOMAIN file.sections = 1 .. Sections
  BY <1>2, FileParts DEF Segments, Sections
<1>4. LoaderTypeOK' BY <1>1 DEF Inv, LoaderTypeOK
<1>5. Progress'
  BY <1>1 DEF Progress, InLoad, InSegments, PastSegments, InSections, PastSections,
              InSymbols, AtStart
<1>6. NothingLoaded' BY <1>1, <1>2 DEF NothingLoaded
<1>7. WholeIfLoadable'
  <2>1. Loadable(file) BY <1>2, <1>3 DEF Loadable, AllFit, NoDoubles
  <2> QED BY <1>1, <2>1 DEF WholeIfLoadable, Loadable, Fits
<1>8. CompleteImage'
  <2>1. Image(Len(file.segments))'
    BY <1>1, <1>2 DEF Image, Segments, Covers
  <2>2. Table(Symbols)'
    <3>1. (Symbols = Symbols')
      BY <1>1 DEF Symbols, HasTables, Has
    <3> QED BY <1>1, <1>2, <3>1 DEF Table
  <2>3. ("_start" \in DOMAIN symbols => pc = symbols["_start"])'
    BY <1>1
  <2> QED BY <2>1, <2>2, <2>3 DEF CompleteImage, Symbols
<1>9. NoMixture'
  BY <1>1 DEF Inv, Results, NoMixture, Covers
<1>10. RestartIsFresh'
  BY <1>1, <1>2 DEF Inv, Progress, InLoad, RestartIsFresh
<1> QED BY <1>4, <1>5, <1>6, <1>7, <1>8, <1>9, <1>10 DEF Inv, Results

\* What the program does excuses everything but the outcome of the load.
LEMMA ExecuteInv ==
    ASSUME Inv, Execute
    PROVE  Inv'
<1>1. /\ at = "idle" /\ at' = "idle" /\ ran' = TRUE /\ pc' \in Pc /\ regs' = "used"
      /\ UNCHANGED <<disk, symbols, loadedBin, file, k, found, call, ret, whole>>
  BY DEF Execute, loading
<1>2. mem' \in [MemAddr -> Byte]
  BY LoaderAssumption DEF Execute, Inv, LoaderTypeOK
<1>3. LoaderTypeOK' BY <1>1, <1>2 DEF Inv, LoaderTypeOK
<1>4. Progress'
  BY <1>1 DEF Progress, InLoad, InSegments, PastSegments, InSections, PastSections,
              InSymbols, AtStart
<1>5. Results'
  <2>1. NothingLoaded' BY <1>1 DEF Inv, Results, NothingLoaded
  <2>2. WholeIfLoadable' BY <1>1 DEF Inv, Results, WholeIfLoadable, Loadable, Fits
  <2>3. CompleteImage' /\ NoMixture' /\ RestartIsFresh'
    BY <1>1 DEF CompleteImage, NoMixture, RestartIsFresh
  <2> QED BY <2>1, <2>2, <2>3 DEF Results
<1> QED BY <1>3, <1>4, <1>5 DEF Inv

\* The files on disk and the stutter: nothing that the invariant speaks of changes.
LEMMA NothingChanges ==
    ASSUME Inv, disk' \in [Path -> File \cup {NoFile}],
           UNCHANGED <<mem, symbols, loadedBin, pc, regs, at, file, k, found, call, ret,
                       whole, ran>>
    PROVE  Inv'
<1>1. LoaderTypeOK' BY DEF Inv, LoaderTypeOK
<1>2. (\A n : Image(n) => Image(n)') /\ (\A n : Table(n) => Table(n)')
  BY DEF Image, Table, Covers
<1>3. (\A n : AllFit(n) => AllFit(n)') /\ (\A n : NoDoubles(n) => NoDoubles(n)')
      /\ (\A n : Tables(n)' = Tables(n))
  BY DEF AllFit, Fits, NoDoubles, Tables
<1>4. Segments' = Segments /\ Sections' = Sections /\ Symbols' = Symbols
      /\ (HasTables(file)' <=> HasTables(file))
  BY DEF Segments, Sections, Symbols, HasTables, Has
<1>5. Progress'
  <2>1. InLoad' /\ InSegments' /\ PastSegments'
    BY <1>2, <1>3, <1>4 DEF Inv, Progress, InLoad, InSegments, PastSegments
  <2>2. InSections'
    BY <1>3, <1>4 DEF Inv, Progress, InSections
  <2>3. PastSections' /\ InSymbols' /\ AtStart'
    BY <1>2, <1>3, <1>4 DEF Inv, Progress, PastSections, InSymbols, AtStart
  <2> QED BY <2>1, <2>2, <2>3 DEF Progress
<1>6. Results'
  <2>1. NothingLoaded' BY DEF Inv, Results, NothingLoaded
  <2>2. WholeIfLoadable' BY DEF Inv, Results, WholeIfLoadable, Loadable, Fits
  <2>3. CompleteImage'
    <3>1. CASE whole /\ ~ran
      <4>1. Image(Segments) /\ Table(Symbols) BY <3>1 DEF Inv, Results, CompleteImage, Segments, Symbols
      <4>2. Image(Segments)' /\ Table(Symbols)' BY <1>2, <1>4, <4>1
      <4> QED BY <3>1, <4>2 DEF Inv, Results, CompleteImage, Segments, Symbols
    <3>2. CASE ~(whole /\ ~ran) BY <3>2 DEF CompleteImage
    <3> QED BY <3>1, <3>2
  <2>4. NoMixture' BY DEF Inv, Results, NoMixture, Covers
  <2>5. RestartIsFresh' BY DEF Inv, Results, RestartIsFresh
  <2> QED BY <2>1, <2>2, <2>3, <2>4, <2>5 DEF Results
<1> QED BY <1>1, <1>5, <1>6 DEF Inv

\* What is on disk afterwards is another matter.
LEMMA RewriteInv ==
    ASSUME Inv, NEW p \in Path, NEW f \in File \cup {NoFile}, Rewrite(p, f)
    PROVE  Inv'
BY NothingChanges DEF Rewrite, machine, loading, history, Inv, LoaderTypeOK

\* A step that changes nothing.
LEMMA StutterInv ==
    ASSUME Inv, UNCHANGED loaderVars
    PROVE  Inv'
BY NothingChanges DEF loaderVars, machine, loading, history, Inv, LoaderTypeOK

\* Every step of the loader and of its surroundings.
LEMMA NextInv ==
    ASSUME Inv, [LoaderNext]_loaderVars
    PROVE  Inv'
<1>1. CASE \E p \in Path : LoadFile(p) BY <1>1, LoadFileInv
<1>2. CASE ResetSim BY <1>2, ResetSimInv
<1>3. CASE LoadStep
  BY <1>3, PutSegmentInv, LastSegmentInv, ReadSectionInv, LastSectionInv,
     ReadSymbolInv, LastSymbolInv, SetStartInv DEF LoadStep
<1>4. CASE Execute BY <1>4, ExecuteInv
<1>5. CASE \E p \in Path, f \in File \cup {NoFile} : Rewrite(p, f)
  BY <1>5, RewriteInv
<1>6. CASE UNCHANGED loaderVars BY <1>6, StutterInv
<1> QED BY <1>1, <1>2, <1>3, <1>4, <1>5, <1>6 DEF LoaderNext

-----------------------------------------------------------------------------
\* The loader keeps account of how much of the file it has worked through.
THEOREM Invariance == LoaderSpec => []Inv
<1>1. LoaderInit => Inv BY InitInv
<1>2. Inv /\ [LoaderNext]_loaderVars => Inv' BY NextInv
<1> QED BY <1>1, <1>2, PTL DEF LoaderSpec

\* The variables have the types of the members that they stand for.
THEOREM TypeCorrect == LoaderSpec => []LoaderTypeOK
<1>1. Inv => LoaderTypeOK BY DEF Inv
<1> QED BY <1>1, Invariance, PTL

\* Whether LoadFile and ResetSim complete a load depends on the file alone.
THEOREM LoadsWhatItCan == LoaderSpec => []WholeIfLoadable
<1>1. Inv => WholeIfLoadable BY DEF Inv, Results
<1> QED BY <1>1, Invariance, PTL

\* A completed load leaves the whole file and nothing else.
THEOREM ImageIsComplete == LoaderSpec => []CompleteImage
<1>1. Inv => CompleteImage BY DEF Inv, Results
<1> QED BY <1>1, Invariance, PTL

\* A load that fails leaves parts of one file only.
THEOREM NothingIsMixed == LoaderSpec => []NoMixture
<1>1. Inv => NoMixture BY DEF Inv, Results
<1> QED BY <1>1, Invariance, PTL

\* ResetSim leaves nothing of what was loaded and run before.
THEOREM RestartsAreFresh == LoaderSpec => []RestartIsFresh
<1>1. Inv => RestartIsFresh BY DEF Inv, Results
<1> QED BY <1>1, Invariance, PTL

-----------------------------------------------------------------------------
(* Sessions *)

\* A command calls LoadFile or does nothing to the machine.
LEMMA CommandSteps ==
    ASSUME Command
    PROVE  [LoaderNext]_loaderVars
<1>1. ASSUME NEW p \in Path, CmdSimple(p) PROVE [LoaderNext]_loaderVars
  BY <1>1 DEF CmdSimple
<1>2. ASSUME NEW p \in Path, CmdLoad(p) PROVE [LoaderNext]_loaderVars
  BY <1>2 DEF CmdLoad, LoaderNext
<1>3. ASSUME NEW p \in Path, CmdRun(p) PROVE [LoaderNext]_loaderVars
  BY <1>3 DEF CmdRun
<1>4. ASSUME NEW p \in Path, CmdResume(p) PROVE [LoaderNext]_loaderVars
  BY <1>4 DEF CmdResume
<1> QED BY <1>1, <1>2, <1>3, <1>4 DEF Command

\* Each step of a session is a step of the loader's specification or none.
LEMMA LoaderSimulation ==
    ASSUME [Next]_vars
    PROVE  [LoaderNext]_loaderVars
<1>1. CASE MainStep
  <2>1. CASE BadCommandLine \/ MainLoaded \/ ConsoleStarts
    BY <2>1 DEF BadCommandLine, MainLoaded, ConsoleStarts
  <2>2. CASE MainLoads BY <2>2 DEF MainLoads, LoaderNext
  <2>3. CASE where = "script" /\ Command BY <2>3, CommandSteps
  <2>4. CASE EndOfScript \/ LoadReturns \/ ResetReturns \/ RunStarts \/ RunFails
    BY <2>4 DEF EndOfScript, LoadReturns, ResetReturns, RunStarts, RunFails
  <2>5. CASE LoaderSteps BY <2>5 DEF LoaderSteps, LoaderNext
  <2> QED BY <1>1, <2>1, <2>2, <2>3, <2>4, <2>5 DEF MainStep
<1>2. CASE OtherStep
  <2>1. CASE where = "prompt" /\ Command BY <2>1, CommandSteps
  <2>2. CASE Answer BY <2>2 DEF Answer, LoaderNext
  <2>3. CASE ProgramSteps BY <2>3 DEF ProgramSteps, LoaderNext
  <2>4. CASE RunEnds \/ RunKills BY <2>4 DEF RunEnds, RunKills
  <2>5. CASE \E p \in ElfPath, f \in File \cup {NoFile} : Rewrite(p, f)
    BY <2>5, LoaderAssumption DEF LoaderNext
  <2> QED BY <1>2, <2>1, <2>2, <2>3, <2>4, <2>5 DEF OtherStep
<1>3. CASE Over \/ UNCHANGED vars BY <1>3 DEF Over, vars
<1> QED BY <1>1, <1>2, <1>3 DEF Next

\* A session is a behaviour of the loader: whatever is typed, scripted, run or
\* written to disk, LoadFile and ResetSim are called when module Loader allows
\* it, and the console changes nothing of theirs.
LEMMA ImplementsLoader == Spec => LoaderSpec
<1>1. Init => LoaderInit BY DEF Init
<1>2. [Next]_vars => [LoaderNext]_loaderVars BY LoaderSimulation
<1> QED BY <1>1, <1>2, PTL DEF Spec, LoaderSpec

\* In every session, a completed load has left the whole file, one that failed
\* parts of one file, and a restart nothing of the past.
THEOREM SessionsLoadSoundly ==
    Spec => [](WholeIfLoadable /\ CompleteImage /\ NoMixture /\ RestartIsFresh)
<1>1. Inv => WholeIfLoadable /\ CompleteImage /\ NoMixture /\ RestartIsFresh
  BY DEF Inv, Results
<1> QED BY <1>1, ImplementsLoader, Invariance, PTL

-----------------------------------------------------------------------------
\* What the console keeps for itself.
ConsoleTypeOK ==
    /\ where \in {"main", "console", "loading", "asking", "resetting", "starting",
                  "running"} \cup Places \cup Ended
    /\ from \in {"main"} \cup Places
    /\ lines \in Seq(Line)
    /\ scripted \in BOOLEAN
    /\ state \in {"IDLE", "RUNNING", "PAUSED", "TERMINATED"}
    /\ exit \in {"none", "0", "-1", "signal"}

\* A command takes its line and leaves the console in one of its places.
LEMMA CommandTypes ==
    ASSUME ConsoleTypeOK, Command, where \in Places
    PROVE  ConsoleTypeOK'
<1>1. ASSUME NEW v, NEW p, Reads(v, p) PROVE lines' \in Seq(Line)
  <2>1. CASE UNCHANGED lines BY <2>1 DEF ConsoleTypeOK
  <2>2. CASE lines # <<>> /\ lines' = Tail(lines) BY <2>2 DEF ConsoleTypeOK
  <2> QED BY <1>1, <2>1, <2>2 DEF Reads
<1>2. ASSUME NEW r, Returned(where, r) PROVE (where \in Places \cup Ended)' /\ from' = "main"
             /\ (exit \in {"none", "0", "-1", "signal"})'
  BY <1>2 DEF Returned, Exits, Places, Ended, ConsoleTypeOK
<1>3. ASSUME NEW p \in Path, CmdSimple(p) PROVE ConsoleTypeOK'
  <2>1. lines' \in Seq(Line) BY <1>1, <1>3 DEF CmdSimple
  <2>2. UNCHANGED <<scripted, state>> BY <1>3 DEF CmdSimple
  <2>3. CASE \E r : Returned(where, r) BY <1>2, <2>1, <2>2, <2>3 DEF ConsoleTypeOK
  <2>4. CASE where' = "aborted" /\ exit' = "signal" /\ UNCHANGED from
    BY <2>1, <2>2, <2>4 DEF ConsoleTypeOK, Ended
  <2> QED BY <1>3, <2>3, <2>4 DEF CmdSimple
<1>4. ASSUME NEW p \in Path, CmdLoad(p) PROVE ConsoleTypeOK'
  BY <1>1, <1>4 DEF CmdLoad, ConsoleTypeOK
<1>5. ASSUME NEW p \in Path, CmdRun(p) PROVE ConsoleTypeOK'
  BY <1>1, <1>5 DEF CmdRun, ConsoleTypeOK
<1>6. ASSUME NEW p \in Path, CmdResume(p) PROVE ConsoleTypeOK'
  <2>1. lines' \in Seq(Line) BY <1>1, <1>6 DEF CmdResume
  <2>2. UNCHANGED <<scripted, state>> BY <1>6 DEF CmdResume
  <2>3. CASE Returned(where, "ERROR") BY <1>2, <2>1, <2>2, <2>3 DEF ConsoleTypeOK
  <2>4. CASE where' = "starting" /\ from' = where /\ UNCHANGED exit
    BY <2>1, <2>2, <2>4 DEF ConsoleTypeOK
  <2> QED BY <1>6, <2>3, <2>4 DEF CmdResume
<1> QED BY <1>3, <1>4, <1>5, <1>6 DEF Command

\* So does everything else.
LEMMA StepTypes ==
    ASSUME ConsoleTypeOK, [Next]_vars
    PROVE  ConsoleTypeOK'
<1>1. CASE Command /\ where \in Places BY <1>1, CommandTypes
<1>2. CASE BadCommandLine BY <1>2 DEF BadCommandLine, Exits, ConsoleTypeOK, Ended
<1>3. CASE MainLoads BY <1>3 DEF MainLoads, ConsoleTypeOK
<1>4. CASE MainLoaded BY <1>4 DEF MainLoaded, Exits, ConsoleTypeOK, Ended
<1>5. CASE ConsoleStarts BY <1>5 DEF ConsoleStarts, Exits, ConsoleTypeOK, Ended, Places
<1>6. CASE EndOfScript BY <1>6 DEF EndOfScript, ConsoleTypeOK, Places
<1>7. CASE LoadReturns BY <1>7 DEF LoadReturns, Returned, Exits, ConsoleTypeOK, Places, Ended
<1>8. CASE ResetReturns BY <1>8 DEF ResetReturns, Escapes, Exits, ConsoleTypeOK, Ended
<1>9. CASE Answer BY <1>9 DEF Answer, Returned, Exits, ConsoleTypeOK, Places, Ended
<1>10. CASE RunEnds BY <1>10 DEF RunEnds, Returned, Exits, ConsoleTypeOK, Places, Ended
<1>11. CASE RunKills BY <1>11 DEF RunKills, ConsoleTypeOK, Ended
<1>12. CASE RunStarts \/ RunFails
  BY <1>12 DEF RunStarts, RunFails, Returned, Exits, ConsoleTypeOK, Places, Ended
<1>13. CASE UNCHANGED consoleVars BY <1>13 DEF consoleVars, ConsoleTypeOK
<1> QED
  BY <1>1, <1>2, <1>3, <1>4, <1>5, <1>6, <1>7, <1>8, <1>9, <1>10, <1>11, <1>12,
     <1>13
  DEF Next, MainStep, OtherStep, Over, vars, LoaderSteps, ProgramSteps, Places

\* What the console keeps for itself has its types throughout.
LEMMA ConsoleTypes == Spec => []ConsoleTypeOK
<1>1. Init => ConsoleTypeOK
  <2>1. ASSUME NEW s \in Script PROVE s \in Seq(Line) BY SessionAssumption
  <2>2. <<>> \in Seq(Line) OBVIOUS
  <2> QED BY <2>1, <2>2 DEF Init, ConsoleTypeOK
<1>2. ConsoleTypeOK /\ [Next]_vars => ConsoleTypeOK' BY StepTypes
<1> QED BY <1>1, <1>2, PTL DEF Spec

\* The variables of a session have the types of what they stand for.
THEOREM SessionTypes == Spec => []TypeOK
<1>1. Inv /\ ConsoleTypeOK => TypeOK BY DEF Inv, ConsoleTypeOK, TypeOK
<1> QED BY <1>1, ConsoleTypes, ImplementsLoader, Invariance, PTL

-----------------------------------------------------------------------------
\* While m_state is IDLE nothing has run since the last Reset.
IdleIsFresh ==
    /\ where = "running" => state = "RUNNING"
    /\ state = "IDLE" => regs = "reset" /\ ~ran

\* A step of the loader leaves the registers alone and runs nothing.
LEMMA LoadStepFresh ==
    ASSUME LoadStep
    PROVE  regs' = regs /\ ran' = ran
BY DEF LoadStep, PutSegment, LastSegment, ReadSection, LastSection, ReadSymbol, LastSymbol,
       SetStart, Throws, Goto, Turn

\* A command may load, but it does not run anything by itself.
LEMMA CommandFresh ==
    ASSUME IdleIsFresh, Command
    PROVE  IdleIsFresh'
<1>1. /\ state' = state /\ where' # "running" /\ regs' = regs
      /\ ran' = ran \/ ran' = FALSE
  <2>1. ASSUME NEW p \in Path, CmdSimple(p)
        PROVE  state' = state /\ where' # "running" /\ regs' = regs /\ ran' = ran
    BY <2>1 DEF CmdSimple, Reads, Returned, Exits, loaderVars, machine, history
  <2>2. ASSUME NEW p \in Path, CmdLoad(p)
        PROVE  /\ state' = state /\ where' # "running" /\ regs' = regs
               /\ ran' = ran \/ ran' = FALSE
    BY <2>2 DEF CmdLoad, LoadFile, Opens, history
  <2>3. ASSUME NEW p \in Path, CmdRun(p) \/ CmdResume(p)
        PROVE  state' = state /\ where' # "running" /\ regs' = regs /\ ran' = ran
    BY <2>3 DEF CmdRun, CmdResume, Reads, Returned, Exits, loaderVars, machine, history
  <2> QED BY <2>1, <2>2, <2>3 DEF Command
<1> QED BY <1>1 DEF IdleIsFresh

\* Only a run of the program uses the registers, and m_state is RUNNING then.
LEMMA StepFresh ==
    ASSUME ConsoleTypeOK, IdleIsFresh, [Next]_vars
    PROVE  IdleIsFresh'
<1> USE DEF IdleIsFresh, loaderVars, machine, history, consoleVars
<1>1. CASE Command BY <1>1, CommandFresh
<1>2. CASE BadCommandLine \/ MainLoaded \/ ConsoleStarts \/ EndOfScript
  BY <1>2 DEF BadCommandLine, MainLoaded, ConsoleStarts, EndOfScript, Exits
<1>3. CASE MainLoads BY <1>3 DEF MainLoads, LoadFile, Opens
<1>4. CASE LoaderSteps BY <1>4, LoadStepFresh DEF LoaderSteps
<1>5. CASE LoadReturns BY <1>5 DEF LoadReturns, Returned, Exits, Places
<1>6. CASE ResetReturns BY <1>6 DEF ResetReturns, Escapes, Exits
<1>7. CASE RunStarts \/ RunFails BY <1>7 DEF RunStarts, RunFails
<1>8. CASE Answer
  <2>1. CASE UNCHANGED <<loaderVars, state>> /\ Returned(from, "OK")
    BY <2>1 DEF Returned, Exits, ConsoleTypeOK, Places
  <2>2. CASE ResetSim /\ state' = "IDLE" /\ where' = "resetting"
    BY <2>2 DEF ResetSim, Opens
  <2> QED BY <1>8, <2>1, <2>2 DEF Answer
<1>9. CASE ProgramSteps BY <1>9 DEF ProgramSteps
<1>10. CASE RunEnds BY <1>10 DEF RunEnds, Returned, Exits, ConsoleTypeOK, Places
<1>11. CASE RunKills BY <1>11 DEF RunKills
<1>12. CASE (\E p \in ElfPath, f \in File \cup {NoFile} : Rewrite(p, f)) /\ UNCHANGED consoleVars
  BY <1>12 DEF Rewrite
<1>13. CASE Over \/ UNCHANGED vars BY <1>13 DEF Over, vars
<1> QED
  BY <1>1, <1>2, <1>3, <1>4, <1>5, <1>6, <1>7, <1>8, <1>9, <1>10, <1>11, <1>12, <1>13
  DEF Next, MainStep, OtherStep

\* A program that is started while m_state is IDLE starts afresh.
THEOREM StartsAreFresh == Spec => []FreshStart
<1>1. Init => IdleIsFresh BY DEF Init, LoaderInit, IdleIsFresh
<1>2. ConsoleTypeOK /\ IdleIsFresh /\ [Next]_vars => IdleIsFresh' BY StepFresh
<1>3. IdleIsFresh /\ Inv => FreshStart
  BY DEF IdleIsFresh, FreshStart, Inv, Results, CompleteImage
<1>4. Spec => []IdleIsFresh BY <1>1, <1>2, ConsoleTypes, PTL DEF Spec
<1> QED BY <1>3, <1>4, ImplementsLoader, Invariance, PTL
=============================================================================
