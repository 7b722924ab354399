------------------------------- MODULE Loader -------------------------------
(***************************************************************************)
(* SimHost::LoadFile and ResetSim with class ElfFileLoader, one step for   *)
(* each program header, section and symbol.  A file is read as a whole     *)
(* when it is opened; what it is on disk may be another thing by the time  *)
(* that ResetSim reads it again.                                           *)
(*                                                                         *)
(* A file is its header, good or bad in any of the ways that LoadHeader    *)
(* tests, and what its program headers, section headers and symbol table   *)
(* say.  Offsets in it are taken to lie inside of it: the code does not    *)
(* test them.  What the program under test does is the action Execute.     *)
(***************************************************************************)
EXTENDS Integers, Sequences

CONSTANTS
    Path, NoPath,   \* names of files, and m_loadedBin before the first load
    ElfPath,        \* those that end in .elf
    File, NoFile,   \* what a file can be, and that there is none
    Lower, Upper,   \* the limits of memory
    Byte, Zero,     \* byte values
    Pc, ResetPc,    \* instruction addresses, and the one after Reset
    Stored          \* the addresses that the program under test writes to

\* Addresses of memory that a vector can be Put to.
MemAddr == Lower .. Upper - 1

Segment == [type : {"LOAD", "other"}, paddr : Nat, bytes : Seq(Byte)]
SectionType == {"shstrtab", "strtab", "symtab", "other"}
Symbol == [name : STRING, addr : Pc]

ASSUME LoaderAssumption ==
    /\ NoPath \notin Path /\ ElfPath \subseteq Path
    /\ NoFile \notin File
    /\ \A f \in File :
          /\ f.header \in {"good", "bad"}
          /\ f.segments \in Seq(Segment)
          /\ f.sections \in Seq(SectionType)
          /\ f.symbols \in Seq(Symbol)
    /\ Lower \in Int /\ Upper \in Int
    /\ Zero \in Byte
    /\ ResetPc \in Pc
    /\ Stored \subseteq MemAddr

VARIABLES
    disk,       \* the files
    mem,        \* m_mem, as the array that it implements
    symbols,    \* m_symbolMap
    loadedBin,  \* m_loadedBin
    pc,         \* m_processor's pc
    regs,       \* "reset" until the program has used the rest of m_processor
    at,         \* where LoadFile is, "idle" when nobody has called it
    file,       \* the loader's m_filebytes; afterwards, what it has loaded
    k,          \* its loop counter
    found,      \* strTableFound and symTableFound
    call,       \* the last call, of LoadFile or of ResetSim
    ret,        \* how it has ended
    whole,      \* history: the last load that cleared memory was completed
    ran         \* history: the program has run since then

machine == <<mem, symbols, loadedBin, pc, regs>>
loading == <<at, file, k, found, call, ret>>
history == <<whole, ran>>
loaderVars == <<disk, machine, loading, history>>

NoSymbols == [n \in {} |-> ResetPc]
Cleared == [a \in MemAddr |-> Zero]

\* Files without the suffix are refused whatever is in them.
LoaderInit ==
    /\ disk \in [Path -> File \cup {NoFile}]
    /\ \A p \in Path \ ElfPath : disk[p] = NoFile
    /\ mem = Cleared /\ symbols = NoSymbols /\ loadedBin = NoPath
    /\ pc = ResetPc /\ regs = "reset"
    /\ at = "idle" /\ file = NoFile /\ k = 0 /\ found = {}
    /\ call = "none" /\ ret = "none"
    /\ whole = FALSE /\ ran = FALSE

-----------------------------------------------------------------------------
(* LoadFile(path), as CmdLoad and main call it, and from ResetSim *)

\* Mutation: a file that cannot be read is not noticed.
AcceptedUnread(p) ==
    /\ p \in ElfPath
    /\ disk[p] # NoFile => disk[p].header = "good"

\* Anything else LoadFile refuses before it has changed anything.  A bad header,
\* or a file that cannot be read, is a runtime_error of the loader's constructor.
Accepted(p) ==
    /\ p \in ElfPath
    /\ disk[p] # NoFile
    /\ disk[p].header = "good"

\* Mutation: what the last file and its program have left is not erased.
OpensOnTop(p) ==
    /\ loadedBin' = p
    /\ at' = "segments" /\ file' = disk[p] /\ k' = 0 /\ found' = {}
    /\ ret' = "none" /\ whole' = FALSE /\ ran' = FALSE
    /\ UNCHANGED <<mem, symbols>>

\* Memory and symbols are erased, the name is kept for a reload.
Opens(p) ==
    /\ mem' = Cleared /\ symbols' = NoSymbols /\ loadedBin' = p
    /\ at' = "segments" /\ file' = disk[p] /\ k' = 0 /\ found' = {}
    /\ ret' = "none" /\ whole' = FALSE /\ ran' = FALSE

LoadFile(p) ==
    /\ at = "idle"
    /\ call' = "load"
    /\ \/ /\ ~Accepted(p)
          /\ ret' = "error"
          /\ UNCHANGED <<mem, symbols, loadedBin, at, file, k, found, history>>
       \/ Accepted(p) /\ Opens(p)
    /\ UNCHANGED <<disk, pc, regs>>

\* Mutation: only the loader clears the symbols.
ResetSimKeepsSymbols ==
    /\ at = "idle"
    /\ call' = "reset"
    /\ pc' = ResetPc /\ regs' = "reset"
    /\ \/ /\ ~Accepted(loadedBin)
          /\ mem' = Cleared /\ file' = NoFile
          /\ ret' = "error" /\ whole' = FALSE /\ ran' = FALSE
          /\ UNCHANGED <<symbols, loadedBin, at, k, found>>
       \/ Accepted(loadedBin) /\ Opens(loadedBin)
    /\ UNCHANGED disk

\* The result of LoadFile is ignored: the machine may stay empty.
ResetSim ==
    /\ at = "idle"
    /\ call' = "reset"
    /\ pc' = ResetPc /\ regs' = "reset"
    /\ \/ /\ ~Accepted(loadedBin)
          /\ mem' = Cleared /\ symbols' = NoSymbols /\ file' = NoFile
          /\ ret' = "error" /\ whole' = FALSE /\ ran' = FALSE
          /\ UNCHANGED <<loadedBin, at, k, found>>
       \/ Accepted(loadedBin) /\ Opens(loadedBin)
    /\ UNCHANGED disk

\* The end of LoadFile by an exception, caught in it ("error") or not.
Throws(how) ==
    /\ at' = "idle" /\ k' = 0 /\ found' = {}
    /\ ret' = how
    /\ UNCHANGED <<mem, symbols, pc, file, whole>>

Goto(l) == at' = l /\ k' = 0
Turn == k' = k + 1 /\ UNCHANGED at

-----------------------------------------------------------------------------
(* LoadProgramHeaders *)

Covers(s, a) == s.type = "LOAD" /\ s.paddr <= a /\ a < s.paddr + Len(s.bytes)

\* MemoryMap::Put of a vector.
Fits(s) == s.paddr >= Lower /\ s.paddr + Len(s.bytes) <= Upper

PutSegment ==
    LET s == file.segments[k + 1]
    IN  /\ at = "segments"
        /\ k < Len(file.segments)
        /\ \/ /\ s.type # "LOAD"
              /\ Turn
              /\ UNCHANGED <<mem, symbols, pc, file, found, ret, whole>>
           \/ /\ s.type = "LOAD" /\ Fits(s)
              /\ mem' = [a \in MemAddr |->
                            IF Covers(s, a) THEN s.bytes[a - s.paddr + 1] ELSE mem[a]]
              /\ Turn
              /\ UNCHANGED <<symbols, pc, file, found, ret, whole>>
           \/ s.type = "LOAD" /\ ~Fits(s) /\ Throws("out_of_range")

LastSegment ==
    /\ at = "segments"
    /\ k = Len(file.segments)
    /\ Goto("sections")
    /\ UNCHANGED <<mem, symbols, pc, file, found, ret, whole>>

-----------------------------------------------------------------------------
(* LoadSymbols: the tables are looked for among the sections *)

\* Mutation: the offset of the section header is not moved on.
ReadSectionAgain ==
    /\ at = "sections"
    /\ k < Len(file.sections)
    /\ file.sections[k + 1] \notin found
    /\ UNCHANGED <<mem, symbols, pc, at, file, k, found, ret, whole>>

\* Mutation: the section names are a string table like another.
ReadSectionCountingNames ==
    LET s == IF file.sections[k + 1] = "shstrtab" THEN "strtab" ELSE file.sections[k + 1]
    IN  /\ at = "sections"
        /\ k < Len(file.sections)
        /\ \/ s \in found /\ Throws("error")
           \/ /\ s \notin found
              /\ found' = found \cup ({s} \cap {"strtab", "symtab"})
              /\ Turn
              /\ UNCHANGED <<mem, symbols, pc, file, ret, whole>>

\* "multiple string tables in ELF", "multiple symbol tables in ELF".
ReadSection ==
    LET s == file.sections[k + 1]
    IN  /\ at = "sections"
        /\ k < Len(file.sections)
        /\ \/ s \in found /\ Throws("error")
           \/ /\ s \notin found
              /\ found' = found \cup ({s} \cap {"strtab", "symtab"})
              /\ Turn
              /\ UNCHANGED <<mem, symbols, pc, file, ret, whole>>

LastSection ==
    /\ at = "sections"
    /\ k = Len(file.sections)
    /\ Goto(IF found = {"strtab", "symtab"} THEN "symbols" ELSE "start")
    /\ UNCHANGED <<mem, symbols, pc, file, found, ret, whole>>

With(n, a) == [x \in DOMAIN symbols \cup {n} |-> IF x = n THEN a ELSE symbols[x]]

\* Mutation: operator[] instead of insert.
ReadSymbolLast ==
    LET s == file.symbols[k + 1]
    IN  /\ at = "symbols"
        /\ k < Len(file.symbols)
        /\ symbols' = IF s.name # "" THEN With(s.name, s.addr) ELSE symbols
        /\ Turn
        /\ UNCHANGED <<mem, pc, file, found, ret, whole>>

\* std::unordered_map::insert: a name that is there keeps its address.
ReadSymbol ==
    LET s == file.symbols[k + 1]
    IN  /\ at = "symbols"
        /\ k < Len(file.symbols)
        /\ symbols' = IF s.name # "" /\ s.name \notin DOMAIN symbols
                      THEN With(s.name, s.addr) ELSE symbols
        /\ Turn
        /\ UNCHANGED <<mem, pc, file, found, ret, whole>>

LastSymbol ==
    /\ at = "symbols"
    /\ k = Len(file.symbols)
    /\ Goto("start")
    /\ UNCHANGED <<mem, symbols, pc, file, found, ret, whole>>

\* Back in LoadFile(loader).
SetStart ==
    /\ at = "start"
    /\ pc' = IF "_start" \in DOMAIN symbols THEN symbols["_start"] ELSE pc
    /\ Goto("idle") /\ found' = {}
    /\ ret' = "ok" /\ whole' = TRUE
    /\ UNCHANGED <<mem, symbols, file>>

LoadStep ==
    /\ \/ PutSegment \/ LastSegment \/ ReadSection \/ LastSection
       \/ ReadSymbol \/ LastSymbol \/ SetStart
    /\ UNCHANGED <<disk, loadedBin, regs, call, ran>>

-----------------------------------------------------------------------------
\* An instruction of the program under test: it may store a byte.
Execute ==
    /\ at = "idle"
    /\ \/ UNCHANGED mem
       \/ \E a \in Stored, b \in Byte : mem' = [mem EXCEPT ![a] = b]
    /\ pc' \in Pc
    /\ regs' = "used" /\ ran' = TRUE
    /\ UNCHANGED <<disk, symbols, loadedBin, loading, whole>>

\* The world outside: a compiler, say.
Rewrite(p, f) ==
    /\ disk' = [disk EXCEPT ![p] = f]
    /\ UNCHANGED <<machine, loading, history>>

LoaderNext ==
    \/ \E p \in Path : LoadFile(p)
    \/ ResetSim
    \/ LoadStep
    \/ Execute
    \/ \E p \in Path, f \in File \cup {NoFile} : Rewrite(p, f)

LoaderSpec == LoaderInit /\ [][LoaderNext]_loaderVars

-----------------------------------------------------------------------------
LoaderTypeOK ==
    /\ disk \in [Path -> File \cup {NoFile}]
    /\ mem \in [MemAddr -> Byte]
    /\ symbols \in [DOMAIN symbols -> Pc]
    /\ loadedBin \in Path \cup {NoPath}
    /\ pc \in Pc
    /\ regs \in {"reset", "used"}
    /\ at \in {"idle", "segments", "sections", "symbols", "start"}
    /\ file \in File \cup {NoFile}
    /\ at # "idle" => file # NoFile
    /\ k \in Nat
    /\ found \subseteq {"strtab", "symtab"}
    /\ call \in {"none", "load", "reset"}
    /\ ret \in {"none", "ok", "error", "out_of_range"}
    /\ whole \in BOOLEAN /\ ran \in BOOLEAN

\* Memory holds the first n segments of the file, each on top of those before
\* it, and zero elsewhere.
Image(n) ==
    \A a \in MemAddr :
        /\ (\A j \in 1 .. n : ~Covers(file.segments[j], a)) => mem[a] = Zero
        /\ \A j \in 1 .. n :
              /\ Covers(file.segments[j], a)
              /\ \A i \in j + 1 .. n : ~Covers(file.segments[i], a)
              => mem[a] = file.segments[j].bytes[a - file.segments[j].paddr + 1]

\* The symbol map holds the first n symbols of the file, of those with the
\* same name the first, and no others.
Table(n) ==
    /\ \A x \in DOMAIN symbols :
          x # "" /\ \E j \in 1 .. n : file.symbols[j].name = x
    /\ \A j \in 1 .. n :
          LET s == file.symbols[j]
          IN  s.name # "" /\ (\A i \in 1 .. j - 1 : file.symbols[i].name # s.name)
              => s.name \in DOMAIN symbols /\ symbols[s.name] = s.addr

Has(f, t) == \E j \in DOMAIN f.sections : f.sections[j] = t
HasTables(f) == Has(f, "strtab") /\ Has(f, "symtab")

\* What can be loaded: segments inside memory, and one table of each kind.
Loadable(f) ==
    /\ \A j \in DOMAIN f.segments : f.segments[j].type = "LOAD" => Fits(f.segments[j])
    /\ \A i, j \in DOMAIN f.sections :
          i # j /\ f.sections[i] = f.sections[j] => f.sections[i] \notin {"strtab", "symtab"}

\* A load is completed just when the file can be loaded, whatever was loaded
\* and run before: reading it again, as ResetSim does, ends the same way.
WholeIfLoadable == at = "idle" /\ file # NoFile => (whole <=> Loadable(file))

\* Until the program runs, a completed load has left the whole file and
\* nothing else in memory and in the symbol map, and the pc at _start: nothing
\* of an earlier file, of its program's stores or of its symbols.
CompleteImage ==
    whole /\ ~ran =>
        /\ Image(Len(file.segments))
        /\ Table(IF HasTables(file) THEN Len(file.symbols) ELSE 0)
        /\ "_start" \in DOMAIN symbols => pc = symbols["_start"]

\* However a load ends, what is in memory and in the symbol map until the
\* program runs is zero or comes from one file, the one that m_loadedBin names
\* or named: a failed load never leaves the code of one program with the
\* symbols of another.
NoMixture ==
    ~ran =>
        /\ \A a \in MemAddr :
              mem[a] = Zero \/ (file # NoFile /\ \E j \in DOMAIN file.segments :
                                    LET s == file.segments[j]
                                    IN  Covers(s, a) /\ mem[a] = s.bytes[a - s.paddr + 1])
        /\ \A x \in DOMAIN symbols :
              file # NoFile /\ \E j \in DOMAIN file.symbols :
                  file.symbols[j].name = x
        /\ loadedBin = NoPath => file = NoFile

\* ResetSim leaves nothing of the past: the registers and CSRs are reset, and
\* the pc is that of Reset or of the _start that was loaded again.  When
\* nothing could be loaded, memory and symbols are empty.
RestartIsFresh ==
    call = "reset" /\ at = "idle" /\ ~ran =>
        /\ regs = "reset"
        /\ pc = IF whole /\ "_start" \in DOMAIN symbols THEN symbols["_start"] ELSE ResetPc
        /\ ret = "ok" <=> whole
        /\ file = NoFile => mem = Cleared /\ symbols = NoSymbols
=============================================================================
