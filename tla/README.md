# riscvdb: models, checks and proofs

TLA+ models of [riscvdb](../src/README.md), a simulator and debugger for RV32I
programs, written from its source. Paths below are relative to the repository
(`src/simhost.cpp` is the file of that name in its `src/` directory).

`PROJECT.json` lists, for tools and readers alike: the parts of the system, the
TLC runs, the source lines that each definition models, the hazards that the
properties are for, the disagreements found between the code and its documents,
and the theorems.

## 1. The system

riscvdb is one process with two threads. The main thread reads commands at a
prompt, or from a script, and carries them out; `run`, `continue` and `step`
start a worker thread that executes the RISC-V program, and wait for it. Ctrl-C
arrives as SIGINT, whose handler runs on top of either thread.

| Part | State | Operations | Talks to |
| --- | --- | --- | --- |
| `SimHost` (`src/simhost.cpp`) | `m_state` (atomic), `m_simRunner`, `m_symbolMap`, `m_loadedBin`; owns memory and processor | `LoadFile`, `ResetSim`, `Run`, `Pause`, `runSimWorker` (the worker) | everything |
| Breakpoint table (in `SimHost`) | `m_breakpoints`, `m_breakpointCount` | `AddBreakpoint`, `RemoveBreakpoint`, `ClearBreakpoints` | written by `break`, `delete`; read by the worker |
| `run`, `continue`, `step` (`src/commands`) | their locals | start the worker, poll `m_state`, report | `SimHost`, `SigIntHandler` |
| `SigIntHandler` (`src/console.cpp`) | `s_instances`, the disposition of SIGINT | registration by constructor and destructor, dispatch | calls `SimHost::Pause` through the command |
| `MemoryMap` (`src/memorymap.cpp`) | blocks of 1 KiB, allocated on access | `Put` (byte, vector), `Get`, `ReadWord`, `WriteWord`, `Clear` | loader, processor, `print` |
| `RiscvProcessor` (`src/riscv_processor.cpp`) | pc, registers, CSRs, privilege level, instruction count | `Reset`, `Step`: fetch, interrupts, decode, execute, trap | memory; stepped by the worker |
| `ElfFileLoader` (`src/fileloader.cpp`) | the file's bytes and header | `LoadHeader`, `LoadProgramHeaders`, `LoadSymbols` | memory, symbols |
| `Console` (`src/console.cpp`) | command tables | `run`, `runFromScript`, `runCommand` | commands |
| `print`, `info`, `help`, `verbose` | none | output | memory, processor |
| `linenoise_wrapper`, `main` | completions; none | terminal, command line | `Console` |

What is hard here:

- *Two threads without locks.* Only `m_state` is atomic. The processor, the
  memory, the symbols and the breakpoints are used by the worker and by the main
  thread; what keeps them apart is the protocol around `m_state` and `join`.
- *Signals.* `SimHost::Pause`, which joins the worker, runs inside a signal
  handler, on the main thread anywhere in the waiting part of a command, or on
  the worker itself. The handler is registered after the worker has started.
- *Many writers of one variable.* `Run`, `Pause`, `ResetSim` and the worker store
  into `m_state` without comparing.
- *Traps.* Four CSRs, the privilege level and the pc move together on a trap and
  back on `mret`, with corrections of the pc by 4 in three places; the CSR
  instructions write first and ask later.
- *Splitting and merging in memory*, at every alignment, with exceptions half-way.
- *Half-done loads*, the reload of files that have changed, and exceptions that
  only some callers catch.
- *Words by hand.* Masks, sign extensions, immediates, and numbers put together
  from bytes, in the decoder, in the executors and again in `print`.
- *A shared stream.* `std::cout` keeps the number base of the last output.

What makes each part correct: a breakpoint number names one breakpoint for ever;
the machine has one owner at a time, stops when told to, after no more
instructions than asked for, and the prompt comes back; memory is an array of
bytes; traps and `mret` are inverse to each other and user mode changes no CSR
but by a trap; an instruction does what the manual of RV32I says; a load is
complete or fails, and leaves no two programs mixed; what is shown is what is
there, and what was shown can be typed.

## 2. The modules

| Module | Models | Kind |
| --- | --- | --- |
| `Breakpoints` | the breakpoint table | component |
| `SimHost` | class `SimHost` and its worker thread; instantiates `Breakpoints` | component, no `Next` of its own |
| `RunControl` | commands, worker, SIGINT; extends `SimHost` | composition |
| `Debuggee` | what the debugger promises about the program, without threads or signals | abstract specification of `RunControl` |
| `MemoryMap` | class `MemoryMap` | component |
| `FlatMemory` | an array of bytes | abstract specification of `MemoryMap` |
| `Numbers` | powers, and numbers as their digits, in any base | library |
| `Words` | the unsigned arithmetic of C++ on words; extends `Numbers` | library |
| `Processor` | traps, privilege levels and CSRs of `RiscvProcessor`; extends `Words` | component |
| `Instructions` | its tables, decoders, registers and executors; extends `Words` | component |
| `Rv32i` | the instruction set as its manual has it, on numbers | abstract specification of `Instructions` |
| `Assembler` | the instructions that there are, and their encodings in the manual | inputs for `Instructions` |
| `InstructionSet` | what of `Instructions` stands for what of `Rv32i` | refinement mapping |
| `Loader` | `SimHost::LoadFile`, `ResetSim` and `ElfFileLoader`, step by step | component |
| `Session` | `main`, prompt, scripts and commands around `Loader` | composition |
| `Terminal` | `print`, and the number base of `std::cout` that all commands share; extends `Breakpoints` and `Numbers` | composition |
| `MC...` | values of the constants for TLC | |
| `..._proofs` | theorems and their proofs | |

### Breakpoints

`bkpts` is `m_breakpoints`, a function from addresses to numbers, `bkptCount` is
`m_breakpointCount`. One action for each of `AddBreakpoint`,
`RemoveBreakpoint` (as `delete` calls it: a number of 64 bits cut to 32,
`DeleteNumber`) and `ClearBreakpoints`. Calls that throw change nothing and are
left out. `MaxCount` bounds the number of breakpoints ever created; the proofs
are for every `MaxCount` below 2^32.

### SimHost and RunControl

`SimHost` has the worker thread's steps: `WorkerInit` (the look-up of `_exit`),
`WorkerLoop` (the test of `m_state`), `Exec` (one `Step` and the decision after
it), `WorkerPublish` (the store of that decision, apart from the decision:
another store may come in between), `WorkerEnds`. The machine is reduced to what
`runSimWorker` looks at: the pc and the low four bits of `mcause`. What an
instruction does to them is left open, so every program is covered.

`RunControl` breaks the body that `run`, `continue` and `step` share at each point
where another thread or a signal can be seen. `mainPc` is where the main thread
is:

    prompt -> [ask -> resetJoin -> resetLoad ->] enterRun -> runJoin -> setRunning
       -> spawn -> install -> push -> poll -> report -> erase -> uninstall -> prompt

`hMain` and `hWorker` are where a SIGINT handler is on the main thread and on the
worker (`check`, `store`, `join`, after the test, the store and the join of
`sigint_handler` and `Pause`); `disp` and `instances` are the disposition of
SIGINT and whether `SigIntHandler::s_instances` has an entry. `status` is the end
of the process: killed by a signal, aborted (an exception nobody catches), exited.

A load is modelled by its outcomes: rejected before anything changed, broken with
the symbols cleared and none put in yet (everything that throws comes before the
loop over the symbols), loaded. The reload of
`ResetSim` reads the file again, which may have changed: any outcome is possible,
and an out-of-range segment escapes it.

SIGINT, external to the code, is modelled as Linux delivers it: to the main
thread, unless it blocks the signal, as it does during its handler; then to the
worker. At the prompt Ctrl-C is a character (linenoise is in raw mode).

### MemoryMap

`blocks` is `m_mem`; a `Put` of a vector has its locals `i`, `currentAddr`,
`bytesRemaining` as variables and copies chunk by chunk, so that the loop is
modelled as it is written. `out` holds the last call and what it returned or
threw, for the comparison with `FlatMemory`. Addresses are mathematical: they are
64 bits wide in the code, and come from sums of 32-bit values.

### Processor

`pc`, `prv`, `csr`, `count` are the members of those names; a word is the set of
its one bits. An instruction is an action; which one is at the pc, and what the
registers hold, is left open. Each instruction's action includes what comes
before (`Fetched`, `Aligned`, no interrupt) and after it (`Retire`, `Exception`).
`thrown` is set when an access past the end of memory throws: the process ends.
The operations of the ALU are one action, `Compute`, since they only move the pc;
what they compute is in `Instructions`. Between runs, `ResetSim` starts the
machine afresh, and `LoadFile` only moves the pc: level, CSRs and count stay.

### Words and Instructions

A word is the set of its one bits, so that masks are intersections, and a shift
is a shift of the set; `Plus`, `Minus` and `Less` are defined by their carries,
borrows and highest difference, for any width.

`reg`, `mem`, `dec` are `m_reg`, `m_mem` and the four temporaries
`m_decoded_...`, which a decoder leaves as they are where its format has no such
field, and which nothing initializes. The four tables are sets of rows, a name
and a key; a row is found when the instruction word under the table's mask is its
key (`KeyR` to `KeySys`). Three actions for each word: `Misaligned`, `Illegal`,
`Execute`. The word at the pc is any of `Command`: programs rewrite themselves.
Traps go to any handler, and the privileged instructions, whose effect on the CSRs
is in `Processor`, write any of the values of `CsrValue` to `rd`, or trap.

`Rv32i` says the same of registers that are numbers, with `+`, `\div` and `%`;
a jump or a taken branch to a target that is no multiple of four traps and does
nothing else. `Assembler` writes the instruction words from names, registers and
immediates, and says which of these there are (`Fits`). Both are from the manual,
not from the code. `InstructionSet` maps the one to the other: a word is its number (`Num`), the
bytes of `mem` are at the numbers of their addresses, and an instruction word means
the instruction that is written so (`Meaning`). It also names what the code does
otherwise: the instructions that its tables do not have (`Missing`), and the jump
to a misaligned target, which is made before it traps (`LateJump`).

### Loader and Session

`Loader` breaks `LoadFile` at every program header, section and symbol: `at` is
the place and `k` the loop counter. An exception leaves the rest undone, and what
it leaves is in `mem`, `symbols`, `loadedBin`, `pc`. Its `ret` is how a call has
ended: `"ok"`, `"error"` (a `runtime_error`, which `LoadFile` catches) or
`"out_of_range"` (which it does not). `disk` is what the files are; a compiler may
write them at any time (`Rewrite`), so that `ResetSim` may load another program
than the one before, or none. `file`, `whole` and `ran` are history: what was last
loaded, whether to its end, and whether the program has run since.

`Session` is the main thread between the start of the process and its end:
`main`, the script, the prompt, `load`, `run` with its question, `continue` and
`step`. `where` is where it is and `from` where the command came from, since what
a command returns means something else in a script; an exception that a command
lets through is caught by `runFromScript` or by nobody (`Escapes`). `starting` is
the call of `SimHost::Run`, which may throw (`RunFails`). The program
runs as `Loader`'s `Execute`; how it stops is `RunControl`'s matter.

### Terminal

`base` is the base that `std::cout` is in, `out` what the last command has put on
the screen, if it is a value of memory or the number of a breakpoint. A number is
its value and its base; `Numeral` makes digits of it where `delete` is going to
read them. `CmdPrint` is the parser and the four functions that print memory, with
the bytes they have printed before one that cannot be read. The other commands
change `base` as they do in the code; a run may do so before it announces a
breakpoint, by the tables of a reload or by the listing of `verbose`.

## 3. The checks

`tlc -config X.cfg M` for each line; sizes are those of the present modules.

| Run | Configuration | Distinct states | Shows |
| --- | --- | --- | --- |
| `breakpoints` | `MCTerminal`, `MCTerminal.cfg` | 21 037 | breakpoint numbers, and what is shown |
| `run_control` | `MCRunControl`, `MCRunControl.cfg` | 275 884 | safety, refinement and liveness of the threads |
| `memory` | `MCMemoryMap`, `MCMemoryMap.cfg` | 11 491 | the blocks implement the flat array; each `Put` ends |
| `processor` | `MCProcessor`, `MCProcessor.cfg` | 35 090 | traps, levels and CSRs |
| `instructions` | `MCInstructions`, `MCInstructions.cfg` | 55 842 | the instructions are those of RV32I |
| `session` | `MCSession`, `MCSession.cfg` | 587 736 | loads, reloads, scripts and the prompt |

**`breakpoints`.** Three addresses, four breakpoints ever, 6 for 2^32 and 12 for
2^64, so that a number can wrap to one in use. `NumbersUnique` is what
`RemoveBreakpoint` relies on: it searches an unordered table for the first match.
For `print`, bytes of two bits and bases 2 and 3, which first differ at 2 as 10
and 16 do at 10: a byte has values on both sides. Twelve bytes of memory, among
them zero (the end of a string) and values with and without their sign bit at
every width; a print from the lowest address, from a symbol, and from the first
address whose eighth byte is outside, with no size, none, one less than an element
of four bytes and eight, in all ten formats, and each kind of misuse.
`ShowsMemory` relates the numbers on the screen to the bytes they stand for by
what two's complement is, not by how they were put together; `PrintSetsItsBase`
holds after every history of the other commands.

**`run_control`.** Three addresses (one is the reset pc), two programs (with
`_start` and `_exit`, with neither), limits 0, 1 and 2, one breakpoint, two
Ctrl-C's per command. Two addresses besides the reset pc let a run start, stop and
end at different places; limit 2 has a first, a last and no middle instruction,
and limit 1 only a last; the second Ctrl-C is the one that reaches the worker,
and a third would meet two blocked threads. Every interleaving of two threads,
two handlers and a user who may type any command is explored.

- `MachineOwned`: where the main thread uses the machine, the worker is out of it.
- `ThreadHandleSafe`: `m_simRunner` is not assigned to while joinable, nor joined
  when it is not.
- `BudgetRespected`: never more instructions than the limit.
- `StopIsFinal`: a stop stays a stop until the worker is joined.
- `StopHasReason`: when a command reports, what it reports has its reason in the
  machine: TERMINATED means an illegal instruction or `_exit`, and PAUSED, if there
  was neither a limit nor a Ctrl-C, an `ebreak` or a breakpoint. It relates the order of
  the worker's five tests, its store and the stores of others in between to the pc
  and the table that the main thread reads later, without a lock.
- `ReportIsFinal`: from the report on, and at the prompt, pc, cause, symbols and
  breakpoints stay as they are until the next run, but for `load`, `break`, `delete`
  and the reload of a restart.
- `KeepsPromise`: `RunControl` implements `Debuggee`: executions and commands
  alternate, as if there were no threads.
- `InterruptReturns`, `LimitedRunReturns`, `QuitExits`: the prompt comes back after
  a Ctrl-C, after a limited run, and quit ends the process.

*Fairness*: weak fairness of the main thread's steps, of each handler's and of
the worker's. The operating system schedules both threads, and no step of theirs
waits for anything but a join or a store of the other. Nothing is assumed of the
user or of Ctrl-C, and the worker may leave for ever, by an unlimited run: no
property says that it ends. The end of the input in `run`'s question is a loop
(`Spin`) that the properties leave aside, since no Ctrl-C handler is registered
there.

**`memory`.** Blocks of two bytes, memory from the middle of a block to the last
address of another (1 to 5, both ends unaligned as `Upper` is inclusive for
bytes), addresses on both sides out of range, vectors of none, two and four bytes
(in a block, across one and two boundaries), words with two and four lanes. A
vector of four bytes from an odd address has three chunks: a first, a full one
and a last. The contents of memory are arbitrary, built up by earlier calls.
`IsFlat` is the refinement of `FlatMemory`, in which a `Put` takes effect at its
start. *Fairness*: a call that has begun goes on.

**`processor`.** Words of 14 bits (the fields of `mstatus` need 13, the interrupt
bit of `mcause` is the last), three words of memory and a byte, jumps to an
aligned and to a misaligned address, CSR instructions on `mstatus`, `mie`, `mip`,
`mtvec` and an undefined CSR, with two values: none, and bits that enable interrupts,
make two of them pending, set a level between the two, and choose vectored mode; a
handler is at address 0, or outside of memory. `mepc`, `mcause`, `mtval` are written
by traps only in this run, and the instruction count is taken modulo 1. Deadlock
is not checked: a thrown exception ends the process. The properties are at the end
of the module: `CsrsLegal`, `UserCannotWrite`, `UserLeavesByTrap`, `TrapReturns`,
`InterruptsComeFirst`. `TrapReturns` is about every way into `RaiseException`:
interrupts, misaligned fetches, loads and stores, CSR instructions that are refused
after they have written, and the instructions that always trap. What mret will
restore is the address rounded down to a multiple of four, the level and the
interrupt enable that the trap has found.

**`instructions`.** Registers of 30 bits, the widest whose sums stay in TLC's
integers; instruction words have 32. Every instruction of RV32I, with immediates
zero, one, of both signs and at both ends of each format, including those with a
single bit in each place that the formats scatter, `rd` x0 and equal to `rs1`, and
operands 0, 1, the largest and the smallest number, -1 and one with bits around
the shifts. One instruction from each start (`MaxSteps` is 1): the starts have all
registers, and the temporaries hold what no instruction would leave. Memory is the
first eight bytes. `IsRv32i` is the refinement of `Rv32i` for all instructions but
`srai` and fences with operands, which the tables do not have, and with `LateJump`
beside the manual's steps; `EntireRV32I` is the refinement itself, for all
instructions, and fails. Deadlock is not checked because of `MaxSteps`.

**`session`.** Three bytes of memory, two addresses for the pc, two files and a
name with another suffix; a file is one of five: good, with segments that overlap,
a segment that is not loaded, a symbol defined twice and one without a name; one
without a string table; one whose second segment is too large; one with two string
tables; one with a bad header; or missing. Two scripts, of which one loads a file,
runs it and restarts it, and the other reads an unknown command and quits. Each
breaks the loader at another step, and any may take another's place on disk.

- `WholeIfLoadable`: a load is completed just when the file can be loaded.
- `CompleteImage`: a completed load has left the whole file and nothing else.
- `NoMixture`: however a load ends, what is there is one file's.
- `RestartIsFresh`: a restart leaves nothing of the past.
- `FreshStart`: over any sequence of loads, restarts, runs that end, fail or are
  never started, and files that change meanwhile: a program that `run` starts while
  `m_state` is IDLE finds the registers as after a reset, and the pc at its `_start`
  if a load is complete. (A program that is started in another state may find what the
  last one has left: `load` keeps the registers, and `run` after TERMINATED does not
  reset them; see `RunFromBeginning`.)
- `ComesBack`: every load, reload and script comes to an end.

*Fairness*: weak fairness of `MainStep`, what riscvdb does by itself: the loader's
steps, the returns of commands, the lines of a script. Nothing is assumed of the
user, of the program, or of those who write files; so the sessions in which the
program runs for ever, or `run`'s question is never answered, are excepted.

Each property has a mutation of the code under which its run fails: a dropped
join, a reset counter, a limit tested with `>`, a mask that is gone round
(operators with a comment `Mutation`, next to the one they change).

### Where the code and its documents disagree

Six runs check one sentence of the documentation each, and TLC finds a
behaviour that contradicts it (`EntireRV32I` has two findings: TLC shows the first it
meets, and the second is the step that `LateJump` adds to `IsRv32i`):

| Property | Sentence | What the code does |
| --- | --- | --- |
| `InterruptNeverJoinsItself` | README: "Execution can be interrupted using Ctrl-C." | a second Ctrl-C makes the worker join itself and abort |
| `RunFromBeginning` | README: "Start execution from the beginning" | after termination `run` resumes at the end |
| `UnlimitedRunGoesOn` | `continue.cpp`: "run indefinitely" | an old `mcause` stops it after one instruction |
| `InterruptEntersHandler` | README: "the PC is loaded with the value of mtvec" | an interrupt enters at base + 4 |
| `EntireRV32I` | README: "supports the entire RV32I spec" | `srai` runs as `srli`; fences with operands are illegal; a jump to a misaligned target writes `rd` and retires, and the fetch at the target traps |
| `NumberReadsBack` | `delete.cpp`: "specify a breakpoint number to delete that one" | the number may have been announced in base 16: `delete` deletes another |

They are safety properties: the counterexamples need no fairness.

What else was met while modelling, and is part of the models without a run of its
own:

- Between the start of the worker (`run.cpp:96`) and the registration of the
  handler (`run.cpp:105`), and after it is gone, Ctrl-C kills the debugger
  (`SigIntDefault`).
- `Pause` stores PAUSED over a TERMINATED that the worker has stored since the
  handler's test (`MainHandlerStore`): the program has ended, and is "paused".
- `mret` can enter the levels 1 and 2 (`Mret`, with `MPP` as written by a CSR
  instruction): no interrupt is taken there, `ecall` does nothing, and CSRs can be
  written.
- A script goes on after a load that has failed: `LoadFile` returns -1 and
  `load.cpp:34` does not look at it, though `console.cpp:233` says "on error fall
  back to console" (`LoadReturns`). `ResetSim` does not look at it either, and an
  empty machine is run (`ResetReturns`).
- A segment outside of memory ends the process when the file is loaded by the
  command line or by `run`'s restart (`MainLoaded`, `ResetReturns`), not by `load`.
- `help` on an unknown command goes through a null pointer (`CmdSimple`).
- `print` cannot show the last word of memory, since it reads two; the rows of its
  dump are labelled from 0, not from the address; the loader prints the offsets of
  sections in base 10 after "0x".
- `test/TestMemoryMap.cpp` puts its data at 0x100 and reads them back from index
  0x100 on at their own index: it prints mismatches for a memory that is right.

## 4. The proofs

All theorems are for every value of the constants that satisfies the named
assumptions: any addresses, programs, limits, number of Ctrl-C's, block size,
memory, vectors, width of words, instruction words, files and scripts.

- `Terminal_proofs`: the types, `NumbersIssued` and `NumbersUnique` of the breakpoint
  table are inductive together. A number is new because every one in use is at most
  the counter: `NumbersUnique` alone is not inductive. `RetiredForever` follows: only
  `AddBreakpoint` brings a number, and it is above all that were issued.
  `TerminalKeepsTheTable`: whatever is typed at the terminal moves the table as
  `Breakpoints` says, so that all of this holds there (`TableOnTerminal`).
  `PrintShowsMemory` goes through the four functions that print: a value that is put
  together from bytes and cut to its type is the number that the bytes represent in
  two's complement (`CastRepresents`), and those on the screen are as many as can be
  read. `PrintsInItsBase`: each of the four sets its base before its first number.
- `RunControl_proofs`: `IInv` is the inductive invariant. `MachineOwned` says what
  must hold where the main thread uses the machine; `IInv` adds why: `Handle`
  (joinable until joined), `MainWhere` (what is known at each point of the main
  thread), `Registration` (handlers run only between `push` and `erase`, and the
  main thread's only stores and joins in `poll`), `StoppedIsQuiet` (once `m_state`
  is not RUNNING, the worker is out of the machine, except while `Pause` waits for
  it) and `Budget` (the counter, by where the worker is). One lemma for each kind of
  step, then `MachineIsOwned`, `HandleIsSafe`, `BudgetIsRespected`, the action
  properties `StopsAreFinal`, `ReportsAreFinal`, and `Implements`: each step maps to a
  step of `Debuggee` or to a stutter. `StopsHaveReasons` needs an invariant of its own
  on top (`Reasons`): the reason is there from the worker's decision on, through
  its store, while the handlers store over it, and nothing moves pc, cause, symbols or
  breakpoints before the report.
- `MemoryMap_proofs`: first arithmetic, that addresses in one block are as far
  apart as their offsets (`DivMod` to `BlockDistance`; the provers have no theory
  of division). `Inv`, the types and `PutLoop`, is inductive. `ChunkBytes` and
  `ChunkContents` show that a turn of `Put`'s loop changes nothing that
  `FlatMemory` can see, and `MemoryIsFlat` that every call is the flat memory's
  call of the same name: `Spec => IsFlat`.
- `Numbers_proofs`: powers and digits. Induction over numbers is stated of sets
  (`Induction`: a set of numbers that has 0 and with each number the next one has
  all), from the library's least element of a well-founded order, and recursive
  functions are what their equations say (`Recursion`); so no proof needs an
  operator as a parameter. `DigitsSplit`, `DigitsBound` and `DigitAt` say that the
  digits of a number are those of its quotient and its remainder, `DigitsMake` that
  they make it up again, and `BitsAbove` and `BitsOfProduct` what the bits of a
  product and the sign bits of a negative number are.
- `Words_proofs`: `Num` is one to one between words and the numbers below 2 to the
  `XLen` (`NumBound`, `NumInjective`, `WordOfNum`). `PlusIsSum` is by induction over
  the bits, with the carry in the hypothesis (`PartialSum`); `MinusIsDifference` the
  same with the borrow, and that there is a borrow in the end is what `Less` says.
  The shifts multiply and divide; with the sign filled in they round down.
- `Processor_proofs`: `IInv` is the types, with an even pc, and `CsrsLegal`. Neither
  is inductive alone: the pc comes from `mepc` and `mtvec`, which are even only
  because their masks hold for whatever has written them, and the undo in user mode
  is harmless only because a legal value survives its mask (`LegalUndo`). `UserStep`
  says what one step in user mode can do; the four action properties follow from it
  and from what a trap writes (`TrapPushes`). For `TrapsReturn`, a CSR instruction that
  is refused traps from the CSRs of before its write, at any level (`UndoneLegal`).
- `Instructions_proofs`: `WordsHaveOneMeaning`, by the keys of the tables: opcodes
  part all of them but SYSTEM, which `funct3` parts. `SraFillsTheSign` and
  `BelowIsLess`: two oddities of the code, a loop that starts one bit low and a
  special case, are harmless. `IInv` (types, x0, parity) by one lemma for each
  executor. Then `RunsRv32i`, `Spec => IsRv32i`: every step is the manual's, or a
  `LateJump`, in three parts:
  `OperationIsResult` and `TakenIsHolds` (what is computed), with `ExecutorsRun` (the
  step of an instruction whose temporaries are right is the manual's step, for loads
  and stores byte by byte); `FormatR` to `FormatJ` and `DecodesIt` (each decoder finds
  in an instruction word the registers and the signed immediate that the assembler
  has put there, in the six formats); and `MatchesIt` (the look-up finds the
  instruction). It needs `IInv`: x0 reads as zero, and the pc has a number. That
  `srai` and fences with operands are excepted is needed, and that nothing else is:
  `LooksUpWhatIsWritten`, `SraiRunsAsSrli` (no word is looked up as `srai`, and every
  `srai` is run as `srli`) and `FencesAreBare`. The first half of the first finding of
  `EntireRV32I` is thereby a theorem about every `srai`.
- `Session_proofs`: for the loader, `Inv` says of each place in `LoadFile` how much
  of the file has been worked through: memory holds the first `k` segments
  (`Image(k)`), no table was met twice among the first `k` sections, the map holds
  the first `k` symbols. The properties speak of the end of a load only, and are not
  inductive. The two long steps are `PutSegmentInv` and `ReadSymbolInv`: one more
  segment on top of those before, one more symbol unless its name is there.
  Each step of a session is a step of `Loader` or leaves it alone, by the way
  `Session` is written (the lemma `ImplementsLoader`), hence all of this holds in every
  session (`SessionsLoadSoundly`). `StartsAreFresh` is by an invariant of console and
  loader together: while `m_state` is IDLE, no program has run since the registers were
  reset (`IdleIsFresh`).

Assumptions on the constants are those of the ASSUMEs, which TLC evaluates in the
runs. They are weak: the block size is positive, the numbers are natural, the
counter's bound is below 2^32, words have the bits that the code's masks name
(`Instructions`: 25 to 32 bits, so that the byte of a load that is shifted furthest
is in the word, and every bit of an immediate in an instruction word), addresses are
words, assembled instructions have the registers and immediates of their formats
(`AssemblyAssumption`), bytes have an even number of values, files consist of
segments, sections and symbols. `IsRv32i` is checked at 30 bits, and proved at 32.

Only model-checked: the liveness properties (`InterruptReturns`,
`LimitedRunReturns`, `QuitExits`, `PutEnds`, `ComesBack`), since liveness under
fairness and ENABLED are out of the prover's reach. All the other properties of the
runs that pass are theorems. What `Rv32i`, `Assembler`, `Debuggee` and `FlatMemory`
say is taken as it stands: they are specifications.

## 5. Not modelled

- What the ELF loader does with files whose offsets or sizes point outside of them
  (undefined behaviour, no test in the code), and with 64-bit files, whose headers
  it reads as 32-bit ones.
- In `print`: sizes of 2^32 and more, which its loop counter cannot reach; labels
  and alignment. In `break`: the type of a symbol, which decides whether it is
  refused (both outcomes are possible in `CmdBreak`).
- The output of `info`, `help`, `verbose` and the loader, and the verbose output of
  the processor: text about a state that is modelled.
- `linenoise_wrapper`: the terminal and the completion of commands, around a C
  library; what it returns to `Console::run` is modelled. The parser of the command
  line is a library, too: that it refuses or accepts is modelled.
- Data races proper: the model interleaves the steps of the two threads as if they
  were sequentially consistent; `MachineOwned` shows that the unlocked objects are
  never used by both at a time, and `m_state`'s accesses are sequentially consistent.
- That `SimHost::Pause` calls functions in a signal handler which are not
  async-signal-safe: the model takes them to work.
- `RunControl` and `Session` are two views of the same main thread, one in the
  steps of threads and signals, with a load in one step, and one in the steps of
  the loader, with a run in one place. Their product was not built: during a load
  there is no worker (`MachineOwned`), and during a run the loader is idle.

## 6. Plan

Done, in this order: `Breakpoints`; `SimHost`, `RunControl`, `Debuggee`;
`MemoryMap`, `FlatMemory`; `Processor`; `Words`, `Instructions`, `Rv32i`,
`Assembler`; `Loader`, `Session`; `Terminal`; then `Numbers`, so that words and
bytes could be proved to be numbers. Everything that was planned to be modelled is.

Left, should the code move on:

1. When the handler is registered before the worker starts, `SigIntDefault` can be
   taken out of `RunControl`'s `CtrlC` between `setRunning` and `push`, and the
   property that Ctrl-C never kills a run can be stated.
2. When `srai` and fence are looked up under masks that keep their keys, `Missing` is
   empty, and when the jumps look at their target, so is `LateJump`: then `IsRv32i` is
   `EntireRV32I`, and `RunsRv32i` the proof of it: `FormatShift`
   has to take in `srai`, and `MatchesIt` the fields of fence.
