------------------------------ MODULE SimHost ------------------------------
(***************************************************************************)
(* Class SimHost: the simulated machine, its symbol and breakpoint tables, *)
(* the shared m_state and the thread m_simRunner that executes             *)
(* instructions in runSimWorker.  m_state is the only atomic; everything   *)
(* else is shared without a lock between the worker and its caller.        *)
(*                                                                         *)
(* The machine is abstracted to what runSimWorker looks at after a Step:   *)
(* the pc and the low four bits of mcause.  Which instruction lies at      *)
(* which address is left open: a Step may go to any address and may leave, *)
(* or set, any cause.                                                      *)
(***************************************************************************)
EXTENDS Integers

CONSTANTS
    Addr,           \* instruction addresses
    NoAddr,         \* "no such symbol"
    ResetPc,        \* the pc after RiscvProcessor::Reset
    SymbolTables,   \* what m_symbolMap can hold of _start and _exit
    MaxCount, UIntMod, ULongMod     \* of Breakpoints

ASSUME SimHostAssumption ==
    /\ NoAddr \notin Addr
    /\ ResetPc \in Addr
    /\ SymbolTables \subseteq
           [start : Addr \cup {NoAddr}, exit : Addr \cup {NoAddr}]
    /\ [start |-> NoAddr, exit |-> NoAddr] \in SymbolTables
    /\ MaxCount \in Nat
    /\ UIntMod \in Nat /\ UIntMod > MaxCount
    /\ ULongMod \in Nat /\ ULongMod >= UIntMod

VARIABLES
    state,      \* m_state
    joinable,   \* m_simRunner.joinable()
    worker,     \* where the worker thread is
    limit,      \* runSimWorker: numInstructions, 0 for no limit
    count,      \* runSimWorker: instCounter
    exitAt,     \* runSimWorker: exitAddr, NoAddr if there is no _exit
    verdict,    \* the state the worker has decided on and not yet stored
    pc,         \* m_processor's pc
    cause,      \* m_processor's mcause & 0xF
    symbols,    \* m_symbolMap: where _start and _exit are
    bkpts, bkptCount    \* the breakpoint table

hostVars == <<state, joinable, worker, limit, count, exitAt, verdict,
              pc, cause, symbols>>
localVars == <<limit, count, exitAt, verdict>>   \* locals of runSimWorker
machineVars == <<pc, cause>>
bkptVars == <<bkpts, bkptCount>>

Bkpt == INSTANCE Breakpoints

States == {"IDLE", "RUNNING", "PAUSED", "TERMINATED"}
Causes == {"other", "illegal", "breakpoint"}
NoSymbols == [start |-> NoAddr, exit |-> NoAddr]

HostTypeOK ==
    /\ state \in States
    /\ joinable \in BOOLEAN
    /\ worker \in {"none", "init", "loop", "exec", "publish", "done"}
    /\ limit \in Nat
    /\ count \in Nat
    /\ exitAt \in Addr \cup {NoAddr}
    /\ verdict \in States
    /\ pc \in Addr
    /\ cause \in Causes
    /\ symbols \in SymbolTables
    /\ Bkpt!TypeOK

HostInit ==
    /\ state = "IDLE"
    /\ joinable = FALSE
    /\ worker = "none"
    /\ limit = 0 /\ count = 0 /\ exitAt = NoAddr /\ verdict = "IDLE"
    /\ pc = ResetPc
    /\ cause = "other"
    /\ symbols = NoSymbols
    /\ Bkpt!Init

-----------------------------------------------------------------------------
\* LoadFile, as the pcs and symbols it can leave behind when it starts from
\* p and s.  A file that is missing, is not an ELF file or has a bad header is
\* rejected before anything changes; an error after that leaves the cleared
\* memory with part of the file, no symbols, which are read last, and the old
\* pc.
Rejected(p, s) == {[pc |-> p, symbols |-> s]}
Broken(p) == {[pc |-> p, symbols |-> NoSymbols]}
Loaded(p) == {[pc |-> IF t.start = NoAddr THEN p ELSE t.start,
               symbols |-> t] : t \in SymbolTables}

LoadFile(p, s) ==
    \E r \in Rejected(p, s) \cup Broken(p) \cup Loaded(p) :
        pc' = r.pc /\ symbols' = r.symbols

\* SimHost::ResetSim after the join.  The return value of LoadFile is ignored.
ReloadMachine ==
    /\ LoadFile(ResetPc, NoSymbols)
    /\ cause' = "other"

\* std::thread::join by any thread but the worker: waits for its end.
JoinWorker ==
    /\ worker = "done"
    /\ worker' = "none"
    /\ joinable' = FALSE

\* Mutation: the worker is given what remains after the first instruction.
SpawnWorkerForRest(n) ==
    /\ joinable' = TRUE
    /\ worker' = "init"
    /\ limit' = n - 1

\* The std::thread constructor of Run(n).
SpawnWorker(n) ==
    /\ joinable' = TRUE
    /\ worker' = "init"
    /\ limit' = n

-----------------------------------------------------------------------------
\* runSimWorker.
WorkerInit ==
    /\ worker = "init"
    /\ worker' = "loop"
    /\ exitAt' = symbols.exit
    /\ UNCHANGED <<state, joinable, limit, count, verdict, pc, cause, symbols>>

\* while (m_state == RUNNING); the locals die with the thread.
WorkerLoop ==
    /\ worker = "loop"
    /\ state = "RUNNING"
    /\ worker' = "exec"
    /\ UNCHANGED <<state, joinable, localVars, pc, cause, symbols>>

WorkerEnds ==
    /\ worker = "loop"
    /\ state # "RUNNING"
    /\ worker' = "done"
    /\ limit' = 0 /\ count' = 0 /\ exitAt' = NoAddr /\ verdict' = "IDLE"
    /\ UNCHANGED <<state, joinable, pc, cause, symbols>>

\* Mutation: the counter is compared with > for =.
LimitPassed(n) == limit > 0 /\ n > limit

LimitHit(n) == limit > 0 /\ n = limit

\* Mutation: the exit symbol is tested before the host breakpoints.
VerdictExitFirst(n, c, p) ==
    IF LimitHit(n) THEN "PAUSED"
    ELSE IF c = "illegal" \/ (p = exitAt /\ c # "breakpoint") THEN "TERMINATED"
    ELSE IF c = "breakpoint" \/ p \in Bkpt!Live THEN "PAUSED"
    ELSE "RUNNING"

\* The tests after a Step, in the order of the code, given the counter, the
\* cause and the pc it left: the state to store, or RUNNING for none.
Verdict(n, c, p) ==
    IF LimitHit(n) THEN "PAUSED"
    ELSE IF c = "illegal" THEN "TERMINATED"
    ELSE IF c = "breakpoint" \/ p \in Bkpt!Live THEN "PAUSED"
    ELSE IF p = exitAt THEN "TERMINATED"
    ELSE "RUNNING"

\* One instruction: e is what it does to mcause, "none" when it takes no trap
\* and does not write the register.  Without a limit the counter decides
\* nothing and is left alone.
Exec(e, p) ==
    LET n == IF limit = 0 THEN count ELSE count + 1
        c == IF e = "none" THEN cause ELSE e
    IN  /\ worker = "exec"
        /\ pc' = p
        /\ cause' = c
        /\ count' = n
        /\ verdict' = Verdict(n, c, p)
        /\ worker' = IF Verdict(n, c, p) = "RUNNING" THEN "loop" ELSE "publish"
        /\ UNCHANGED <<state, joinable, limit, exitAt, symbols>>

\* m_state = PAUSED or TERMINATED, whatever it has become meanwhile.
WorkerPublish ==
    /\ worker = "publish"
    /\ state' = verdict
    /\ worker' = "loop"
    /\ UNCHANGED <<joinable, localVars, pc, cause, symbols>>

WorkerStep ==
    /\ \/ WorkerInit
       \/ WorkerLoop
       \/ WorkerEnds
       \/ \E e \in Causes \cup {"none"}, p \in Addr : Exec(e, p)
       \/ WorkerPublish
    /\ UNCHANGED bkptVars
=============================================================================
