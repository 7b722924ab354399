----------------------------- MODULE RunControl -----------------------------
(***************************************************************************)
(* The debugger at run time: the main thread, which reads commands at the  *)
(* console prompt and carries them out; SimHost's worker thread; and       *)
(* SIGINT, whose handler runs on top of either thread.  run, continue and  *)
(* step share one body (run.cpp, continue.cpp, step.cpp), broken here at   *)
(* every point where another thread or a signal can be seen.               *)
(***************************************************************************)
EXTENDS SimHost

CONSTANTS
    Requests,       \* instruction counts a command can ask for, 0 for no limit
    MaxSigInts      \* bound on the Ctrl-C's typed during one command

ASSUME RunControlAssumption ==
    /\ Requests \subseteq Nat
    /\ MaxSigInts \in Nat

VARIABLES
    mainPc,     \* where the main thread is
    cmd,        \* the command it carries out
    request,    \* the command's numInstructions
    hMain,      \* where the signal handler is on the main thread
    hWorker,    \* and on the worker thread
    disp,       \* the disposition of SIGINT: "default" kills
    instances,  \* SigIntHandler::s_instances is not empty
    sigints,    \* Ctrl-C's typed during this command
    status      \* what has become of the process

consoleVars == <<mainPc, cmd, request>>
sigVars == <<hMain, hWorker, disp, instances, sigints>>
vars == <<hostVars, bkptVars, consoleVars, sigVars, status>>

MainPcs == {"prompt", "ask", "spin", "resetJoin", "resetLoad", "enterRun",
            "runJoin", "setRunning", "spawn", "install", "push", "poll",
            "report", "erase", "uninstall", "dtor"}

TypeOK ==
    /\ HostTypeOK
    /\ mainPc \in MainPcs
    /\ cmd \in {"none", "run", "resume"}
    /\ request \in Requests \cup {0}
    /\ hMain \in {"none", "check", "store", "join"}
    /\ hWorker \in {"none", "check", "store", "join"}
    /\ disp \in {"default", "handler"}
    /\ instances \in BOOLEAN
    /\ sigints \in 0 .. MaxSigInts
    /\ status \in {"alive", "killed", "aborted", "exited"}

Init ==
    /\ HostInit
    /\ mainPc = "prompt" /\ cmd = "none" /\ request = 0
    /\ hMain = "none" /\ hWorker = "none"
    /\ disp = "default" /\ instances = FALSE /\ sigints = 0
    /\ status = "alive"

Goto(l) == mainPc' = l /\ UNCHANGED <<cmd, request>>

\* The command returns to Console::run: its locals are gone.
Return ==
    /\ mainPc' = "prompt"
    /\ cmd' = "none"
    /\ request' = 0
    /\ sigints' = 0

-----------------------------------------------------------------------------
\* Commands typed at the prompt.  A command that only reports an error or
\* only prints changes nothing and is left out.
CmdRun(n) ==
    /\ mainPc = "prompt"
    /\ mainPc' = IF state = "PAUSED" THEN "ask" ELSE "enterRun"
    /\ cmd' = "run" /\ request' = n
    /\ UNCHANGED <<hostVars, bkptVars, sigVars, status>>

\* continue and step: "nothing currently running" unless paused.
CmdResume(n) ==
    /\ mainPc = "prompt"
    /\ state = "PAUSED"
    /\ mainPc' = "enterRun"
    /\ cmd' = "resume" /\ request' = n
    /\ UNCHANGED <<hostVars, bkptVars, sigVars, status>>

CmdBreak(a) ==
    /\ mainPc = "prompt"
    /\ Bkpt!AddBreakpoint(a)
    /\ UNCHANGED <<hostVars, consoleVars, sigVars, status>>

CmdDelete ==
    /\ mainPc = "prompt"
    /\ \/ Bkpt!ClearBreakpoints
       \/ \E n \in 1 .. MaxCount : Bkpt!DeleteNumber(n)
    /\ UNCHANGED <<hostVars, consoleVars, sigVars, status>>

\* load changes neither m_state nor the rest of the processor; CmdLoad::run
\* catches whatever LoadFile throws.
CmdLoad ==
    /\ mainPc = "prompt"
    /\ LoadFile(pc, symbols)
    /\ UNCHANGED <<state, joinable, worker, localVars, cause,
                   bkptVars, consoleVars, sigVars, status>>

\* quit, or the end of the input.
CmdQuit ==
    /\ mainPc = "prompt"
    /\ Goto("dtor")
    /\ UNCHANGED <<hostVars, bkptVars, sigVars, status>>

\* ~SimHost.
Exit ==
    /\ mainPc = "dtor"
    /\ IF joinable THEN JoinWorker ELSE UNCHANGED <<joinable, worker>>
    /\ status' = "exited"
    /\ UNCHANGED <<state, localVars, machineVars, symbols,
                   bkptVars, consoleVars, sigVars>>

-----------------------------------------------------------------------------
\* "Target is already running.  Would you like to restart?"  When the input
\* ends here, cin >> select fails for ever and the loop never leaves.
Answer ==
    /\ mainPc = "ask"
    /\ \/ Return /\ UNCHANGED <<state, hMain, hWorker, disp, instances>>
       \/ /\ Goto("resetJoin")
          /\ state' = "IDLE"
          /\ UNCHANGED sigVars
       \/ Goto("spin") /\ UNCHANGED <<state, sigVars>>
    /\ UNCHANGED <<joinable, worker, localVars, machineVars, symbols,
                   bkptVars, status>>

Spin == mainPc = "spin" /\ UNCHANGED vars

ResetJoin ==
    /\ mainPc = "resetJoin"
    /\ IF joinable THEN JoinWorker ELSE UNCHANGED <<joinable, worker>>
    /\ Goto("resetLoad")
    /\ UNCHANGED <<state, localVars, machineVars, symbols,
                   bkptVars, sigVars, status>>

\* LoadFile catches std::runtime_error; the std::out_of_range of a Put past
\* the end of memory, which a Broken load can end in, is caught by nobody.
ResetLoad ==
    /\ mainPc = "resetLoad"
    /\ ReloadMachine
    /\ \/ Goto("enterRun") /\ UNCHANGED status
       \/ /\ [pc |-> pc', symbols |-> symbols'] \in Broken(ResetPc)
          /\ status' = "aborted"
          /\ UNCHANGED consoleVars
    /\ UNCHANGED <<state, joinable, worker, localVars, bkptVars, sigVars>>

-----------------------------------------------------------------------------
\* SimHost::Run.
EnterRun ==
    /\ mainPc = "enterRun"
    /\ \/ state = "RUNNING" /\ Return   \* throws "executable already running"
       \/ state # "RUNNING" /\ Goto("runJoin") /\ UNCHANGED sigints
    /\ UNCHANGED <<hostVars, bkptVars, hMain, hWorker, disp, instances, status>>

\* Mutation: Run does not wait for the thread of the run before.
RunJoinSkipped ==
    /\ mainPc = "runJoin"
    /\ Goto("setRunning")
    /\ UNCHANGED <<hostVars, bkptVars, sigVars, status>>

RunJoin ==
    /\ mainPc = "runJoin"
    /\ IF joinable THEN JoinWorker ELSE UNCHANGED <<joinable, worker>>
    /\ Goto("setRunning")
    /\ UNCHANGED <<state, localVars, machineVars, symbols,
                   bkptVars, sigVars, status>>

SetRunning ==
    /\ mainPc = "setRunning"
    /\ state' = "RUNNING"
    /\ Goto("spawn")
    /\ UNCHANGED <<joinable, worker, localVars, machineVars, symbols,
                   bkptVars, sigVars, status>>

Spawn ==
    /\ mainPc = "spawn"
    /\ SpawnWorker(request)
    /\ Goto("install")
    /\ UNCHANGED <<state, count, exitAt, verdict, machineVars, symbols,
                   bkptVars, sigVars, status>>

\* No thread to be had: std::system_error is a runtime_error, and the command
\* reports it.
SpawnFails ==
    /\ mainPc = "spawn"
    /\ Return
    /\ UNCHANGED <<hostVars, bkptVars, hMain, hWorker, disp, instances, status>>

-----------------------------------------------------------------------------
\* SigIntHandler's constructor, in two steps.
Install ==
    /\ mainPc = "install"
    /\ disp' = "handler"
    /\ Goto("push")
    /\ UNCHANGED <<hostVars, bkptVars, hMain, hWorker, instances, sigints, status>>

Push ==
    /\ mainPc = "push"
    /\ instances' = TRUE
    /\ Goto("poll")
    /\ UNCHANGED <<hostVars, bkptVars, hMain, hWorker, disp, sigints, status>>

\* Mutation: the command does not wait for the end of the run.
PollNoWait ==
    /\ mainPc = "poll"
    /\ Goto("report")
    /\ UNCHANGED <<hostVars, bkptVars, sigVars, status>>

\* Mutation: it waits for the end of the program, and a pause is none.
PollForTermination ==
    /\ mainPc = "poll"
    /\ state = "TERMINATED"
    /\ Goto("report")
    /\ UNCHANGED <<hostVars, bkptVars, sigVars, status>>

\* while (GetState() == RUNNING) sleep_for(1 ms).
Poll ==
    /\ mainPc = "poll"
    /\ state # "RUNNING"
    /\ Goto("report")
    /\ UNCHANGED <<hostVars, bkptVars, sigVars, status>>

\* Prints the state, the pc and the instruction count.
Report ==
    /\ mainPc = "report"
    /\ Goto("erase")
    /\ UNCHANGED <<hostVars, bkptVars, sigVars, status>>

\* SigIntHandler's destructor, in two steps.
Erase ==
    /\ mainPc = "erase"
    /\ instances' = FALSE
    /\ Goto("uninstall")
    /\ UNCHANGED <<hostVars, bkptVars, hMain, hWorker, disp, sigints, status>>

Uninstall ==
    /\ mainPc = "uninstall"
    /\ disp' = "default"
    /\ Return
    /\ UNCHANGED <<hostVars, bkptVars, hMain, hWorker, instances, status>>

\* What the main thread does by itself, once it has a command.
MainStep ==
    /\ hMain = "none"
    /\ \/ Exit \/ Spin \/ ResetJoin \/ ResetLoad
       \/ EnterRun \/ RunJoin \/ SetRunning \/ Spawn \/ SpawnFails
       \/ Install \/ Push \/ Poll \/ Report \/ Erase \/ Uninstall

\* What the user makes it do.
UserStep ==
    \/ \E n \in Requests : CmdRun(n) \/ CmdResume(n)
    \/ \E a \in Addr : CmdBreak(a)
    \/ CmdDelete
    \/ CmdLoad
    \/ CmdQuit
    \/ Answer

-----------------------------------------------------------------------------
\* Ctrl-C.  At the prompt linenoise has the terminal in raw mode and Ctrl-C
\* is a character.  Elsewhere the kernel offers the signal to the main thread
\* first and, while the handler runs there and blocks it, to the worker.
TypeCtrlC == sigints < MaxSigInts /\ sigints' = sigints + 1

SigIntDefault ==
    /\ mainPc # "prompt"
    /\ disp = "default"
    /\ TypeCtrlC
    /\ status' = "killed"
    /\ UNCHANGED <<hostVars, bkptVars, consoleVars, hMain, hWorker, disp, instances>>

\* The handler finds s_instances empty.
SigIntLost ==
    /\ disp = "handler"
    /\ ~instances
    /\ TypeCtrlC
    /\ UNCHANGED <<hostVars, bkptVars, consoleVars, hMain, hWorker, disp,
                   instances, status>>

SigIntMain ==
    /\ disp = "handler"
    /\ instances
    /\ hMain = "none"
    /\ TypeCtrlC
    /\ hMain' = "check"
    /\ UNCHANGED <<hostVars, bkptVars, consoleVars, hWorker, disp, instances, status>>

SigIntWorker ==
    /\ disp = "handler"
    /\ instances
    /\ hMain # "none"
    /\ hWorker = "none"
    /\ worker \in {"init", "loop", "exec", "publish"}
    /\ TypeCtrlC
    /\ hWorker' = "check"
    /\ UNCHANGED <<hostVars, bkptVars, consoleVars, hMain, disp, instances, status>>

CtrlC == SigIntDefault \/ SigIntLost \/ SigIntMain \/ SigIntWorker

\* sigint_handler on the main thread: if RUNNING, then SimHost::Pause, which
\* stores PAUSED and joins.
MainHandlerCheck ==
    /\ hMain = "check"
    /\ hMain' = IF state = "RUNNING" THEN "store" ELSE "none"
    /\ UNCHANGED <<hostVars, bkptVars, consoleVars, hWorker, disp, instances,
                   sigints, status>>

\* Mutation: Pause joins without having stored PAUSED.
MainHandlerStoreNothing ==
    /\ hMain = "store"
    /\ hMain' = "join"
    /\ UNCHANGED <<hostVars, bkptVars, consoleVars, hWorker, disp, instances,
                   sigints, status>>

MainHandlerStore ==
    /\ hMain = "store"
    /\ state' = "PAUSED"
    /\ hMain' = "join"
    /\ UNCHANGED <<joinable, worker, localVars, machineVars, symbols, bkptVars,
                   consoleVars, hWorker, disp, instances, sigints, status>>

\* Mutation: Pause does not join.
MainHandlerJoinSkipped ==
    /\ hMain = "join"
    /\ hMain' = "none"
    /\ UNCHANGED <<hostVars, bkptVars, consoleVars, hWorker, disp, instances,
                   sigints, status>>

MainHandlerJoin ==
    /\ hMain = "join"
    /\ JoinWorker
    /\ hMain' = "none"
    /\ UNCHANGED <<state, localVars, machineVars, symbols, bkptVars,
                   consoleVars, hWorker, disp, instances, sigints, status>>

\* The same on the worker thread.  Once the main thread has destroyed the
\* SigIntHandler the handler uses a dead object: nothing or a crash.
WorkerHandlerCheck ==
    /\ hWorker = "check"
    /\ \/ /\ hWorker' = IF state = "RUNNING" THEN "store" ELSE "none"
          /\ UNCHANGED status
       \/ ~instances /\ status' = "aborted" /\ UNCHANGED hWorker
    /\ UNCHANGED <<hostVars, bkptVars, consoleVars, hMain, disp, instances, sigints>>

WorkerHandlerStore ==
    /\ hWorker = "store"
    /\ state' = "PAUSED"
    /\ hWorker' = "join"
    /\ UNCHANGED <<joinable, worker, localVars, machineVars, symbols, bkptVars,
                   consoleVars, hMain, disp, instances, sigints, status>>

\* A thread that joins itself: system_error (EDEADLK), caught by nobody.
WorkerHandlerJoin ==
    /\ hWorker = "join"
    /\ status' = "aborted"
    /\ UNCHANGED <<hostVars, bkptVars, consoleVars, sigVars>>

MainHandlerStep == MainHandlerCheck \/ MainHandlerStore \/ MainHandlerJoin
WorkerHandlerStep == WorkerHandlerCheck \/ WorkerHandlerStore \/ WorkerHandlerJoin
HandlerStep == MainHandlerStep \/ WorkerHandlerStep

-----------------------------------------------------------------------------
\* The worker thread, while no handler runs on it.
Work ==
    /\ hWorker = "none"
    /\ WorkerStep
    /\ UNCHANGED <<consoleVars, sigVars, status>>

\* A Step that touches an address past the end of memory throws out_of_range
\* out of the thread.
WorkerThrows ==
    /\ hWorker = "none"
    /\ worker = "exec"
    /\ status' = "aborted"
    /\ UNCHANGED <<hostVars, bkptVars, consoleVars, sigVars>>

Stopped == status # "alive" /\ UNCHANGED vars

Next ==
    \/ /\ status = "alive"
       /\ MainStep \/ UserStep \/ CtrlC \/ HandlerStep \/ Work \/ WorkerThrows
    \/ Stopped

Spec == Init /\ [][Next]_vars

\* The operating system schedules both threads, and a signal handler that has
\* begun goes on; nobody has to type anything.
Fairness ==
    /\ WF_vars(status = "alive" /\ MainStep)
    /\ WF_vars(status = "alive" /\ MainHandlerStep)
    /\ WF_vars(status = "alive" /\ WorkerHandlerStep)
    /\ WF_vars(status = "alive" /\ (Work \/ WorkerThrows))

FairSpec == Spec /\ Fairness

-----------------------------------------------------------------------------
\* The worker's thread can no longer touch the machine, the tables or
\* m_state: there is none, or it is past its last instruction, or its signal
\* handler is about to bring the process down.
Quiet ==
    \/ worker = "none"
    \/ worker = "loop" /\ state # "RUNNING"
    \/ worker = "done"
    \/ hWorker = "join"

\* Where the main thread uses the machine, the symbols and the breakpoints.
UsesMachine == {"prompt", "resetLoad", "report", "erase", "uninstall"}

\* m_processor, m_symbolMap and m_breakpoints have no lock: whenever the main
\* thread may use them (commands at the prompt, ResetSim's reload, the report
\* after a run) the worker is out of them for good.
MachineOwned == mainPc \in UsesMachine => Quiet

\* std::thread is only assigned to when it is not joinable (std::terminate
\* otherwise), and Pause only joins a thread that is there to be joined
\* (std::system_error otherwise).
ThreadHandleSafe ==
    /\ mainPc \in {"setRunning", "spawn"} => ~joinable
    /\ hMain \in {"store", "join"} => joinable

\* "run n", "continue n" and "step n" execute no more than n instructions,
\* however the signal handler's PAUSED and the worker's own stores interleave.
BudgetRespected == limit > 0 => count <= limit

\* Run's comment "thread only runs on m_state == RUNNING": once m_state has
\* left RUNNING it stays so until this worker has been joined.
StopIsFinal ==
    [][worker # "none" /\ state # "RUNNING" /\ worker' # "none"
         => state' # "RUNNING"]_vars

\* The reasons the worker has to end the program, in the order of its tests:
\* an illegal instruction, or _exit where neither an ebreak nor a breakpoint
\* of the user's comes first.
Terminates ==
    \/ cause = "illegal"
    \/ pc = symbols.exit /\ pc \notin Bkpt!Live /\ cause # "breakpoint"

\* Its reasons, other than the limit, to pause the program.
Pauses == cause # "illegal" /\ (cause = "breakpoint" \/ pc \in Bkpt!Live)

\* A command reports only once the program has stopped, and the state it
\* reports has its reason: TERMINATED means an illegal instruction or _exit;
\* PAUSED, if there was neither a limit nor a Ctrl-C, means a breakpoint.  The
\* worker and the handler store the state at any time and over each other; the
\* pc, the cause and the tables are read later.
StopHasReason ==
    mainPc \in {"report", "erase", "uninstall"} =>
        /\ state \in {"PAUSED", "TERMINATED"}
        /\ state = "TERMINATED" => Terminates
        /\ state = "PAUSED" /\ request = 0 /\ sigints = 0 => Pauses

shown == <<pc, cause, symbols, bkpts>>

\* From the report of a run to the next one, the machine, the symbols and the
\* breakpoints are what the user was shown, but for the load, break and
\* delete commands and the reload of a restart.
ReportIsFinal ==
    [][(mainPc \in MainPcs \ {"resetLoad", "install", "push", "poll"})
         => \/ UNCHANGED shown
            \/ mainPc = "prompt" /\ (CmdLoad \/ CmdDelete \/ \E a \in Addr : CmdBreak(a))]_vars

\* A Ctrl-C that reaches the handler while a command waits brings the prompt
\* back, unless the process dies.
InterruptReturns ==
    hMain # "none" ~> (mainPc = "prompt" \/ status # "alive")

\* A run with a limit comes back by itself.
LimitedRunReturns ==
    (mainPc = "poll" /\ request > 0) ~> (mainPc = "prompt" \/ status # "alive")

\* quit is never stuck in SimHost's destructor.
QuitExits == mainPc = "dtor" ~> status # "alive"

-----------------------------------------------------------------------------
\* The mapping to Debuggee: an execution lasts from the start of the worker
\* to the moment it can no longer leave its loop's test for a Step.
Executing ==
    /\ \/ worker \in {"init", "exec", "publish"}
       \/ worker = "loop" /\ state = "RUNNING"
    /\ hWorker # "join"

Promise == INSTANCE Debuggee WITH
    Machine <- Addr \X Causes,
    Budgets <- Requests \cup {0},
    mode <- IF Executing THEN "executing"
            ELSE IF hWorker = "join" THEN "doomed" ELSE "stopped",
    machine <- machineVars,
    tables <- <<symbols, bkpts, bkptCount>>,
    left <- IF Executing /\ limit > 0 THEN limit - count ELSE 0,
    unlimited <- Executing /\ limit = 0

\* Threads, signals and all, the debugger keeps the promise of Debuggee.
KeepsPromise == Promise!Spec

-----------------------------------------------------------------------------
\* The inductive invariant behind the safety properties, in parts.

\* The handle is joinable from the thread's creation to its join.
Handle == joinable <=> worker # "none"

\* What is known at each point of the main thread.
SettledPcs == MainPcs \ {"install", "push", "poll"}
CommandPcs == {"install", "push", "poll", "report", "erase", "uninstall"}

MainWhere ==
    /\ mainPc \in SettledPcs => Quiet /\ (worker # "none" => state # "RUNNING")
    /\ mainPc \in {"resetLoad", "setRunning", "spawn"} => worker = "none"
    /\ mainPc = "spawn" => state = "RUNNING"
    /\ mainPc \in CommandPcs /\ worker = "none" => state # "RUNNING"

\* The handler is there between Install and Uninstall, and finds the command
\* between Push and Erase.
Registration ==
    /\ disp = "handler" <=> mainPc \in CommandPcs \ {"install"}
    /\ instances <=> mainPc \in {"poll", "report", "erase"}
    /\ hMain # "none" => instances
    /\ hMain \in {"store", "join"} => mainPc = "poll" /\ joinable
    /\ hMain = "join" => state # "RUNNING"
    /\ hWorker # "none" => worker \in {"init", "loop", "exec", "publish"}
    /\ hWorker = "join" => state # "RUNNING"

\* Once m_state is not RUNNING the worker is out of the machine, except while
\* Pause waits for it.
StoppedIsQuiet == state # "RUNNING" /\ hMain # "join" => Quiet

\* The counter against the limit.
Budget ==
    /\ BudgetRespected
    /\ worker \in {"init", "exec"} /\ limit > 0 => count < limit
    /\ worker = "loop" /\ state = "RUNNING" /\ limit > 0 => count < limit
    /\ worker \in {"none", "init", "done"} => count = 0
    /\ worker = "publish" => verdict \in {"PAUSED", "TERMINATED"}

\* Why the program has stopped or is about to, while a command waits for it.
Reasons ==
    /\ hMain # "none" => sigints > 0
    /\ mainPc \in CommandPcs =>
        /\ state # "IDLE"
        /\ hWorker # "none" => sigints > 0
        /\ worker \in {"init", "loop", "exec", "publish"} => limit = request
        /\ worker \in {"loop", "exec", "publish"} => exitAt = symbols.exit
        /\ worker = "publish" =>
            /\ verdict = "TERMINATED" => Terminates
            /\ verdict = "PAUSED" /\ limit = 0 => Pauses
        /\ state = "TERMINATED" =>
            Terminates /\ worker \in {"loop", "done", "none"}
        /\ state = "PAUSED" /\ request = 0 /\ sigints = 0 =>
            Pauses /\ worker \in {"loop", "done", "none"}

IInv ==
    /\ TypeOK
    /\ Handle
    /\ MainWhere
    /\ Registration
    /\ StoppedIsQuiet
    /\ Budget

-----------------------------------------------------------------------------
\* What the documentation and the comments say and the code does not do.

\* README: "Execution can be interrupted using Ctrl-C".  A second Ctrl-C makes
\* the worker join itself, which aborts the debugger.
InterruptNeverJoinsItself == hWorker # "join"

\* run: "Start execution from the beginning".  Only a paused program is reset;
\* one that has terminated is resumed where it ended.
RunFromBeginning ==
    (mainPc = "spawn" /\ cmd = "run" /\ symbols.start # NoAddr)
        => pc = symbols.start

\* continue: "Set number of instructions to 0 or omit to run indefinitely".
\* mcause still holds the last exception: an instruction that raises none
\* stops the program all the same.
UnlimitedRunGoesOn ==
    [][\A p \in Addr :
          (Exec("none", p) /\ limit = 0 /\ p \notin Bkpt!Live /\ p # exitAt)
              => verdict' = "RUNNING"]_vars
=============================================================================
