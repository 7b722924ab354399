-------------------------- MODULE RunControl_proofs --------------------------
(***************************************************************************)
(* Proofs about the threads and the signal handler, for any addresses, any *)
(* programs, any limits and any number of Ctrl-C's.                        *)
(***************************************************************************)
EXTENDS RunControl, TLAPS

\* LoadFile leaves a pc and a symbol table of their types.
LEMMA LoadFileTypes ==
  ASSUME NEW p \in Addr, NEW s \in SymbolTables, LoadFile(p, s)
  PROVE  pc' \in Addr /\ symbols' \in SymbolTables
  BY SimHostAssumption DEF LoadFile, Rejected, Broken, Loaded, NoSymbols

\* The breakpoint table keeps its type.
LEMMA TableTypes ==
  ASSUME Bkpt!TypeOK,
         \/ \E a \in Addr : Bkpt!AddBreakpoint(a)
         \/ Bkpt!ClearBreakpoints
         \/ \E n \in Nat : Bkpt!DeleteNumber(n)
         \/ UNCHANGED bkptVars
  PROVE  Bkpt!TypeOK'
  <1> USE SimHostAssumption DEF Bkpt!TypeOK, Bkpt!Live
  <1>1. ASSUME NEW a \in Addr, Bkpt!AddBreakpoint(a) PROVE Bkpt!TypeOK'
    BY <1>1 DEF Bkpt!AddBreakpoint
  <1>2. CASE Bkpt!ClearBreakpoints
    BY <1>2 DEF Bkpt!ClearBreakpoints
  <1>3. ASSUME NEW n \in Nat, Bkpt!DeleteNumber(n) PROVE Bkpt!TypeOK'
    BY <1>3 DEF Bkpt!DeleteNumber, Bkpt!RemoveBreakpoint
  <1>4. CASE UNCHANGED bkptVars
    BY <1>4 DEF bkptVars
  <1> QED  BY <1>1, <1>2, <1>3, <1>4

\* The initial state satisfies the invariant.
LEMMA InitIInv == Init => IInv
  <1> SUFFICES ASSUME Init PROVE IInv
    OBVIOUS
  <1>1. Bkpt!TypeOK
    BY SimHostAssumption DEF Init, HostInit, Bkpt!Init, Bkpt!TypeOK, Bkpt!Live
  <1>2. TypeOK
    <2>1. HostTypeOK
      BY <1>1, SimHostAssumption DEF Init, HostInit, HostTypeOK, States, Causes, NoSymbols
    <2>2. sigints \in 0 .. MaxSigInts
      BY RunControlAssumption DEF Init
    <2> QED  BY <2>1, <2>2 DEF Init, TypeOK, MainPcs
  <1>3. ~joinable /\ ~instances
    <2>1. joinable = FALSE /\ instances = FALSE
      BY DEF Init, HostInit
    <2> QED  BY <2>1
  <1>4. Handle /\ MainWhere /\ Registration /\ StoppedIsQuiet /\ Budget
    BY <1>3 DEF Init, HostInit, Handle, MainWhere, Registration, StoppedIsQuiet, Budget,
           BudgetRespected, Quiet, SettledPcs, CommandPcs, MainPcs
  <1> QED  BY <1>2, <1>4 DEF IInv

\* A command typed at the prompt, or an answer to run's question.
LEMMA UserKeeps == IInv /\ UserStep => IInv'
  <1> SUFFICES ASSUME IInv, UserStep PROVE IInv'
    OBVIOUS
  <1> USE DEF IInv, Handle, MainWhere, Registration, StoppedIsQuiet, Budget,
              BudgetRespected, Quiet, SettledPcs, CommandPcs, MainPcs,
              hostVars, localVars, machineVars, consoleVars, sigVars
  <1>1. ASSUME NEW n \in Requests, CmdRun(n)
        PROVE  IInv'
    BY <1>1, TableTypes, RunControlAssumption DEF CmdRun, TypeOK, HostTypeOK
  <1>2. ASSUME NEW n \in Requests, CmdResume(n)
        PROVE  IInv'
    BY <1>2, TableTypes, RunControlAssumption DEF CmdResume, TypeOK, HostTypeOK
  <1>3. ASSUME NEW a \in Addr, CmdBreak(a)
        PROVE  IInv'
    BY <1>3, TableTypes DEF CmdBreak, TypeOK, HostTypeOK
  <1>4. CASE CmdDelete
    BY <1>4, TableTypes, SimHostAssumption DEF CmdDelete, TypeOK, HostTypeOK
  <1>5. CASE CmdLoad
    BY <1>5, TableTypes, LoadFileTypes DEF CmdLoad, TypeOK, HostTypeOK
  <1>6. CASE CmdQuit
    BY <1>6, TableTypes DEF CmdQuit, Goto, TypeOK, HostTypeOK
  <1>7. CASE Answer
    BY <1>7, TableTypes, RunControlAssumption
       DEF Answer, Goto, Return, TypeOK, HostTypeOK, States
  <1> QED  BY <1>1, <1>2, <1>3, <1>4, <1>5, <1>6, <1>7 DEF UserStep

\* A step of the main thread.
LEMMA MainKeeps == IInv /\ MainStep => IInv'
  <1> SUFFICES ASSUME IInv, MainStep PROVE IInv'
    OBVIOUS
  <1> USE TableTypes
      DEF IInv, Handle, MainWhere, Registration, StoppedIsQuiet, Budget,
          BudgetRespected, Quiet, SettledPcs, CommandPcs, MainPcs,
          TypeOK, HostTypeOK, Goto, Return,
          hostVars, localVars, machineVars, consoleVars, sigVars
  <1>0. hMain = "none"
    BY DEF MainStep
  <1>1. CASE Exit
    <2>1. TypeOK'
      BY <1>1 DEF Exit, JoinWorker
    <2>2. Handle' /\ MainWhere'
      BY <1>0, <1>1 DEF Exit, JoinWorker
    <2>3. Registration'
      BY <1>0, <1>1 DEF Exit, JoinWorker
    <2>4. StoppedIsQuiet' /\ Budget'
      BY <1>0, <1>1 DEF Exit, JoinWorker
    <2> QED  BY <2>1, <2>2, <2>3, <2>4
  <1>2. CASE Spin
    BY <1>0, <1>2 DEF Spin, vars
  <1>3. CASE ResetJoin
    <2>1. TypeOK'
      BY <1>3 DEF ResetJoin, JoinWorker
    <2>2. Handle' /\ MainWhere'
      BY <1>0, <1>3 DEF ResetJoin, JoinWorker
    <2>3. Registration'
      BY <1>0, <1>3 DEF ResetJoin, JoinWorker
    <2>4. StoppedIsQuiet' /\ Budget'
      BY <1>0, <1>3 DEF ResetJoin, JoinWorker
    <2> QED  BY <2>1, <2>2, <2>3, <2>4
  <1>4. CASE ResetLoad
    <2>1. pc' \in Addr /\ symbols' \in SymbolTables
      BY <1>4, LoadFileTypes, SimHostAssumption DEF ResetLoad, ReloadMachine, NoSymbols
    <2> QED  BY <1>0, <1>4, <2>1 DEF ResetLoad, ReloadMachine, Causes
  <1>5. CASE EnterRun
    BY <1>0, <1>5, RunControlAssumption DEF EnterRun
  <1>6. CASE RunJoin
    <2>1. TypeOK'
      BY <1>6 DEF RunJoin, JoinWorker
    <2>2. Handle' /\ MainWhere'
      BY <1>0, <1>6 DEF RunJoin, JoinWorker
    <2>3. Registration'
      BY <1>0, <1>6 DEF RunJoin, JoinWorker
    <2>4. StoppedIsQuiet' /\ Budget'
      BY <1>0, <1>6 DEF RunJoin, JoinWorker
    <2> QED  BY <2>1, <2>2, <2>3, <2>4
  <1>7. CASE SetRunning
    BY <1>0, <1>7 DEF SetRunning, States
  <1>8. CASE Spawn
    BY <1>0, <1>8, RunControlAssumption DEF Spawn, SpawnWorker
  <1>9. CASE SpawnFails
    BY <1>0, <1>9, RunControlAssumption DEF SpawnFails
  <1>10. CASE Install
    BY <1>0, <1>10 DEF Install
  <1>11. CASE Push
    BY <1>0, <1>11 DEF Push
  <1>12. CASE Poll
    BY <1>0, <1>12 DEF Poll
  <1>13. CASE Report
    BY <1>0, <1>13 DEF Report
  <1>14. CASE Erase
    <2>1. instances' = FALSE
      BY <1>14 DEF Erase
    <2>2. TypeOK'
      <3>1. instances' \in BOOLEAN
        BY <2>1, Zenon
      <3> QED  BY <1>14, <3>1 DEF Erase
    <2>3. Registration'
      BY <1>0, <1>14, <2>1 DEF Erase
    <2>4. Handle' /\ MainWhere'
      BY <1>0, <1>14 DEF Erase
    <2>5. StoppedIsQuiet' /\ Budget'
      BY <1>0, <1>14 DEF Erase
    <2> QED  BY <2>2, <2>3, <2>4, <2>5
  <1>15. CASE Uninstall
    BY <1>0, <1>15, RunControlAssumption DEF Uninstall
  <1> QED  BY <1>1, <1>2, <1>3, <1>4, <1>5, <1>6, <1>7, <1>8, <1>9, <1>10,
              <1>11, <1>12, <1>13, <1>14, <1>15 DEF MainStep

\* A Ctrl-C, or a step of a signal handler.
LEMMA SignalKeeps == IInv /\ (CtrlC \/ HandlerStep) => IInv'
  <1> SUFFICES ASSUME IInv, CtrlC \/ HandlerStep PROVE IInv'
    OBVIOUS
  <1> USE TableTypes, RunControlAssumption
      DEF IInv, Handle, MainWhere, Registration, StoppedIsQuiet, Budget,
          BudgetRespected, Quiet, SettledPcs, CommandPcs, MainPcs,
          TypeOK, HostTypeOK, TypeCtrlC,
          hostVars, localVars, machineVars, consoleVars, sigVars
  <1>1. CASE SigIntDefault
    BY <1>1 DEF SigIntDefault
  <1>2. CASE SigIntLost
    BY <1>2 DEF SigIntLost
  <1>3. CASE SigIntMain
    BY <1>3 DEF SigIntMain
  <1>4. CASE SigIntWorker
    BY <1>4 DEF SigIntWorker
  <1>5. CASE MainHandlerCheck
    BY <1>5 DEF MainHandlerCheck
  <1>6. CASE MainHandlerStore
    BY <1>6 DEF MainHandlerStore, States
  <1>7. CASE MainHandlerJoin
    BY <1>7 DEF MainHandlerJoin, JoinWorker
  <1>8. CASE WorkerHandlerCheck
    BY <1>8 DEF WorkerHandlerCheck
  <1>9. CASE WorkerHandlerStore
    BY <1>9 DEF WorkerHandlerStore, States
  <1>10. CASE WorkerHandlerJoin
    BY <1>10 DEF WorkerHandlerJoin
  <1> QED  BY <1>1, <1>2, <1>3, <1>4, <1>5, <1>6, <1>7, <1>8, <1>9, <1>10
           DEF CtrlC, HandlerStep, MainHandlerStep, WorkerHandlerStep

\* A step of the worker thread.
LEMMA WorkKeeps == IInv /\ (Work \/ WorkerThrows) => IInv'
  <1> SUFFICES ASSUME IInv, Work \/ WorkerThrows PROVE IInv'
    OBVIOUS
  <1> USE TableTypes
      DEF IInv, Handle, MainWhere, Registration, StoppedIsQuiet, Budget,
          BudgetRespected, Quiet, SettledPcs, CommandPcs, MainPcs,
          TypeOK, HostTypeOK, States, Work,
          hostVars, localVars, machineVars, consoleVars, sigVars
  <1>1. CASE WorkerThrows
    BY <1>1 DEF WorkerThrows
  <1> SUFFICES ASSUME Work PROVE IInv'
    BY <1>1
  <1>2. CASE WorkerInit
    BY <1>2, SimHostAssumption DEF WorkerInit, WorkerStep
  <1>3. CASE WorkerLoop
    BY <1>3 DEF WorkerLoop, WorkerStep
  <1>4. CASE WorkerEnds
    BY <1>4 DEF WorkerEnds, WorkerStep
  <1>5. ASSUME NEW e \in Causes \cup {"none"}, NEW p \in Addr, Exec(e, p)
        PROVE  IInv'
    <2>1. Bkpt!TypeOK'
      BY DEF WorkerStep
    <2>2. cause' \in Causes
      BY <1>5 DEF Exec
    <2> QED  BY <1>5, <2>1, <2>2 DEF Exec, Verdict, LimitHit, WorkerStep
  <1>6. CASE WorkerPublish
    BY <1>6 DEF WorkerPublish, WorkerStep
  <1> QED  BY <1>2, <1>3, <1>4, <1>5, <1>6 DEF WorkerStep

\* Every step preserves the invariant.
LEMMA NextKeeps == IInv /\ [Next]_vars => IInv'
  <1>1. ASSUME IInv, UNCHANGED vars PROVE IInv'
    BY <1>1, TableTypes
       DEF IInv, TypeOK, HostTypeOK, Handle, MainWhere, Registration,
           StoppedIsQuiet, Budget, BudgetRespected, Quiet, vars, hostVars,
           consoleVars, sigVars
  <1> QED  BY <1>1, UserKeeps, MainKeeps, SignalKeeps, WorkKeeps DEF Next, Stopped

\* The invariant holds throughout.
THEOREM Invariance == Spec => []IInv
  BY InitIInv, NextKeeps, PTL DEF Spec

\* Type correctness.
THEOREM TypeCorrect == Spec => []TypeOK
  <1>1. IInv => TypeOK
    BY DEF IInv
  <1> QED  BY <1>1, Invariance, PTL

\* The main thread and the worker are never in the machine at the same time,
\* although only m_state is atomic and nothing is locked.
THEOREM MachineIsOwned == Spec => []MachineOwned
  <1>1. IInv => MachineOwned
    BY DEF IInv, MainWhere, MachineOwned, UsesMachine, SettledPcs, MainPcs
  <1> QED  BY <1>1, Invariance, PTL

\* m_simRunner is never assigned to while joinable, nor joined when it is not.
THEOREM HandleIsSafe == Spec => []ThreadHandleSafe
  <1>1. IInv => ThreadHandleSafe
    BY DEF IInv, Handle, MainWhere, Registration, ThreadHandleSafe
  <1> QED  BY <1>1, Invariance, PTL

\* No execution runs more instructions than the command asked for.
THEOREM BudgetIsRespected == Spec => []BudgetRespected
  <1>1. IInv => BudgetRespected
    BY DEF IInv, Budget
  <1> QED  BY <1>1, Invariance, PTL

-----------------------------------------------------------------------------
\* Only Run sets RUNNING, and it does so when there is no worker.
LEMMA OnlyRunStarts ==
  ASSUME IInv, [Next]_vars, state # "RUNNING", state' = "RUNNING"
  PROVE  worker = "none" /\ worker' = "none"
  <1> USE DEF hostVars, localVars, machineVars, sigVars, consoleVars
  <1>1. UNCHANGED vars => FALSE
    BY DEF vars
  <1>2. UserStep => FALSE
    BY DEF UserStep, CmdRun, CmdResume, CmdBreak, CmdDelete, CmdLoad, CmdQuit,
           Answer, Goto, Return
  <1>3. MainStep => worker = "none" /\ worker' = "none"
    BY DEF MainStep, Exit, Spin, ResetJoin, ResetLoad, EnterRun, RunJoin, SetRunning,
           Spawn, SpawnFails, Install, Push, Poll, Report, Erase, Uninstall,
           vars, IInv, MainWhere
  <1>4. CtrlC \/ HandlerStep \/ WorkerThrows => FALSE
    BY DEF CtrlC, SigIntDefault, SigIntLost, SigIntMain, SigIntWorker,
           HandlerStep, MainHandlerStep, MainHandlerCheck, MainHandlerStore,
           MainHandlerJoin, WorkerHandlerStep, WorkerHandlerCheck,
           WorkerHandlerStore, WorkerHandlerJoin, WorkerThrows
  <1>5. Work => FALSE
    BY DEF Work, WorkerStep, WorkerInit, WorkerLoop, WorkerEnds, Exec,
           WorkerPublish, IInv, Budget
  <1> QED  BY <1>1, <1>2, <1>3, <1>4, <1>5 DEF Next, Stopped

\* m_state stays out of RUNNING until the worker has been joined.
THEOREM StopsAreFinal == Spec => StopIsFinal
  <1>1. IInv /\ [Next]_vars
          => [worker # "none" /\ state # "RUNNING" /\ worker' # "none"
                => state' # "RUNNING"]_vars
    BY OnlyRunStarts
  <1> QED  BY <1>1, Invariance, PTL DEF Spec, StopIsFinal

-----------------------------------------------------------------------------
\* What the user is shown changes only by a command at the prompt, by the
\* reload of a reset and by an instruction.
LEMMA OnlyTheseChange ==
  ASSUME [Next]_vars, shown' # shown
  PROVE  \/ mainPc = "prompt" /\ (CmdLoad \/ CmdDelete \/ \E a \in Addr : CmdBreak(a))
         \/ mainPc = "resetLoad"
         \/ worker = "exec" /\ hWorker = "none"
  <1> USE DEF hostVars, bkptVars, localVars, machineVars, sigVars, consoleVars, shown
  <1>1. UNCHANGED vars => FALSE
    BY DEF vars
  <1>2. UserStep => \/ mainPc = "prompt" /\ (CmdLoad \/ CmdDelete)
                    \/ mainPc = "prompt" /\ \E a \in Addr : CmdBreak(a)
    <2>1. ~CmdQuit /\ ~Answer /\ \A n \in Requests : ~CmdRun(n) /\ ~CmdResume(n)
      BY DEF CmdRun, CmdResume, CmdQuit, Answer
    <2>2. CmdLoad \/ CmdDelete => mainPc = "prompt"
      BY DEF CmdDelete, CmdLoad
    <2>3. \A a \in Addr : CmdBreak(a) => mainPc = "prompt"
      BY DEF CmdBreak
    <2> QED  BY <2>1, <2>2, <2>3 DEF UserStep
  <1>3. MainStep => mainPc = "resetLoad"
    BY DEF MainStep, Exit, Spin, ResetJoin, ResetLoad, EnterRun, RunJoin, SetRunning,
           Spawn, SpawnFails, Install, Push, Poll, Report, Erase, Uninstall, vars
  <1>4. CtrlC \/ HandlerStep \/ WorkerThrows => FALSE
    BY DEF CtrlC, SigIntDefault, SigIntLost, SigIntMain, SigIntWorker,
           HandlerStep, MainHandlerStep, MainHandlerCheck, MainHandlerStore,
           MainHandlerJoin, WorkerHandlerStep, WorkerHandlerCheck,
           WorkerHandlerStore, WorkerHandlerJoin, WorkerThrows
  <1>5. Work => worker = "exec" /\ hWorker = "none"
    BY DEF Work, WorkerStep, WorkerInit, WorkerLoop, WorkerEnds, Exec, WorkerPublish
  <1> QED  BY <1>1, <1>2, <1>3, <1>4, <1>5 DEF Next, Stopped

\* What a command has reported is what the machine, the symbols and the
\* breakpoints are until a command changes them.
THEOREM ReportsAreFinal == Spec => ReportIsFinal
  <1>1. IInv /\ [Next]_vars
          => [(mainPc \in MainPcs \ {"resetLoad", "install", "push", "poll"})
                => \/ UNCHANGED shown
                   \/ mainPc = "prompt" /\ (CmdLoad \/ CmdDelete \/ \E a \in Addr : CmdBreak(a))]_vars
    BY OnlyTheseChange DEF IInv, MainWhere, SettledPcs, MainPcs, Quiet
  <1> QED  BY <1>1, Invariance, PTL DEF Spec, ReportIsFinal

-----------------------------------------------------------------------------
\* A step that leaves the pc, the cause, the symbols and the table alone leaves
\* the reasons alone.
LEMMA SameReasons ==
  ASSUME UNCHANGED <<pc, cause, symbols, bkpts>>
  PROVE  (Terminates' <=> Terminates) /\ (Pauses' <=> Pauses)
  BY DEF Terminates, Pauses, Bkpt!Live

\* Nothing has stopped before the first command.
LEMMA InitReasons == Init => Reasons
  BY DEF Init, HostInit, Reasons, CommandPcs

\* A command typed at the prompt gives no reason yet.
LEMMA UserReasons == IInv /\ Reasons /\ UserStep => Reasons'
  <1> SUFFICES ASSUME IInv, Reasons, UserStep PROVE Reasons'
    OBVIOUS
  <1>1. mainPc \in {"prompt", "ask"} /\ mainPc' \notin CommandPcs
    BY DEF UserStep, CmdRun, CmdResume, CmdBreak, CmdDelete, CmdLoad, CmdQuit, Answer,
           Goto, Return, consoleVars, CommandPcs
  <1>2. hMain = "none" /\ hMain' = "none"
    BY <1>1 DEF UserStep, CmdRun, CmdResume, CmdBreak, CmdDelete, CmdLoad, CmdQuit,
           Answer, sigVars, IInv, Registration
  <1> QED  BY <1>1, <1>2 DEF Reasons

\* Spawn starts a worker with the limit that was asked for; the rest of the
\* command only waits for it.
LEMMA MainReasons == IInv /\ Reasons /\ MainStep => Reasons'
  <1> SUFFICES ASSUME IInv, Reasons, MainStep PROVE Reasons'
    OBVIOUS
  <1> USE DEF hostVars, bkptVars, localVars, machineVars, sigVars
  <1>0. hMain = "none" /\ hMain' = "none"
    BY DEF MainStep, Exit, Spin, ResetJoin, ResetLoad, EnterRun, RunJoin, SetRunning,
           Spawn, SpawnFails, Install, Push, Poll, Report, Erase, Uninstall, vars
  <1>1. CASE mainPc' \notin CommandPcs
    BY <1>0, <1>1 DEF Reasons
  <1>2. CASE Spawn
    <2>1. /\ worker' = "init" /\ limit' = request /\ request' = request
          /\ state' = "RUNNING" /\ hWorker' = "none"
      BY <1>2 DEF Spawn, SpawnWorker, Goto, IInv, MainWhere, Registration
    <2> QED  BY <1>0, <2>1 DEF Reasons
  <1>3. CASE Install \/ Push \/ Poll \/ Report \/ Erase
    <2>1. /\ mainPc \in CommandPcs
          /\ UNCHANGED <<state, worker, limit, exitAt, verdict, pc, cause, symbols,
                         bkpts, request, hWorker, sigints>>
      BY <1>3 DEF Install, Push, Poll, Report, Erase, Goto, CommandPcs
    <2> QED  BY <1>0, <2>1, SameReasons DEF Reasons
  <1>4. CASE \/ Exit \/ Spin \/ ResetJoin \/ ResetLoad \/ EnterRun \/ RunJoin
             \/ SetRunning \/ SpawnFails \/ Uninstall
    <2>1. mainPc' \notin CommandPcs
      BY <1>4 DEF Exit, Spin, ResetJoin, ResetLoad, EnterRun, RunJoin, SetRunning,
                  SpawnFails, Uninstall, Goto, Return, vars, consoleVars, CommandPcs
    <2> QED  BY <1>1, <2>1
  <1> QED  BY <1>2, <1>3, <1>4 DEF MainStep

\* A handler stores PAUSED only after a Ctrl-C.
LEMMA SignalReasons == IInv /\ Reasons /\ (CtrlC \/ HandlerStep) => Reasons'
  <1> SUFFICES ASSUME IInv, Reasons, CtrlC \/ HandlerStep PROVE Reasons'
    OBVIOUS
  <1> USE DEF hostVars, bkptVars, localVars, machineVars, sigVars, consoleVars
  <1>1. sigints \in Nat
    BY RunControlAssumption DEF IInv, TypeOK
  <1>2. CASE CtrlC
    <2>1. /\ sigints' > 0
          /\ UNCHANGED <<state, worker, limit, exitAt, verdict, pc, cause, symbols,
                         bkpts, request, mainPc>>
      BY <1>1, <1>2 DEF CtrlC, SigIntDefault, SigIntLost, SigIntMain, SigIntWorker, TypeCtrlC
    <2> QED  BY <2>1, SameReasons DEF Reasons
  <1>3. CASE HandlerStep
    <2>1. /\ UNCHANGED <<limit, exitAt, verdict, pc, cause, symbols, bkpts, request,
                         mainPc, sigints>>
          /\ hMain' # "none" => hMain # "none"
          /\ hWorker' # "none" => hWorker # "none"
          /\ worker' = worker \/ worker' = "none"
          /\ state' = state \/ (state' = "PAUSED" /\ (hMain # "none" \/ hWorker # "none"))
      BY <1>3 DEF HandlerStep, MainHandlerStep, MainHandlerCheck, MainHandlerStore,
           MainHandlerJoin, WorkerHandlerStep, WorkerHandlerCheck, JoinWorker,
           WorkerHandlerStore, WorkerHandlerJoin
    <2> QED  BY <2>1, SameReasons DEF Reasons
  <1> QED  BY <1>2, <1>3

\* The worker decides by its reasons and stores what it has decided, and leaves
\* the machine after that.
LEMMA WorkReasons == IInv /\ Reasons /\ (Work \/ WorkerThrows) => Reasons'
  <1> SUFFICES ASSUME IInv, Reasons, Work \/ WorkerThrows PROVE Reasons'
    OBVIOUS
  <1> USE DEF hostVars, bkptVars, localVars, machineVars, sigVars, consoleVars
  <1>1. CASE WorkerThrows
    <2>1. UNCHANGED <<state, worker, limit, exitAt, verdict, pc, cause, symbols,
                      bkpts, request, mainPc, hMain, hWorker, sigints>>
      BY <1>1 DEF WorkerThrows
    <2> QED  BY <2>1, SameReasons DEF Reasons
  <1> SUFFICES ASSUME Work PROVE Reasons'
    BY <1>1
  <1>2. UNCHANGED <<bkpts, request, mainPc, hMain, hWorker, sigints>>
    BY DEF Work, WorkerStep
  <1>3. CASE WorkerInit
    <2>1. /\ worker = "init" /\ worker' = "loop" /\ exitAt' = symbols.exit
          /\ UNCHANGED <<state, limit, verdict, pc, cause, symbols>>
      BY <1>3 DEF WorkerInit
    <2> QED  BY <1>2, <2>1, SameReasons DEF Reasons
  <1>4. CASE WorkerLoop
    <2>1. /\ worker = "loop" /\ worker' = "exec" /\ state = "RUNNING"
          /\ UNCHANGED <<state, limit, exitAt, verdict, pc, cause, symbols>>
      BY <1>4 DEF WorkerLoop
    <2> QED  BY <1>2, <2>1, SameReasons DEF Reasons
  <1>5. CASE WorkerEnds
    <2>1. /\ worker = "loop" /\ worker' = "done"
          /\ UNCHANGED <<state, pc, cause, symbols>>
      BY <1>5 DEF WorkerEnds
    <2> QED  BY <1>2, <2>1, SameReasons DEF Reasons
  <1>6. ASSUME NEW e \in Causes \cup {"none"}, NEW p \in Addr, Exec(e, p)
        PROVE  Reasons'
    <2> DEFINE n == IF limit = 0 THEN count ELSE count + 1
               v == Verdict(n, cause', pc')
    <2>1. /\ worker = "exec" /\ verdict' = v
          /\ worker' = IF v = "RUNNING" THEN "loop" ELSE "publish"
          /\ UNCHANGED <<state, limit, exitAt, symbols>>
      BY <1>6 DEF Exec
    <2>2. CASE mainPc \notin CommandPcs
      BY <1>2, <2>2 DEF Reasons
    <2>3. CASE mainPc \in CommandPcs
      <3>1. exitAt = symbols.exit
        BY <2>1, <2>3 DEF Reasons
      <3>2. limit = 0 => ~LimitHit(n)
        BY DEF LimitHit
      <3>3. v = "TERMINATED" => Terminates'
        BY <1>2, <2>1, <3>1 DEF Verdict, Terminates, Bkpt!Live
      <3>4. v = "PAUSED" /\ limit = 0 => Pauses'
        BY <1>2, <3>2 DEF Verdict, Pauses, Bkpt!Live
      <3>5. /\ state # "TERMINATED"
            /\ ~(state = "PAUSED" /\ request = 0 /\ sigints = 0)
        BY <2>1, <2>3 DEF Reasons
      <3> QED  BY <1>2, <2>1, <2>3, <3>3, <3>4, <3>5 DEF Reasons
    <2> QED  BY <2>2, <2>3
  <1>7. CASE WorkerPublish
    <2>1. /\ worker = "publish" /\ worker' = "loop" /\ state' = verdict
          /\ verdict \in {"PAUSED", "TERMINATED"}
          /\ UNCHANGED <<limit, exitAt, verdict, pc, cause, symbols>>
      BY <1>7 DEF WorkerPublish, IInv, Budget
    <2> QED  BY <1>2, <2>1, SameReasons DEF Reasons
  <1> QED  BY <1>3, <1>4, <1>5, <1>6, <1>7 DEF Work, WorkerStep

\* Why a program has stopped is known as long as a command waits for it.
LEMMA ReasonsHold == Spec => []Reasons
  <1>1. IInv /\ Reasons /\ UNCHANGED vars => Reasons'
    BY SameReasons DEF Reasons, vars, hostVars, bkptVars, consoleVars, sigVars, localVars
  <1>2. IInv /\ Reasons /\ [Next]_vars => Reasons'
    BY <1>1, UserReasons, MainReasons, SignalReasons, WorkReasons DEF Next, Stopped
  <1> QED  BY <1>2, InitReasons, Invariance, PTL DEF Spec

\* The state a command reports has the reason it stands for.
THEOREM StopsHaveReasons == Spec => []StopHasReason
  <1>1. IInv /\ Reasons => StopHasReason
    <2> SUFFICES ASSUME IInv, Reasons, mainPc \in {"report", "erase", "uninstall"}
                 PROVE  /\ state \in {"PAUSED", "TERMINATED"}
                        /\ state = "TERMINATED" => Terminates
                        /\ state = "PAUSED" /\ request = 0 /\ sigints = 0 => Pauses
      BY DEF StopHasReason
    <2>1. state # "RUNNING"
      BY DEF IInv, MainWhere, SettledPcs, CommandPcs, MainPcs
    <2> QED  BY <2>1 DEF Reasons, CommandPcs, IInv, TypeOK, HostTypeOK, States
  <1> QED  BY <1>1, ReasonsHold, Invariance, PTL

-----------------------------------------------------------------------------
\* RunControl implements Debuggee.
\* The initial states map to initial states.
LEMMA InitMaps == Init => Promise!Init
  BY SimHostAssumption
     DEF Init, HostInit, Promise!Init, Executing, machineVars, Causes

\* A step that leaves the machine, the tables, the worker, its handler, its
\* locals and m_state alone maps to a stutter.
mapped == <<worker, hWorker, limit, count, pc, cause, symbols, bkpts, bkptCount>>

LEMMA SameMaps ==
  ASSUME UNCHANGED <<mapped, state>>
  PROVE  UNCHANGED Promise!vars
  BY DEF mapped, Promise!vars, Executing, machineVars

\* So does a change of m_state while there is no worker at work.
LEMMA SettledMaps ==
  ASSUME UNCHANGED mapped,
         worker \in {"none", "done"} \/ (state # "RUNNING" /\ state' # "RUNNING")
  PROVE  UNCHANGED Promise!vars
  BY DEF mapped, Promise!vars, Executing, machineVars

\* Commands typed at the prompt are commands of Debuggee, and the program is
\* stopped then.
LEMMA UserMaps ==
  ASSUME IInv, IInv', UserStep
  PROVE  Promise!Next \/ UNCHANGED Promise!vars
  <1>1. (machineVars \in Addr \X Causes)'
    BY DEF IInv, TypeOK, HostTypeOK, machineVars
  <1>2. mainPc \in SettledPcs => ~Executing
    BY DEF IInv, MainWhere, Quiet, Executing
  <1>3. CASE CmdLoad \/ CmdDelete \/ \E a \in Addr : CmdBreak(a)
    <2>1. /\ mainPc = "prompt"
          /\ UNCHANGED <<worker, hWorker, limit, count, state>>
      BY <1>3 DEF CmdLoad, CmdDelete, CmdBreak, hostVars, localVars, sigVars
    <2>2. Promise!Command
      BY <1>1, <1>2, <2>1
         DEF Promise!Command, Executing, SettledPcs, MainPcs
    <2> QED  BY <2>2 DEF Promise!Next
  <1>4. CASE CmdQuit \/ \E n \in Requests : CmdRun(n) \/ CmdResume(n)
    BY <1>4, SameMaps
       DEF CmdQuit, CmdRun, CmdResume, Goto, mapped, hostVars, bkptVars, sigVars
  <1>5. CASE Answer
    <2>1. UNCHANGED mapped
      BY <1>5 DEF Answer, Goto, Return, mapped, localVars, machineVars, bkptVars, sigVars
    <2>2. state' = state \/ (worker \in {"none", "done"})
            \/ (state # "RUNNING" /\ state' # "RUNNING")
      BY <1>5 DEF Answer, IInv, MainWhere, SettledPcs, MainPcs
    <2> QED  BY <2>1, <2>2, SameMaps, SettledMaps
  <1> QED  BY <1>3, <1>4, <1>5 DEF UserStep

\* The main thread starts an execution where it spawns the worker; otherwise
\* it waits, or reloads a machine that no thread uses.
LEMMA MainMaps ==
  ASSUME IInv, IInv', MainStep
  PROVE  Promise!Next \/ UNCHANGED Promise!vars
  <1> USE DEF hostVars, bkptVars, localVars, machineVars, sigVars
  <1>1. CASE Exit \/ ResetJoin \/ RunJoin
    <2>1. UNCHANGED <<hWorker, limit, count, pc, cause, symbols, bkpts, bkptCount, state>>
      BY <1>1 DEF Exit, ResetJoin, RunJoin
    <2>2. worker' = worker \/ (worker = "done" /\ worker' = "none")
      BY <1>1 DEF Exit, ResetJoin, RunJoin, JoinWorker
    <2> QED  BY <2>1, <2>2 DEF Promise!vars, Executing
  <1>2. CASE SetRunning
    <2>1. UNCHANGED mapped /\ worker = "none"
      BY <1>2 DEF SetRunning, mapped, IInv, MainWhere
    <2> QED  BY <2>1, SettledMaps
  <1>3. CASE ResetLoad
    <2>1. (machineVars \in Addr \X Causes)'
      BY DEF IInv, TypeOK, HostTypeOK, machineVars
    <2>2. worker = "none" /\ UNCHANGED <<worker, hWorker, limit, count, state>>
      BY <1>3 DEF ResetLoad, IInv, MainWhere
    <2>3. Promise!Command
      BY <2>1, <2>2 DEF Promise!Command, Executing
    <2> QED  BY <2>3 DEF Promise!Next
  <1>4. CASE Spawn
    <2>1. /\ worker = "none" /\ hWorker = "none" /\ count = 0
          /\ request \in Requests \cup {0}
      BY <1>4 DEF Spawn, IInv, MainWhere, Registration, Budget, TypeOK
    <2>2. /\ worker' = "init" /\ limit' = request
          /\ UNCHANGED <<hWorker, count, pc, cause, symbols, bkpts, bkptCount>>
      BY <1>4 DEF Spawn, SpawnWorker
    <2>3. Executing' /\ ~Executing
      BY <2>1, <2>2 DEF Executing
    <2>4. Promise!Start(request)
      BY <2>1, <2>2, <2>3, RunControlAssumption DEF Promise!Start
    <2> QED  BY <2>1, <2>4 DEF Promise!Next
  <1>5. CASE \/ Spin \/ EnterRun \/ SpawnFails \/ Install \/ Push \/ Poll
             \/ Report \/ Erase \/ Uninstall
    BY <1>5, SameMaps
       DEF Spin, EnterRun, SpawnFails, Install, Push, Poll, Report, Erase,
           Uninstall, vars, mapped
  <1> QED  BY <1>1, <1>2, <1>3, <1>4, <1>5 DEF MainStep

\* A handler stops the execution where it stores PAUSED, unless the worker is
\* inside an instruction, and dooms it where the worker is about to join itself.
LEMMA SignalMaps ==
  ASSUME IInv, IInv', CtrlC \/ HandlerStep
  PROVE  Promise!Next \/ UNCHANGED Promise!vars
  <1> USE DEF hostVars, bkptVars, localVars, machineVars, sigVars
  <1>1. CASE \/ CtrlC \/ MainHandlerCheck \/ WorkerHandlerJoin
             \/ (WorkerHandlerCheck /\ UNCHANGED hWorker)
    <2>1. UNCHANGED <<worker, limit, count, pc, cause, symbols, bkpts, bkptCount, state>>
      BY <1>1 DEF CtrlC, SigIntDefault, SigIntLost, SigIntMain, SigIntWorker,
                  MainHandlerCheck, WorkerHandlerJoin, WorkerHandlerCheck
    <2>2. hWorker' = hWorker \/ (hWorker = "none" /\ hWorker' = "check")
      BY <1>1 DEF CtrlC, SigIntDefault, SigIntLost, SigIntMain, SigIntWorker,
                  MainHandlerCheck, WorkerHandlerJoin
    <2> QED  BY <2>1, <2>2 DEF Promise!vars, Executing
  <1>2. CASE WorkerHandlerCheck
    <2>1. UNCHANGED <<worker, limit, count, pc, cause, symbols, bkpts, bkptCount, state>>
      BY <1>2 DEF WorkerHandlerCheck
    <2>2. hWorker # "join" /\ hWorker' # "join"
      BY <1>2 DEF WorkerHandlerCheck
    <2> QED  BY <2>1, <2>2 DEF Promise!vars, Executing
  <1>3. CASE MainHandlerStore
    <2>1. UNCHANGED mapped /\ state' = "PAUSED"
      BY <1>3 DEF MainHandlerStore, mapped
    <2>2. ~Executing' => Promise!Next \/ UNCHANGED Promise!vars
      <3>1. CASE Executing /\ ~Executing'
        <4>1. hWorker # "join" /\ hWorker' # "join"
          BY <2>1, <3>1 DEF Executing, mapped
        <4>2. Promise!Stop
          BY <2>1, <3>1, <4>1 DEF Promise!Stop, Promise!Halt, mapped
        <4> QED  BY <4>2 DEF Promise!Next
      <3>2. CASE ~Executing /\ ~Executing'
        BY <2>1, <3>2 DEF Promise!vars, mapped
      <3> QED  BY <3>1, <3>2
    <2>3. Executing' => Executing
      BY <2>1 DEF Executing, mapped
    <2>4. CASE Executing' /\ Executing
      BY <2>1, <2>4 DEF Promise!vars, mapped
    <2> QED  BY <2>2, <2>3, <2>4
  <1>4. CASE MainHandlerJoin
    <2>1. /\ worker = "done" /\ worker' = "none"
          /\ UNCHANGED <<hWorker, limit, count, pc, cause, symbols, bkpts, bkptCount, state>>
      BY <1>4 DEF MainHandlerJoin, JoinWorker
    <2> QED  BY <2>1 DEF Promise!vars, Executing
  <1>5. CASE WorkerHandlerStore
    <2>1. /\ hWorker = "store" /\ hWorker' = "join"
          /\ UNCHANGED <<worker, limit, count, pc, cause, symbols, bkpts, bkptCount>>
      BY <1>5 DEF WorkerHandlerStore
    <2>2. ~Executing'
      BY <2>1 DEF Executing
    <2>3. Promise!Doom
      BY <2>1, <2>2 DEF Promise!Doom, Promise!Halt
    <2> QED  BY <2>3 DEF Promise!Next
  <1> QED  BY <1>1, <1>2, <1>3, <1>4, <1>5
           DEF HandlerStep, MainHandlerStep, WorkerHandlerStep

\* The worker executes, or stops where its loop finds m_state changed.
LEMMA WorkMaps ==
  ASSUME IInv, IInv', Work \/ WorkerThrows
  PROVE  Promise!Next \/ UNCHANGED Promise!vars
  <1> USE DEF hostVars, bkptVars, localVars, machineVars, sigVars
  <1>1. CASE WorkerThrows
    BY <1>1, SameMaps DEF WorkerThrows, mapped
  <1> SUFFICES ASSUME Work PROVE Promise!Next \/ UNCHANGED Promise!vars
    BY <1>1
  <1>2. hWorker = "none" /\ hWorker' = "none" /\ UNCHANGED bkptVars
    BY DEF Work, WorkerStep
  <1>3. CASE WorkerInit
    <2>1. /\ worker = "init" /\ worker' = "loop"
          /\ UNCHANGED <<limit, count, pc, cause, symbols, state>>
      BY <1>3 DEF WorkerInit
    <2>2. CASE state = "RUNNING"
      BY <1>2, <2>1, <2>2 DEF Promise!vars, Executing
    <2>3. CASE state # "RUNNING"
      <3>1. Executing /\ ~Executing'
        BY <1>2, <2>1, <2>3 DEF Executing
      <3>2. Promise!Stop
        BY <1>2, <2>1, <3>1 DEF Promise!Stop, Promise!Halt
      <3> QED  BY <3>2 DEF Promise!Next
    <2> QED  BY <2>2, <2>3
  <1>4. CASE WorkerLoop
    BY <1>2, <1>4 DEF WorkerLoop, Promise!vars, Executing
  <1>5. CASE WorkerEnds
    <2>1. ~Executing /\ ~Executing'
      BY <1>5 DEF WorkerEnds, Executing
    <2> QED  BY <1>2, <1>5, <2>1 DEF WorkerEnds, Promise!vars
  <1>6. ASSUME NEW e \in Causes \cup {"none"}, NEW p \in Addr, Exec(e, p)
        PROVE  Promise!Next
    <2>1. machineVars' \in Addr \X Causes
      BY DEF IInv, TypeOK, HostTypeOK
    <2>2. Executing /\ (limit > 0 => count < limit) /\ limit \in Nat /\ count \in Nat
      BY <1>2, <1>6 DEF Exec, Executing, IInv, Budget, TypeOK, HostTypeOK
    <2>3. /\ worker' \in {"loop", "publish"}
          /\ count' = IF limit = 0 THEN count ELSE count + 1
          /\ UNCHANGED <<state, limit, symbols>>
      BY <1>6 DEF Exec
    <2>4. CASE Executing'
      <3>1. (IF Executing' /\ limit' > 0 THEN limit' - count' ELSE 0)
              = IF limit = 0 THEN 0 ELSE (limit - count) - 1
        BY <2>2, <2>3, <2>4
      <3> QED  BY <1>2, <2>1, <2>2, <2>3, <2>4, <3>1
               DEF Promise!Execute, Promise!Next
    <2>5. CASE ~Executing'
      BY <1>2, <2>1, <2>2, <2>3, <2>5 DEF Promise!Execute, Promise!Next, Promise!Halt
    <2> QED  BY <2>4, <2>5
  <1>7. CASE WorkerPublish
    <2>1. /\ worker = "publish" /\ worker' = "loop" /\ state' # "RUNNING"
          /\ UNCHANGED <<limit, count, pc, cause, symbols>>
      BY <1>7 DEF WorkerPublish, IInv, Budget
    <2>2. Executing /\ ~Executing'
      BY <1>2, <2>1 DEF Executing
    <2>3. Promise!Stop
      BY <1>2, <2>1, <2>2 DEF Promise!Stop, Promise!Halt
    <2> QED  BY <2>3 DEF Promise!Next
  <1> QED  BY <1>3, <1>4, <1>5, <1>6, <1>7 DEF Work, WorkerStep

\* Every step maps to a step of Debuggee or to a stutter.
LEMMA StepMaps == IInv /\ IInv' /\ [Next]_vars => [Promise!Next]_(Promise!vars)
  <1>1. ASSUME UNCHANGED vars PROVE UNCHANGED Promise!vars
    BY <1>1, SameMaps DEF vars, mapped, hostVars, bkptVars, sigVars
  <1> QED  BY <1>1, UserMaps, MainMaps, SignalMaps, WorkMaps DEF Next, Stopped

\* The debugger, with its threads and signals, implements Debuggee: only an
\* execution runs instructions, within its limit, and commands touch the
\* machine and the tables only when there is none.
THEOREM Implements == Spec => KeepsPromise
  BY InitMaps, StepMaps, Invariance, PTL DEF Spec, KeepsPromise, Promise!Spec
=============================================================================
