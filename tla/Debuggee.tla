------------------------------ MODULE Debuggee ------------------------------
(***************************************************************************)
(* What the debugger promises about the program it debugs, without threads *)
(* or signals.  The program executes or is stopped.  Only an execution     *)
(* runs instructions, no more of them than it was started with; only when  *)
(* it does not execute can commands change the machine or the tables.      *)
(* A doomed program will never run an instruction again: the process is    *)
(* about to abort.                                                         *)
(***************************************************************************)
EXTENDS Integers

CONSTANTS Machine, Budgets

VARIABLES
    mode,       \* "stopped", "executing" or "doomed"
    machine,    \* the simulated machine
    tables,     \* the symbols and breakpoints
    left,       \* instructions the execution may still run
    unlimited   \* unless it has no limit

vars == <<mode, machine, tables, left, unlimited>>

Init ==
    /\ mode = "stopped"
    /\ machine \in Machine
    /\ left = 0
    /\ unlimited = FALSE

\* run, continue or step: n = 0 is no limit.
Start(n) ==
    /\ mode = "stopped"
    /\ mode' = "executing"
    /\ left' = n
    /\ unlimited' = (n = 0)
    /\ UNCHANGED <<machine, tables>>

Halt == left' = 0 /\ unlimited' = FALSE

\* The last instruction may be the one that ends the execution.
Execute ==
    /\ mode = "executing"
    /\ unlimited \/ left > 0
    /\ machine' \in Machine
    /\ \/ /\ left' = IF unlimited THEN 0 ELSE left - 1
          /\ UNCHANGED <<mode, unlimited>>
       \/ mode' = "stopped" /\ Halt
    /\ UNCHANGED tables

\* A limit, a breakpoint, the end of the program, Ctrl-C.
Stop ==
    /\ mode = "executing"
    /\ mode' = "stopped"
    /\ Halt
    /\ UNCHANGED <<machine, tables>>

Doom ==
    /\ mode # "doomed"
    /\ mode' = "doomed"
    /\ Halt
    /\ UNCHANGED <<machine, tables>>

Command ==
    /\ mode # "executing"
    /\ machine' \in Machine
    /\ UNCHANGED <<mode, left, unlimited>>

Next == (\E n \in Budgets : Start(n)) \/ Execute \/ Stop \/ Doom \/ Command

Spec == Init /\ [][Next]_vars
=============================================================================
