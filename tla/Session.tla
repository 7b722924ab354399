------------------------------ MODULE Session ------------------------------
(***************************************************************************)
(* main, class Console and the commands as it sees them: the file and the  *)
(* script of the command line, then the prompt.  Loading is module         *)
(* Loader's, step by step; a run of the program is a place where Execute   *)
(* happens until the worker stops (how it stops is module RunControl's).   *)
(*                                                                         *)
(* What a command returns decides where a script goes on; an exception     *)
(* that a command lets through ends the process, by runFromScript's catch  *)
(* or by nobody's.                                                         *)
(***************************************************************************)
EXTENDS Loader

CONSTANTS
    Script      \* scripts, as sequences of lines

\* What a line can ask for: one of the commands below, a command that only
\* prints or changes a table ("other"), one used wrongly ("usage"), an unknown
\* one or an empty line ("unknown"), help on an unknown command ("helpless").
Verb == {"load", "run", "resume", "other", "usage", "unknown", "helpless", "quit"}
Line == [verb : Verb, path : Path]

ASSUME SessionAssumption == \A s \in Script : s \in Seq(Line)

VARIABLES
    where,      \* where the main thread is
    from,       \* where the command that is carried out came from, or "main"
    lines,      \* the rest of the script
    scripted,   \* the session runs inside runFromScript
    state,      \* m_state
    exit        \* the exit status of the process

consoleVars == <<where, from, lines, scripted, state, exit>>
vars == <<loaderVars, consoleVars>>

Ended == {"exited", "aborted"}
Places == {"script", "prompt"}

\* main: the executable of the command line, if there is one, is loaded; a
\* script is run if there is one.  A bad command line and --help end here.
Init ==
    /\ LoaderInit
    /\ where = "main" /\ from = "main"
    /\ scripted \in BOOLEAN
    /\ lines \in IF scripted THEN Script ELSE {<<>>}
    /\ state = "IDLE"
    /\ exit = "none"

Exits(code) == where' = "exited" /\ exit' = code

\* An exception that a command lets through: runFromScript catches it.
Escapes ==
    \/ scripted /\ Exits("-1")
    \/ ~scripted /\ where' = "aborted" /\ exit' = "signal"

BadCommandLine ==
    /\ where = "main"
    /\ Exits("0") \/ Exits("-1")
    /\ UNCHANGED <<loaderVars, from, lines, scripted, state>>

MainLoads ==
    /\ where = "main"
    /\ \E p \in Path : LoadFile(p)
    /\ where' = "loading"
    /\ UNCHANGED <<from, lines, scripted, state, exit>>

\* main returns what LoadFile returned if it is not 0, and catches nothing.
MainLoaded ==
    /\ where = "loading" /\ from = "main" /\ at = "idle"
    /\ \/ ret = "ok" /\ where' = "console" /\ UNCHANGED exit
       \/ ret = "error" /\ Exits("-1")
       \/ ret = "out_of_range" /\ where' = "aborted" /\ exit' = "signal"
    /\ UNCHANGED <<loaderVars, from, lines, scripted, state>>

\* Console::run, or runFromScript, whose file may be missing.
ConsoleStarts ==
    /\ where \in {"main", "console"}
    /\ \/ scripted /\ where' = "script" /\ UNCHANGED exit
       \/ scripted /\ Exits("-1")
       \/ ~scripted /\ where' = "prompt" /\ UNCHANGED exit
    /\ UNCHANGED <<loaderVars, from, lines, scripted, state>>

-----------------------------------------------------------------------------
\* The next line is that command.
Reads(verb, p) ==
    \/ where = "prompt" /\ UNCHANGED lines
    \/ /\ where = "script"
       /\ lines # <<>>
       /\ Head(lines) = [verb |-> verb, path |-> p]
       /\ lines' = Tail(lines)

\* A command that was read at place returns to Console::run or runFromScript.
Returned(place, result) ==
    /\ from' = "main"
    /\ \/ result = "QUIT" /\ Exits("0")
       \/ result = "ERROR" /\ where' = "prompt" /\ UNCHANGED exit
       \/ result = "OK" /\ where' = place /\ UNCHANGED exit

\* Commands that change nothing of the machine.  At the prompt, the end of
\* the input is a quit, and so is what linenoise gives up on.
CmdSimple(p) ==
    /\ \/ Reads("other", p) /\ Returned(where, "OK")
       \/ Reads("unknown", p) /\ Returned(where, "OK")
       \/ Reads("usage", p) /\ Returned(where, "ERROR")
       \/ Reads("quit", p) /\ Returned(where, "QUIT")
       \* printHelpCmd goes through a null pointer.
       \/ Reads("helpless", p) /\ where' = "aborted" /\ exit' = "signal" /\ UNCHANGED from
    /\ UNCHANGED <<loaderVars, scripted, state>>

CmdLoad(p) ==
    /\ Reads("load", p)
    /\ LoadFile(p)
    /\ where' = "loading" /\ from' = where
    /\ UNCHANGED <<scripted, state, exit>>

\* What LoadFile throws is an error; what it returns is not looked at.
LoadReturns ==
    /\ where = "loading" /\ from \in Places /\ at = "idle"
    /\ Returned(from, IF ret = "out_of_range" THEN "ERROR" ELSE "OK")
    /\ UNCHANGED <<loaderVars, lines, scripted, state>>

CmdRun(p) ==
    /\ Reads("run", p)
    /\ where' = IF state = "PAUSED" THEN "asking" ELSE "starting"
    /\ from' = where
    /\ UNCHANGED <<loaderVars, scripted, state, exit>>

\* "Would you like to restart?" is asked of the user, in a script too.
Answer ==
    /\ where = "asking"
    /\ \/ Returned(from, "OK") /\ UNCHANGED <<loaderVars, state>>
       \/ ResetSim /\ state' = "IDLE" /\ where' = "resetting" /\ UNCHANGED <<from, exit>>
    /\ UNCHANGED <<lines, scripted>>

ResetReturns ==
    /\ where = "resetting" /\ at = "idle"
    /\ \/ ret # "out_of_range" /\ where' = "starting" /\ UNCHANGED exit
       \/ ret = "out_of_range" /\ Escapes
    /\ UNCHANGED <<loaderVars, from, lines, scripted, state>>

\* continue and step.
CmdResume(p) ==
    /\ Reads("resume", p)
    /\ \/ state # "PAUSED" /\ Returned(where, "ERROR")
       \/ state = "PAUSED" /\ where' = "starting" /\ from' = where /\ UNCHANGED exit
    /\ UNCHANGED <<loaderVars, scripted, state>>

\* SimHost::Run, for run, continue and step.
RunStarts ==
    /\ where = "starting"
    /\ state # "RUNNING"
    /\ state' = "RUNNING" /\ where' = "running"
    /\ UNCHANGED <<loaderVars, from, lines, scripted, exit>>

\* It throws, and the command reports an error, when m_state is RUNNING already
\* or when there is no thread to be had, which leaves it RUNNING.
RunFails ==
    /\ where = "starting"
    /\ state' = "RUNNING"
    /\ Returned(from, "ERROR")
    /\ UNCHANGED <<loaderVars, lines, scripted>>

\* Mutation: a program that has ended leaves the machine IDLE.
RunEndsAsIdle ==
    /\ where = "running"
    /\ state' \in {"PAUSED", "IDLE"}
    /\ Returned(from, "OK")
    /\ UNCHANGED <<loaderVars, lines, scripted>>

RunEnds ==
    /\ where = "running"
    /\ state' \in {"PAUSED", "TERMINATED"}
    /\ Returned(from, "OK")
    /\ UNCHANGED <<loaderVars, lines, scripted>>

ProgramSteps == where = "running" /\ Execute /\ UNCHANGED consoleVars

\* A signal, or an exception on the worker's own stack.
RunKills ==
    /\ where = "running"
    /\ where' = "aborted" /\ exit' = "signal"
    /\ UNCHANGED <<loaderVars, from, lines, scripted, state>>

EndOfScript ==
    /\ where = "script" /\ lines = <<>>
    /\ where' = "prompt"
    /\ UNCHANGED <<loaderVars, from, lines, scripted, state, exit>>

Command ==
    \E p \in Path : CmdSimple(p) \/ CmdLoad(p) \/ CmdRun(p) \/ CmdResume(p)

LoaderSteps == where \in {"loading", "resetting"} /\ LoadStep /\ UNCHANGED consoleVars

\* What riscvdb does by itself.
MainStep ==
    \/ BadCommandLine \/ MainLoads \/ MainLoaded \/ ConsoleStarts
    \/ where = "script" /\ Command
    \/ EndOfScript
    \/ LoaderSteps \/ LoadReturns \/ ResetReturns
    \/ RunStarts \/ RunFails

\* What it leaves to the user, to the program and to the rest of the world.
OtherStep ==
    \/ where = "prompt" /\ Command
    \/ Answer
    \/ ProgramSteps \/ RunEnds \/ RunKills
    \/ /\ where \notin Ended
       /\ \E p \in ElfPath, f \in File \cup {NoFile} : Rewrite(p, f)
       /\ UNCHANGED consoleVars

Over == where \in Ended /\ UNCHANGED vars

Next == MainStep \/ OtherStep \/ Over

Spec == Init /\ [][Next]_vars
FairSpec == Spec /\ WF_vars(MainStep)

-----------------------------------------------------------------------------
TypeOK ==
    /\ LoaderTypeOK
    /\ where \in {"main", "console", "loading", "asking", "resetting", "starting",
                  "running"} \cup Places \cup Ended
    /\ from \in {"main"} \cup Places
    /\ lines \in Seq(Line)
    /\ scripted \in BOOLEAN
    /\ state \in {"IDLE", "RUNNING", "PAUSED", "TERMINATED"}
    /\ exit \in {"none", "0", "-1", "signal"}

\* A program that is started while m_state is IDLE, for the first time or by
\* run's restart, finds the registers and CSRs as Reset leaves them and no
\* store of a program in memory, and begins at _start if its load was
\* completed, after any sequence of loads, failures, runs and commands that
\* could not start a thread.  (With any other m_state it finds what the last
\* program has left, a load or not.)
FreshStart ==
    where = "starting" /\ state = "IDLE" =>
        /\ regs = "reset" /\ ~ran
        /\ whole /\ "_start" \in DOMAIN symbols => pc = symbols["_start"]

\* Every load, every reload and every script comes to an end: again and again
\* the session is at the prompt or over, unless the program runs for ever or
\* run's question is never answered.
ComesBack ==
    []<>(where \in {"prompt"} \cup Ended) \/ <>[](where \in {"running", "asking"})
=============================================================================
