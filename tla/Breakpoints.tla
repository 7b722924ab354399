---------------------------- MODULE Breakpoints ----------------------------
(***************************************************************************)
(* The host breakpoint table of class SimHost: m_breakpoints, an           *)
(* unordered_map from address to breakpoint number, and m_breakpointCount, *)
(* the counter that numbers are drawn from.  The console's break and       *)
(* delete commands are its only clients; the simulator's worker thread     *)
(* looks addresses up in it.                                               *)
(***************************************************************************)
EXTENDS Integers

CONSTANTS
    Addr,       \* addresses a breakpoint can be set on
    UIntMod,    \* 2^32 in the code: the range of unsigned int
    ULongMod,   \* 2^64 in the code: the range of the unsigned long of stoul
    MaxCount    \* bound on the number of breakpoints ever created

ASSUME BreakpointsAssumption ==
    /\ MaxCount \in Nat
    /\ UIntMod \in Nat /\ UIntMod > MaxCount
    /\ ULongMod \in Nat /\ ULongMod >= UIntMod

VARIABLES
    bkpts,      \* m_breakpoints: a function from addresses to numbers
    bkptCount   \* m_breakpointCount

vars == <<bkpts, bkptCount>>

Live == DOMAIN bkpts                      \* addresses with a breakpoint
Numbers == {bkpts[a] : a \in DOMAIN bkpts}  \* numbers in use

Init == bkpts = [a \in {} |-> 0] /\ bkptCount = 0

\* Mutation: the counter goes past its bound.
AddBreakpointPastBound(a) ==
    /\ a \notin Live
    /\ bkptCount <= MaxCount
    /\ bkptCount' = bkptCount + 1
    /\ bkpts' = [x \in Live \cup {a} |->
                     IF x = a THEN bkptCount + 1 ELSE bkpts[x]]

\* Mutation: post- for pre-increment.
AddBreakpointPostIncrement(a) ==
    /\ a \notin Live
    /\ bkptCount < MaxCount
    /\ bkptCount' = bkptCount + 1
    /\ bkpts' = [x \in Live \cup {a} |->
                     IF x = a THEN bkptCount ELSE bkpts[x]]

\* An address that already has a breakpoint makes AddBreakpoint throw: break
\* reports the error and nothing changes.
AddBreakpoint(a) ==
    /\ a \notin Live
    /\ bkptCount < MaxCount
    /\ bkptCount' = bkptCount + 1
    /\ bkpts' = [x \in Live \cup {a} |->
                     IF x = a THEN bkptCount + 1 ELSE bkpts[x]]

\* Mutation: the counter counts the breakpoints that are left.
RemoveBreakpointRecounts(n) ==
    \E a \in Live :
        /\ bkpts[a] = n
        /\ bkpts' = [x \in Live \ {a} |-> bkpts[x]]
        /\ bkptCount' = bkptCount - 1

\* find_if over the values, then erase; an unknown number throws.
RemoveBreakpoint(n) ==
    \E a \in Live :
        /\ bkpts[a] = n
        /\ bkpts' = [x \in Live \ {a} |-> bkpts[x]]
        /\ UNCHANGED bkptCount

\* "delete n": stoul yields an unsigned long, stored in an unsigned int.
DeleteNumber(n) == RemoveBreakpoint(n % UIntMod)

\* Mutation: the counter is reset.
ClearBreakpointsAndCount ==
    /\ bkpts' = [a \in {} |-> 0]
    /\ bkptCount' = 0

\* "delete" without a number.  The counter is not reset.
ClearBreakpoints ==
    /\ bkpts' = [a \in {} |-> 0]
    /\ UNCHANGED bkptCount

Next ==
    \/ \E a \in Addr : AddBreakpoint(a)
    \/ \E n \in 0 .. ULongMod - 1 : DeleteNumber(n)
    \/ ClearBreakpoints

Spec == Init /\ [][Next]_vars

-----------------------------------------------------------------------------
\* Types: the table maps addresses to numbers drawn from the counter's range.
TypeOK ==
    /\ bkptCount \in 0 .. MaxCount
    /\ Live \subseteq Addr
    /\ bkpts \in [Live -> Nat]

\* Every number in the table was issued by the counter, and zero never is.
NumbersIssued == \A a \in Live : bkpts[a] \in 1 .. bkptCount

\* A number names one breakpoint: RemoveBreakpoint's find_if, which stops at
\* the first match of an unordered iteration, can find only one.
NumbersUnique == \A a, b \in Live : bkpts[a] = bkpts[b] => a = b

\* A step revives no number: the counter keeps what it has issued, and a number
\* that was issued and has left the table stays out of it.
NoneRevived ==
    /\ bkptCount' >= bkptCount
    /\ \A n \in 1 .. bkptCount : n \notin Numbers => n \notin Numbers'

\* ClearBreakpoints notes "we don't reset the breakpoint counter": a number
\* that was issued and is no longer in the table never names a breakpoint
\* again, whatever is added, deleted or cleared in between.
RetiredStaysRetired == [][NoneRevived]_vars
=============================================================================
