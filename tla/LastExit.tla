------------------------------- MODULE LastExit -------------------------------
(***************************************************************************)
(* Persistence with a history variable: for each history state, what was   *)
(* active below its parent when the parent was last left.  It is computed  *)
(* from the configurations alone and never read by the interpreter, whose  *)
(* own record (Snap::historyValue) is compared with it.                    *)
(***************************************************************************)
EXTENDS Persistence

VARIABLES
    left,        \* what was active at the last exit; {} before the first one
    leftBefore   \* the same when the present macrostep began

witnessed == <<vars, left, leftBefore>>

\* The step leaves p, for good or to enter it again.
Leaves(p) == p \in cfg /\ (p \notin cfg' \/ p \in last'.entered)

\* What is active below the parent of h: the innermost states, or its children.
ActiveBelow(h) ==
    IF m.type[h] = "deep" THEN {a \in Atomic : Below(a, m.parent[h])}
    ELSE Children(m.parent[h]) \cap cfg

\* A macrostep that throws never happened.
Undone == phase = "running" /\ status' = "error"

Witness ==
    /\ left' = IF Undone THEN leftBefore
               ELSE [h \in History |-> IF Leaves(m.parent[h]) THEN ActiveBelow(h)
                                       ELSE left[h]]
    /\ leftBefore' = CASE phase' = "idle" -> left'
                       [] phase = "idle" /\ phase' = "running" -> left
                       [] OTHER -> leftBefore

WitnessedInit ==
    /\ Init
    /\ left = [h \in History |-> {}]
    /\ leftBefore = left
WitnessedNext == DurableNext /\ Witness
WitnessedSpec == WitnessedInit /\ [][WitnessedNext]_witnessed /\ Fairness

-----------------------------------------------------------------------------
(* Properties *)

\* What the snapshot holds for a history state is what was active when its
\* parent was last left, however many events, microsteps and restarts ago: an
\* exit overwrites it, also one whose parent is entered again in the same
\* microstep, and nothing else does; a macrostep that throws takes its exits
\* back ("captured against the pre-exit configuration", machine.hpp:789).
HistoryIsLastExit == hist = left

\* Targeting a history state whose parent was active before brings back what
\* was active when the parent was last left: the same innermost states (deep)
\* or the same children (shallow), and nothing else (machine.hpp:590-632).
HistoryRestored ==
    \A t \in Range(last.taken) : \A h \in Range(m.trans[t].targets) \cap History :
        left[h] # {} =>
            CASE m.type[h] = "shallow" -> Children(m.parent[h]) \cap cfg = left[h]
              [] m.type[h] = "deep" ->
                    {a \in Atomic : Below(a, m.parent[h])} = left[h]
=============================================================================
