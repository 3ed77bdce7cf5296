--------------------------- MODULE ManualAdapters ---------------------------
(***************************************************************************)
(* adapters/manual: a ManualExecutor, whose tasks run when its owner calls *)
(* pump(), and a TestClock, whose timers run when its owner calls          *)
(* advance().  Both belong to one thread.  The owner is taken not to call  *)
(* pump() or advance() from inside a task or a timer.                      *)
(*                                                                         *)
(* Tasks and timers are numbers, given out in the order of the calls.      *)
(***************************************************************************)
EXTENDS Integers, Sequences

CONSTANTS
    Delays,     \* what setTimeout is called with
    Deltas,     \* what advance is called with
    MaxTasks,   \* bound on the tasks ever posted
    MaxTimers,  \* bound on the timers ever set
    MaxTime     \* bound on the virtual time

ASSUME ManualAssumption ==
    /\ Delays \subseteq Nat /\ Deltas \subseteq Nat
    /\ MaxTasks \in Nat /\ MaxTimers \in Nat /\ MaxTime \in Nat

VARIABLES
    queue,      \* queue_
    timers,     \* timers_: deadline and id of each
    given,      \* nextId_ - 1
    now,        \* now_
    end,        \* end, while advance() runs
    inside,     \* the call the owner is in: "none", "pump" or "advance"
    busy,       \* whether a task or a timer is running
    posted      \* how many tasks were posted

vars == <<queue, timers, given, now, end, inside, busy, posted>>

Init ==
    /\ queue = <<>>
    /\ timers = {}
    /\ given = 0
    /\ now = 0
    /\ end = 0
    /\ inside = "none"
    /\ busy = FALSE
    /\ posted = 0

\* The owner, or the task that runs, may call post and the clock's functions.
MayCall == inside = "none" \/ busy

Post ==
    /\ MayCall
    /\ posted < MaxTasks
    /\ posted' = posted + 1
    /\ queue' = Append(queue, posted')
    /\ UNCHANGED <<timers, given, now, end, inside, busy>>

SetTimeout ==
    /\ MayCall
    /\ given < MaxTimers
    /\ given' = given + 1
    /\ \E delay \in Delays : timers' = timers \cup {[id |-> given', at |-> now + delay]}
    /\ UNCHANGED <<queue, now, end, inside, busy, posted>>

ClearTimeout ==
    /\ MayCall
    /\ \E i \in 1 .. given : timers' = {t \in timers : t.id # i}
    /\ UNCHANGED <<queue, given, now, end, inside, busy, posted>>

-----------------------------------------------------------------------------
Pump ==
    /\ inside = "none"
    /\ inside' = "pump"
    /\ UNCHANGED <<queue, timers, given, now, end, busy, posted>>

RunTask ==
    /\ inside = "pump" /\ ~busy /\ queue # <<>>
    /\ queue' = Tail(queue)
    /\ busy' = TRUE
    /\ UNCHANGED <<timers, given, now, end, inside, posted>>

PumpReturns ==
    /\ inside = "pump" /\ ~busy /\ queue = <<>>
    /\ inside' = "none"
    /\ UNCHANGED <<queue, timers, given, now, end, busy, posted>>

Advance ==
    /\ inside = "none"
    /\ \E delta \in Deltas : now + delta <= MaxTime /\ end' = now + delta
    /\ inside' = "advance"
    /\ UNCHANGED <<queue, timers, given, now, busy, posted>>

\* The first entry of the multimap: ties are in the order of insertion.
IsFirst(t) == \A u \in timers : t.at < u.at \/ (t.at = u.at /\ t.id <= u.id)

\* (mutants: a timer that is due but not the first; time jumps to the end)
RunTimerAnyDue ==
    /\ inside = "advance" /\ ~busy
    /\ \E t \in timers : /\ t.at <= end
                         /\ now' = IF t.at > now THEN t.at ELSE now
                         /\ timers' = timers \ {t}
    /\ busy' = TRUE
    /\ UNCHANGED <<queue, given, end, inside, posted>>
RunTimerAtEnd ==
    /\ inside = "advance" /\ ~busy
    /\ \E t \in timers : /\ IsFirst(t)
                         /\ t.at <= end
                         /\ timers' = timers \ {t}
    /\ now' = end
    /\ busy' = TRUE
    /\ UNCHANGED <<queue, given, end, inside, posted>>

\* Virtual time moves to the deadline before the timer runs.
RunTimer ==
    /\ inside = "advance" /\ ~busy
    /\ \E t \in timers : /\ IsFirst(t)
                         /\ t.at <= end
                         /\ now' = t.at
                         /\ timers' = timers \ {t}
    /\ busy' = TRUE
    /\ UNCHANGED <<queue, given, end, inside, posted>>

AdvanceReturns ==
    /\ inside = "advance" /\ ~busy
    /\ \A t \in timers : t.at > end
    /\ now' = end
    /\ inside' = "none"
    /\ UNCHANGED <<queue, timers, given, end, busy, posted>>

TaskEnds ==
    /\ busy
    /\ busy' = FALSE
    /\ UNCHANGED <<queue, timers, given, now, end, inside, posted>>

\* What a task throws leaves pump() or advance(), which does not finish.
TaskThrows ==
    /\ busy
    /\ busy' = FALSE
    /\ inside' = "none"
    /\ UNCHANGED <<queue, timers, given, now, end, posted>>

-----------------------------------------------------------------------------
Calls == Post \/ SetTimeout \/ ClearTimeout
Next == \/ Calls
        \/ Pump \/ RunTask \/ PumpReturns
        \/ Advance \/ RunTimer \/ AdvanceReturns
        \/ TaskEnds \/ TaskThrows

Spec == Init /\ [][Next]_vars

-----------------------------------------------------------------------------
(* Properties *)

Timer == [id : 1 .. given, at : Nat]

\* Every variable has its type.
TypeOK ==
    /\ queue \in Seq(Nat)
    /\ timers \subseteq Timer
    /\ given \in Nat
    /\ now \in Nat
    /\ end \in Nat
    /\ inside \in {"none", "pump", "advance"}
    /\ busy \in BOOLEAN
    /\ posted \in Nat

\* Virtual time never passes over a timer: whatever is set or cleared from
\* inside the timers that run, and if one of them throws half-way through
\* advance(), no timer is left with a deadline in the past ("timers created by
\* this task are relative to its deadline", test_clock.hpp:38).
NothingOverdue == \A t \in timers : now <= t.at

\* The two are a scheduler (that is never closed).
Abstract == INSTANCE Scheduler WITH
    pending <- queue, armed <- timers, given <- given,
    busy <- busy, closed <- FALSE, now <- now
ImplementsScheduler == Abstract!Spec
=============================================================================
