------------------------------ MODULE Scheduler ------------------------------
(***************************************************************************)
(* What interfaces/executor.hpp and interfaces/clock.hpp promise the actor *)
(* system: posted tasks run one at a time in the order they were posted, a *)
(* timer runs at most once, never before its deadline, in deadline order   *)
(* and never at the same time as a task, and closing runs what was posted  *)
(* and discards the timers.  ActorSystem relies on this; EventLoop and     *)
(* ManualAdapters implement it.                                            *)
(***************************************************************************)
EXTENDS Integers, Sequences

CONSTANT Delays  \* what setTimeout is called with, in clock ticks

VARIABLES
    pending,  \* the posted tasks that have not begun, oldest first
    armed,    \* the timers: [id, at]
    given,    \* the number of timer ids given out
    busy,     \* whether a task or a timer is running
    closed,   \* whether anything may still run
    now       \* the clock

schedulerVars == <<pending, armed, given, busy, closed, now>>

Init ==
    /\ pending = <<>>
    /\ armed = {}
    /\ given = 0
    /\ busy = FALSE
    /\ closed = FALSE
    /\ now \in Nat

\* Executor::post, of some task
Post ==
    /\ pending' # <<>>
    /\ pending' = Append(pending, pending'[Len(pending')])
    /\ UNCHANGED <<armed, given, busy, closed, now>>

\* Clock::setTimeout: a new id, and a deadline the delay away
Arm ==
    /\ given' = given + 1
    /\ \E delay \in Delays : armed' = armed \cup {[id |-> given', at |-> now + delay]}
    /\ UNCHANGED <<pending, busy, closed, now>>

\* Clock::clearTimeout (of an id that is not armed any more, nothing changes)
Disarm ==
    /\ \E t \in armed : armed' = armed \ {t}
    /\ UNCHANGED <<pending, given, busy, closed, now>>

Run ==
    /\ ~busy /\ ~closed
    /\ pending # <<>>
    /\ pending' = Tail(pending)
    /\ busy' = TRUE
    /\ UNCHANGED <<armed, given, closed, now>>

\* A timer runs at a time that is not before its deadline.
Fire ==
    /\ ~busy /\ ~closed
    /\ now' >= now
    /\ \E t \in armed :
          /\ t.at <= now'
          /\ \A u \in armed : t.at <= u.at
          /\ armed' = armed \ {t}
    /\ busy' = TRUE
    /\ UNCHANGED <<pending, given, closed>>

Done ==
    /\ busy
    /\ busy' = FALSE
    /\ UNCHANGED <<pending, armed, given, closed, now>>

Close ==
    /\ ~busy /\ ~closed
    /\ pending = <<>>
    /\ armed' = {}
    /\ closed' = TRUE
    /\ UNCHANGED <<pending, given, busy, now>>

Pass ==
    /\ now' > now
    /\ UNCHANGED <<pending, armed, given, busy, closed>>

Next == Post \/ Arm \/ Disarm \/ Run \/ Fire \/ Done \/ Close \/ Pass

Spec == Init /\ [][Next]_schedulerVars
=============================================================================
