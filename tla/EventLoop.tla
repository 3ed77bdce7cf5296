------------------------------ MODULE EventLoop ------------------------------
(***************************************************************************)
(* adapters/posix/event_loop.hpp: one thread that runs a queue of tasks    *)
(* and the timers that are due, used from any thread through a mutex and a *)
(* condition variable.                                                     *)
(*                                                                         *)
(* What a caller does under the mutex is one action, enabled while the     *)
(* mutex is free.  The loop holds the mutex in two of its states: `check', *)
(* where it decides what to do next, and `timing', where it has read the   *)
(* clock for a timed wait and not yet begun to wait.  The clock runs on in *)
(* between.                                                                *)
(*                                                                         *)
(* Tasks and timers are numbers, given out in the order of the calls.      *)
(* While a task runs, the loop thread may call what any other thread may.  *)
(***************************************************************************)
EXTENDS Integers, Sequences

CONSTANTS
    Users,      \* the threads other than the loop's
    Loop,       \* the loop's thread
    Stoppers,   \* the threads that may call stop()
    Delays,     \* what setTimeout is called with
    MaxTasks,   \* bound on the tasks ever posted
    MaxTimers,  \* bound on the timers ever set
    MaxTime     \* bound on deadlines; the clock runs on to twice that

Threads == Users \cup {Loop}

ASSUME EventLoopAssumption ==
    /\ Loop \notin Users
    /\ Stoppers \subseteq Threads
    /\ Delays \subseteq Nat
    /\ MaxTasks \in Nat /\ MaxTimers \in Nat /\ MaxTime \in Nat

VARIABLES
    queue,        \* queue_
    timers,       \* timers_: deadline and id of each
    nextTimerId,  \* nextTimerId_ - 1, the ids given out
    stopping,     \* stopping_
    joined,       \* joined_
    loop,         \* where run() stands
    until,        \* in `timing' how long to wait, in `wait' when to wake up
    call,         \* where the stop() of a thread stands
    posted,       \* how many tasks were posted
    now           \* CLOCK_MONOTONIC

vars == <<queue, timers, nextTimerId, stopping, joined, loop, until, call, posted, now>>

Forever == -1

MutexIsFree == loop \notin {"check", "timing"}

\* The threads that are in no call of theirs: the loop's is one while it runs
\* a task.
Free(t) == call[t] = "none" /\ (t = Loop => loop = "task")

Init ==
    /\ queue = <<>>
    /\ timers = {}
    /\ nextTimerId = 0
    /\ stopping = FALSE
    /\ joined = FALSE
    /\ loop = "lock"
    /\ until = Forever
    /\ call = [t \in Threads |-> "none"]
    /\ posted = 0
    /\ now = 0

\* pthread_cond_signal: the loop, if it waits, goes on to lock the mutex.
Signal == loop' = IF loop = "wait" THEN "lock" ELSE loop

-----------------------------------------------------------------------------
(* What any thread may call *)

\* (mutant: the caller does not take the mutex)
PostUnlocked(t) ==
    /\ Free(t)
    /\ posted < MaxTasks
    /\ posted' = posted + 1
    /\ queue' = Append(queue, posted')
    /\ Signal
    /\ UNCHANGED <<timers, nextTimerId, stopping, joined, until, call, now>>

Post(t) ==
    /\ Free(t) /\ MutexIsFree
    /\ posted < MaxTasks
    /\ posted' = posted + 1
    /\ queue' = Append(queue, posted')
    /\ Signal
    /\ UNCHANGED <<timers, nextTimerId, stopping, joined, until, call, now>>

\* (mutant: the loop is not told of the new timer)
SetTimeoutQuietly(t) ==
    /\ Free(t) /\ MutexIsFree
    /\ nextTimerId < MaxTimers
    /\ nextTimerId' = nextTimerId + 1
    /\ \E delay \in Delays :
          /\ now + delay <= MaxTime
          /\ timers' = timers \cup {[id |-> nextTimerId', at |-> now + delay]}
    /\ UNCHANGED <<queue, stopping, joined, loop, until, call, posted, now>>

SetTimeout(t) ==
    /\ Free(t) /\ MutexIsFree
    /\ nextTimerId < MaxTimers
    /\ nextTimerId' = nextTimerId + 1
    /\ \E delay \in Delays :
          /\ now + delay <= MaxTime
          /\ timers' = timers \cup {[id |-> nextTimerId', at |-> now + delay]}
    /\ Signal
    /\ UNCHANGED <<queue, stopping, joined, until, call, posted, now>>

ClearTimeout(t) ==
    /\ Free(t) /\ MutexIsFree
    /\ \E i \in 1 .. nextTimerId : timers' = {u \in timers : u.id # i}
    /\ UNCHANGED <<queue, nextTimerId, stopping, joined, loop, until, call, posted, now>>

\* (mutant: a waiting loop is not told to stop)
StopQuietly(t) ==
    /\ t \in Stoppers
    /\ Free(t) /\ MutexIsFree
    /\ stopping' = TRUE
    /\ call' = [call EXCEPT ![t] = "join"]
    /\ UNCHANGED <<queue, timers, nextTimerId, joined, loop, until, posted, now>>

\* stop() up to where it unlocks the mutex
Stop(t) ==
    /\ t \in Stoppers
    /\ Free(t) /\ MutexIsFree
    /\ IF stopping THEN UNCHANGED <<stopping, loop>>
       ELSE stopping' = TRUE /\ Signal
    /\ call' = [call EXCEPT ![t] = "join"]
    /\ UNCHANGED <<queue, timers, nextTimerId, joined, until, posted, now>>

\* The rest of stop(), without the mutex: joined_ is read, ...
ReadJoined(t) ==
    /\ call[t] = "join"
    /\ call' = [call EXCEPT ![t] = IF joined THEN "none" ELSE "joining"]
    /\ UNCHANGED <<queue, timers, nextTimerId, stopping, joined, loop, until, posted, now>>

\* ... and the loop thread joined, once it has exited, ...
Join(t) ==
    /\ call[t] = "joining" /\ loop = "exited"
    /\ joined' = TRUE
    /\ call' = [call EXCEPT ![t] = "none"]
    /\ UNCHANGED <<queue, timers, nextTimerId, stopping, loop, until, posted, now>>

\* ... unless pthread_join returns an error, which is not looked at.  It may do
\* so (POSIX leaves both undefined) when another thread joins or has joined
\* the loop thread, and when the loop thread joins itself.
JoinFails(t) ==
    /\ call[t] = "joining"
    /\ t = Loop \/ joined \/ \E u \in Threads \ {t} : call[u] = "joining"
    /\ joined' = TRUE
    /\ call' = [call EXCEPT ![t] = "none"]
    /\ UNCHANGED <<queue, timers, nextTimerId, stopping, loop, until, posted, now>>

-----------------------------------------------------------------------------
(* run() *)

\* The first entry of the multimap: ties are in the order of insertion.
IsFirst(t) == \A u \in timers : t.at < u.at \/ (t.at = u.at /\ t.id <= u.id)

Lock ==
    /\ loop = "lock"
    /\ loop' = "check"
    /\ UNCHANGED <<queue, timers, nextTimerId, stopping, joined, until, call, posted, now>>

\* The oldest task, before and after stopping_ is set
RunTask ==
    /\ loop = "check"
    /\ queue # <<>>
    /\ queue' = Tail(queue)
    /\ loop' = "task"
    /\ UNCHANGED <<timers, nextTimerId, stopping, joined, until, call, posted, now>>

\* (mutant: the clock is rounded up)
RunTimerEarly ==
    /\ loop = "check" /\ ~stopping /\ queue = <<>>
    /\ \E t \in timers : /\ IsFirst(t)
                         /\ t.at <= now + 1
                         /\ timers' = timers \ {t}
    /\ loop' = "task"
    /\ UNCHANGED <<queue, nextTimerId, stopping, joined, until, call, posted, now>>

RunTimer ==
    /\ loop = "check" /\ ~stopping /\ queue = <<>>
    /\ \E t \in timers : /\ IsFirst(t)
                         /\ t.at <= now
                         /\ timers' = timers \ {t}
    /\ loop' = "task"
    /\ UNCHANGED <<queue, nextTimerId, stopping, joined, until, call, posted, now>>

\* The task returns, or what it throws is swallowed.
TaskEnds ==
    /\ loop = "task" /\ call[Loop] = "none"
    /\ loop' = "lock"
    /\ UNCHANGED <<queue, timers, nextTimerId, stopping, joined, until, call, posted, now>>

\* pthread_cond_wait
Sleep ==
    /\ loop = "check" /\ ~stopping /\ queue = <<>> /\ timers = {}
    /\ loop' = "wait"
    /\ until' = Forever
    /\ UNCHANGED <<queue, timers, nextTimerId, stopping, joined, call, posted, now>>

\* The time to wait is computed from one reading of the clock, ...
ComputeWait ==
    /\ loop = "check" /\ ~stopping /\ queue = <<>>
    /\ \E t \in timers : /\ IsFirst(t)
                         /\ t.at > now
                         /\ until' = t.at - now
    /\ loop' = "timing"
    /\ UNCHANGED <<queue, timers, nextTimerId, stopping, joined, call, posted, now>>

\* ... and added to another: pthread_cond_timedwait
SleepUntil ==
    /\ loop = "timing"
    /\ until' = now + until
    /\ loop' = "wait"
    /\ UNCHANGED <<queue, timers, nextTimerId, stopping, joined, call, posted, now>>

TimedOut ==
    /\ loop = "wait" /\ until # Forever /\ until <= now
    /\ loop' = "lock"
    /\ UNCHANGED <<queue, timers, nextTimerId, stopping, joined, until, call, posted, now>>

\* A condition variable may wake up for no reason.
WakeUp ==
    /\ loop = "wait"
    /\ loop' = "lock"
    /\ UNCHANGED <<queue, timers, nextTimerId, stopping, joined, until, call, posted, now>>

\* (mutant: the queue is not drained)
ExitAtOnce ==
    /\ loop = "check" /\ stopping
    /\ timers' = {}
    /\ loop' = "exited"
    /\ UNCHANGED <<queue, nextTimerId, stopping, joined, until, call, posted, now>>

Exit ==
    /\ loop = "check" /\ stopping /\ queue = <<>>
    /\ timers' = {}
    /\ loop' = "exited"
    /\ UNCHANGED <<queue, nextTimerId, stopping, joined, until, call, posted, now>>

\* (The bound leaves the time that a wait which is being computed will take.)
Tick ==
    /\ now + (IF loop = "timing" THEN until ELSE 0) < 2 * MaxTime
    /\ now' = now + 1
    /\ UNCHANGED <<queue, timers, nextTimerId, stopping, joined, loop, until, call, posted>>

-----------------------------------------------------------------------------
Calls(t) == Post(t) \/ SetTimeout(t) \/ ClearTimeout(t) \/ Stop(t)
Joining(t) == ReadJoined(t) \/ Join(t) \/ JoinFails(t)
Run == Lock \/ RunTask \/ RunTimer \/ TaskEnds \/ Sleep \/ ComputeWait \/ SleepUntil
       \/ TimedOut \/ Exit

Next == (\E t \in Threads : Calls(t) \/ Joining(t)) \/ Run \/ WakeUp \/ Tick

Spec == Init /\ [][Next]_vars

\* The operating system runs the loop thread, and a thread in stop(), time
\* passes, and every task comes to an end, however often it calls stop() before
\* that.  No thread has to call anything, and a wait need not wake up by itself.
Fairness ==
    /\ WF_vars(Run)
    /\ SF_vars(TaskEnds)
    /\ \A t \in Threads : WF_vars(Joining(t))
    /\ WF_vars(Tick)

-----------------------------------------------------------------------------
(* Properties *)

Timer == [id : 1 .. nextTimerId, at : Nat]

\* Every variable has its type.
TypeOK ==
    /\ queue \in Seq(Nat)
    /\ timers \subseteq Timer
    /\ nextTimerId \in Nat
    /\ stopping \in BOOLEAN
    /\ joined \in BOOLEAN
    /\ loop \in {"lock", "check", "task", "timing", "wait", "exited"}
    /\ until \in Nat \cup {Forever}
    /\ call \in [Threads -> {"none", "join", "joining"}]
    /\ posted \in Nat
    /\ now \in Nat

\* No wake-up is lost: the loop never sleeps while a task waits or after it was
\* told to stop, it only goes to sleep for good when there is no timer, and
\* while it computes how long to sleep nothing happens that it would miss.
NoLostWakeup ==
    /\ loop = "wait" => /\ queue = <<>>
                        /\ ~stopping
                        /\ timers # {} => until # Forever
    /\ loop = "timing" => /\ queue = <<>>
                          /\ ~stopping
                          /\ until # Forever

\* A posted task is never left behind, unless it was posted after the loop
\* exited.
PostedTasksRun ==
    \A k \in 1 .. MaxTasks :
       (\E i \in DOMAIN queue : queue[i] = k) /\ loop # "exited"
       ~> ~\E i \in DOMAIN queue : queue[i] = k

\* A timer fires once its deadline has passed, is cleared, or is discarded when
\* the loop stops, unless it was set after that.
TimersEnd ==
    \A i \in 1 .. MaxTimers :
       (\E t \in timers : t.id = i) /\ loop # "exited" ~> ~\E t \in timers : t.id = i

\* stop() returns ("Blocks until the loop thread has drained queued tasks and
\* exited", event_loop.hpp:73).
StopReturns == \A t \in Threads : call[t] = "joining" ~> call[t] = "none"

\* When stop() returns, to whoever called it, the loop thread has exited
\* (event_loop.hpp:73).
StopWaits ==
    [][\A t \in Threads : call[t] # "none" /\ call'[t] = "none" => loop = "exited"]_vars

\* The loop is a scheduler: what its callers see of the queue, the timers and
\* the task that runs.
Abstract == INSTANCE Scheduler WITH
    pending <- queue, armed <- timers, given <- nextTimerId,
    busy <- loop = "task", closed <- loop = "exited"
ImplementsScheduler == Abstract!Spec
=============================================================================
