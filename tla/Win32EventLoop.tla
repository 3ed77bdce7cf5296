--------------------------- MODULE Win32EventLoop ---------------------------
(***************************************************************************)
(* adapters/win32/event_loop.hpp: the loop of EventLoop over an SRWLOCK    *)
(* and a CONDITION_VARIABLE.  What callers do under the lock and the order *)
(* in which the loop looks at its queue and its timers are those of the    *)
(* POSIX loop and are taken from there.  Two things differ.                *)
(*                                                                         *)
(* A wait takes whole milliseconds, rounded up, in a DWORD whose largest   *)
(* value means for ever: what is left of a longer wait is cut off, and one *)
(* that is congruent to that value never ends by itself.                   *)
(*                                                                         *)
(* stop() waits for the thread's handle, which has no error: a thread that *)
(* waits for itself waits for ever.  `joined' stands for thread_ being     *)
(* null.                                                                   *)
(***************************************************************************)
EXTENDS EventLoop

CONSTANTS
    Ms,        \* how many units of the clock are a millisecond
    Infinite   \* INFINITE, the largest DWORD

ASSUME Win32EventLoopAssumption == Ms \in Nat \ {0} /\ Infinite \in Nat \ {0}

WinInit == Init

WinPost(t) == Post(t)
WinSetTimeout(t) == SetTimeout(t)
WinClearTimeout(t) == ClearTimeout(t)
WinStop(t) == Stop(t)

\* thread_ is read without the lock, ...
ReadThread(t) == ReadJoined(t)

\* ... and the thread waited for.  Another that waits too, or that does so
\* after its handle was closed, returns no earlier.
WaitForThread(t) == Join(t)

WinCalls(t) == WinPost(t) \/ WinSetTimeout(t) \/ WinClearTimeout(t) \/ WinStop(t)
               \/ ReadThread(t) \/ WaitForThread(t)

\* waitMs, for a timer that is `delta' away
WaitMs(delta) == ((delta + Ms - 1) \div Ms) % (Infinite + 1)

\* How long SleepConditionVariableSRW waits when it is told waitMs
Lasting(waitMs) == IF waitMs = Infinite THEN Forever ELSE Ms * waitMs

WinComputeWait ==
    /\ loop = "check" /\ ~stopping /\ queue = <<>>
    /\ \E t \in timers : /\ IsFirst(t)
                         /\ t.at > now
                         /\ until' = Lasting(WaitMs(t.at - now))
    /\ loop' = "timing"
    /\ UNCHANGED <<queue, timers, nextTimerId, stopping, joined, call, posted, now>>

\* The wait is relative: it begins after the clock was read.
WinSleepUntil ==
    /\ loop = "timing"
    /\ until' = IF until = Forever THEN Forever ELSE now + until
    /\ loop' = "wait"
    /\ UNCHANGED <<queue, timers, nextTimerId, stopping, joined, call, posted, now>>

\* runOneUnlocked, and run() before and after stopping_ is set
RunOne == RunTask \/ RunTimer \/ TaskEnds
WinWait == Sleep \/ WinComputeWait \/ WinSleepUntil \/ TimedOut
WinRun == Lock \/ RunOne \/ WinWait \/ Exit

WinNext == (\E t \in Threads : WinCalls(t)) \/ WinRun \/ WakeUp \/ Tick

WinSpec == WinInit /\ [][WinNext]_vars

\* What is fair is what is fair for the POSIX loop.
WinFairness ==
    /\ WF_vars(WinRun)
    /\ SF_vars(TaskEnds)
    /\ \A t \in Threads : WF_vars(ReadThread(t) \/ WaitForThread(t))
    /\ WF_vars(Tick)
=============================================================================
