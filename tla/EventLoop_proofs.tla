--------------------------- MODULE EventLoop_proofs ---------------------------
(***************************************************************************)
(* The event loop is type correct, loses no wake-up and is a scheduler,    *)
(* whatever the threads, the delays and the bounds are.  So is the Win32   *)
(* loop, however long its waits are and whatever is cut off them; it loses *)
(* no wake-up as long as no timer is as far away as the wait that means    *)
(* for ever; and unlike that of the POSIX loop its stop() never returns    *)
(* too early.                                                              *)
(***************************************************************************)
EXTENDS Win32EventLoop, TLAPS

\* The first state has the types.
LEMMA InitialTypes == Init => TypeOK
<1> USE EventLoopAssumption DEF TypeOK, Timer, Forever, Threads
<1> SUFFICES ASSUME Init PROVE TypeOK
  OBVIOUS
<1>1. queue \in Seq(Nat)
  BY DEF Init
<1>2. timers \subseteq Timer
  BY DEF Init
<1>3. until \in Nat \cup {Forever} /\ stopping \in BOOLEAN /\ joined \in BOOLEAN
  BY DEF Init
<1> QED
  BY <1>1, <1>2, <1>3 DEF Init

\* Every step keeps the types.
LEMMA TypesAreKept == TypeOK /\ [Next]_vars => TypeOK'
<1> USE EventLoopAssumption DEF TypeOK, Timer, Forever, Threads
<1> SUFFICES ASSUME TypeOK, [Next]_vars PROVE TypeOK'
  OBVIOUS
<1>1. ASSUME NEW t \in Threads, Post(t) PROVE TypeOK'
  BY <1>1 DEF Post, Signal
<1>2. ASSUME NEW t \in Threads, SetTimeout(t) PROVE TypeOK'
  BY <1>2 DEF SetTimeout, Signal
<1>3. ASSUME NEW t \in Threads, ClearTimeout(t) PROVE TypeOK'
  BY <1>3 DEF ClearTimeout
<1>4. ASSUME NEW t \in Threads, Stop(t) PROVE TypeOK'
  BY <1>4 DEF Stop, Signal
<1>5. ASSUME NEW t \in Threads, Joining(t) PROVE TypeOK'
  BY <1>5 DEF Joining, ReadJoined, Join, JoinFails
<1>6. CASE RunTask
  BY <1>6 DEF RunTask
<1>7. CASE RunTimer
  BY <1>7 DEF RunTimer
<1>8. CASE Sleep \/ Lock \/ TaskEnds \/ TimedOut \/ WakeUp \/ Exit
  BY <1>8 DEF Sleep, Lock, TaskEnds, TimedOut, WakeUp, Exit
<1>9. CASE ComputeWait
  BY <1>9 DEF ComputeWait
<1>10. CASE SleepUntil
  BY <1>10 DEF SleepUntil
<1>11. CASE Tick
  BY <1>11 DEF Tick
<1>12. CASE UNCHANGED vars
  BY <1>12 DEF vars
<1> QED
  BY <1>1, <1>2, <1>3, <1>4, <1>5, <1>6, <1>7, <1>8, <1>9, <1>10, <1>11, <1>12
  DEF Next, Calls, Run

\* Type correctness: in particular the time to wait is never negative, which
\* would stand for a wait without an end.
THEOREM TypeCorrect == Spec => []TypeOK
<1>1. Init => TypeOK
  BY InitialTypes
<1>2. TypeOK /\ [Next]_vars => TypeOK'
  BY TypesAreKept
<1> QED
  BY <1>1, <1>2, PTL DEF Spec

\* Every step keeps what the loop relies on when it goes to sleep.
LEMMA WakeupsAreKept == TypeOK /\ NoLostWakeup /\ [Next]_vars => NoLostWakeup'
<1> USE DEF NoLostWakeup, Forever
<1> SUFFICES ASSUME TypeOK, NoLostWakeup, [Next]_vars PROVE NoLostWakeup'
  OBVIOUS
<1> USE DEF TypeOK, Timer
<1>1. ASSUME NEW t \in Threads, Post(t) PROVE NoLostWakeup'
  BY <1>1 DEF Post, Signal, MutexIsFree
<1>2. ASSUME NEW t \in Threads, SetTimeout(t) PROVE NoLostWakeup'
  BY <1>2 DEF SetTimeout, Signal, MutexIsFree
<1>3. ASSUME NEW t \in Threads, ClearTimeout(t) PROVE NoLostWakeup'
  BY <1>3 DEF ClearTimeout, MutexIsFree
<1>4. ASSUME NEW t \in Threads, Stop(t) PROVE NoLostWakeup'
  BY <1>4 DEF Stop, Signal, MutexIsFree
<1>5. ASSUME NEW t \in Threads, Joining(t) PROVE NoLostWakeup'
  BY <1>5 DEF Joining, ReadJoined, Join, JoinFails
<1>6. CASE Lock \/ RunTask \/ RunTimer \/ TaskEnds \/ TimedOut \/ WakeUp \/ Exit
  BY <1>6 DEF Lock, RunTask, RunTimer, TaskEnds, TimedOut, WakeUp, Exit
<1>7. CASE Sleep
  BY <1>7 DEF Sleep
<1>8. CASE ComputeWait
  BY <1>8 DEF ComputeWait
<1>9. CASE SleepUntil
  BY <1>9 DEF SleepUntil
<1>10. CASE Tick
  BY <1>10 DEF Tick
<1>11. CASE UNCHANGED vars
  BY <1>11 DEF vars
<1> QED
  BY <1>1, <1>2, <1>3, <1>4, <1>5, <1>6, <1>7, <1>8, <1>9, <1>10, <1>11
  DEF Next, Calls, Run

\* No wake-up is lost: what callers do finds the loop outside its critical
\* section, and what they do to a sleeping loop wakes it up.
THEOREM NoWakeupIsLost == Spec => []NoLostWakeup
<1> USE DEF NoLostWakeup, Forever
<1>1. Init => NoLostWakeup
  BY DEF Init
<1>2. TypeOK /\ NoLostWakeup /\ [Next]_vars => NoLostWakeup'
  BY WakeupsAreKept
<1> QED
  BY <1>1, <1>2, TypeCorrect, PTL DEF Spec

\* No two timers have the same id, so clearTimeout removes one timer at most.
IdsAreUnique == \A t, u \in timers : t.id = u.id => t = u

\* Every step keeps the ids apart.
LEMMA IdsStayUnique == TypeOK /\ IdsAreUnique /\ [Next]_vars => IdsAreUnique'
<1> USE DEF IdsAreUnique
<1> SUFFICES ASSUME TypeOK, IdsAreUnique, [Next]_vars PROVE IdsAreUnique'
  OBVIOUS
<1>1. ASSUME NEW t \in Threads, SetTimeout(t) PROVE IdsAreUnique'
  BY <1>1 DEF SetTimeout, TypeOK, Timer
<1>2. ASSUME timers' \subseteq timers PROVE IdsAreUnique'
  BY <1>2
<1>3. ASSUME NEW t \in Threads, Post(t) \/ ClearTimeout(t) \/ Stop(t) \/ Joining(t)
      PROVE IdsAreUnique'
  BY <1>2, <1>3 DEF Post, ClearTimeout, Stop, Joining, ReadJoined, Join, JoinFails
<1>4. CASE Run \/ WakeUp \/ Tick
  BY <1>2, <1>4 DEF Run, Lock, RunTask, RunTimer, TaskEnds, Sleep, ComputeWait,
     SleepUntil, TimedOut, Exit, WakeUp, Tick
<1>5. CASE UNCHANGED vars
  BY <1>2, <1>5 DEF vars
<1> QED
  BY <1>1, <1>3, <1>4, <1>5 DEF Next, Calls

\* The ids of timers are different at any time.
LEMMA TimerIdsAreUnique == Spec => []IdsAreUnique
<1> USE DEF IdsAreUnique
<1>1. Init => IdsAreUnique
  BY DEF Init
<1>2. TypeOK /\ IdsAreUnique /\ [Next]_vars => IdsAreUnique'
  BY IdsStayUnique
<1> QED
  BY <1>1, <1>2, TypeCorrect, PTL DEF Spec

\* Every step is a step of Scheduler, or one that a caller cannot see.
LEMMA StepIsScheduled ==
    TypeOK /\ IdsAreUnique /\ [Next]_vars => [Abstract!Next]_Abstract!schedulerVars
<1> SUFFICES ASSUME TypeOK, IdsAreUnique, [Next]_vars
             PROVE Abstract!Next \/ UNCHANGED Abstract!schedulerVars
  BY DEF Abstract!schedulerVars
<1> USE DEF Abstract!schedulerVars
<1>1. ASSUME NEW t \in Threads, Post(t) PROVE Abstract!Post
  <2>1. queue \in Seq(Nat) /\ posted' \in Nat /\ queue' = Append(queue, posted')
    BY <1>1 DEF Post, TypeOK
  <2>2. queue' # <<>> /\ queue' = Append(queue, queue'[Len(queue')])
    BY <2>1
  <2> QED
    BY <1>1, <2>2 DEF Post, Signal, Abstract!Post
<1>2. ASSUME NEW t \in Threads, SetTimeout(t) PROVE Abstract!Arm
  BY <1>2 DEF SetTimeout, Signal, Abstract!Arm
<1>3. ASSUME NEW t \in Threads, ClearTimeout(t)
      PROVE Abstract!Disarm \/ UNCHANGED Abstract!schedulerVars
  <2>1. PICK i \in 1 .. nextTimerId : timers' = {u \in timers : u.id # i}
    BY <1>3 DEF ClearTimeout
  <2>2. CASE \E u \in timers : u.id = i
    <3>1. PICK u \in timers : u.id = i
      BY <2>2
    <3>2. timers' = timers \ {u}
      BY <2>1, <3>1 DEF IdsAreUnique
    <3> QED
      BY <1>3, <3>1, <3>2 DEF ClearTimeout, Abstract!Disarm
  <2>3. CASE ~\E u \in timers : u.id = i
    BY <1>3, <2>1, <2>3 DEF ClearTimeout
  <2> QED
    BY <2>2, <2>3
<1>4. ASSUME NEW t \in Threads, Stop(t) \/ Joining(t)
      PROVE UNCHANGED Abstract!schedulerVars
  BY <1>4 DEF Stop, Signal, Joining, ReadJoined, Join, JoinFails
<1>5. CASE RunTask
  BY <1>5 DEF RunTask, Abstract!Run, Abstract!Next
<1>6. CASE RunTimer
  <2>1. PICK t \in timers : IsFirst(t) /\ t.at <= now /\ timers' = timers \ {t}
    BY <1>6 DEF RunTimer
  <2>2. \A u \in timers : t.at <= u.at
    BY <2>1 DEF IsFirst, TypeOK, Timer
  <2>3. now' = now /\ now' >= now
    BY <1>6 DEF RunTimer, TypeOK
  <2> QED
    BY <1>6, <2>1, <2>2, <2>3 DEF RunTimer, Abstract!Fire, Abstract!Next
<1>7. CASE TaskEnds
  BY <1>7 DEF TaskEnds, Abstract!Done, Abstract!Next
<1>8. CASE Exit
  BY <1>8 DEF Exit, Abstract!Close, Abstract!Next
<1>9. CASE Tick
  BY <1>9 DEF Tick, TypeOK, Abstract!Pass, Abstract!Next
<1>10. CASE Lock \/ Sleep \/ ComputeWait \/ SleepUntil \/ TimedOut \/ WakeUp
  BY <1>10 DEF Lock, Sleep, ComputeWait, SleepUntil, TimedOut, WakeUp
<1>11. CASE UNCHANGED vars
  BY <1>11 DEF vars
<1> QED
  BY <1>1, <1>2, <1>3, <1>4, <1>5, <1>6, <1>7, <1>8, <1>9, <1>10, <1>11
  DEF Next, Calls, Run, Abstract!Next

\* The loop is a scheduler (interfaces/executor.hpp, interfaces/clock.hpp): every
\* step of it is a step of Scheduler, or one that a caller cannot see.
THEOREM IsScheduler == Spec => ImplementsScheduler
<1>1. Init => Abstract!Init
  BY DEF Init, Abstract!Init
<1>2. TypeOK /\ IdsAreUnique /\ [Next]_vars => [Abstract!Next]_Abstract!schedulerVars
  BY StepIsScheduled
<1> QED
  BY <1>1, <1>2, TypeCorrect, TimerIdsAreUnique, PTL
  DEF Spec, ImplementsScheduler, Abstract!Spec

-----------------------------------------------------------------------------
(* The Win32 loop *)

\* Only the two steps that make a timed wait are not steps of the POSIX loop.
LEMMA StepsAreShared ==
    WinNext => Next \/ WinComputeWait \/ WinSleepUntil
BY DEF WinNext, WinCalls, WinPost, WinSetTimeout, WinClearTimeout, WinStop, ReadThread,
   WaitForThread, WinRun, RunOne, WinWait, Next, Calls, Joining, Run

\* How long a wait lasts is a time, or for ever.
LEMMA WaitIsATime ==
    ASSUME NEW delta \in Nat
    PROVE  Lasting(WaitMs(delta)) \in Nat \cup {Forever}
<1> USE Win32EventLoopAssumption
<1>1. (delta + Ms - 1) \div Ms \in Int
  OBVIOUS
<1>2. WaitMs(delta) \in Nat
  BY <1>1 DEF WaitMs
<1>3. Ms * WaitMs(delta) \in Nat
  BY <1>2
<1> QED
  BY <1>3 DEF Lasting

\* Every step of the Win32 loop keeps the types.
LEMMA WinTypesAreKept == TypeOK /\ [WinNext]_vars => TypeOK'
<1> SUFFICES ASSUME TypeOK, [WinNext]_vars PROVE TypeOK'
  OBVIOUS
<1>1. CASE [Next]_vars
  BY <1>1, TypesAreKept
<1>2. CASE WinComputeWait
  <2>1. PICK t \in timers : t.at > now /\ until' = Lasting(WaitMs(t.at - now))
    BY <1>2 DEF WinComputeWait
  <2>2. t.at - now \in Nat
    BY <2>1 DEF TypeOK, Timer
  <2>3. until' \in Nat \cup {Forever}
    BY <2>1, <2>2, WaitIsATime
  <2> QED
    BY <1>2, <2>3 DEF WinComputeWait, TypeOK, Timer
<1>3. CASE WinSleepUntil
  BY <1>3 DEF WinSleepUntil, TypeOK, Timer, Forever
<1> QED
  BY <1>1, <1>2, <1>3, StepsAreShared

\* Type correctness of the Win32 loop.
THEOREM WinTypeCorrect == WinSpec => []TypeOK
<1>1. Init => TypeOK
  BY InitialTypes
<1> QED
  BY <1>1, WinTypesAreKept, PTL DEF WinSpec, WinInit

\* The Win32 loop is a scheduler: a wait that ends too soon or never only makes
\* a timer late.
THEOREM WinIsScheduler == WinSpec => ImplementsScheduler
<1>1. Init => IdsAreUnique /\ Abstract!Init
  BY DEF Init, IdsAreUnique, Abstract!Init
<1>2. TypeOK /\ IdsAreUnique /\ [WinNext]_vars
         => IdsAreUnique' /\ [Abstract!Next]_Abstract!schedulerVars
  <2> SUFFICES ASSUME TypeOK, IdsAreUnique, [WinNext]_vars
               PROVE  IdsAreUnique' /\ [Abstract!Next]_Abstract!schedulerVars
    OBVIOUS
  <2>1. CASE [Next]_vars
    BY <2>1, IdsStayUnique, StepIsScheduled
  <2>2. CASE WinComputeWait \/ WinSleepUntil
    BY <2>2 DEF WinComputeWait, WinSleepUntil, IdsAreUnique, Abstract!schedulerVars
  <2> QED
    BY <2>1, <2>2, StepsAreShared
<1> QED
  BY <1>1, <1>2, WinTypeCorrect, PTL
  DEF WinSpec, WinInit, ImplementsScheduler, Abstract!Spec

\* A wait for a timer that is not too far away ends.
LEMMA WaitEnds ==
    ASSUME MaxTime + Ms - 1 < Ms * Infinite,
           NEW delta \in 1 .. MaxTime
    PROVE  Lasting(WaitMs(delta)) # Forever
<1> USE Win32EventLoopAssumption, EventLoopAssumption
<1> DEFINE ms == (delta + Ms - 1) \div Ms
<1>1. ms \in Nat /\ Ms * ms <= delta + Ms - 1
  OBVIOUS
<1>2. ms < Infinite
  BY <1>1
<1>3. WaitMs(delta) = ms
  BY <1>1, <1>2 DEF WaitMs
<1>4. Ms * ms \in Nat
  BY <1>1
<1> QED
  BY <1>2, <1>3, <1>4 DEF Lasting, Forever

\* No deadline is later than the bound on deadlines.
Near == \A t \in timers : t.at <= MaxTime

\* A step of the POSIX loop keeps deadlines below the bound.
LEMMA NearIsKept == Near /\ [Next]_vars => Near'
<1> SUFFICES ASSUME Near, [Next]_vars PROVE Near'
  OBVIOUS
<1> USE DEF Near
<1>1. ASSUME timers' \subseteq timers PROVE Near'
  BY <1>1
<1>2. ASSUME NEW t \in Threads, SetTimeout(t) PROVE Near'
  BY <1>2 DEF SetTimeout
<1>3. ASSUME NEW t \in Threads, Post(t) \/ ClearTimeout(t) \/ Stop(t) \/ Joining(t)
      PROVE Near'
  BY <1>1, <1>3 DEF Post, ClearTimeout, Stop, Joining, ReadJoined, Join, JoinFails
<1>4. CASE Run \/ WakeUp \/ Tick
  BY <1>1, <1>4 DEF Run, Lock, RunTask, RunTimer, TaskEnds, Sleep, ComputeWait,
     SleepUntil, TimedOut, Exit, WakeUp, Tick
<1>5. CASE UNCHANGED vars
  BY <1>1, <1>5 DEF vars
<1> QED
  BY <1>2, <1>3, <1>4, <1>5 DEF Next, Calls

\* No wake-up is lost on Win32, if no timer is ever so far away that the time to
\* wait for it is the one that means for ever (win32/event_loop.hpp:155).
THEOREM WinNoWakeupIsLost ==
    ASSUME MaxTime + Ms - 1 < Ms * Infinite
    PROVE  WinSpec => []NoLostWakeup
<1>1. Init => Near /\ NoLostWakeup
  BY DEF Init, Near, NoLostWakeup
<1>2. TypeOK /\ Near /\ NoLostWakeup /\ [WinNext]_vars => Near' /\ NoLostWakeup'
  <2> SUFFICES ASSUME TypeOK, Near, NoLostWakeup, [WinNext]_vars
               PROVE  Near' /\ NoLostWakeup'
    OBVIOUS
  <2>1. CASE [Next]_vars
    BY <2>1, WakeupsAreKept, NearIsKept
  <2>2. CASE WinComputeWait
    <3>1. PICK t \in timers : t.at > now /\ until' = Lasting(WaitMs(t.at - now))
      BY <2>2 DEF WinComputeWait
    <3>2. t.at - now \in 1 .. MaxTime
      BY <3>1, EventLoopAssumption DEF TypeOK, Timer, Near
    <3>3. until' # Forever
      BY <3>1, <3>2, WaitEnds
    <3> QED
      BY <2>2, <3>3 DEF WinComputeWait, Near, NoLostWakeup
  <2>3. CASE WinSleepUntil
    BY <2>3 DEF WinSleepUntil, Near, NoLostWakeup, TypeOK, Forever
  <2> QED
    BY <2>1, <2>2, <2>3, StepsAreShared
<1> QED
  BY <1>1, <1>2, WinTypeCorrect, PTL DEF WinSpec, WinInit

\* thread_ is only null when the loop has exited.
Closed == joined => loop = "exited"

\* A step that ends a stop() is one after the loop has exited.
Waits == \A t \in Threads : call[t] # "none" /\ call'[t] = "none" => loop = "exited"

\* When stop() returns on Win32, the loop thread has exited: nobody goes on before
\* the handle is signalled, and thread_ is not null before (win32/event_loop.hpp:80).
THEOREM WinStopWaits == WinSpec => StopWaits
<1>1. Init => Closed
  BY DEF Init, Closed
<1>2. TypeOK /\ Closed /\ [WinNext]_vars => Closed' /\ [Waits]_vars
  <2> SUFFICES ASSUME TypeOK, Closed, WinNext PROVE Closed' /\ Waits
    BY DEF Closed, vars
  <2> USE DEF Closed, Waits
  <2>1. ASSUME NEW u \in Threads, WinPost(u) \/ WinSetTimeout(u) \/ WinClearTimeout(u)
        PROVE  Closed' /\ Waits
    BY <2>1 DEF WinPost, WinSetTimeout, WinClearTimeout, Post, SetTimeout, ClearTimeout, Signal
  <2>2. ASSUME NEW u \in Threads, WinStop(u)
        PROVE  Closed' /\ Waits
    BY <2>2 DEF WinStop, Stop, Signal, TypeOK
  <2>3. ASSUME NEW u \in Threads, ReadThread(u)
        PROVE  Closed' /\ Waits
    BY <2>3 DEF ReadThread, ReadJoined, TypeOK
  <2>4. ASSUME NEW u \in Threads, WaitForThread(u)
        PROVE  Closed' /\ Waits
    BY <2>4 DEF WaitForThread, Join, TypeOK
  <2>5. CASE WinRun \/ WakeUp \/ Tick
    BY <2>5 DEF WinRun, RunOne, WinWait, Lock, RunTask, RunTimer, TaskEnds, Sleep,
       WinComputeWait, WinSleepUntil, TimedOut, Exit, WakeUp, Tick
  <2> QED
    BY <2>1, <2>2, <2>3, <2>4, <2>5 DEF WinNext, WinCalls
<1> QED
  BY <1>1, <1>2, WinTypeCorrect, PTL DEF WinSpec, WinInit, StopWaits, Waits
=============================================================================
