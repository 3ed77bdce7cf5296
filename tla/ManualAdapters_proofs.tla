------------------------ MODULE ManualAdapters_proofs ------------------------
(***************************************************************************)
(* The manual adapters are type correct, virtual time never passes over a  *)
(* timer, and they are a scheduler, for all delays and bounds.             *)
(***************************************************************************)
EXTENDS ManualAdapters, TLAPS

\* Type correctness: in particular ids are given out once, from 1 on.
THEOREM TypeCorrect == Spec => []TypeOK
<1> USE ManualAssumption DEF TypeOK, Timer
<1>1. Init => TypeOK
  <2> SUFFICES ASSUME Init PROVE TypeOK
    OBVIOUS
  <2>1. queue \in Seq(Nat)
    BY DEF Init
  <2>2. timers \subseteq Timer
    BY DEF Init
  <2> QED
    BY <2>1, <2>2 DEF Init
<1>2. TypeOK /\ [Next]_vars => TypeOK'
  <2> SUFFICES ASSUME TypeOK, [Next]_vars PROVE TypeOK'
    OBVIOUS
  <2>1. CASE Post
    BY <2>1 DEF Post
  <2>2. CASE SetTimeout
    BY <2>2 DEF SetTimeout
  <2>3. CASE ClearTimeout
    BY <2>3 DEF ClearTimeout
  <2>4. CASE RunTask
    BY <2>4 DEF RunTask
  <2>5. CASE Pump \/ PumpReturns \/ TaskEnds \/ TaskThrows \/ AdvanceReturns
    BY <2>5 DEF Pump, PumpReturns, TaskEnds, TaskThrows, AdvanceReturns
  <2>6. CASE Advance
    BY <2>6 DEF Advance
  <2>7. CASE RunTimer
    BY <2>7 DEF RunTimer
  <2>8. CASE UNCHANGED vars
    BY <2>8 DEF vars
  <2> QED
    BY <2>1, <2>2, <2>3, <2>4, <2>5, <2>6, <2>7, <2>8 DEF Next, Calls
<1> QED
  BY <1>1, <1>2, PTL DEF Spec

\* Timers are set at or after the present, and time only moves to the earliest
\* deadline or, when that lies beyond the end of advance(), to the end.
THEOREM NothingIsOverdue == Spec => []NothingOverdue
<1> USE DEF NothingOverdue
<1>1. Init => NothingOverdue
  BY DEF Init
<1>2. TypeOK /\ NothingOverdue /\ [Next]_vars => NothingOverdue'
  <2> SUFFICES ASSUME TypeOK, NothingOverdue, [Next]_vars PROVE NothingOverdue'
    OBVIOUS
  <2> USE DEF TypeOK, Timer
  <2>1. CASE SetTimeout
    <3>1. PICK delay \in Delays :
             timers' = timers \cup {[id |-> given', at |-> now + delay]}
      BY <2>1 DEF SetTimeout
    <3>2. delay \in Nat
      BY <3>1, ManualAssumption
    <3> QED
      BY <2>1, <3>1, <3>2 DEF SetTimeout
  <2>2. CASE RunTimer
    <3>1. PICK t \in timers : IsFirst(t) /\ now' = t.at /\ timers' = timers \ {t}
      BY <2>2 DEF RunTimer
    <3>2. \A u \in timers : t.at <= u.at
      BY <3>1 DEF IsFirst
    <3> QED
      BY <3>1, <3>2
  <2>3. CASE AdvanceReturns
    BY <2>3 DEF AdvanceReturns
  <2>4. ASSUME timers' \subseteq timers, now' = now PROVE NothingOverdue'
    BY <2>4
  <2>5. CASE \/ Post \/ ClearTimeout \/ Pump \/ RunTask \/ PumpReturns \/ Advance
             \/ TaskEnds \/ TaskThrows \/ UNCHANGED vars
    BY <2>4, <2>5 DEF Post, ClearTimeout, Pump, RunTask, PumpReturns, Advance,
       TaskEnds, TaskThrows, vars
  <2> QED
    BY <2>1, <2>2, <2>3, <2>5 DEF Next, Calls
<1> QED
  BY <1>1, <1>2, TypeCorrect, PTL DEF Spec

\* No two timers have the same id, so clearTimeout removes one timer at most.
IdsAreUnique == \A t, u \in timers : t.id = u.id => t = u

LEMMA TimerIdsAreUnique == Spec => []IdsAreUnique
<1> USE DEF IdsAreUnique
<1>1. Init => IdsAreUnique
  BY DEF Init
<1>2. TypeOK /\ IdsAreUnique /\ [Next]_vars => IdsAreUnique'
  <2> SUFFICES ASSUME TypeOK, IdsAreUnique, [Next]_vars PROVE IdsAreUnique'
    OBVIOUS
  <2>1. CASE SetTimeout
    BY <2>1 DEF SetTimeout, TypeOK, Timer
  <2>2. ASSUME timers' \subseteq timers PROVE IdsAreUnique'
    BY <2>2
  <2>3. CASE \/ Post \/ ClearTimeout \/ Pump \/ RunTask \/ PumpReturns \/ Advance
             \/ RunTimer \/ AdvanceReturns \/ TaskEnds \/ TaskThrows \/ UNCHANGED vars
    BY <2>2, <2>3 DEF Post, ClearTimeout, Pump, RunTask, PumpReturns, Advance,
       RunTimer, AdvanceReturns, TaskEnds, TaskThrows, vars
  <2> QED
    BY <2>1, <2>3 DEF Next, Calls
<1> QED
  BY <1>1, <1>2, TypeCorrect, PTL DEF Spec

\* advance() never turns the clock back: while it runs, the present is not
\* beyond its end.
Forward == inside = "advance" => now <= end

LEMMA TimeGoesForward == Spec => []Forward
<1> USE DEF Forward
<1>1. Init => Forward
  BY DEF Init
<1>2. TypeOK /\ TypeOK' /\ Forward /\ [Next]_vars => Forward'
  <2> SUFFICES ASSUME TypeOK, TypeOK', Forward, [Next]_vars PROVE Forward'
    OBVIOUS
  <2>1. CASE Advance
    <3>1. PICK delta \in Deltas : end' = now + delta
      BY <2>1 DEF Advance
    <3>2. delta \in Nat /\ now \in Nat
      BY <3>1, ManualAssumption DEF TypeOK
    <3> QED
      BY <2>1, <3>1, <3>2 DEF Advance
  <2>2. CASE RunTimer
    BY <2>2 DEF RunTimer
  <2>3. CASE Pump \/ PumpReturns \/ AdvanceReturns \/ TaskThrows
    BY <2>3 DEF Pump, PumpReturns, AdvanceReturns, TaskThrows
  <2>4. CASE \/ Post \/ SetTimeout \/ ClearTimeout \/ RunTask \/ TaskEnds
             \/ UNCHANGED vars
    BY <2>4 DEF Post, SetTimeout, ClearTimeout, RunTask, TaskEnds, vars
  <2> QED
    BY <2>1, <2>2, <2>3, <2>4 DEF Next, Calls
<1> QED
  BY <1>1, <1>2, TypeCorrect, PTL DEF Spec

\* The manual adapters are a scheduler (interfaces/executor.hpp,
\* interfaces/clock.hpp): every step of them is one of Scheduler's, or changes
\* nothing a caller can see.  Moving to a deadline and running its timer is one
\* step of both; that the time moved forward is NothingOverdue.
THEOREM IsScheduler == Spec => ImplementsScheduler
<1>1. Init => Abstract!Init
  BY DEF Init, Abstract!Init
<1>2. TypeOK /\ TypeOK' /\ NothingOverdue /\ IdsAreUnique /\ Forward /\ [Next]_vars
      => [Abstract!Next]_Abstract!schedulerVars
  <2> SUFFICES ASSUME TypeOK, TypeOK', NothingOverdue, IdsAreUnique, Forward,
                      [Next]_vars
               PROVE Abstract!Next \/ UNCHANGED Abstract!schedulerVars
    BY DEF Abstract!schedulerVars
  <2> USE DEF Abstract!schedulerVars
  <2>1. CASE Post
    <3>1. queue \in Seq(Nat) /\ posted' \in Nat /\ queue' = Append(queue, posted')
      BY <2>1 DEF Post, TypeOK
    <3>2. queue' # <<>> /\ queue' = Append(queue, queue'[Len(queue')])
      BY <3>1
    <3> QED
      BY <2>1, <3>2 DEF Post, Abstract!Post, Abstract!Next
  <2>2. CASE SetTimeout
    BY <2>2 DEF SetTimeout, Abstract!Arm, Abstract!Next
  <2>3. CASE ClearTimeout
    <3>1. PICK i \in 1 .. given : timers' = {u \in timers : u.id # i}
      BY <2>3 DEF ClearTimeout
    <3>2. CASE \E u \in timers : u.id = i
      <4>1. PICK u \in timers : u.id = i
        BY <3>2
      <4>2. timers' = timers \ {u}
        BY <3>1, <4>1 DEF IdsAreUnique
      <4> QED
        BY <2>3, <4>1, <4>2 DEF ClearTimeout, Abstract!Disarm, Abstract!Next
    <3>3. CASE ~\E u \in timers : u.id = i
      BY <2>3, <3>1, <3>3 DEF ClearTimeout
    <3> QED
      BY <3>2, <3>3
  <2>4. CASE RunTask
    BY <2>4 DEF RunTask, Abstract!Run, Abstract!Next
  <2>5. CASE RunTimer
    <3>1. PICK t \in timers : IsFirst(t) /\ now' = t.at /\ timers' = timers \ {t}
      BY <2>5 DEF RunTimer
    <3>2. \A u \in timers : t.at <= u.at
      BY <3>1 DEF IsFirst, TypeOK, Timer
    <3>3. now' >= now /\ t.at <= now'
      BY <3>1 DEF NothingOverdue, TypeOK, Timer
    <3> QED
      BY <2>5, <3>1, <3>2, <3>3 DEF RunTimer, Abstract!Fire, Abstract!Next
  <2>6. CASE AdvanceReturns
    <3>0. now <= end /\ now \in Nat /\ end \in Nat
      BY <2>6 DEF AdvanceReturns, Forward, TypeOK
    <3>1. CASE end = now
      BY <2>6, <3>1 DEF AdvanceReturns
    <3>2. CASE end > now
      BY <2>6, <3>2 DEF AdvanceReturns, Abstract!Pass, Abstract!Next
    <3> QED
      BY <3>0, <3>1, <3>2
  <2>7. CASE TaskEnds \/ TaskThrows
    BY <2>7 DEF TaskEnds, TaskThrows, Abstract!Done, Abstract!Next
  <2>8. CASE Pump \/ PumpReturns \/ Advance \/ UNCHANGED vars
    BY <2>8 DEF Pump, PumpReturns, Advance, vars
  <2> QED
    BY <2>1, <2>2, <2>3, <2>4, <2>5, <2>6, <2>7, <2>8 DEF Next, Calls
<1> QED
  BY <1>1, <1>2, TypeCorrect, NothingIsOverdue, TimerIdsAreUnique,
     TimeGoesForward, PTL
  DEF Spec, ImplementsScheduler, Abstract!Spec
=============================================================================
