------------------------- MODULE ActorSystem_proofs --------------------------
(***************************************************************************)
(* For all actors, logics and bounds: the runtime is type correct, timers  *)
(* and clock agree, every actor has the lifecycle of an actor, a child's   *)
(* start comes first, and completions are told, each once.                 *)
(*                                                                         *)
(* Then what actors that stop leave behind.  doStop stops the children of  *)
(* an actor by nested calls, clears timers and children and executes its   *)
(* parting effects; that nothing survives it needs every child to be       *)
(* registered with its parent until it is stopped.                         *)
(***************************************************************************)
EXTENDS ActorSystem, SequenceTheorems, FiniteSetTheorems, TLAPS

PCs == {"idle", "effects", "notify", "stopChildren", "stopEffects"}

\* The pieces of queue and event that handlers work with are what they expect.
LEMMA HeadOfQueue ==
    ASSUME TypeOK, queue # <<>>
    PROVE  Head(queue) \in Task /\ Tail(queue) \in Seq(Task)
BY DEF TypeOK

\* The type of an event that is handled is a stimulus logics know.
LEMMA Stimuli ==
    ASSUME NEW task \in Task
    PROVE  task.event.type \in Stimulus
BY DEF Task, Event, Stimulus

\* What start, stop and send post are tasks, if they are about an actor.
LEMMA TasksAreTasks ==
    ASSUME TypeOK, BoundsAssumption, NEW s \in Session
    PROVE  /\ StartTask(s) \in Task
           /\ StopTask(s) \in Task
           /\ \A type \in EventTypes : ReceiveTask(s, Plain(type)) \in Task
<1>1. \A type \in EventTypes : Plain(type) \in Event
  BY DEF Plain, Event
<1>2. NoEvent \in Event
  BY <1>1, BoundsAssumption DEF NoEvent
<1> QED
  BY <1>1, <1>2 DEF StartTask, StopTask, ReceiveTask, Task

\* What the logic answers is an outcome.
LEMMA AnswersAreOutcomes ==
    ASSUME TypeOK, BehaviourAssumption,
           NEW s \in Session, NEW stimulus \in Stimulus,
           NEW o \in Answers(s, stimulus)
    PROVE  /\ o.throws \in BOOLEAN
           /\ o.status \in {"active", "done", "error"}
           /\ o.effects \in Seq(Effect)
<1>1. id[s] \in ChildIds \cup {RootId}
  BY DEF TypeOK
<1>2. Behaviour[id[s]][stimulus] \in SUBSET Outcome
  BY <1>1, BehaviourAssumption
<1>3. o \in Behaviour[id[s]][stimulus]
  BY DEF Answers
<1>4. o \in Outcome
  BY <1>2, <1>3
<1> QED
  BY <1>4 DEF Outcome

\* Reporting keeps the types.
LEMMA ReportTyped ==
    ASSUME TypeOK, NEW s \in Session, NEW tasks \in Seq(Task),
           NEW st \in Status, ReportAfter(tasks, s, st)
    PROVE  /\ queue' \in Seq(Task)
           /\ told' \in [Session -> {"nothing", "done", "error"}]
<1>1. CASE Reports(s, st)
  <2>1. parent[s] \in Session /\ st \in {"done", "error"}
    BY <1>1 DEF Reports, TypeOK
  <2>2. Report(s, st) \in Task
    <3> DEFINE e == [type |-> IF st = "done" THEN "done.actor" ELSE "error.actor",
                     of |-> id[s]]
    <3>1. e \in Event
      BY DEF Event, TypeOK
    <3> HIDE DEF e
    <3>2. ReceiveTask(parent[s], e) \in Task
      BY <2>1, <3>1 DEF ReceiveTask, Task
    <3> QED
      BY <3>2 DEF Report, e
  <2> QED
    <3>1. queue' = Append(tasks, Report(s, st)) /\ told' = [told EXCEPT ![s] = st]
      BY <1>1 DEF ReportAfter
    <3>2. queue' \in Seq(Task)
      BY <2>2, <3>1
    <3> QED
      BY <2>1, <3>1, <3>2 DEF TypeOK
<1>2. CASE ~Reports(s, st)
  BY <1>2 DEF ReportAfter, TypeOK
<1> QED
  BY <1>1, <1>2

\* becomeError keeps the types.
LEMMA ErrorTyped ==
    ASSUME TypeOK, NEW s \in Session, NEW tasks \in Seq(Task),
           BecomeError(s, tasks)
    PROVE  /\ queue' \in Seq(Task)
           /\ told' \in [Session -> {"nothing", "done", "error"}]
           /\ status' \in [Session -> Status]
           /\ cur' \in Session \cup {NoSession}
           /\ pc' \in [Session -> PCs]
           /\ eff' \in [Session -> Seq(Effect)]
<1>1. ReportAfter(tasks, s, "error")
  BY DEF BecomeError
<1>2. "error" \in Status
  BY DEF Status
<1>3. eff' \in [Session -> Seq(Effect)]
  <2>1. <<>> \in Seq(Effect)
    OBVIOUS
  <2> QED
    BY <2>1 DEF BecomeError, TypeOK
<1> QED
  BY <1>1, <1>2, <1>3, ReportTyped DEF BecomeError, TypeOK, PCs

\* Running the logic keeps the types.
LEMMA RunLogicTyped ==
    ASSUME TypeOK, BehaviourAssumption, queue # <<>>, NEW s \in Session,
           NEW stimulus \in Stimulus, RunLogic(s, stimulus)
    PROVE  /\ queue' \in Seq(Task)
           /\ told' \in [Session -> {"nothing", "done", "error"}]
           /\ status' \in [Session -> Status]
           /\ cur' \in Session \cup {NoSession}
           /\ pc' \in [Session -> PCs]
           /\ eff' \in [Session -> Seq(Effect)]
<1>1. PICK o \in Answers(s, stimulus) :
         IF o.throws THEN BecomeError(s, Tail(queue))
         ELSE /\ status' = [status EXCEPT ![s] = o.status]
              /\ queue' = Tail(queue)
              /\ cur' = s
              /\ pc' = [pc EXCEPT ![s] = "effects"]
              /\ eff' = [eff EXCEPT ![s] = o.effects]
              /\ UNCHANGED told
  BY DEF RunLogic
<1>2. o.throws \in BOOLEAN /\ o.status \in Status /\ o.effects \in Seq(Effect)
  BY AnswersAreOutcomes, <1>1 DEF Status
<1>3. CASE o.throws
  BY <1>1, <1>3, HeadOfQueue, ErrorTyped
<1>4. CASE ~o.throws
  BY <1>1, <1>2, <1>4, HeadOfQueue DEF TypeOK, PCs
<1> QED
  BY <1>3, <1>4

\* The effect that is executed next is one, of an actor.
LEMMA FirstTyped ==
    ASSUME TypeOK, InEffects
    PROVE  /\ cur \in Session
           /\ First \in Effect
           /\ Tail(eff[cur]) \in Seq(Effect)
<1>1. cur \in Session
  BY DEF TypeOK, InEffects, Idle
<1>2. eff[cur] \in Seq(Effect) /\ eff[cur] # <<>>
  BY <1>1 DEF TypeOK, InEffects
<1> QED
  BY <1>1, <1>2 DEF First

\* Taking it off the list keeps the type of the list.
LEMMA ConsumeTyped ==
    ASSUME TypeOK, InEffects, Consume
    PROVE  eff' \in [Session -> Seq(Effect)]
BY FirstTyped DEF Consume, TypeOK

\* A target is an actor or unknown.
LEMMA ResolveTyped ==
    ASSUME TypeOK, NEW s \in Session, NEW to \in Target
    PROVE  Resolve(s, to) \in Session \cup {NoSession}
<1>1. CASE to = "self"
  BY <1>1 DEF Resolve
<1>2. CASE to = "parent"
  BY <1>2 DEF Resolve, TypeOK
<1>3. CASE to \notin {"self", "parent"}
  BY <1>3 DEF Resolve, Target, TypeOK
<1> QED
  BY <1>1, <1>2, <1>3

\* Type correctness, for all logics that satisfy BehaviourAssumption.
THEOREM TypeCorrect == Spec => []TypeOK
<1>1. Init => TypeOK
  <2> SUFFICES ASSUME Init PROVE TypeOK
    OBVIOUS
  <2>1. 1 \in Session
    BY BoundsAssumption DEF Session
  <2>2. eff \in [Session -> Seq(Effect)] /\ queue \in Seq(Task)
    BY DEF Init
  <2> QED
    <3>1. /\ created \in Session /\ started \in BOOLEAN
          /\ clock \subseteq Timer /\ nextTimer = NoTimer
          /\ cur \in Session \cup {NoSession}
      BY <2>1 DEF Init, NoTimer
    <3>2. /\ id \in [Session -> ChildIds \cup {RootId}]
          /\ parent \in [Session -> Session \cup {NoSession}]
          /\ status \in [Session -> Status]
          /\ told \in [Session -> {"nothing", "done", "error"}]
          /\ pc \in [Session -> PCs]
          /\ todo \in [Session -> SUBSET ChildIds]
      BY DEF Init, Status, PCs
    <3>3. /\ children \in [Session -> [ChildIds -> Session \cup {NoSession}]]
          /\ timers \in [Session -> [SendIds -> TimerId \cup {NoTimer}]]
      BY DEF Init
    <3> QED
      BY <2>2, <3>1, <3>2, <3>3 DEF TypeOK, PCs
<1>2. TypeOK /\ [Next]_vars => TypeOK'
  <2> SUFFICES ASSUME TypeOK, [Next]_vars PROVE TypeOK'
    OBVIOUS
  <2> USE DEF lifecycle, timing, running
  <2>1. CASE RootStart
    <3>1. StartTask(Root) \in Task
      BY TasksAreTasks, BoundsAssumption DEF Root, Session
    <3> QED
      BY <2>1, <3>1 DEF RootStart, Post, TypeOK
  <2>2. CASE ForeignSend
    <3>1. PICK s \in Existing, type \in Posted : Post(ReceiveTask(s, Plain(type)))
      BY <2>2 DEF ForeignSend
    <3>2. s \in Session /\ type \in EventTypes
      BY <3>1, BoundsAssumption DEF Existing, Session, TypeOK
    <3>3. ReceiveTask(s, Plain(type)) \in Task
      BY <3>2, TasksAreTasks, BoundsAssumption
    <3> QED
      BY <2>2, <3>1, <3>3 DEF ForeignSend, Post, TypeOK
  <2>3. CASE RootStop
    <3>1. StopTask(Root) \in Task
      BY TasksAreTasks, BoundsAssumption DEF Root, Session
    <3> QED
      BY <2>3, <3>1 DEF RootStop, Post, TypeOK
  <2>4. CASE DoStart
    <3> DEFINE s == Head(queue).actor
    <3>1. queue # <<>> /\ Head(queue) \in Task /\ Tail(queue) \in Seq(Task)
      BY <2>4, HeadOfQueue DEF DoStart, HeadIs
    <3>2. s \in Session /\ "start" \in Stimulus
      BY <3>1 DEF Task, Stimulus
    <3>3. CASE RunLogic(s, "start")
      BY <2>4, <3>1, <3>2, <3>3, RunLogicTyped, BehaviourAssumption DEF DoStart, TypeOK, PCs
    <3>4. CASE DropTask
      BY <2>4, <3>1, <3>4 DEF DoStart, DropTask, TypeOK
    <3> QED
      BY <2>4, <3>3, <3>4 DEF DoStart
  <2>5. CASE DoReceive
    <3> DEFINE s == Head(queue).actor
               type == Head(queue).event.type
    <3>1. queue # <<>> /\ Head(queue) \in Task /\ Tail(queue) \in Seq(Task)
      BY <2>5, HeadOfQueue DEF DoReceive, HeadIs
    <3>2. s \in Session /\ type \in Stimulus
      BY <3>1, Stimuli DEF Task
    <3>3. CASE RunLogic(s, type)
      BY <2>5, <3>1, <3>2, <3>3, RunLogicTyped, BehaviourAssumption DEF DoReceive, TypeOK, PCs
    <3>4. CASE DropTask
      BY <2>5, <3>1, <3>4 DEF DoReceive, DropTask, TypeOK
    <3> QED
      BY <2>5, <3>3, <3>4 DEF DoReceive
  <2>6. CASE DoStop
    <3>1. queue # <<>> /\ Head(queue) \in Task /\ Tail(queue) \in Seq(Task)
      BY <2>6, HeadOfQueue DEF DoStop, HeadIs
    <3>2. Head(queue).actor \in Session
      BY <3>1 DEF Task
    <3>3. Registered(Head(queue).actor) \in SUBSET ChildIds
      BY DEF Registered
    <3> QED
      BY <2>6, <3>1, <3>2, <3>3 DEF DoStop, EnterStop, TypeOK
  <2>7. CASE ExecuteSend
    <3>1. cur \in Session /\ First \in Effect /\ eff' \in [Session -> Seq(Effect)]
      BY <2>7, FirstTyped, ConsumeTyped DEF ExecuteSend
    <3>2. First.to \in Target /\ First.type \in EventTypes
      BY <3>1 DEF Effect, AnyEffect
    <3>3. Resolve(cur, First.to) \in Session \cup {NoSession}
      BY <3>1, <3>2, ResolveTyped
    <3>4. CASE Resolve(cur, First.to) = NoSession
      BY <2>7, <3>1, <3>4 DEF ExecuteSend, TypeOK
    <3>5. CASE Resolve(cur, First.to) # NoSession
      <4>1. ReceiveTask(Resolve(cur, First.to), Plain(First.type)) \in Task
        BY <3>2, <3>3, <3>5, TasksAreTasks, BoundsAssumption
      <4>2. queue' = Append(queue, ReceiveTask(Resolve(cur, First.to), Plain(First.type)))
        BY <2>7, <3>5 DEF ExecuteSend, Post
      <4>3. queue' \in Seq(Task)
        BY <4>1, <4>2 DEF TypeOK
      <4> QED
        BY <2>7, <3>1, <4>3 DEF ExecuteSend, TypeOK
    <3> QED
      BY <3>4, <3>5
  <2>8. CASE StartTimer
    <3>1. cur \in Session /\ First \in Effect /\ eff' \in [Session -> Seq(Effect)]
      BY <2>8, FirstTyped, ConsumeTyped DEF StartTimer
    <3>2. First.to \in Target /\ First.type \in EventTypes /\ First.id \in SendIds
      BY <2>8, <3>1 DEF Effect, AnyEffect, StartTimer
    <3>3. nextTimer' \in TimerId
      BY <2>8, BoundsAssumption DEF StartTimer, TimerId, NoTimer, TypeOK
    <3>4. clock' \subseteq Timer
      BY <2>8, <3>1, <3>2, <3>3 DEF StartTimer, Timer, TypeOK
    <3>5. timers' \in [Session -> [SendIds -> TimerId \cup {NoTimer}]]
      BY <2>8, <3>1, <3>2, <3>3 DEF StartTimer, TypeOK
    <3> QED
      BY <2>8, <3>1, <3>3, <3>4, <3>5 DEF StartTimer, TypeOK
  <2>9. CASE CancelTimer
    <3>1. cur \in Session /\ First \in Effect /\ eff' \in [Session -> Seq(Effect)]
      BY <2>9, FirstTyped, ConsumeTyped DEF CancelTimer
    <3>2. timers' \in [Session -> [SendIds -> TimerId \cup {NoTimer}]]
      BY <2>9, <3>1 DEF CancelTimer, TypeOK
    <3> QED
      BY <2>9, <3>1, <3>2 DEF CancelTimer, TypeOK
  <2>10. CASE SpawnChild
    <3> DEFINE s == created + 1
    <3>1. cur \in Session /\ First \in Effect /\ eff' \in [Session -> Seq(Effect)]
      BY <2>10, FirstTyped, ConsumeTyped DEF SpawnChild
    <3>2. First.id \in ChildIds
      BY <2>10, <3>1 DEF Effect, AnyEffect, SpawnChild
    <3>3. s \in Session
      BY <2>10, BoundsAssumption DEF SpawnChild, Session, TypeOK
    <3>4. StartTask(s) \in Task
      BY <3>3, TasksAreTasks, BoundsAssumption
    <3>5. children' \in [Session -> [ChildIds -> Session \cup {NoSession}]]
      BY <2>10, <3>1, <3>2, <3>3 DEF SpawnChild, TypeOK
    <3>6. queue' \in Seq(Task)
      BY <2>10, <3>4 DEF SpawnChild, Post, TypeOK
    <3>7. /\ id' \in [Session -> ChildIds \cup {RootId}]
          /\ parent' \in [Session -> Session \cup {NoSession}]
      BY <2>10, <3>1, <3>2, <3>3 DEF SpawnChild, TypeOK
    <3> QED
      BY <2>10, <3>1, <3>3, <3>5, <3>6, <3>7 DEF SpawnChild, TypeOK
  <2>11. CASE StopChild
    <3>1. cur \in Session /\ First \in Effect /\ eff' \in [Session -> Seq(Effect)]
      BY <2>11, FirstTyped, ConsumeTyped DEF StopChild
    <3>2. First.id \in ChildIds
      BY <2>11, <3>1 DEF Effect, AnyEffect, StopChild
    <3> DEFINE c == children[cur][First.id]
    <3>3. c \in Session \cup {NoSession}
      BY <3>1, <3>2 DEF TypeOK
    <3>4. CASE c = NoSession
      BY <2>11, <3>1, <3>4 DEF StopChild, TypeOK
    <3>5. CASE c # NoSession
      <4>1. StopTask(c) \in Task
        BY <3>3, <3>5, TasksAreTasks, BoundsAssumption
      <4>2. /\ queue' = Append(queue, StopTask(c))
            /\ children' = [children EXCEPT ![cur][First.id] = NoSession]
        BY <2>11, <3>5 DEF StopChild, Post
      <4>3. /\ queue' \in Seq(Task)
            /\ children' \in [Session -> [ChildIds -> Session \cup {NoSession}]]
        BY <3>1, <3>2, <4>1, <4>2 DEF TypeOK
      <4> QED
        BY <2>11, <3>1, <4>3 DEF StopChild, TypeOK
    <3> QED
      BY <3>4, <3>5
  <2>12. CASE EffectThrows
    <3>1. cur \in Session
      BY <2>12, FirstTyped DEF EffectThrows
    <3>2. CASE pc[cur] = "effects"
      <4>1. BecomeError(cur, queue) /\ queue \in Seq(Task)
        BY <2>12, <3>2 DEF EffectThrows, TypeOK
      <4> QED
        BY <2>12, <3>1, <4>1, ErrorTyped DEF EffectThrows, TypeOK, PCs
    <3>3. CASE pc[cur] # "effects"
      <4>1. <<>> \in Seq(Effect)
        OBVIOUS
      <4> QED
        BY <2>12, <3>1, <3>3, <4>1 DEF EffectThrows, TypeOK
    <3> QED
      BY <3>2, <3>3
  <2>13. CASE Finish
    <3>1. cur \in Session
      BY <2>13 DEF Finish, Idle, TypeOK
    <3>2. queue \in Seq(Task) /\ status[cur] \in Status
      BY <3>1 DEF TypeOK
    <3>3. ReportAfter(queue, cur, status[cur])
      BY <2>13 DEF Finish
    <3> QED
      BY <2>13, <3>1, <3>2, <3>3, ReportTyped DEF Finish, TypeOK
  <2>14. CASE Notify
    BY <2>14 DEF Notify, TypeOK
  <2>15. CASE NotifyThrows
    <3>1. cur \in Session /\ queue \in Seq(Task) /\ BecomeError(cur, queue)
      BY <2>15 DEF NotifyThrows, Idle, TypeOK
    <3> QED
      BY <2>15, <3>1, ErrorTyped DEF NotifyThrows, TypeOK, PCs
  <2>16. CASE StopNextChild
    <3>1. PICK c \in todo[cur] :
            LET child == children[cur][c] IN
            IF status[child] = "stopped"
            THEN /\ todo' = [todo EXCEPT ![cur] = @ \ {c}]
                 /\ UNCHANGED <<cur, pc>>
            ELSE /\ cur' = child
                 /\ pc' = [pc EXCEPT ![child] = "stopChildren"]
                 /\ todo' = [todo EXCEPT ![cur] = @ \ {c},
                                        ![child] = Registered(child)]
      BY <2>16 DEF StopNextChild
    <3>2. cur \in Session /\ c \in ChildIds
      BY <2>16, <3>1 DEF StopNextChild, Idle, TypeOK
    <3>3. children[cur][c] \in Session \cup {NoSession}
      BY <3>2 DEF TypeOK
    <3>4. Registered(children[cur][c]) \in SUBSET ChildIds
      BY DEF Registered
    <3>5. CASE status[children[cur][c]] = "stopped"
      <4>1. todo' = [todo EXCEPT ![cur] = @ \ {c}] /\ UNCHANGED <<cur, pc>>
        BY <3>1, <3>5
      <4>2. todo' \in [Session -> SUBSET ChildIds]
        BY <3>2, <4>1 DEF TypeOK
      <4> QED
        BY <2>16, <4>1, <4>2 DEF StopNextChild, TypeOK
    <3>6. CASE status[children[cur][c]] # "stopped"
      <4>1. todo' \in [Session -> SUBSET ChildIds]
        <5>1. todo' = [todo EXCEPT ![cur] = @ \ {c},
                                   ![children[cur][c]] = Registered(children[cur][c])]
          BY <3>1, <3>6
        <5>2. todo \in [Session -> SUBSET ChildIds]
          BY DEF TypeOK
        <5> QED
          BY <3>2, <3>4, <5>1, <5>2
      <4>2. pc' \in [Session -> PCs] /\ cur' \in Session \cup {NoSession}
        BY <3>1, <3>3, <3>6 DEF TypeOK, PCs
      <4> QED
        BY <2>16, <4>1, <4>2 DEF StopNextChild, TypeOK, PCs
    <3> QED
      BY <3>5, <3>6
  <2>17. CASE StopSelf
    <3>1. cur \in Session
      BY <2>17 DEF StopSelf, Idle, TypeOK
    <3>2. eff' \in [Session -> Seq(Effect)]
      <4>1. CASE status[cur] = "active"
        <5>1. PICK o \in Answers(cur, "stop") :
                eff' = [eff EXCEPT ![cur] = IF o.throws THEN <<>> ELSE o.effects]
          BY <2>17, <4>1 DEF StopSelf
        <5>2. o.effects \in Seq(Effect) /\ <<>> \in Seq(Effect)
          <6>1. "stop" \in Stimulus
            BY DEF Stimulus
          <6> QED
            BY <3>1, <5>1, <6>1, AnswersAreOutcomes, BehaviourAssumption
        <5> QED
          BY <5>1, <5>2 DEF TypeOK
      <4>2. CASE status[cur] # "active"
        BY <2>17, <4>2 DEF StopSelf, TypeOK
      <4> QED
        BY <4>1, <4>2
    <3>3. children' \in [Session -> [ChildIds -> Session \cup {NoSession}]]
      BY <2>17 DEF StopSelf, TypeOK
    <3>4. timers' \in [Session -> [SendIds -> TimerId \cup {NoTimer}]]
      BY <2>17 DEF StopSelf, TypeOK
    <3>5. clock' \subseteq Timer /\ pc' \in [Session -> PCs]
      BY <2>17 DEF StopSelf, TypeOK, PCs
    <3> QED
      BY <2>17, <3>2, <3>3, <3>4, <3>5 DEF StopSelf, TypeOK, PCs
  <2>18. CASE StopFinish
    <3>1. cur \in Session
      BY <2>18 DEF StopFinish, Idle, TypeOK
    <3> QED
      BY <2>18, <3>1 DEF StopFinish, TypeOK, Status
  <2>19. CASE StopNotifyThrows
    BY <2>19 DEF StopNotifyThrows, TypeOK, Status
  <2>20. CASE FireTimer
    <3>1. PICK t \in clock :
            /\ clock' = clock \ {t}
            /\ timers' = [timers EXCEPT ![t.actor][t.id] = NoTimer]
            /\ LET target == Resolve(t.actor, t.to) IN
               IF target = NoSession THEN UNCHANGED queue
               ELSE Post(ReceiveTask(target, Plain(t.type)))
      BY <2>20 DEF FireTimer
    <3>2. /\ t.actor \in Session /\ t.id \in SendIds
          /\ t.to \in Target /\ t.type \in EventTypes
      BY DEF TypeOK, Timer
    <3>3. Resolve(t.actor, t.to) \in Session \cup {NoSession}
      BY <3>2, ResolveTyped
    <3>4. queue' \in Seq(Task)
      <4>1. CASE Resolve(t.actor, t.to) = NoSession
        BY <3>1, <4>1 DEF TypeOK
      <4>2. CASE Resolve(t.actor, t.to) # NoSession
        <5>1. ReceiveTask(Resolve(t.actor, t.to), Plain(t.type)) \in Task
          BY <3>2, <3>3, <4>2, TasksAreTasks, BoundsAssumption
        <5>2. queue' = Append(queue, ReceiveTask(Resolve(t.actor, t.to), Plain(t.type)))
          BY <3>1, <4>2 DEF Post
        <5> QED
          BY <5>1, <5>2 DEF TypeOK
      <4> QED
        BY <4>1, <4>2
    <3>5. timers' \in [Session -> [SendIds -> TimerId \cup {NoTimer}]]
      BY <3>1, <3>2 DEF TypeOK
    <3> QED
      BY <2>20, <3>1, <3>4, <3>5 DEF FireTimer, TypeOK
  <2>21. CASE UNCHANGED vars
    BY <2>21 DEF vars, TypeOK
  <2> QED
    BY <2>1, <2>2, <2>3, <2>4, <2>5, <2>6, <2>7, <2>8, <2>9, <2>10, <2>11, <2>12,
       <2>13, <2>14, <2>15, <2>16, <2>17, <2>18, <2>19, <2>20, <2>21
    DEF Next, Others, Executor, RunTask, Execute, Return, Stopping
<1> QED
  BY <1>1, <1>2, PTL DEF Spec

-----------------------------------------------------------------------------
(* Timers.  ClockMatchesTimers is inductive once it is known that platform  *)
(* timers are distinct, which holds because their ids only grow.             *)

TimersAreDistinct == \A t, u \in clock : t.timer = u.timer => t = u
TimersAreGiven == \A t \in clock : t.timer <= nextTimer
ClockInv == TimersAreDistinct /\ TimersAreGiven /\ ClockMatchesTimers

\* A platform timer stands under one send id of one actor.
LEMMA OneSendId ==
    ASSUME ClockInv, NEW s \in Session, NEW i \in SendIds,
           NEW r \in Session, NEW j \in SendIds,
           timers[s][i] # NoTimer, timers[s][i] = timers[r][j]
    PROVE  s = r /\ i = j
<1>1. PICK t \in clock : t.timer = timers[s][i] /\ t.actor = s /\ t.id = i
  BY DEF ClockInv, ClockMatchesTimers
<1>2. PICK u \in clock : u.timer = timers[r][j] /\ u.actor = r /\ u.id = j
  BY DEF ClockInv, ClockMatchesTimers
<1>3. t = u
  BY <1>1, <1>2 DEF ClockInv, TimersAreDistinct
<1> QED
  BY <1>1, <1>2, <1>3

\* The timers an actor keeps are those the clock has armed: a timer that fired
\* or was replaced, cancelled or cleared is in neither, so that no cancellation
\* reaches a timer of somebody else (Actor::executeEffect, doStop).
THEOREM TimersMatch == Spec => []ClockMatchesTimers
<1>1. Init => ClockInv
  BY DEF Init, ClockInv, TimersAreDistinct, TimersAreGiven, ClockMatchesTimers
<1>2. TypeOK /\ TypeOK' /\ ClockInv /\ [Next]_vars => ClockInv'
  <2> SUFFICES ASSUME TypeOK, TypeOK', ClockInv, [Next]_vars PROVE ClockInv'
    OBVIOUS
  <2>1. CASE StartTimer
    <3> DEFINE new == [timer |-> nextTimer', actor |-> cur, id |-> First.id,
                       to |-> First.to, type |-> First.type]
               rest == {t \in clock : t.timer # timers[cur][First.id]}
    <3>1. cur \in Session /\ First \in Effect
      BY <2>1, FirstTyped DEF StartTimer
    <3>2. First.id \in SendIds
      BY <2>1, <3>1 DEF Effect, StartTimer
    <3>3. /\ nextTimer' = nextTimer + 1 /\ nextTimer \in Nat
          /\ clock' = rest \cup {new}
          /\ timers' = [timers EXCEPT ![cur][First.id] = nextTimer']
      BY <2>1 DEF StartTimer, TypeOK, TimerId, NoTimer
    <3>4. \A t \in clock : t.timer \in Nat /\ t.timer <= nextTimer
      BY DEF TypeOK, Timer, TimerId, ClockInv, TimersAreGiven
    <3>5. timers'[cur][First.id] = nextTimer'
      BY <3>1, <3>2, <3>3 DEF TypeOK
    <3>6. \A s \in Session, i \in SendIds :
             ~(s = cur /\ i = First.id) => timers'[s][i] = timers[s][i]
      BY <3>1, <3>2, <3>3 DEF TypeOK
    <3>7. TimersAreDistinct'
      BY <3>3, <3>4 DEF ClockInv, TimersAreDistinct
    <3>8. TimersAreGiven'
      BY <3>3, <3>4 DEF TimersAreGiven
    <3>9. ASSUME NEW t \in clock' PROVE timers'[t.actor][t.id] = t.timer
      <4>1. CASE t = new
        BY <3>5, <4>1
      <4>2. CASE t \in rest
        <5>1. t.actor \in Session /\ t.id \in SendIds /\ timers[t.actor][t.id] = t.timer
          BY <4>2 DEF TypeOK, Timer, ClockInv, ClockMatchesTimers
        <5>2. ~(t.actor = cur /\ t.id = First.id)
          BY <4>2, <5>1
        <5> QED
          BY <3>6, <5>1, <5>2
      <4> QED
        BY <3>3, <4>1, <4>2
    <3>10. ASSUME NEW s \in Session, NEW i \in SendIds, timers'[s][i] # NoTimer
           PROVE  \E t \in clock' : t.timer = timers'[s][i] /\ t.actor = s /\ t.id = i
      <4>1. CASE s = cur /\ i = First.id
        <5>1. new \in clock' /\ new.timer = nextTimer'
              /\ new.actor = cur /\ new.id = First.id
          BY <3>3
        <5> HIDE DEF new
        <5> QED
          BY <3>5, <4>1, <5>1
      <4>2. CASE ~(s = cur /\ i = First.id)
        <5>1. timers'[s][i] = timers[s][i] /\ timers[s][i] # NoTimer
          BY <3>6, <3>10, <4>2
        <5>2. PICK t \in clock : t.timer = timers[s][i] /\ t.actor = s /\ t.id = i
          BY <5>1 DEF ClockInv, ClockMatchesTimers
        <5>3. timers[s][i] # timers[cur][First.id]
          BY <3>1, <3>2, <4>2, <5>1, OneSendId
        <5>4. t \in rest
          BY <5>2, <5>3
        <5> QED
          BY <3>3, <5>1, <5>2, <5>4
      <4> QED
        BY <4>1, <4>2
    <3>11. ClockMatchesTimers'
      BY <3>9, <3>10 DEF ClockMatchesTimers
    <3> QED
      BY <3>7, <3>8, <3>11 DEF ClockInv
  <2>2. CASE CancelTimer
    <3>1. cur \in Session /\ First \in Effect
      BY <2>2, FirstTyped DEF CancelTimer
    <3>2. First.id \in SendIds
      BY <2>2, <3>1 DEF Effect, CancelTimer
    <3>3. /\ clock' = {t \in clock : t.timer # timers[cur][First.id]}
          /\ timers' = [timers EXCEPT ![cur][First.id] = NoTimer]
          /\ nextTimer' = nextTimer
      BY <2>2 DEF CancelTimer
    <3>4. /\ timers'[cur][First.id] = NoTimer
          /\ \A s \in Session, i \in SendIds :
                ~(s = cur /\ i = First.id) => timers'[s][i] = timers[s][i]
      BY <3>1, <3>2, <3>3 DEF TypeOK
    <3>5. TimersAreDistinct' /\ TimersAreGiven'
      BY <3>3 DEF ClockInv, TimersAreDistinct, TimersAreGiven
    <3>6. ASSUME NEW t \in clock' PROVE timers'[t.actor][t.id] = t.timer
      <4>1. /\ t.actor \in Session /\ t.id \in SendIds
            /\ timers[t.actor][t.id] = t.timer /\ t.timer # timers[cur][First.id]
        BY <3>3 DEF TypeOK, Timer, ClockInv, ClockMatchesTimers
      <4> QED
        BY <3>4, <4>1
    <3>7. ASSUME NEW s \in Session, NEW i \in SendIds, timers'[s][i] # NoTimer
          PROVE  \E t \in clock' : t.timer = timers'[s][i] /\ t.actor = s /\ t.id = i
      <4>1. ~(s = cur /\ i = First.id) /\ timers'[s][i] = timers[s][i]
        BY <3>4, <3>7
      <4>2. PICK t \in clock : t.timer = timers[s][i] /\ t.actor = s /\ t.id = i
        BY <3>7, <4>1 DEF ClockInv, ClockMatchesTimers
      <4>3. timers[s][i] # timers[cur][First.id]
        BY <3>1, <3>2, <3>7, <4>1, OneSendId
      <4> QED
        BY <3>3, <4>1, <4>2, <4>3
    <3> QED
      BY <3>5, <3>6, <3>7 DEF ClockInv, ClockMatchesTimers
  <2>3. CASE FireTimer
    <3>1. PICK f \in clock :
            /\ clock' = clock \ {f}
            /\ timers' = [timers EXCEPT ![f.actor][f.id] = NoTimer]
      BY <2>3 DEF FireTimer
    <3>2. f.actor \in Session /\ f.id \in SendIds /\ nextTimer' = nextTimer
      BY <2>3, <3>1 DEF FireTimer, TypeOK, Timer
    <3>3. /\ timers'[f.actor][f.id] = NoTimer
          /\ \A s \in Session, i \in SendIds :
                ~(s = f.actor /\ i = f.id) => timers'[s][i] = timers[s][i]
      BY <3>1, <3>2 DEF TypeOK
    <3>4. TimersAreDistinct' /\ TimersAreGiven'
      BY <3>1, <3>2 DEF ClockInv, TimersAreDistinct, TimersAreGiven
    <3>5. ASSUME NEW t \in clock' PROVE timers'[t.actor][t.id] = t.timer
      <4>1. /\ t \in clock /\ t # f
            /\ t.actor \in Session /\ t.id \in SendIds
            /\ timers[t.actor][t.id] = t.timer /\ timers[f.actor][f.id] = f.timer
        BY <3>1 DEF TypeOK, Timer, ClockInv, ClockMatchesTimers
      <4>2. t.timer # f.timer
        BY <4>1 DEF ClockInv, TimersAreDistinct
      <4>3. ~(t.actor = f.actor /\ t.id = f.id)
        BY <4>1, <4>2
      <4> QED
        BY <3>3, <4>1, <4>3
    <3>6. ASSUME NEW s \in Session, NEW i \in SendIds, timers'[s][i] # NoTimer
          PROVE  \E t \in clock' : t.timer = timers'[s][i] /\ t.actor = s /\ t.id = i
      <4>1. ~(s = f.actor /\ i = f.id) /\ timers'[s][i] = timers[s][i]
        BY <3>3, <3>6
      <4>2. PICK t \in clock : t.timer = timers[s][i] /\ t.actor = s /\ t.id = i
        BY <3>6, <4>1 DEF ClockInv, ClockMatchesTimers
      <4> QED
        BY <3>1, <4>1, <4>2
    <3> QED
      BY <3>4, <3>5, <3>6 DEF ClockInv, ClockMatchesTimers
  <2>4. CASE StopSelf
    <3>1. /\ clock' = {t \in clock : t.actor # cur}
          /\ timers' = [timers EXCEPT ![cur] = [i \in SendIds |-> NoTimer]]
          /\ nextTimer' = nextTimer
      BY <2>4 DEF StopSelf
    <3>2. cur \in Session
      BY <2>4 DEF StopSelf, Idle, TypeOK
    <3>3. TimersAreDistinct' /\ TimersAreGiven'
      BY <3>1 DEF ClockInv, TimersAreDistinct, TimersAreGiven
    <3>4. ASSUME NEW t \in clock' PROVE timers'[t.actor][t.id] = t.timer
      BY <3>1 DEF TypeOK, Timer, ClockInv, ClockMatchesTimers
    <3>5. ASSUME NEW s \in Session, NEW i \in SendIds, timers'[s][i] # NoTimer
          PROVE  \E t \in clock' : t.timer = timers'[s][i] /\ t.actor = s /\ t.id = i
      <4>1. s # cur /\ timers'[s][i] = timers[s][i]
        BY <3>1, <3>2, <3>5 DEF TypeOK
      <4>2. PICK t \in clock : t.timer = timers[s][i] /\ t.actor = s /\ t.id = i
        BY <3>5, <4>1 DEF ClockInv, ClockMatchesTimers
      <4> QED
        BY <3>1, <4>1, <4>2
    <3> QED
      BY <3>3, <3>4, <3>5 DEF ClockInv, ClockMatchesTimers
  <2>5. ASSUME UNCHANGED timing PROVE ClockInv'
    BY <2>5 DEF timing, ClockInv, TimersAreDistinct, TimersAreGiven, ClockMatchesTimers
  <2>6. CASE Others \/ RunTask
    BY <2>5, <2>6 DEF Others, RunTask, RootStart, ForeignSend, RootStop, DoStart,
       DoReceive, DoStop
  <2>7. CASE ExecuteSend \/ SpawnChild \/ StopChild \/ EffectThrows \/ Return
    BY <2>5, <2>7 DEF ExecuteSend, SpawnChild, StopChild, EffectThrows, Return, Finish,
       Notify, NotifyThrows
  <2>8. CASE StopNextChild \/ StopFinish \/ StopNotifyThrows \/ UNCHANGED vars
    BY <2>5, <2>8 DEF StopNextChild, StopFinish, StopNotifyThrows, vars
  <2> QED
    BY <2>1, <2>2, <2>3, <2>4, <2>6, <2>7, <2>8 DEF Next, Executor, Execute, Stopping
<1>3. ClockInv => ClockMatchesTimers
  BY DEF ClockInv
<1> QED
  BY <1>1, <1>2, <1>3, TypeCorrect, PTL DEF Spec

-----------------------------------------------------------------------------
(* The lifecycle.  Only a handler that has stored a snapshot of the logic is *)
(* between its effects and its observers.                                    *)

InHandler == \A s \in Session :
    pc[s] \in {"effects", "notify"} => status[s] \in {"active", "done", "error"}

\* What becomeError and the logic do to the statuses.
LEMMA ErrorStatus ==
    ASSUME TypeOK, InHandler, NEW s \in Session, NEW tasks, BecomeError(s, tasks)
    PROVE  /\ InHandler'
           /\ \A r \in Session \ {s} : status'[r] = status[r]
           /\ status'[s] = "error"
BY DEF TypeOK, InHandler, BecomeError

\* The logic leaves the other actors alone, and its own in a status of a snapshot.
LEMMA LogicStatus ==
    ASSUME TypeOK, InHandler, BehaviourAssumption,
           NEW s \in Session, NEW stimulus \in Stimulus, RunLogic(s, stimulus)
    PROVE  /\ InHandler'
           /\ \A r \in Session \ {s} : status'[r] = status[r]
           /\ status'[s] \in {"active", "done", "error"}
<1>1. PICK o \in Answers(s, stimulus) :
         IF o.throws THEN BecomeError(s, Tail(queue))
         ELSE /\ status' = [status EXCEPT ![s] = o.status]
              /\ pc' = [pc EXCEPT ![s] = "effects"]
  BY DEF RunLogic
<1>2. CASE o.throws
  BY <1>1, <1>2, ErrorStatus
<1>3. CASE ~o.throws
  <2>1. o.status \in {"active", "done", "error"}
    BY <1>1, AnswersAreOutcomes
  <2>2. /\ status' = [status EXCEPT ![s] = o.status]
        /\ pc' = [pc EXCEPT ![s] = "effects"]
    BY <1>1, <1>3
  <2> QED
    BY <2>1, <2>2 DEF TypeOK, InHandler
<1> QED
  BY <1>2, <1>3

\* The logic's answer, or its failure, is a snapshot.
LEMMA LogicStores ==
    ASSUME TypeOK, BehaviourAssumption,
           NEW s \in Session, NEW stimulus \in Stimulus, RunLogic(s, stimulus)
    PROVE  status'[s] # "none"
<1>1. PICK o \in Answers(s, stimulus) :
         IF o.throws THEN BecomeError(s, Tail(queue))
         ELSE status' = [status EXCEPT ![s] = o.status]
  BY DEF RunLogic
<1>2. o.status \in {"active", "done", "error"}
  BY <1>1, AnswersAreOutcomes
<1> QED
  BY <1>1, <1>2 DEF BecomeError, TypeOK

LifeStep == \A s \in Session : [Life(s)!Next]_(status[s])

\* A step that gives one actor a status that may follow its own, or leaves all
\* as they are, is a step of the lifecycle.
LEMMA OneStatus ==
    ASSUME NEW s \in Session, \A r \in Session \ {s} : status'[r] = status[r],
           \/ status'[s] = status[s]
           \/ status[s] = "none" /\ status'[s] \in {"active", "done", "error", "stopped"}
           \/ status[s] = "active" /\ status'[s] \in {"done", "error", "stopped"}
           \/ status[s] = "done" /\ status'[s] \in {"error", "stopped"}
           \/ status[s] = "error" /\ status'[s] = "stopped"
    PROVE  LifeStep
BY DEF LifeStep, Life!Next, Life!Follows

\* Every step gives each actor a status that may follow its own, and an actor whose
\* handler runs has a snapshot.
LEMMA StatusesFollow == Spec => []InHandler /\ [][LifeStep]_status
<1>1. Init => InHandler
  BY DEF Init, InHandler
<1>2. TypeOK /\ InHandler /\ [Next]_vars => InHandler' /\ [LifeStep]_status
  <2> SUFFICES ASSUME TypeOK, InHandler, [Next]_vars
               PROVE  InHandler' /\ (LifeStep \/ UNCHANGED status)
    OBVIOUS
  <2> USE DEF lifecycle, running
  <2>1. CASE DoStart
    <3> DEFINE s == Head(queue).actor
    <3>1. Head(queue) \in Task
      BY <2>1, HeadOfQueue DEF DoStart, HeadIs
    <3>2. s \in Session /\ "start" \in Stimulus
      BY <3>1 DEF Task, Stimulus
    <3>3. CASE status[s] = "none"
      <4>1. RunLogic(s, "start")
        BY <2>1, <3>3 DEF DoStart
      <4> HIDE DEF s
      <4>2. /\ InHandler'
            /\ \A r \in Session \ {s} : status'[r] = status[r]
            /\ status'[s] \in {"active", "done", "error"}
        BY <3>2, <4>1, LogicStatus, BehaviourAssumption
      <4> QED
        BY <3>2, <3>3, <4>2, OneStatus
    <3>4. CASE status[s] # "none"
      BY <2>1, <3>4 DEF DoStart, DropTask, InHandler
    <3> QED
      BY <3>3, <3>4
  <2>2. CASE DoReceive
    <3> DEFINE s == Head(queue).actor
               type == Head(queue).event.type
    <3>1. Head(queue) \in Task
      BY <2>2, HeadOfQueue DEF DoReceive, HeadIs
    <3>2. s \in Session /\ type \in Stimulus
      BY <3>1, Stimuli DEF Task
    <3>3. CASE status[s] = "active"
      <4>1. RunLogic(s, type)
        BY <2>2, <3>3 DEF DoReceive
      <4> HIDE DEF s, type
      <4>2. /\ InHandler'
            /\ \A r \in Session \ {s} : status'[r] = status[r]
            /\ status'[s] \in {"active", "done", "error"}
        BY <3>2, <4>1, LogicStatus, BehaviourAssumption
      <4> QED
        BY <3>2, <3>3, <4>2, OneStatus
    <3>4. CASE status[s] # "active"
      BY <2>2, <3>4 DEF DoReceive, DropTask, InHandler
    <3> QED
      BY <3>3, <3>4
  \* an error in a handler: the actor was active, done or an error already
  <2>3. ASSUME cur \in Session, pc[cur] \in {"effects", "notify"}, BecomeError(cur, queue)
        PROVE  InHandler' /\ LifeStep
    <3>1. status[cur] \in {"active", "done", "error"}
      BY <2>3 DEF InHandler
    <3>2. /\ InHandler'
          /\ \A r \in Session \ {cur} : status'[r] = status[r]
          /\ status'[cur] = "error"
      BY <2>3, ErrorStatus
    <3> QED
      BY <2>3, <3>1, <3>2, OneStatus
  <2>4. CASE EffectThrows
    <3>1. cur \in Session
      BY <2>4, FirstTyped DEF EffectThrows
    <3>2. CASE pc[cur] = "effects"
      BY <2>3, <2>4, <3>1, <3>2 DEF EffectThrows
    <3>3. CASE pc[cur] # "effects"
      BY <2>4, <3>3 DEF EffectThrows, InHandler
    <3> QED
      BY <3>2, <3>3
  <2>5. CASE NotifyThrows
    BY <2>3, <2>5 DEF NotifyThrows, Idle, TypeOK
  \* stopping: any status may be followed by "stopped"
  <2>6. ASSUME cur \in Session, status' = [status EXCEPT ![cur] = "stopped"]
        PROVE  LifeStep
    <3>1. status'[cur] = "stopped" /\ \A r \in Session \ {cur} : status'[r] = status[r]
      BY <2>6 DEF TypeOK
    <3>2. status[cur] \in {"none", "active", "done", "error", "stopped"}
      BY <2>6 DEF TypeOK, Status
    <3> QED
      BY <2>6, <3>1, <3>2, OneStatus
  <2>7. CASE StopFinish
    <3>1. cur \in Session /\ status' = [status EXCEPT ![cur] = "stopped"]
      BY <2>7 DEF StopFinish, Idle, TypeOK
    <3>2. InHandler'
      BY <2>7, <3>1 DEF StopFinish, InHandler, TypeOK
    <3> QED
      BY <2>6, <3>1, <3>2
  <2>8. CASE StopNotifyThrows
    <3>1. cur \in Session /\ status' = [status EXCEPT ![cur] = "stopped"]
      BY <2>8 DEF StopNotifyThrows, Idle, TypeOK
    <3>2. InHandler'
      BY <2>8 DEF StopNotifyThrows, InHandler
    <3> QED
      BY <2>6, <3>1, <3>2
  \* everything else leaves the statuses alone, and no handler gets further
  \* than it was but to its observers
  <2>9. ASSUME UNCHANGED status,
               \A s \in Session : pc'[s] \in {"effects", "notify"} =>
                                     pc[s] \in {"effects", "notify"}
        PROVE  InHandler' /\ UNCHANGED status
    BY <2>9 DEF InHandler
  <2>10. CASE Others \/ ExecuteSend \/ StartTimer \/ CancelTimer \/ StopChild
              \/ FireTimer \/ UNCHANGED vars
    BY <2>9, <2>10 DEF Others, RootStart, ForeignSend, RootStop, ExecuteSend,
       StartTimer, CancelTimer, StopChild, FireTimer, vars
  <2>11. CASE SpawnChild
    BY <2>9, <2>11 DEF SpawnChild
  <2>12. CASE Finish \/ Notify
    BY <2>9, <2>12 DEF Finish, Notify, TypeOK
  <2>13. CASE DoStop
    BY <2>9, <2>13 DEF DoStop, EnterStop, TypeOK
  <2>14. CASE StopNextChild
    BY <2>9, <2>14 DEF StopNextChild, TypeOK
  <2>15. CASE StopSelf
    BY <2>9, <2>15 DEF StopSelf, TypeOK
  <2> QED
    BY <2>1, <2>2, <2>4, <2>5, <2>7, <2>8, <2>10, <2>11, <2>12, <2>13, <2>14, <2>15
    DEF Next, Executor, RunTask, Execute, Return, Stopping
<1> QED
  BY <1>1, <1>2, TypeCorrect, PTL DEF Spec

\* Every actor goes through the statuses of an actor's lifecycle, for all
\* logics, and whether or not observers throw.
THEOREM ActorsHaveALifecycle == Spec => ImplementsLifecycle
<1>1. Spec => \A s \in Session : Life(s)!Init
  BY DEF Spec, Init, Life!Init
<1> QED
  BY <1>1, StatusesFollow DEF ImplementsLifecycle, LifeStep

\* No actor loses its snapshot.
LEMMA NoneIsFirst ==
    ASSUME TypeOK, LifeStep, NEW s \in Session, status'[s] = "none"
    PROVE  status[s] = "none"
<1>1. status[s] \in {"none", "active", "done", "error", "stopped"}
  BY DEF TypeOK, Status
<1> QED
  BY <1>1 DEF LifeStep, Life!Next, Life!Follows

-----------------------------------------------------------------------------
(* Starting.  Nothing names an actor before it is created, so that nothing   *)
(* can be ahead of its start in the queue.                                   *)

NamesExist ==
    /\ \A i \in DOMAIN queue : queue[i].actor \in Existing
    /\ \A s \in Session : parent[s] \in Existing \cup {NoSession}
    /\ \A s \in Session, c \in ChildIds : children[s][c] \in Existing \cup {NoSession}
    /\ \A t \in clock : t.actor \in Existing
    /\ cur \in Existing \cup {NoSession}

\* What StartComesFirst says of an actor without a snapshot.
Ahead(q, s) == \E i \in DOMAIN q :
    /\ q[i] = StartTask(s)
    /\ \A j \in 1 .. i : q[j].kind = "receive" => q[j].actor # s

\* Posting puts nothing ahead of what is in the queue.
LEMMA AheadAppend ==
    ASSUME NEW q \in Seq(Task), NEW x, NEW s, Ahead(q, s)
    PROVE  Ahead(Append(q, x), s)
<1>1. PICK i \in 1 .. Len(q) :
         q[i] = StartTask(s) /\ \A j \in 1 .. i : q[j].kind = "receive" => q[j].actor # s
  BY DEF Ahead
<1>2. \A j \in 1 .. Len(q) : Append(q, x)[j] = q[j]
  OBVIOUS
<1>3. i \in DOMAIN Append(q, x)
  BY <1>1
<1> QED
  BY <1>1, <1>2, <1>3 DEF Ahead

\* Taking another task leaves a start ahead of the events.
LEMMA AheadTail ==
    ASSUME NEW q \in Seq(Task), NEW s, Ahead(q, s), q # <<>>, Head(q) # StartTask(s)
    PROVE  Ahead(Tail(q), s)
<1>1. PICK i \in 1 .. Len(q) :
         q[i] = StartTask(s) /\ \A j \in 1 .. i : q[j].kind = "receive" => q[j].actor # s
  BY DEF Ahead
<1>2. i # 1
  BY <1>1
<1>3. \A j \in 1 .. Len(q) - 1 : Tail(q)[j] = q[j + 1]
  OBVIOUS
<1>4. i - 1 \in DOMAIN Tail(q) /\ Tail(q)[i - 1] = StartTask(s)
  BY <1>1, <1>2, <1>3
<1>5. \A j \in 1 .. i - 1 : Tail(q)[j].kind = "receive" => Tail(q)[j].actor # s
  BY <1>1, <1>3
<1> QED
  BY <1>4, <1>5 DEF Ahead

\* The start of an actor nobody has named comes first.
LEMMA AheadNew ==
    ASSUME NEW q \in Seq(Task), NEW s, \A i \in DOMAIN q : q[i].actor # s
    PROVE  Ahead(Append(q, StartTask(s)), s)
<1> DEFINE n == Len(q) + 1
           r == Append(q, StartTask(s))
<1>1. n \in DOMAIN r /\ r[n] = StartTask(s)
  OBVIOUS
<1>2. \A j \in 1 .. Len(q) : r[j] = q[j]
  OBVIOUS
<1>3. StartTask(s).kind # "receive"
  BY DEF StartTask
<1>4. \A j \in 1 .. n : r[j].kind = "receive" => r[j].actor # s
  <2> TAKE j \in 1 .. n
  <2>1. CASE j = n
    BY <1>1, <1>3, <2>1
  <2>2. CASE j # n
    BY <1>2, <2>2
  <2> QED
    BY <2>1, <2>2
<1> HIDE DEF r, n
<1>5. Ahead(r, s)
  BY <1>1, <1>4 DEF Ahead
<1> QED
  BY <1>5 DEF r

\* Posting a task about an actor there is, after the tasks of q.
LEMMA QueueNames ==
    ASSUME TypeOK, NamesExist, created' \in Nat, created' >= created,
           NEW q \in Seq(Task), \A i \in DOMAIN q : q[i].actor \in Existing,
           \/ queue' = q
           \/ \E x \in Task : x.actor \in Existing' /\ queue' = Append(q, x)
    PROVE  \A i \in DOMAIN queue' : queue'[i].actor \in Existing'
<1>1. created \in Nat /\ Existing \subseteq Existing'
  BY DEF TypeOK, Session, Existing
<1>2. CASE queue' = q
  BY <1>1, <1>2
<1>3. ASSUME NEW x \in Task, x.actor \in Existing', queue' = Append(q, x)
      PROVE  \A i \in DOMAIN queue' : queue'[i].actor \in Existing'
  BY <1>1, <1>3
<1> QED
  BY <1>2, <1>3

\* The tasks that are left when one was taken are about actors there are.
LEMMA TailNames ==
    ASSUME TypeOK, NamesExist, queue # <<>>
    PROVE  /\ Tail(queue) \in Seq(Task)
           /\ \A i \in DOMAIN Tail(queue) : Tail(queue)[i].actor \in Existing
           /\ Head(queue).actor \in Existing
<1>1. queue \in Seq(Task)
  BY DEF TypeOK
<1>2. \A i \in 1 .. Len(queue) - 1 : Tail(queue)[i] = queue[i + 1]
  BY <1>1
<1>3. 1 \in DOMAIN queue
  BY <1>1
<1> QED
  BY <1>1, <1>2, <1>3 DEF NamesExist

\* A report goes to an actor there is.
LEMMA ReportNames ==
    ASSUME TypeOK, NamesExist, NEW s \in Session, NEW tasks \in Seq(Task),
           NEW st \in Status, ReportAfter(tasks, s, st)
    PROVE  \/ queue' = tasks
           \/ \E x \in Task : x.actor \in Existing /\ queue' = Append(tasks, x)
<1>1. CASE Reports(s, st)
  <2> DEFINE e == [type |-> IF st = "done" THEN "done.actor" ELSE "error.actor",
                   of |-> id[s]]
  <2>1. parent[s] \in Existing /\ parent[s] \in Session
    BY <1>1 DEF Reports, NamesExist, TypeOK
  <2>2. e \in Event
    BY DEF Event, TypeOK
  <2>3. queue' = Append(tasks, ReceiveTask(parent[s], e))
    BY <1>1 DEF ReportAfter, Report
  <2> HIDE DEF e
  <2>4. ReceiveTask(parent[s], e) \in Task /\ ReceiveTask(parent[s], e).actor \in Existing
    BY <2>1, <2>2 DEF ReceiveTask, Task
  <2> QED
    BY <2>3, <2>4
<1>2. CASE ~Reports(s, st)
  BY <1>2 DEF ReportAfter
<1> QED
  BY <1>1, <1>2

\* The logic's answer posts a report, after the task was taken, or nothing, and
\* the handler that goes on is the actor's.
LEMMA LogicNames ==
    ASSUME TypeOK, NamesExist, queue # <<>>, NEW s \in Session, NEW stimulus,
           RunLogic(s, stimulus)
    PROVE  /\ \/ queue' = Tail(queue)
              \/ \E x \in Task : x.actor \in Existing /\ queue' = Append(Tail(queue), x)
           /\ cur' \in {s, NoSession}
<1>1. PICK o \in Answers(s, stimulus) :
         IF o.throws THEN BecomeError(s, Tail(queue))
         ELSE /\ queue' = Tail(queue)
              /\ cur' = s
  BY DEF RunLogic
<1>2. CASE o.throws
  <2>1. ReportAfter(Tail(queue), s, "error") /\ cur' = NoSession
    BY <1>1, <1>2 DEF BecomeError
  <2>2. "error" \in Status
    BY DEF Status
  <2> QED
    BY <2>1, <2>2, HeadOfQueue, ReportNames
<1>3. CASE ~o.throws
  BY <1>1, <1>3
<1> QED
  BY <1>2, <1>3

\* A target that is known is an actor there is.
LEMMA ResolveNames ==
    ASSUME TypeOK, NamesExist, NEW s \in Session, s \in Existing, NEW to \in Target
    PROVE  Resolve(s, to) \in Existing \cup {NoSession}
<1>1. CASE to = "self"
  BY <1>1 DEF Resolve
<1>2. CASE to = "parent"
  BY <1>2 DEF Resolve, NamesExist
<1>3. CASE to \notin {"self", "parent"}
  <2>1. to \in ChildIds
    BY <1>3 DEF Target
  <2> QED
    BY <1>3, <2>1 DEF Resolve, NamesExist
<1> QED
  BY <1>1, <1>2, <1>3

\* What a step does to the queue: it takes the first task or none, and appends
\* one about an actor there is or none.
Appends(q) == \/ queue' = q
              \/ \E x \in Task : x.actor \in Existing' /\ queue' = Append(q, x)

\* The two cases of a step.
LEMMA QueueSteps ==
    ASSUME TypeOK, NamesExist, BoundsAssumption, [Next]_vars
    PROVE  \/ Appends(queue)
           \/ RunTask /\ queue # <<>> /\ Appends(Tail(queue))
<1> USE DEF Appends, lifecycle, timing, running
<1>0. created \in Nat /\ created >= 1
  BY BoundsAssumption DEF TypeOK, Session
<1>1. CASE RootStart \/ RootStop
  <2>1. StartTask(Root) \in Task /\ StopTask(Root) \in Task
    BY TasksAreTasks, BoundsAssumption DEF Root, Session
  <2>2. StartTask(Root).actor = 1 /\ StopTask(Root).actor = 1
    BY DEF StartTask, StopTask, Root
  <2>3. created' = created
    BY <1>1 DEF RootStart, RootStop
  <2> QED
    BY <1>0, <1>1, <2>1, <2>2, <2>3 DEF RootStart, RootStop, Post, Existing
<1>2. CASE ForeignSend
  <2>1. PICK s \in Existing, type \in Posted : Post(ReceiveTask(s, Plain(type)))
    BY <1>2 DEF ForeignSend
  <2>2. s \in Session /\ type \in EventTypes /\ Existing' = Existing
    BY <1>2, <2>1, BoundsAssumption DEF ForeignSend, Existing, Session, TypeOK
  <2>3. ReceiveTask(s, Plain(type)) \in Task /\ ReceiveTask(s, Plain(type)).actor = s
    BY <2>2, TasksAreTasks, BoundsAssumption DEF ReceiveTask
  <2> QED
    BY <2>1, <2>2, <2>3 DEF Post
<1>3. CASE DoStart \/ DoReceive
  <2> DEFINE s == Head(queue).actor
  <2>1. queue # <<>> /\ Existing' = Existing
    BY <1>3 DEF DoStart, DoReceive, HeadIs, Existing
  <2>2. s \in Session
    BY <2>1, HeadOfQueue DEF Task
  <2>3. ASSUME NEW stimulus, RunLogic(s, stimulus) PROVE Appends(Tail(queue))
    BY <2>1, <2>2, <2>3, LogicNames
  <2>4. CASE DropTask
    BY <2>4, <2>1, <1>3 DEF DropTask, RunTask
  <2> QED
    BY <1>3, <2>1, <2>3, <2>4 DEF DoStart, DoReceive, RunTask
<1>4. CASE DoStop
  BY <1>4 DEF DoStop, HeadIs, RunTask
<1>5. CASE ExecuteSend
  <2>1. cur \in Session /\ cur \in Existing /\ First \in Effect /\ Existing' = Existing
    BY <1>5, FirstTyped DEF ExecuteSend, NamesExist, Existing, InEffects, Idle
  <2>2. First.to \in Target /\ First.type \in EventTypes
    BY <2>1 DEF Effect, AnyEffect
  <2> DEFINE r == Resolve(cur, First.to)
  <2>3. r \in Existing \cup {NoSession} /\ r \in Session \cup {NoSession}
    BY <2>1, <2>2, ResolveNames, ResolveTyped
  <2>4. CASE r = NoSession
    BY <1>5, <2>4 DEF ExecuteSend
  <2>5. CASE r # NoSession
    <3>1. queue' = Append(queue, ReceiveTask(r, Plain(First.type)))
      BY <1>5, <2>5 DEF ExecuteSend, Post
    <3> HIDE DEF r
    <3>2. /\ ReceiveTask(r, Plain(First.type)) \in Task
          /\ ReceiveTask(r, Plain(First.type)).actor = r
      BY <2>2, <2>3, <2>5, TasksAreTasks, BoundsAssumption DEF ReceiveTask
    <3> QED
      BY <2>1, <2>3, <2>5, <3>1, <3>2
  <2> QED
    BY <2>4, <2>5
<1>6. CASE SpawnChild
  <2>1. created + 1 \in Session /\ created' = created + 1
    BY <1>6, <1>0, BoundsAssumption DEF SpawnChild, Session, TypeOK
  <2>2. StartTask(created + 1) \in Task /\ StartTask(created + 1).actor = created'
    BY <2>1, TasksAreTasks, BoundsAssumption DEF StartTask
  <2>3. queue' = Append(queue, StartTask(created + 1))
    BY <1>6 DEF SpawnChild, Post
  <2>4. created' \in Existing'
    BY <1>0, <2>1 DEF Existing
  <2> QED
    BY <2>2, <2>3, <2>4
<1>7. CASE StopChild
  <2>1. cur \in Session /\ First \in Effect /\ Existing' = Existing
    BY <1>7, FirstTyped DEF StopChild, Existing
  <2>2. First.id \in ChildIds
    BY <1>7, <2>1 DEF Effect, StopChild
  <2> DEFINE c == children[cur][First.id]
  <2>3. c \in Existing \cup {NoSession} /\ c \in Session \cup {NoSession}
    BY <2>1, <2>2 DEF NamesExist, TypeOK
  <2>4. CASE c = NoSession
    BY <1>7, <2>4 DEF StopChild
  <2>5. CASE c # NoSession
    <3>1. queue' = Append(queue, StopTask(c))
      BY <1>7, <2>5 DEF StopChild, Post
    <3> HIDE DEF c
    <3>2. StopTask(c) \in Task /\ StopTask(c).actor = c
      BY <2>3, <2>5, TasksAreTasks, BoundsAssumption DEF StopTask
    <3> QED
      BY <2>1, <2>3, <2>5, <3>1, <3>2
  <2> QED
    BY <2>4, <2>5
<1>8. ASSUME cur \in Session, NEW st \in Status, ReportAfter(queue, cur, st),
             created' = created
      PROVE  Appends(queue)
  <2>1. queue \in Seq(Task) /\ Existing' = Existing
    BY <1>8 DEF TypeOK, Existing
  <2> QED
    BY <1>8, <2>1, ReportNames
<1>9. CASE EffectThrows
  <2>1. cur \in Session /\ "error" \in Status /\ created' = created
    BY <1>9, FirstTyped DEF EffectThrows, Status
  <2>2. CASE pc[cur] = "effects"
    BY <1>8, <1>9, <2>1, <2>2 DEF EffectThrows, BecomeError
  <2>3. CASE pc[cur] # "effects"
    BY <1>9, <2>3 DEF EffectThrows
  <2> QED
    BY <2>2, <2>3
<1>10. CASE Finish
  <2>1. cur \in Session
    BY <1>10 DEF Finish, Idle, TypeOK
  <2>2. status[cur] \in Status /\ ReportAfter(queue, cur, status[cur]) /\ created' = created
    BY <1>10, <2>1 DEF Finish, TypeOK
  <2> QED
    BY <1>8, <2>1, <2>2
<1>11. CASE NotifyThrows
  <2>1. cur \in Session /\ "error" \in Status /\ created' = created
    BY <1>11 DEF NotifyThrows, Idle, TypeOK, Status
  <2> QED
    BY <1>8, <1>11, <2>1 DEF NotifyThrows, BecomeError
<1>12. CASE FireTimer
  <2>1. PICK t \in clock :
          LET target == Resolve(t.actor, t.to) IN
          IF target = NoSession THEN UNCHANGED queue
          ELSE Post(ReceiveTask(target, Plain(t.type)))
    BY <1>12 DEF FireTimer
  <2>2. /\ t.actor \in Session /\ t.actor \in Existing
        /\ t.to \in Target /\ t.type \in EventTypes /\ Existing' = Existing
    BY <1>12, <2>1 DEF FireTimer, TypeOK, Timer, NamesExist, Existing
  <2> DEFINE r == Resolve(t.actor, t.to)
  <2>3. r \in Existing \cup {NoSession} /\ r \in Session \cup {NoSession}
    BY <2>2, ResolveNames, ResolveTyped
  <2>4. CASE r = NoSession
    BY <2>1, <2>4
  <2>5. CASE r # NoSession
    <3>1. queue' = Append(queue, ReceiveTask(r, Plain(t.type)))
      BY <2>1, <2>5 DEF Post
    <3> HIDE DEF r
    <3>2. /\ ReceiveTask(r, Plain(t.type)) \in Task
          /\ ReceiveTask(r, Plain(t.type)).actor = r
      BY <2>2, <2>3, <2>5, TasksAreTasks, BoundsAssumption DEF ReceiveTask
    <3> QED
      BY <2>2, <2>3, <2>5, <3>1, <3>2
  <2> QED
    BY <2>4, <2>5
<1>13. CASE \/ StartTimer \/ CancelTimer \/ Notify \/ Stopping \/ UNCHANGED vars
  BY <1>13 DEF StartTimer, CancelTimer, Notify, Stopping, StopNextChild, StopSelf,
     StopFinish, StopNotifyThrows, vars
<1> QED
  BY <1>1, <1>2, <1>3, <1>4, <1>5, <1>6, <1>7, <1>9, <1>10, <1>11, <1>12, <1>13
  DEF Next, Others, Executor, RunTask, Execute, Return

\* The queue, the clock and the actors name only actors that were created.
LEMMA NamesAreOfActors == Spec => []NamesExist
<1>1. Init => NamesExist
  BY DEF Init, NamesExist
<1>2. TypeOK /\ TypeOK' /\ NamesExist /\ [Next]_vars => NamesExist'
  <2> SUFFICES ASSUME TypeOK, TypeOK', NamesExist, [Next]_vars PROVE NamesExist'
    OBVIOUS
  <2> USE DEF lifecycle, timing, running
  <2>1. created \in Nat /\ created' \in Nat /\ created' >= created
    <3>1. created \in Nat /\ created' \in Nat
      BY DEF TypeOK, Session
    <3>2. created' \in {created, created + 1}
      BY DEF Next, Others, Executor, RunTask, Execute, Return, Stopping, RootStart,
         ForeignSend, RootStop, DoStart, DoReceive, DoStop, ExecuteSend, StartTimer,
         CancelTimer, SpawnChild, StopChild, EffectThrows, Finish, Notify, NotifyThrows,
         StopNextChild, StopSelf, StopFinish, StopNotifyThrows, FireTimer, vars
    <3> QED
      BY <3>1, <3>2
  <2>2. Existing \subseteq Existing'
    BY <2>1 DEF Existing
  <2>3. \A i \in DOMAIN queue' : queue'[i].actor \in Existing'
    <3>1. CASE Appends(queue)
      BY <2>1, <3>1, QueueNames DEF Appends, NamesExist, TypeOK
    <3>2. CASE queue # <<>> /\ Appends(Tail(queue))
      BY <2>1, <3>2, QueueNames, TailNames DEF Appends
    <3> QED
      BY <3>1, <3>2, QueueSteps, BoundsAssumption
  \* an actor gets a parent and a place among its children when it is created
  <2>4. CASE SpawnChild
    <3> DEFINE s == created + 1
    <3>1. /\ cur \in Existing /\ cur \in Session /\ First \in Effect
          /\ First.id \in ChildIds
      BY <2>4, FirstTyped DEF SpawnChild, InEffects, Idle, NamesExist, Effect
    <3>2. s \in Existing' /\ s \in Session
      BY <2>1, <2>4, BoundsAssumption DEF SpawnChild, Existing, TypeOK
    <3>3. /\ parent' = [parent EXCEPT ![s] = cur]
          /\ children' = [children EXCEPT ![cur][First.id] = s]
          /\ UNCHANGED <<clock, cur>>
      BY <2>4 DEF SpawnChild
    <3> HIDE DEF s
    <3>4. \A r \in Session : parent'[r] \in Existing' \cup {NoSession}
      BY <2>2, <3>1, <3>2, <3>3 DEF NamesExist, TypeOK
    <3>5. \A r \in Session, c \in ChildIds :
             children'[r][c] \in Existing' \cup {NoSession}
      BY <2>2, <3>1, <3>2, <3>3 DEF NamesExist, TypeOK
    <3> QED
      BY <2>2, <2>3, <3>3, <3>4, <3>5 DEF NamesExist
  \* all others keep parents, and children stay or go
  <2>5. ASSUME parent' = parent,
               \A r \in Session, c \in ChildIds :
                  children'[r][c] \in {children[r][c], NoSession},
               \A t \in clock' : t.actor \in Existing,
               cur' \in Existing \cup {NoSession}
        PROVE  NamesExist'
    BY <2>2, <2>3, <2>5 DEF NamesExist
  <2>6. CASE DoStart \/ DoReceive
    <3>1. cur' \in Existing \cup {NoSession}
      <4>1. queue # <<>> /\ Head(queue).actor \in Session /\ Head(queue).actor \in Existing
        BY <2>6, HeadOfQueue, TailNames DEF DoStart, DoReceive, HeadIs, Task
      <4>2. ASSUME NEW stimulus, RunLogic(Head(queue).actor, stimulus)
            PROVE  cur' \in Existing \cup {NoSession}
        BY <4>1, <4>2, LogicNames
      <4> QED
        BY <2>6, <4>2 DEF DoStart, DoReceive, DropTask, NamesExist
    <3> QED
      BY <2>5, <2>6, <3>1 DEF DoStart, DoReceive, NamesExist
  <2>7. CASE DoStop
    <3>1. Head(queue).actor \in Existing
      BY <2>7, TailNames DEF DoStop, HeadIs
    <3> QED
      BY <2>5, <2>7, <3>1 DEF DoStop, EnterStop, NamesExist
  <2>8. CASE StartTimer
    <3>1. cur \in Existing
      BY <2>8 DEF StartTimer, InEffects, Idle, NamesExist
    <3>2. \A t \in clock' : t.actor \in Existing
      BY <2>8, <3>1 DEF StartTimer, NamesExist
    <3> QED
      BY <2>5, <2>8, <3>2 DEF StartTimer, NamesExist
  <2>9. CASE StopChild
    <3>1. \A r \in Session, c \in ChildIds :
             children'[r][c] \in {children[r][c], NoSession}
      <4>1. \/ children' = children
            \/ children' = [children EXCEPT ![cur][First.id] = NoSession]
        BY <2>9 DEF StopChild
      <4>2. cur \in Session /\ First \in Effect
        BY <2>9, FirstTyped DEF StopChild
      <4>3. First.id \in ChildIds
        BY <2>9, <4>2 DEF Effect, StopChild
      <4>4. children \in [Session -> [ChildIds -> Session \cup {NoSession}]]
        BY DEF TypeOK
      <4> QED
        BY <4>1, <4>2, <4>3, <4>4
    <3> QED
      BY <2>5, <2>9, <3>1 DEF StopChild, NamesExist
  <2>10. CASE StopSelf
    <3>1. \A r \in Session, c \in ChildIds :
             children'[r][c] \in {children[r][c], NoSession}
      BY <2>10 DEF StopSelf, TypeOK
    <3>2. \A t \in clock' : t.actor \in Existing
      BY <2>10 DEF StopSelf, NamesExist
    <3> QED
      BY <2>5, <2>10, <3>1, <3>2 DEF StopSelf, NamesExist
  <2>11. CASE StopNextChild
    <3>1. PICK c \in todo[cur] : cur' \in {cur, children[cur][c]}
      BY <2>11 DEF StopNextChild
    <3>2. cur \in Session /\ c \in ChildIds
      BY <2>11, <3>1 DEF StopNextChild, Idle, TypeOK
    <3>3. cur' \in Existing \cup {NoSession}
      BY <3>1, <3>2 DEF NamesExist
    <3> QED
      BY <2>5, <2>11, <3>3 DEF StopNextChild, NamesExist
  <2>12. CASE StopFinish
    <3>1. cur' \in Existing \cup {NoSession}
      BY <2>12 DEF StopFinish, Idle, NamesExist, TypeOK
    <3> QED
      BY <2>5, <2>12, <3>1 DEF StopFinish, NamesExist
  <2>13. CASE EffectThrows \/ NotifyThrows
    <3>1. cur' \in {cur, NoSession}
      BY <2>13 DEF EffectThrows, NotifyThrows, BecomeError
    <3>2. cur' \in Existing \cup {NoSession}
      BY <3>1 DEF NamesExist
    <3> QED
      BY <2>5, <2>13, <3>2 DEF EffectThrows, NotifyThrows, NamesExist
  <2>14. CASE FireTimer
    BY <2>5, <2>14 DEF FireTimer, NamesExist
  <2>15. CASE Others \/ ExecuteSend \/ CancelTimer
    BY <2>5, <2>15 DEF Others, RootStart, ForeignSend, RootStop, ExecuteSend,
       CancelTimer, NamesExist
  <2>16. CASE Finish \/ Notify \/ StopNotifyThrows \/ UNCHANGED vars
    BY <2>5, <2>16 DEF Finish, Notify, StopNotifyThrows, vars, NamesExist
  <2> QED
    BY <2>4, <2>6, <2>7, <2>8, <2>9, <2>10, <2>11, <2>12, <2>13, <2>14, <2>15, <2>16
    DEF Next, Executor, RunTask, Execute, Return, Stopping
<1> QED
  BY <1>1, <1>2, TypeCorrect, PTL DEF Spec

\* A child's start waits ahead of every event for it (Actor::executeEffect posts
\* it before the next effect is executed).
THEOREM ChildrenStartFirst == Spec => []StartComesFirst
<1>1. Init => StartComesFirst
  BY DEF Init, StartComesFirst, Existing, Root
<1>2. TypeOK /\ TypeOK' /\ NamesExist /\ StartComesFirst /\ [Next]_vars
      /\ [LifeStep]_status => StartComesFirst'
  <2> SUFFICES ASSUME TypeOK, TypeOK', NamesExist, StartComesFirst, [Next]_vars,
                      [LifeStep]_status,
                      NEW s \in Existing' \ {Root}, status'[s] = "none"
               PROVE  Ahead(queue', s)
    BY DEF StartComesFirst, Ahead
  <2>1. s \in Session /\ queue \in Seq(Task)
    <3>1. created' \in Session /\ queue \in Seq(Task)
      BY DEF TypeOK
    <3> QED
      BY <3>1, BoundsAssumption DEF Existing, Session
  <2>2. status[s] = "none"
    BY <2>1, NoneIsFirst
  <2>3. CASE s \notin Existing
    <3>1. SpawnChild /\ s = created + 1
      <4>1. created' # created /\ created \in Nat
        BY <2>3 DEF Existing, TypeOK, Session
      <4>2. SpawnChild
        BY <4>1 DEF Next, Others, Executor, RunTask, Execute, Return, Stopping,
           RootStart, ForeignSend, RootStop, DoStart, DoReceive, DoStop, ExecuteSend,
           StartTimer, CancelTimer, StopChild, EffectThrows, Finish, Notify,
           NotifyThrows, StopNextChild, StopSelf, StopFinish, StopNotifyThrows,
           FireTimer, vars
      <4>3. created' = created + 1
        BY <4>2 DEF SpawnChild
      <4> QED
        BY <2>3, <4>1, <4>2, <4>3 DEF Existing
    <3>2. queue' = Append(queue, StartTask(s))
      BY <3>1 DEF SpawnChild, Post
    <3>3. \A i \in DOMAIN queue : queue[i].actor # s
      BY <2>3 DEF NamesExist
    <3> QED
      BY <2>1, <3>2, <3>3, AheadNew
  <2>4. CASE s \in Existing
    <3>1. Ahead(queue, s)
      BY <2>2, <2>4 DEF StartComesFirst, Ahead
    <3>2. CASE Appends(queue)
      BY <2>1, <3>1, <3>2, AheadAppend DEF Appends
    <3>3. CASE RunTask /\ queue # <<>> /\ Appends(Tail(queue))
      <4>1. Head(queue) # StartTask(s)
        <5>1. CASE DoStart /\ Head(queue).actor = s
          <6>1. RunLogic(s, "start")
            BY <2>2, <5>1 DEF DoStart
          <6>2. "start" \in Stimulus
            BY DEF Stimulus
          <6> QED
            BY <2>1, <6>1, <6>2, LogicStores, BehaviourAssumption
        <5>2. CASE DoReceive \/ DoStop
          BY <5>2 DEF DoReceive, DoStop, HeadIs, StartTask
        <5>3. CASE Head(queue).actor # s
          BY <5>3 DEF StartTask
        <5> QED
          BY <3>3, <5>1, <5>2, <5>3 DEF RunTask
      <4>2. Ahead(Tail(queue), s) /\ Tail(queue) \in Seq(Task)
        BY <2>1, <3>1, <3>3, <4>1, AheadTail
      <4> QED
        BY <3>3, <4>2, AheadAppend DEF Appends
    <3> QED
      BY <3>2, <3>3, QueueSteps, BoundsAssumption
  <2> QED
    BY <2>3, <2>4
<1> QED
  BY <1>1, <1>2, TypeCorrect, NamesAreOfActors, StatusesFollow, PTL DEF Spec
-----------------------------------------------------------------------------
(* Completion.  One handler runs at a time; an actor has told its parent     *)
(* nothing until its effects are executed, and then what it has become.      *)

HandlerIsOne == \A s \in Session : pc[s] \in {"effects", "notify"} => cur = s

\* Every actor but the root has a parent; one that does not exist has no snapshot.
Known ==
    /\ \A s \in Existing \ {Root} : parent[s] \in Session
    /\ \A s \in Session \ Existing : status[s] = "none"

Excused(s) == told[s] = "done" /\ <<id[s], "done">> \in ObserversThrow
Told(s) ==
    /\ status[s] \in {"none", "active"} => told[s] = "nothing"
    /\ pc[s] = "effects" => told[s] = "nothing"
    /\ s # Root /\ status[s] \in {"done", "error"} /\ pc[s] # "effects"
          => told[s] = status[s] \/ Excused(s)
AllTold == \A s \in Session : Told(s)

\* An actor nothing happens to has told what it had told.
LEMMA SameTold ==
    ASSUME NEW s \in Session, Told(s),
           status'[s] = status[s], told'[s] = told[s], id'[s] = id[s],
           pc'[s] = "effects" <=> pc[s] = "effects"
    PROVE  Told(s)'
BY DEF Told, Excused

\* What it reports is what it has become, unless it has reported before.
LEMMA ReportTold ==
    ASSUME TypeOK, NEW s \in Session, NEW tasks, NEW st, ReportAfter(tasks, s, st)
    PROVE  /\ \A r \in Session \ {s} : told'[r] = told[r]
           /\ parent[s] # NoSession /\ st \in {"done", "error"} /\ told[s] = "nothing"
                 => told'[s] = st
           /\ told[s] # "nothing" \/ st \notin {"done", "error"} => told'[s] = told[s]
<1>1. CASE Reports(s, st)
  BY <1>1 DEF ReportAfter, Reports, TypeOK
<1>2. CASE ~Reports(s, st)
  BY <1>2 DEF ReportAfter, Reports
<1> QED
  BY <1>1, <1>2

\* An error is told, unless the actor was done and an observer threw at that.
LEMMA ErrorTold ==
    ASSUME TypeOK, AllTold, Known, NEW s \in Existing, s \in Session,
           NEW tasks, BecomeError(s, tasks), id' = id,
           s # Root => told[s] \in {"nothing", "error"} \/ Excused(s)
    PROVE  AllTold'
<1>1. /\ ReportAfter(tasks, s, "error")
      /\ status'[s] = "error" /\ pc'[s] = "idle"
      /\ \A r \in Session \ {s} : status'[r] = status[r] /\ pc'[r] = pc[r]
  BY DEF BecomeError, TypeOK
<1>2. \A r \in Session \ {s} : Told(r)'
  BY <1>1, ReportTold, SameTold DEF AllTold
<1>3. CASE s = Root
  <2>1. Told(s)'
    BY <1>1, <1>3 DEF Told
  <2> QED
    BY <1>2, <2>1 DEF AllTold
<1>4. CASE s # Root
  <2>1. parent[s] # NoSession
    BY <1>4 DEF Known, Session, NoSession
  <2>2. CASE told[s] = "nothing"
    <3>1. told'[s] = "error"
      BY <1>1, <2>1, <2>2, ReportTold
    <3> QED
      BY <1>1, <1>2, <3>1 DEF AllTold, Told
  <2>3. CASE told[s] # "nothing"
    <3>1. told'[s] = told[s]
      BY <1>1, <2>3, ReportTold
    <3> QED
      BY <1>1, <1>2, <1>4, <2>3, <3>1 DEF AllTold, Told, Excused
  <2> QED
    BY <2>2, <2>3
<1> QED
  BY <1>3, <1>4

\* The logic is asked by an actor that has told nothing yet.
LEMMA LogicTold ==
    ASSUME TypeOK, AllTold, Known, NEW s \in Existing, s \in Session,
           NEW stimulus, RunLogic(s, stimulus), id' = id,
           status[s] \in {"none", "active"}
    PROVE  AllTold'
<1>1. told[s] = "nothing"
  BY DEF AllTold, Told
<1>2. PICK o \in Answers(s, stimulus) :
         \/ BecomeError(s, Tail(queue))
         \/ /\ status' = [status EXCEPT ![s] = o.status]
            /\ pc' = [pc EXCEPT ![s] = "effects"]
            /\ UNCHANGED told
  BY DEF RunLogic
<1>3. CASE BecomeError(s, Tail(queue))
  BY <1>1, <1>3, ErrorTold
<1>4. CASE ~BecomeError(s, Tail(queue))
  <2>1. pc'[s] = "effects" /\ told'[s] = "nothing"
    BY <1>1, <1>2, <1>4 DEF TypeOK
  <2>2. \A r \in Session \ {s} : Told(r)'
    BY <1>2, <1>4, SameTold DEF AllTold, TypeOK
  <2> QED
    BY <2>1, <2>2 DEF AllTold, Told
<1> QED
  BY <1>3, <1>4

\* A step that runs no handler further than it was, and one whose end is that
\* nobody's handler runs, leave at most one.
LEMMA OneHandler == Spec => []HandlerIsOne
<1>1. Init => HandlerIsOne
  BY DEF Init, HandlerIsOne
<1>2. TypeOK /\ HandlerIsOne /\ [Next]_vars => HandlerIsOne'
  <2> SUFFICES ASSUME TypeOK, HandlerIsOne, [Next]_vars PROVE HandlerIsOne'
    OBVIOUS
  <2> USE DEF lifecycle, running
  <2>1. NoSession \notin Session
    BY DEF NoSession, Session
  <2>2. ASSUME NEW s \in Session, NEW tasks, BecomeError(s, tasks), cur \in {s, NoSession}
        PROVE  HandlerIsOne'
    BY <2>1, <2>2 DEF BecomeError, HandlerIsOne, TypeOK
  <2>3. CASE DoStart \/ DoReceive
    <3>1. Idle /\ Head(queue).actor \in Session
      BY <2>3, HeadOfQueue DEF DoStart, DoReceive, HeadIs, Task
    <3>2. \A s \in Session : pc[s] \notin {"effects", "notify"}
      BY <2>1, <3>1 DEF Idle, HandlerIsOne
    <3>3. ASSUME NEW s \in Session, NEW stimulus, RunLogic(s, stimulus)
          PROVE  HandlerIsOne'
      <4>1. \/ BecomeError(s, Tail(queue))
            \/ cur' = s /\ pc' = [pc EXCEPT ![s] = "effects"]
        BY <3>3 DEF RunLogic
      <4>2. CASE cur' = s /\ pc' = [pc EXCEPT ![s] = "effects"]
        BY <3>2, <4>2 DEF HandlerIsOne, TypeOK
      <4> QED
        BY <2>2, <3>1, <4>1, <4>2 DEF Idle
    <3>4. CASE DropTask
      BY <3>4 DEF DropTask, HandlerIsOne
    <3> QED
      BY <2>3, <3>1, <3>3, <3>4 DEF DoStart, DoReceive
  <2>4. CASE EffectThrows \/ NotifyThrows
    <3>1. cur \in Session
      BY <2>4 DEF EffectThrows, InEffects, NotifyThrows, Idle, TypeOK
    <3>2. BecomeError(cur, queue) \/ UNCHANGED <<cur, pc>>
      BY <2>4 DEF EffectThrows, NotifyThrows
    <3> QED
      BY <2>2, <3>1, <3>2 DEF HandlerIsOne
  <2>5. ASSUME cur' = cur,
               \A s \in Session : pc'[s] \in {"effects", "notify"}
                                     => pc[s] \in {"effects", "notify"}
        PROVE  HandlerIsOne'
    BY <2>5 DEF HandlerIsOne
  <2>6. CASE Finish \/ StopSelf
    BY <2>5, <2>6 DEF Finish, StopSelf, TypeOK
  <2>7. CASE Notify
    BY <2>1, <2>7 DEF Notify, HandlerIsOne, TypeOK, Idle
  \* within doStop the handler is not one of these
  <2>8. ASSUME \A s \in Session : pc[s] \notin {"effects", "notify"},
               \A s \in Session : pc'[s] \in {pc[s], "stopChildren", "idle"}
        PROVE  HandlerIsOne'
    BY <2>8 DEF HandlerIsOne
  <2>9. CASE DoStop
    <3>1. \A s \in Session : pc[s] \notin {"effects", "notify"}
      BY <2>1, <2>9 DEF DoStop, HeadIs, Idle, HandlerIsOne
    <3>2. \A s \in Session : pc'[s] \in {pc[s], "stopChildren"}
      BY <2>9 DEF DoStop, EnterStop, TypeOK
    <3> QED
      BY <2>8, <3>1, <3>2
  <2>10. CASE StopNextChild \/ StopFinish \/ StopNotifyThrows
    <3>1. pc[cur] \in {"stopChildren", "stopEffects"}
      BY <2>10 DEF StopNextChild, StopFinish, StopNotifyThrows
    <3>2. \A s \in Session : pc[s] \notin {"effects", "notify"}
      BY <3>1 DEF HandlerIsOne
    <3>3. \A s \in Session : pc'[s] \in {pc[s], "stopChildren", "idle"}
      BY <2>10 DEF StopNextChild, StopFinish, StopNotifyThrows, TypeOK
    <3> QED
      BY <2>8, <3>2, <3>3
  <2>11. CASE Others \/ ExecuteSend \/ StartTimer \/ CancelTimer \/ SpawnChild
              \/ StopChild \/ FireTimer \/ UNCHANGED vars
    BY <2>5, <2>11 DEF Others, RootStart, ForeignSend, RootStop, ExecuteSend, StartTimer,
       CancelTimer, SpawnChild, StopChild, FireTimer, vars
  <2> QED
    BY <2>3, <2>4, <2>6, <2>7, <2>9, <2>10, <2>11
    DEF Next, Executor, RunTask, Execute, Return, Stopping
<1> QED
  BY <1>1, <1>2, TypeCorrect, PTL DEF Spec

\* An actor has a parent once it exists, and a snapshot only then.
LEMMA ActorsAreKnown == Spec => []Known
<1>1. Init => Known
  BY DEF Init, Known, Existing, Root, Session
<1>2. TypeOK /\ NamesExist /\ Known /\ [Next]_vars => Known'
  <2> SUFFICES ASSUME TypeOK, NamesExist, Known, [Next]_vars PROVE Known'
    OBVIOUS
  <2> USE DEF lifecycle, timing, running
  <2>1. created \in Nat
    BY DEF TypeOK, Session
  <2>2. CASE SpawnChild
    <3>1. cur \in Session
      BY <2>2, FirstTyped DEF SpawnChild
    <3>2. /\ created' = created + 1 /\ status' = status
          /\ parent' = [parent EXCEPT ![created + 1] = cur]
          /\ created + 1 \in Session
      BY <2>1, <2>2, BoundsAssumption DEF SpawnChild, Session
    <3>3. Existing' = Existing \cup {created + 1}
      BY <2>1, <3>2 DEF Existing
    <3> QED
      BY <3>1, <3>2, <3>3 DEF Known, TypeOK
  <2>3. ASSUME UNCHANGED <<created, parent>>, NEW s \in Existing,
               \A r \in Session \ {s} : status'[r] = status[r]
        PROVE  Known'
    BY <2>3 DEF Known, Existing
  <2>4. ASSUME NEW s \in Existing, NEW tasks, BecomeError(s, tasks)
        PROVE  \A r \in Session \ {s} : status'[r] = status[r]
    BY <2>4 DEF BecomeError, TypeOK
  <2>5. CASE DoStart \/ DoReceive
    <3> DEFINE s == Head(queue).actor
    <3>1. s \in Existing
      BY <2>5, TailNames DEF DoStart, DoReceive, HeadIs
    <3> HIDE DEF s
    <3>2. ASSUME NEW stimulus, RunLogic(s, stimulus)
          PROVE  \A r \in Session \ {s} : status'[r] = status[r]
      <4>1. BecomeError(s, Tail(queue)) \/ \E st : status' = [status EXCEPT ![s] = st]
        BY <3>2 DEF RunLogic
      <4> QED
        BY <2>4, <3>1, <4>1 DEF TypeOK
    <3>3. \A r \in Session \ {s} : status'[r] = status[r]
      BY <2>5, <3>2 DEF DoStart, DoReceive, DropTask, s
    <3> QED
      BY <2>3, <2>5, <3>1, <3>3 DEF DoStart, DoReceive
  <2>6. CASE EffectThrows \/ NotifyThrows \/ StopFinish \/ StopNotifyThrows
    <3>1. cur \in Existing
      BY <2>6 DEF EffectThrows, InEffects, NotifyThrows, StopFinish, StopNotifyThrows,
         Idle, NamesExist
    <3>2. \A r \in Session \ {cur} : status'[r] = status[r]
      BY <2>4, <2>6, <3>1 DEF EffectThrows, NotifyThrows, StopFinish, StopNotifyThrows, TypeOK
    <3> QED
      BY <2>3, <2>6, <3>1, <3>2 DEF EffectThrows, NotifyThrows, StopFinish, StopNotifyThrows
  <2>7. ASSUME UNCHANGED <<created, parent, status>> PROVE Known'
    BY <2>7 DEF Known, Existing
  <2>8. CASE \/ Others \/ DoStop \/ ExecuteSend \/ StartTimer \/ CancelTimer \/ StopChild
             \/ Finish \/ Notify \/ StopNextChild \/ StopSelf \/ FireTimer \/ UNCHANGED vars
    BY <2>7, <2>8 DEF Others, RootStart, ForeignSend, RootStop, DoStop, ExecuteSend,
       StartTimer, CancelTimer, StopChild, Finish, Notify, StopNextChild, StopSelf,
       FireTimer, vars
  <2> QED
    BY <2>2, <2>5, <2>6, <2>8
    DEF Next, Executor, RunTask, Execute, Return, Stopping
<1> QED
  BY <1>1, <1>2, TypeCorrect, NamesAreOfActors, PTL DEF Spec

\* A step keeps what actors told in line with what they are.
LEMMA ToldIsKept ==
    ASSUME TypeOK, NamesExist, InHandler, HandlerIsOne, Known, AllTold, [Next]_vars
    PROVE  AllTold'
<1> USE DEF lifecycle, timing, running
<1>1. created \in Nat /\ Existing \subseteq Session /\ NoSession \notin Existing
  BY BoundsAssumption DEF TypeOK, Session, Existing, NoSession
<1>2. CASE DoStart \/ DoReceive
  <2> DEFINE s == Head(queue).actor
  <2>1. s \in Existing
    BY <1>2, TailNames DEF DoStart, DoReceive, HeadIs
  <2>2. CASE DropTask
    BY <1>2, <2>2, SameTold DEF DropTask, AllTold, DoStart, DoReceive
  <2>3. CASE ~DropTask
    <3>1. /\ status[s] \in {"none", "active"} /\ id' = id
          /\ \E stimulus : RunLogic(s, stimulus)
      BY <1>2, <2>3 DEF DoStart, DoReceive
    <3> HIDE DEF s
    <3> QED
      BY <1>1, <2>1, <3>1, LogicTold
  <2> QED
    BY <2>2, <2>3
<1>3. CASE EffectThrows
  <2>1. cur \in Existing /\ id' = id
    BY <1>1, <1>3 DEF EffectThrows, InEffects, Idle, NamesExist
  <2>2. CASE pc[cur] = "effects"
    <3>1. told[cur] = "nothing"
      BY <1>1, <2>1, <2>2 DEF AllTold, Told
    <3> QED
      BY <1>1, <1>3, <2>1, <2>2, <3>1, ErrorTold DEF EffectThrows
  <2>3. CASE pc[cur] # "effects"
    BY <1>3, <2>1, <2>3, SameTold DEF EffectThrows, AllTold
  <2> QED
    BY <2>2, <2>3
<1>4. CASE NotifyThrows
  <2>1. /\ cur \in Existing /\ id' = id /\ pc[cur] = "notify"
        /\ BecomeError(cur, queue) /\ <<id[cur], status[cur]>> \in ObserversThrow
    BY <1>1, <1>4 DEF NotifyThrows, Idle, NamesExist
  <2>2. status[cur] \in {"active", "done", "error"} /\ Told(cur)
    BY <1>1, <2>1 DEF InHandler, AllTold
  <2>3. cur # Root => told[cur] \in {"nothing", "error"} \/ Excused(cur)
    <3>1. CASE status[cur] = "active"
      BY <2>2, <3>1 DEF Told
    <3>2. CASE status[cur] = "done"
      BY <2>1, <2>2, <3>2 DEF Told, Excused
    <3>3. CASE status[cur] = "error"
      BY <2>1, <2>2, <3>3 DEF Told
    <3> QED
      BY <2>2, <3>1, <3>2, <3>3
  <2> QED
    BY <1>1, <2>1, <2>3, ErrorTold
<1>5. CASE Finish
  <2>1. /\ cur \in Existing /\ pc[cur] = "effects" /\ UNCHANGED <<id, status>>
        /\ ReportAfter(queue, cur, status[cur]) /\ pc' = [pc EXCEPT ![cur] = "notify"]
    BY <1>1, <1>5 DEF Finish, Idle, NamesExist
  <2>2. told[cur] = "nothing" /\ pc'[cur] = "notify"
    BY <1>1, <2>1 DEF AllTold, Told, TypeOK
  <2>3. \A r \in Session \ {cur} : Told(r)'
    <3>1. \A r \in Session \ {cur} : told'[r] = told[r] /\ pc'[r] = pc[r]
      BY <1>1, <2>1, ReportTold DEF TypeOK
    <3> QED
      BY <2>1, <3>1, SameTold DEF AllTold
  <2>4. status[cur] \notin {"done", "error"} => told'[cur] = "nothing"
    BY <1>1, <2>1, <2>2, ReportTold
  <2>5. cur # Root /\ status[cur] \in {"done", "error"} => told'[cur] = status[cur]
    <3>1. cur # Root => parent[cur] # NoSession
      BY <2>1 DEF Known, Session, NoSession
    <3> QED
      BY <1>1, <2>1, <2>2, <3>1, ReportTold
  <2>6. ASSUME NEW s \in Session, s = cur PROVE Told(s)'
    BY <2>1, <2>2, <2>4, <2>5, <2>6 DEF Told
  <2> QED
    BY <2>3, <2>6 DEF AllTold
<1>6. CASE StopFinish \/ StopNotifyThrows
  <2>1. /\ cur \in Session /\ pc[cur] = "stopEffects"
        /\ status' = [status EXCEPT ![cur] = "stopped"] /\ UNCHANGED <<id, told>>
    BY <1>6 DEF StopFinish, StopNotifyThrows, Idle, TypeOK
  <2>2. \A s \in Session : pc[s] # "effects"
    BY <2>1 DEF HandlerIsOne
  <2>3. \A s \in Session : pc'[s] # "effects"
    BY <1>6, <2>2 DEF StopFinish, StopNotifyThrows, TypeOK
  <2>4. status'[cur] = "stopped" /\ \A r \in Session \ {cur} : status'[r] = status[r]
    BY <2>1 DEF TypeOK
  <2>5. ASSUME NEW s \in Session, s = cur PROVE Told(s)'
    BY <2>1, <2>3, <2>4, <2>5 DEF Told
  <2>6. \A r \in Session \ {cur} : Told(r)'
    BY <2>1, <2>2, <2>3, <2>4, SameTold DEF AllTold
  <2> QED
    BY <2>5, <2>6 DEF AllTold
<1>7. CASE SpawnChild
  <2>1. /\ UNCHANGED <<status, told, pc>>
        /\ id' = [id EXCEPT ![created + 1] = First.id]
    BY <1>7 DEF SpawnChild
  <2>2. \A r \in Session \ {created + 1} : Told(r)'
    BY <2>1, SameTold DEF AllTold, TypeOK
  <2>3. ASSUME NEW s \in Session, s = created + 1 PROVE Told(s)'
    <3>1. status[s] = "none"
      BY <1>1, <2>3 DEF Known, Existing
    <3> QED
      BY <2>1, <3>1 DEF AllTold, Told
  <2> QED
    BY <2>2, <2>3 DEF AllTold
\* everything else leaves alone what actors are and told
<1>8. ASSUME UNCHANGED <<id, status, told>>,
             \A s \in Session : pc'[s] = "effects" <=> pc[s] = "effects"
      PROVE  AllTold'
  BY <1>8, SameTold DEF AllTold
<1>9. CASE Notify \/ StopSelf
  BY <1>8, <1>9 DEF Notify, StopSelf, TypeOK
<1>10. CASE DoStop
  <2>1. \A s \in Session : pc[s] # "effects"
    BY <1>10 DEF DoStop, HeadIs, Idle, HandlerIsOne, Session, NoSession
  <2>2. \A s \in Session : pc'[s] # "effects"
    BY <1>10, <2>1 DEF DoStop, EnterStop, TypeOK
  <2> QED
    BY <1>8, <1>10, <2>1, <2>2 DEF DoStop
<1>11. CASE StopNextChild
  <2>1. \A s \in Session : pc[s] # "effects"
    BY <1>11 DEF StopNextChild, HandlerIsOne
  <2>2. \A s \in Session : pc'[s] # "effects"
    BY <1>11, <2>1 DEF StopNextChild, TypeOK
  <2> QED
    BY <1>8, <1>11, <2>1, <2>2 DEF StopNextChild
<1>12. CASE \/ Others \/ ExecuteSend \/ StartTimer \/ CancelTimer \/ StopChild
            \/ FireTimer \/ UNCHANGED vars
  BY <1>8, <1>12 DEF Others, RootStart, ForeignSend, RootStop, ExecuteSend, StartTimer,
     CancelTimer, StopChild, FireTimer, vars
<1> QED
  BY <1>2, <1>3, <1>4, <1>5, <1>6, <1>7, <1>9, <1>10, <1>11, <1>12
  DEF Next, Executor, RunTask, Execute, Return, Stopping

\* What actors told is in line with what they are.
LEMMA ActorsTell == Spec => []AllTold
<1>1. Init => AllTold
  BY DEF Init, AllTold, Told
<1>2. TypeOK /\ NamesExist /\ InHandler /\ HandlerIsOne /\ Known /\ AllTold
      /\ [Next]_vars => AllTold'
  BY ToldIsKept
<1> QED
  BY <1>1, <1>2, TypeCorrect, NamesAreOfActors, StatusesFollow, OneHandler,
     ActorsAreKnown, PTL DEF Spec

\* An actor that finished has told its parent, and what it is, but for one whose
\* observers threw when they saw that it is done (becomeError,
\* reportCompletionToParent).
THEOREM CompletionsAreTold == Spec => []CompletionIsTold
<1>1. TypeOK /\ AllTold => CompletionIsTold
  <2> SUFFICES ASSUME TypeOK, AllTold PROVE CompletionIsTold
    OBVIOUS
  <2>1. Existing \subseteq Session
    BY BoundsAssumption DEF TypeOK, Session, Existing
  <2> QED
    BY <2>1 DEF AllTold, Told, Excused, CompletionIsTold
<1> QED
  BY <1>1, TypeCorrect, ActorsTell, PTL

-----------------------------------------------------------------------------
(* Reports.  What waits in the queue is counted: a report is put there by an *)
(* actor that had told nothing, and taken away by being handled.             *)

\* Where q holds a member of R.
Places(q, R) == {i \in DOMAIN q : q[i] \in R}

\* A queue holds finitely many of anything.
LEMMA PlacesFinite ==
    ASSUME NEW q \in Seq(Task), NEW R
    PROVE  IsFiniteSet(Places(q, R)) /\ Cardinality(Places(q, R)) \in Nat
<1>1. Places(q, R) \in SUBSET (1 .. Len(q)) /\ Len(q) \in Nat
  BY DEF Places
<1>2. IsFiniteSet(1 .. Len(q))
  BY <1>1, FS_Interval
<1>3. IsFiniteSet(Places(q, R))
  BY <1>1, <1>2, FS_Subset
<1> QED
  BY <1>3, FS_CardinalityType

\* Posting adds one to what it posts and nothing to the rest.
LEMMA PlacesAppend ==
    ASSUME NEW q \in Seq(Task), NEW x \in Task, NEW R
    PROVE  Cardinality(Places(Append(q, x), R)) =
              Cardinality(Places(q, R)) + IF x \in R THEN 1 ELSE 0
<1> DEFINE n == Len(q) + 1
           r == Append(q, x)
<1>1. DOMAIN r = DOMAIN q \cup {n} /\ n \notin DOMAIN q /\ r[n] = x
  OBVIOUS
<1>2. \A i \in DOMAIN q : r[i] = q[i]
  OBVIOUS
<1> HIDE DEF n, r
<1>3. CASE x \in R
  <2>1. Places(r, R) = Places(q, R) \cup {n}
    BY <1>1, <1>2, <1>3 DEF Places
  <2>2. n \notin Places(q, R)
    BY <1>1 DEF Places
  <2>3. Cardinality(Places(q, R) \cup {n}) = Cardinality(Places(q, R)) + 1
    BY <2>2, PlacesFinite, FS_AddElement
  <2> QED
    BY <1>3, <2>1, <2>3 DEF r
<1>4. CASE x \notin R
  <2>1. Places(r, R) = Places(q, R)
    BY <1>1, <1>2, <1>4 DEF Places
  <2> QED
    BY <1>4, <2>1, PlacesFinite DEF r
<1> QED
  BY <1>3, <1>4

\* Taking a task adds to nothing.
LEMMA PlacesTail ==
    ASSUME NEW q \in Seq(Task), q # <<>>, NEW R
    PROVE  Cardinality(Places(Tail(q), R)) <= Cardinality(Places(q, R))
<1> DEFINE S == Places(Tail(q), R)
           T == Places(q, R)
           f == [i \in S |-> i + 1]
<1>1. \A i \in S : i \in Nat /\ i + 1 \in T
  BY DEF Places
<1>2. f \in [S -> T] /\ \A i, j \in S : f[i] = f[j] => i = j
  BY <1>1
<1> HIDE DEF S, T, f
<1>3. f \in Injection(S, T)
  BY <1>2 DEF Injection, IsInjective
<1>4. IsFiniteSet(T)
  BY PlacesFinite DEF T
<1>5. Cardinality(S) <= Cardinality(T)
  BY <1>3, <1>4, FS_Injection
<1> QED
  BY <1>5 DEF S, T

\* The reports about the child id c to p.
Completions(p, c) ==
    {t \in Task : /\ t.kind = "receive" /\ t.actor = p /\ t.event.of = c
                  /\ t.event.type \in {"done.actor", "error.actor"}}

\* ReportedOnce counts them.
LEMMA ReportsAreCompletions ==
    ASSUME TypeOK, NEW p, NEW c
    PROVE  ReportsAbout(p, c) = Places(queue, Completions(p, c))
<1>1. \A i \in DOMAIN queue : queue[i] \in Task
  BY DEF TypeOK
<1> QED
  BY <1>1 DEF ReportsAbout, Places, Completions

\* A step posts a completion only for an actor that told nothing before, and now has.
Uncounted(x) == x \in Task /\ \A p \in Session, c \in ChildIds : x \notin Completions(p, c)
PostsReport(q) ==
    \/ told' = told /\ (queue' = q \/ \E x \in Task : Uncounted(x) /\ queue' = Append(q, x))
    \/ \E s \in Existing, st \in {"done", "error"} :
          /\ told[s] = "nothing"
          /\ told' = [told EXCEPT ![s] = st]
          /\ Report(s, st) \in Task /\ queue' = Append(q, Report(s, st))

\* What is not a completion.
LEMMA NotCounted ==
    ASSUME BoundsAssumption, NEW x \in Task,
           x.kind # "receive" \/ x.event.of = RootId
    PROVE  Uncounted(x)
BY DEF Uncounted, Completions, BoundsAssumption

\* reportCompletionToParent posts one, or nothing.
LEMMA ReportPosts ==
    ASSUME TypeOK, BoundsAssumption, NEW s \in Existing, s \in Session,
           NEW q \in Seq(Task), NEW st \in Status, ReportAfter(q, s, st)
    PROVE  PostsReport(q)
<1>1. CASE Reports(s, st)
  <2> DEFINE e == [type |-> IF st = "done" THEN "done.actor" ELSE "error.actor",
                   of |-> id[s]]
  <2>1. parent[s] \in Session /\ e \in Event
    BY <1>1 DEF Reports, TypeOK, Event
  <2>2. Report(s, st) = ReceiveTask(parent[s], e)
    BY DEF Report
  <2> HIDE DEF e
  <2>3. Report(s, st) \in Task
    BY <2>1, <2>2 DEF ReceiveTask, Task
  <2> QED
    BY <1>1, <2>3 DEF ReportAfter, Reports, PostsReport
<1>2. CASE ~Reports(s, st)
  BY <1>2 DEF ReportAfter, PostsReport
<1> QED
  BY <1>1, <1>2

\* So does the logic, after its task was taken.
LEMMA LogicPosts ==
    ASSUME TypeOK, BoundsAssumption, NEW s \in Existing, s \in Session,
           queue # <<>>, NEW stimulus, RunLogic(s, stimulus)
    PROVE  PostsReport(Tail(queue))
<1>1. Tail(queue) \in Seq(Task) /\ "error" \in Status
  BY HeadOfQueue DEF Status
<1>2. \/ ReportAfter(Tail(queue), s, "error")
      \/ queue' = Tail(queue) /\ told' = told
  BY DEF RunLogic, BecomeError
<1> QED
  BY <1>1, <1>2, ReportPosts DEF PostsReport

\* Whatever a step does, it posts no more than that.
LEMMA StepPosts ==
    ASSUME TypeOK, NamesExist, BoundsAssumption, [Next]_vars
    PROVE  PostsReport(queue) \/ (queue # <<>> /\ PostsReport(Tail(queue)))
<1> USE DEF lifecycle, timing, running
<1>1. Existing \subseteq Session
  BY DEF TypeOK, Session, Existing
<1>2. ASSUME NEW x \in Task, x.kind # "receive" \/ x.event.of = RootId,
             queue' = Append(queue, x), told' = told
      PROVE  PostsReport(queue)
  BY <1>2, NotCounted DEF PostsReport
\* a task that is no completion: a start, a stop, an event that is sent
<1>3. ASSUME NEW s \in Session,
             \/ Post(StartTask(s)) \/ Post(StopTask(s))
             \/ \E type \in EventTypes : Post(ReceiveTask(s, Plain(type))),
             told' = told
      PROVE  PostsReport(queue)
  <2>1. /\ StartTask(s).kind # "receive" /\ StopTask(s).kind # "receive"
        /\ \A type \in EventTypes : ReceiveTask(s, Plain(type)).event.of = RootId
    BY DEF StartTask, StopTask, ReceiveTask, Plain
  <2> QED
    BY <1>2, <1>3, <2>1, TasksAreTasks DEF Post
<1>4. ASSUME UNCHANGED <<queue, told>> PROVE PostsReport(queue)
  BY <1>4 DEF PostsReport
<1>5. CASE Others
  <2>1. Root \in Session
    BY BoundsAssumption DEF Root, Session
  <2>2. CASE ForeignSend
    <3>1. PICK s \in Existing, type \in Posted : Post(ReceiveTask(s, Plain(type)))
      BY <2>2 DEF ForeignSend
    <3>2. s \in Session /\ type \in EventTypes
      BY <1>1, <3>1, BoundsAssumption
    <3> QED
      BY <1>3, <2>2, <3>1, <3>2 DEF ForeignSend
  <2> QED
    BY <1>3, <1>5, <2>1, <2>2 DEF Others, RootStart, RootStop
<1>6. CASE DoStart \/ DoReceive
  <2> DEFINE s == Head(queue).actor
  <2>1. queue # <<>> /\ s \in Existing /\ s \in Session
    BY <1>1, <1>6, TailNames DEF DoStart, DoReceive, HeadIs
  <2> HIDE DEF s
  <2>2. CASE DropTask
    BY <2>1, <2>2 DEF DropTask, PostsReport
  <2>3. CASE ~DropTask
    <3>1. \E stimulus : RunLogic(s, stimulus)
      BY <1>6, <2>3 DEF DoStart, DoReceive, s
    <3> QED
      BY <2>1, <3>1, LogicPosts
  <2> QED
    BY <2>2, <2>3
<1>7. CASE DoStop
  BY <1>7 DEF DoStop, HeadIs, PostsReport
<1>8. CASE ExecuteSend
  <2>1. cur \in Session /\ First \in Effect
    BY <1>8, FirstTyped DEF ExecuteSend
  <2>2. First.to \in Target /\ First.type \in EventTypes
    BY <2>1 DEF Effect, AnyEffect
  <2>3. Resolve(cur, First.to) \in Session \cup {NoSession}
    BY <2>1, <2>2, ResolveTyped
  <2> QED
    BY <1>3, <1>4, <1>8, <2>2, <2>3 DEF ExecuteSend
<1>9. CASE SpawnChild
  <2>1. created + 1 \in Session
    BY <1>9, BoundsAssumption DEF SpawnChild, Session, TypeOK
  <2> QED
    BY <1>3, <1>9, <2>1 DEF SpawnChild
<1>10. CASE StopChild
  <2>1. cur \in Session /\ First \in Effect
    BY <1>10, FirstTyped DEF StopChild
  <2>2. children[cur][First.id] \in Session \cup {NoSession}
    BY <1>10, <2>1 DEF Effect, StopChild, TypeOK
  <2> QED
    BY <1>3, <1>4, <1>10, <2>2 DEF StopChild
<1>11. CASE EffectThrows \/ Finish \/ NotifyThrows
  <2>1. cur \in Existing /\ cur \in Session
    BY <1>1, <1>11 DEF EffectThrows, InEffects, Finish, NotifyThrows, Idle, NamesExist
  <2>2. queue \in Seq(Task) /\ "error" \in Status /\ status[cur] \in Status
    BY <2>1 DEF TypeOK, Status
  <2>3. \/ \E st \in Status : ReportAfter(queue, cur, st)
        \/ UNCHANGED <<queue, told>>
    BY <1>11, <2>2 DEF EffectThrows, Finish, NotifyThrows, BecomeError
  <2> QED
    BY <1>4, <2>1, <2>2, <2>3, ReportPosts
<1>12. CASE FireTimer
  <2>1. PICK t \in clock :
          LET target == Resolve(t.actor, t.to) IN
          IF target = NoSession THEN UNCHANGED queue
          ELSE Post(ReceiveTask(target, Plain(t.type)))
    BY <1>12 DEF FireTimer
  <2>2. t.actor \in Session /\ t.to \in Target /\ t.type \in EventTypes
    BY DEF TypeOK, Timer
  <2>3. Resolve(t.actor, t.to) \in Session \cup {NoSession}
    BY <2>2, ResolveTyped
  <2> QED
    BY <1>3, <1>4, <1>12, <2>1, <2>2, <2>3 DEF FireTimer
<1>13. CASE \/ StartTimer \/ CancelTimer \/ Notify \/ Stopping \/ UNCHANGED vars
  BY <1>4, <1>13 DEF StartTimer, CancelTimer, Notify, Stopping, StopNextChild, StopSelf,
     StopFinish, StopNotifyThrows, vars
<1> QED
  BY <1>5, <1>6, <1>7, <1>8, <1>9, <1>10, <1>11, <1>12, <1>13
  DEF Next, Executor, RunTask, Execute, Return

\* Actors keep their id and their parent.
LEMMA IdentityKept ==
    ASSUME TypeOK, [Next]_vars
    PROVE  /\ Existing \subseteq Existing'
           /\ \A s \in Existing : id'[s] = id[s] /\ parent'[s] = parent[s]
<1> USE DEF lifecycle, timing, running
<1>1. CASE SpawnChild
  BY <1>1 DEF SpawnChild, Existing, TypeOK, Session
<1>2. CASE ~SpawnChild
  <2>1. UNCHANGED <<created, id, parent>>
    BY <1>2 DEF Next, Others, Executor, RunTask, Execute, Return, Stopping, RootStart,
       ForeignSend, RootStop, DoStart, DoReceive, DoStop, ExecuteSend, StartTimer,
       CancelTimer, StopChild, EffectThrows, Finish, Notify, NotifyThrows,
       StopNextChild, StopSelf, StopFinish, StopNotifyThrows, FireTimer, vars
  <2> QED
    BY <2>1 DEF Existing
<1> QED
  BY <1>1, <1>2

\* The children of that id that told the parent something.
ToldBy(p, c) == {s \in Existing : parent[s] = p /\ id[s] = c /\ told[s] # "nothing"}
OnceTold == \A p \in Session, c \in ChildIds :
               Cardinality(Places(queue, Completions(p, c))) <= Cardinality(ToldBy(p, c))

\* Of the actors there are finitely many, and so of any of them.
LEMMA FewActors ==
    ASSUME NEW n \in Session, NEW S \in SUBSET (1 .. n)
    PROVE  IsFiniteSet(S) /\ Cardinality(S) \in Nat
<1>1. n \in Int
  BY DEF Session
<1>2. IsFiniteSet(1 .. n)
  BY <1>1, FS_Interval
<1>3. IsFiniteSet(S)
  BY <1>2, FS_Subset
<1> QED
  BY <1>3, FS_CardinalityType

\* They are finitely many.
LEMMA ToldByFinite ==
    ASSUME TypeOK, NEW p, NEW c
    PROVE  IsFiniteSet(ToldBy(p, c)) /\ Cardinality(ToldBy(p, c)) \in Nat
<1>1. ToldBy(p, c) \in SUBSET (1 .. created) /\ created \in Session
  BY DEF ToldBy, TypeOK, Existing
<1> QED
  BY <1>1, FewActors

\* Posting after the tasks of q, of which there are not more than in the queue.
LEMMA OnceToldAfter ==
    ASSUME TypeOK, TypeOK', [Next]_vars, NEW q \in Seq(Task), PostsReport(q),
           NEW p \in Session, NEW c \in ChildIds,
           Cardinality(Places(q, Completions(p, c))) <= Cardinality(ToldBy(p, c))
    PROVE  Cardinality(Places(queue', Completions(p, c))) <= Cardinality(ToldBy(p, c)')
<1> DEFINE R == Completions(p, c)
<1>0. /\ Cardinality(Places(q, R)) \in Nat
      /\ IsFiniteSet(ToldBy(p, c)) /\ Cardinality(ToldBy(p, c)) \in Nat
      /\ IsFiniteSet(ToldBy(p, c)') /\ Cardinality(ToldBy(p, c)') \in Nat
  <2>1. Cardinality(Places(q, R)) \in Nat
    BY PlacesFinite
  <2>2. IsFiniteSet(ToldBy(p, c)) /\ Cardinality(ToldBy(p, c)) \in Nat
    BY ToldByFinite
  <2>3. IsFiniteSet(ToldBy(p, c)') /\ Cardinality(ToldBy(p, c)') \in Nat
    <3>1. ToldBy(p, c)' \in SUBSET (1 .. created') /\ created' \in Session
      BY DEF ToldBy, TypeOK, Existing
    <3> QED
      BY <3>1, FewActors
  <2> QED
    BY <2>1, <2>2, <2>3
<1>1. \A s \in Existing : s \in Existing' /\ id'[s] = id[s] /\ parent'[s] = parent[s]
  BY IdentityKept
<1>2. ASSUME told' = told, queue' = q \/ \E x \in Task : Uncounted(x) /\ queue' = Append(q, x)
      PROVE  Cardinality(Places(queue', R)) <= Cardinality(ToldBy(p, c)')
  <2>1. Cardinality(Places(queue', R)) = Cardinality(Places(q, R))
    <3>1. ASSUME NEW x \in Task, Uncounted(x)
          PROVE  Cardinality(Places(Append(q, x), R)) = Cardinality(Places(q, R)) + 0
      <4>1. x \notin R
        BY <3>1 DEF Uncounted
      <4> HIDE DEF R
      <4> QED
        BY <4>1, PlacesAppend
    <3> HIDE DEF R
    <3>2. CASE queue' = q
      BY <3>2
    <3>3. CASE \E x \in Task : Uncounted(x) /\ queue' = Append(q, x)
      BY <1>0, <3>1, <3>3
    <3> QED
      BY <1>2, <3>2, <3>3
  <2>2. ToldBy(p, c) \subseteq ToldBy(p, c)'
    BY <1>1, <1>2 DEF ToldBy
  <2>3. Cardinality(ToldBy(p, c)) <= Cardinality(ToldBy(p, c)')
    BY <1>0, <2>2, FS_Subset
  <2> QED
    BY <1>0, <2>1, <2>3
<1>3. ASSUME NEW s \in Existing, NEW st \in {"done", "error"}, told[s] = "nothing",
             told' = [told EXCEPT ![s] = st],
             Report(s, st) \in Task, queue' = Append(q, Report(s, st))
      PROVE  Cardinality(Places(queue', R)) <= Cardinality(ToldBy(p, c)')
  <2>1. s \in Session
    BY <1>3 DEF TypeOK, Session, Existing
  <2>2. ToldBy(p, c) \subseteq ToldBy(p, c)' /\ s \notin ToldBy(p, c)
    BY <1>1, <1>3, <2>1 DEF ToldBy, TypeOK
  <2>3. CASE Report(s, st) \in R
    <3>1. parent[s] = p /\ id[s] = c
      BY <2>3 DEF Completions, Report, ReceiveTask
    <3>2. ToldBy(p, c) \cup {s} \subseteq ToldBy(p, c)'
      BY <1>1, <1>3, <2>1, <2>2, <3>1 DEF ToldBy, TypeOK
    <3>3. Cardinality(ToldBy(p, c) \cup {s}) = Cardinality(ToldBy(p, c)) + 1
      BY <1>0, <2>2, FS_AddElement
    <3>4. Cardinality(ToldBy(p, c) \cup {s}) <= Cardinality(ToldBy(p, c)')
      BY <1>0, <3>2, FS_Subset
    <3>5. Cardinality(Places(queue', R)) = Cardinality(Places(q, R)) + 1
      BY <1>3, <2>3, PlacesAppend
    <3> QED
      BY <1>0, <3>3, <3>4, <3>5
  <2>4. CASE Report(s, st) \notin R
    <3>1. Cardinality(Places(queue', R)) = Cardinality(Places(q, R))
      BY <1>0, <1>3, <2>4, PlacesAppend
    <3>2. Cardinality(ToldBy(p, c)) <= Cardinality(ToldBy(p, c)')
      BY <1>0, <2>2, FS_Subset
    <3> QED
      BY <1>0, <3>1, <3>2
  <2> QED
    BY <2>3, <2>4
<1> QED
  BY <1>2, <1>3 DEF PostsReport

\* A parent never hears twice of one completion, and never of one that has not
\* happened, for all logics, observers and interleavings of posts
\* (completionReported_, system.hpp:196).
THEOREM CompletionsAreReportedOnce == Spec => []ReportedOnce
<1>1. Init => OnceTold
  <2> SUFFICES ASSUME Init, NEW p \in Session, NEW c \in ChildIds
               PROVE  Cardinality(Places(queue, Completions(p, c)))
                         <= Cardinality(ToldBy(p, c))
    BY DEF OnceTold
  <2>1. Places(queue, Completions(p, c)) = {} /\ ToldBy(p, c) = {}
    <3>1. Existing \subseteq Session
      BY BoundsAssumption DEF Init, Existing, Session
    <3> QED
      BY <3>1 DEF Init, Places, ToldBy
  <2> QED
    BY <2>1, FS_EmptySet
<1>2. TypeOK /\ TypeOK' /\ NamesExist /\ OnceTold /\ [Next]_vars => OnceTold'
  <2> SUFFICES ASSUME TypeOK, TypeOK', NamesExist, OnceTold, [Next]_vars,
                      NEW p \in Session, NEW c \in ChildIds
               PROVE  Cardinality(Places(queue', Completions(p, c)))
                         <= Cardinality(ToldBy(p, c)')
    BY DEF OnceTold
  <2>1. Cardinality(Places(queue, Completions(p, c))) <= Cardinality(ToldBy(p, c))
    BY DEF OnceTold
  <2>2. CASE PostsReport(queue)
    <3>1. queue \in Seq(Task)
      BY DEF TypeOK
    <3> QED
      BY <2>1, <2>2, <3>1, OnceToldAfter
  <2>3. CASE queue # <<>> /\ PostsReport(Tail(queue))
    <3>1. queue \in Seq(Task) /\ Tail(queue) \in Seq(Task)
      BY <2>3, HeadOfQueue DEF TypeOK
    <3>2. Cardinality(Places(Tail(queue), Completions(p, c))) <= Cardinality(ToldBy(p, c))
      <4> DEFINE R == Completions(p, c)
      <4> HIDE DEF R
      <4>1. /\ Cardinality(Places(Tail(queue), R)) <= Cardinality(Places(queue, R))
            /\ Cardinality(Places(Tail(queue), R)) \in Nat
            /\ Cardinality(Places(queue, R)) \in Nat
        BY <2>3, <3>1, PlacesTail, PlacesFinite
      <4> QED
        BY <2>1, <4>1, ToldByFinite DEF R
    <3> QED
      BY <2>3, <3>1, <3>2, OnceToldAfter
  <2> QED
    BY <2>2, <2>3, StepPosts, BoundsAssumption
<1>3. TypeOK /\ AllTold /\ OnceTold => ReportedOnce
  <2> SUFFICES ASSUME TypeOK, AllTold, OnceTold, NEW p \in Existing, NEW c \in ChildIds
               PROVE  Cardinality(ReportsAbout(p, c)) <=
                         Cardinality({s \in Existing : /\ parent[s] = p /\ id[s] = c
                                       /\ status[s] \in {"done", "error", "stopped"}})
    BY DEF ReportedOnce
  <2> DEFINE F == {s \in Existing : /\ parent[s] = p /\ id[s] = c
                                    /\ status[s] \in {"done", "error", "stopped"}}
  <2>1. Existing \subseteq Session /\ created \in Session
    BY BoundsAssumption DEF TypeOK, Session, Existing
  <2>2. ToldBy(p, c) \subseteq F
    BY <2>1 DEF ToldBy, AllTold, Told, TypeOK, Status
  <2>3. IsFiniteSet(F) /\ Cardinality(F) \in Nat
    BY <2>1, FewActors DEF Existing
  <2>4. Cardinality(ToldBy(p, c)) <= Cardinality(F)
    BY <2>2, <2>3, FS_Subset
  <2>5. Cardinality(ReportsAbout(p, c)) <= Cardinality(ToldBy(p, c))
    BY <2>1, ReportsAreCompletions DEF OnceTold
  <2>6. Cardinality(ReportsAbout(p, c)) \in Nat
    <3>1. queue \in Seq(Task)
      BY DEF TypeOK
    <3> QED
      BY <3>1, ReportsAreCompletions, PlacesFinite
  <2> QED
    BY <2>3, <2>4, <2>5, <2>6, ToldByFinite
<1> QED
  BY <1>1, <1>2, <1>3, TypeCorrect, NamesAreOfActors, ActorsTell, PTL DEF Spec

-----------------------------------------------------------------------------
(* Parents and children *)

StopPCs == {"stopChildren", "stopEffects"}
InStop(s) == pc[s] \in StopPCs

\* Nobody is created but by SpawnChild, and nobody registered.
LEMMA OnlySpawnCreates ==
    ASSUME TypeOK, [Next]_vars, ~SpawnChild
    PROVE  /\ UNCHANGED <<created, id, parent>>
           /\ \A r \in Session, c \in ChildIds :
                 children'[r][c] \in {children[r][c], NoSession}
<1> USE DEF lifecycle, timing, running
<1>1. UNCHANGED <<created, id, parent>>
  BY DEF Next, Others, Executor, RunTask, Execute, Return, Stopping, RootStart,
     ForeignSend, RootStop, DoStart, DoReceive, DoStop, ExecuteSend, StartTimer,
     CancelTimer, StopChild, EffectThrows, Finish, Notify, NotifyThrows,
     StopNextChild, StopSelf, StopFinish, StopNotifyThrows, FireTimer, vars
<1>2. CASE StopChild
  <2>1. \/ children' = children
        \/ children' = [children EXCEPT ![cur][First.id] = NoSession]
    BY <1>2 DEF StopChild
  <2>2. children \in [Session -> [ChildIds -> Session \cup {NoSession}]]
    BY DEF TypeOK
  <2> QED
    BY <1>1, <2>1, <2>2
<1>3. CASE StopSelf
  BY <1>1, <1>3 DEF StopSelf, TypeOK
<1>4. CASE ~StopChild /\ ~StopSelf
  <2>1. UNCHANGED children
    BY <1>4 DEF Next, Others, Executor, RunTask, Execute, Return, Stopping, RootStart,
       ForeignSend, RootStop, DoStart, DoReceive, DoStop, ExecuteSend, StartTimer,
       CancelTimer, EffectThrows, Finish, Notify, NotifyThrows,
       StopNextChild, StopFinish, StopNotifyThrows, FireTimer, vars
  <2> QED
    BY <1>1, <2>1
<1> QED
  BY <1>2, <1>3, <1>4

\* Everybody but the root is the child of somebody older, and who is registered
\* under a child id is the child of that id.
Family ==
    /\ parent[Root] = NoSession /\ id[Root] = RootId
    /\ \A s \in Existing \ {Root} : parent[s] \in 1 .. s - 1 /\ id[s] \in ChildIds
    /\ \A p \in Session, i \in ChildIds :
          children[p][i] # NoSession =>
             parent[children[p][i]] = p /\ id[children[p][i]] = i

\* What a spawn does.
LEMMA SpawnSteps ==
    ASSUME TypeOK, NamesExist, SpawnChild
    PROVE  /\ cur \in Session /\ cur \in Existing /\ First \in Effect
           /\ First.id \in ChildIds
           /\ created + 1 \in Session /\ created + 1 \notin Existing
           /\ created' = created + 1 /\ Existing' = Existing \cup {created + 1}
           /\ \A s \in Existing : id'[s] = id[s] /\ parent'[s] = parent[s]
           /\ id'[created + 1] = First.id /\ parent'[created + 1] = cur
           /\ children'[cur][First.id] = created + 1
           /\ \A p \in Session, i \in ChildIds :
                 p # cur \/ i # First.id => children'[p][i] = children[p][i]
<1>1. cur \in Session /\ First \in Effect
  BY FirstTyped DEF SpawnChild
<1>2. cur \in Existing
  BY DEF SpawnChild, InEffects, Idle, NamesExist
<1>3. First.id \in ChildIds
  BY <1>1 DEF SpawnChild, Effect
<1>4. /\ created + 1 \in Session /\ created + 1 \notin Existing /\ created' = created + 1
      /\ Existing' = Existing \cup {created + 1} /\ Existing \subseteq Session
  BY BoundsAssumption DEF SpawnChild, TypeOK, Session, Existing
<1>5. /\ id' = [id EXCEPT ![created + 1] = First.id]
      /\ parent' = [parent EXCEPT ![created + 1] = cur]
      /\ children' = [children EXCEPT ![cur][First.id] = created + 1]
  BY DEF SpawnChild
<1>6. \A s \in Existing : s # created + 1
  BY <1>4
<1>7. /\ \A s \in Existing : id'[s] = id[s] /\ parent'[s] = parent[s]
      /\ id'[created + 1] = First.id /\ parent'[created + 1] = cur
  BY <1>4, <1>5, <1>6 DEF TypeOK
<1>8. children \in [Session -> [ChildIds -> Session \cup {NoSession}]]
  BY DEF TypeOK
<1> DEFINE n == created + 1
           i == First.id
<1> HIDE DEF n, i
<1>9. /\ children'[cur][i] = n
      /\ \A p \in Session, j \in ChildIds :
            p # cur \/ j # i => children'[p][j] = children[p][j]
  BY <1>1, <1>3, <1>5, <1>8 DEF n, i
<1> QED
  BY <1>1, <1>2, <1>3, <1>4, <1>7, <1>9 DEF n, i

\* Actors are created into the family, and stay who they are.
LEMMA FamilyIsKept == Spec => []Family
<1>1. Init => Family
  <2>1. Init => Existing = {Root} /\ Root \in Session
    BY BoundsAssumption DEF Init, Existing, Root, Session
  <2> QED
    BY <2>1 DEF Init, Family
<1>2. TypeOK /\ NamesExist /\ Family /\ [Next]_vars => Family'
  <2> SUFFICES ASSUME TypeOK, NamesExist, Family, [Next]_vars PROVE Family'
    OBVIOUS
  <2>1. Root \in Existing /\ Existing \subseteq Session /\ NoSession \notin Existing
    BY BoundsAssumption DEF TypeOK, Session, Existing, Root, NoSession
  <2>2. CASE SpawnChild
    <3> DEFINE n == created + 1
    <3>1. \A s \in Existing' \ {Root} : parent'[s] \in 1 .. s - 1 /\ id'[s] \in ChildIds
      <4>1. cur \in 1 .. n - 1
        BY <2>2, SpawnSteps DEF Existing, TypeOK, Session
      <4> HIDE DEF n
      <4>2. \A s \in Existing \ {Root} : parent'[s] \in 1 .. s - 1 /\ id'[s] \in ChildIds
        BY <2>2, SpawnSteps DEF Family
      <4>3. parent'[n] = cur /\ id'[n] \in ChildIds /\ Existing' = Existing \cup {n}
        BY <2>2, SpawnSteps DEF n
      <4> QED
        BY <4>1, <4>2, <4>3
    <3>2. ASSUME NEW p \in Session, NEW i \in ChildIds, children'[p][i] # NoSession
          PROVE  parent'[children'[p][i]] = p /\ id'[children'[p][i]] = i
      <4>1. CASE p = cur /\ i = First.id
        BY <2>2, <4>1, SpawnSteps
      <4>2. CASE ~(p = cur /\ i = First.id)
        <5>1. children'[p][i] = children[p][i]
          BY <2>2, <4>2, SpawnSteps
        <5>2. children[p][i] \in Existing
          BY <3>2, <5>1 DEF NamesExist
        <5> QED
          BY <2>2, <3>2, <5>1, <5>2, SpawnSteps DEF Family
      <4> QED
        BY <4>1, <4>2
    <3>3. parent'[Root] = NoSession /\ id'[Root] = RootId
      BY <2>1, <2>2, SpawnSteps DEF Family
    <3> QED
      BY <3>1, <3>2, <3>3 DEF Family
  <2>3. CASE ~SpawnChild
    <3>1. /\ Existing' = Existing /\ id' = id /\ parent' = parent
          /\ \A r \in Session, c \in ChildIds :
                children'[r][c] \in {children[r][c], NoSession}
      BY <2>3, OnlySpawnCreates DEF Existing
    <3> QED
      BY <3>1 DEF Family
  <2> QED
    BY <2>2, <2>3
<1> QED
  BY <1>1, <1>2, TypeCorrect, NamesAreOfActors, PTL DEF Spec

-----------------------------------------------------------------------------
(* The handlers inside doStop are a chain of parents, ending in the one that *)
(* runs; each parent stands in the loop over its children.                   *)

Nesting ==
    /\ \A s \in Session : InStop(s) => cur \in Session /\ s <= cur /\ InStop(cur)
    /\ \A c, s \in Session : InStop(c) /\ InStop(s) /\ s < c =>
          s <= parent[c] /\ pc[parent[c]] = "stopChildren"
    /\ \A s \in Session : pc[s] = "stopEffects" => s = cur
    /\ \A s \in Session : pc[s] = "stopChildren" => todo[s] \subseteq Registered(s)

\* While nobody's handler runs, or one that is not in doStop, none is.
LEMMA NobodyStops ==
    ASSUME Nesting, Idle \/ ~InStop(cur)
    PROVE  \A s \in Session : ~InStop(s)
BY DEF Nesting, Idle, NoSession, Session

\* The child a doStop comes to is younger than all actors in doStop.
LEMMA NextChild ==
    ASSUME TypeOK, NamesExist, Family, Nesting, ~Idle, pc[cur] = "stopChildren",
           NEW c \in todo[cur]
    PROVE  /\ cur \in Session /\ c \in ChildIds /\ InStop(cur)
           /\ children[cur][c] \in Session \ {Root} /\ children[cur][c] \in Existing
           /\ parent[children[cur][c]] = cur /\ id[children[cur][c]] = c
           /\ cur < children[cur][c]
           /\ \A s \in Session : InStop(s) => s < children[cur][c]
<1>1. cur \in Session /\ c \in ChildIds /\ InStop(cur)
  BY DEF Idle, TypeOK, InStop, StopPCs
<1>2. children[cur][c] # NoSession
  BY <1>1 DEF Nesting, Registered
<1> DEFINE x == children[cur][c]
<1>3. x \in Session /\ x \in Existing /\ parent[x] = cur /\ id[x] = c
  BY <1>1, <1>2 DEF TypeOK, NamesExist, Family
<1> HIDE DEF x
<1>4. x # Root
  BY <1>1, <1>3 DEF Family, Session, NoSession
<1>5. cur \in 1 .. x - 1
  BY <1>3, <1>4 DEF Family
<1>6. cur < x
  BY <1>3, <1>5 DEF Session
<1>7. \A s \in Session : InStop(s) => s <= cur
  BY DEF Nesting
<1> QED
  BY <1>1, <1>3, <1>4, <1>6, <1>7 DEF Session, x

\* What StopNextChild does with the child c.
Visits(c) ==
    LET child == children[cur][c] IN
    IF status[child] = "stopped"
    THEN todo' = [todo EXCEPT ![cur] = @ \ {c}] /\ UNCHANGED <<cur, pc>>
    ELSE /\ cur' = child
         /\ pc' = [pc EXCEPT ![child] = "stopChildren"]
         /\ todo' = [todo EXCEPT ![cur] = @ \ {c}, ![child] = Registered(child)]

\* Stopping is nested: a doStop is entered for a child of the actor whose doStop
\* runs and returns to that actor.
LEMMA NestingIsKept == Spec => []Nesting
<1>1. Init => Nesting
  BY DEF Init, Nesting, InStop, StopPCs
<1>2. TypeOK /\ TypeOK' /\ NamesExist /\ Family /\ HandlerIsOne /\ Nesting /\ [Next]_vars
      => Nesting'
  <2> SUFFICES ASSUME TypeOK, TypeOK', NamesExist, Family, HandlerIsOne, Nesting, [Next]_vars
               PROVE  Nesting'
    OBVIOUS
  <2> USE DEF lifecycle, timing, running
  \* nobody in doStop
  <2>1. ASSUME \A s \in Session : pc'[s] \notin StopPCs
        PROVE  Nesting'
    BY <2>1 DEF Nesting, InStop, StopPCs
  <2>2. CASE DoStart \/ DoReceive
    <3>1. Idle /\ Head(queue).actor \in Session
      BY <2>2, HeadOfQueue DEF DoStart, DoReceive, HeadIs, Task
    <3>2. \A s \in Session : pc[s] \notin StopPCs
      BY <3>1, NobodyStops DEF InStop
    <3>3. \/ pc' = pc \/ \E x \in {"idle", "effects"} :
                            pc' = [pc EXCEPT ![Head(queue).actor] = x]
      BY <2>2 DEF DoStart, DoReceive, DropTask, RunLogic, BecomeError
    <3>4. \A s \in Session : pc'[s] \notin StopPCs
      BY <3>1, <3>2, <3>3 DEF StopPCs, TypeOK
    <3> QED
      BY <2>1, <3>4
  <2>3. CASE (EffectThrows /\ pc[cur] = "effects") \/ Finish \/ Notify \/ NotifyThrows
    <3>1. cur \in Session /\ pc[cur] \in {"effects", "notify"}
      BY <2>3 DEF EffectThrows, InEffects, Finish, Notify, NotifyThrows, Idle, TypeOK
    <3>2. \A s \in Session : pc[s] \notin StopPCs
      <4>1. ~InStop(cur)
        BY <3>1 DEF InStop, StopPCs
      <4> QED
        BY <4>1, NobodyStops DEF InStop
    <3>3. \E x \in {"idle", "notify"} : pc' = [pc EXCEPT ![cur] = x]
      BY <2>3 DEF EffectThrows, BecomeError, Finish, Notify, NotifyThrows
    <3>4. \A s \in Session : pc'[s] \notin StopPCs
      BY <3>1, <3>2, <3>3 DEF StopPCs, TypeOK
    <3> QED
      BY <2>1, <3>4
  \* no handler moves; who is registered changes only with a handler in its effects
  <2>4. ASSUME UNCHANGED <<cur, pc, todo>>,
               \A s \in Session : InStop(s) => parent'[s] = parent[s],
               \A s \in Session : pc[s] = "stopChildren" => children'[s] = children[s]
        PROVE  Nesting'
    <3>1. \A s \in Session : InStop(s)' = InStop(s)
      BY <2>4 DEF InStop
    <3> QED
      BY <2>4, <3>1 DEF Nesting, Registered
  <2>5. CASE \/ Others \/ ExecuteSend \/ StartTimer \/ CancelTimer \/ FireTimer
             \/ (EffectThrows /\ pc[cur] # "effects") \/ UNCHANGED vars
    BY <2>4, <2>5 DEF Others, RootStart, ForeignSend, RootStop, ExecuteSend, StartTimer,
       CancelTimer, FireTimer, EffectThrows, vars
  <2>6. CASE StopChild
    <3>1. cur \in Session /\ pc[cur] # "stopChildren"
      BY <2>6, FirstTyped DEF StopChild, InEffects
    <3>2. \A s \in Session \ {cur} : children'[s] = children[s]
      BY <2>6 DEF StopChild, TypeOK
    <3> QED
      BY <2>4, <2>6, <3>1, <3>2 DEF StopChild
  <2>7. CASE SpawnChild
    <3>1. cur \in Session /\ pc[cur] # "stopChildren" /\ cur \in Existing
      BY <2>7, SpawnSteps DEF SpawnChild, InEffects
    <3>2. \A s \in Session \ {cur} : children'[s] = children[s]
      BY <2>7 DEF SpawnChild, TypeOK
    <3>3. ASSUME NEW s \in Session, InStop(s) PROVE parent'[s] = parent[s]
      <4>1. s <= cur
        BY <3>3 DEF Nesting
      <4>2. s \in Existing
        BY <3>1, <4>1 DEF Existing, Session, TypeOK
      <4> QED
        BY <2>7, <4>2, SpawnSteps
    <3> QED
      BY <2>4, <2>7, <3>1, <3>2, <3>3 DEF SpawnChild
  \* the first to stop
  <2>8. CASE DoStop
    <3>0. PICK s \in Session : s = Head(queue).actor
      BY <2>8, HeadOfQueue DEF DoStop, HeadIs, Task
    <3>1. Idle
      BY <2>8 DEF DoStop, HeadIs
    <3>2. \A r \in Session : pc[r] \notin StopPCs
      BY <3>1, NobodyStops DEF InStop
    <3>3. CASE UNCHANGED <<cur, pc, todo>>
      BY <2>1, <3>2, <3>3
    <3>4. CASE EnterStop(s)
      <4>1. cur' = s /\ pc'[s] = "stopChildren" /\ todo'[s] = Registered(s)
            /\ \A r \in Session \ {s} : pc'[r] \notin StopPCs
        BY <3>1, <3>2, <3>4 DEF EnterStop, TypeOK
      <4>2. Registered(s)' = Registered(s)
        BY <2>8 DEF DoStop, Registered
      <4>3. \A r \in Session : InStop(r)' <=> r = s
        BY <4>1 DEF InStop, StopPCs
      <4>4. s \in Nat /\ StopPCs = {"stopChildren", "stopEffects"}
        BY <3>1 DEF Session, StopPCs
      <4> QED
        BY <3>1, <4>1, <4>2, <4>3, <4>4 DEF Nesting
    <3> QED
      BY <2>8, <3>0, <3>3, <3>4 DEF DoStop
  \* the next child
  <2>9. CASE StopNextChild
    <3>1. PICK c \in todo[cur] : Visits(c)
      BY <2>9 DEF StopNextChild, Visits
    <3> DEFINE x == children[cur][c]
    <3>2. ~Idle /\ pc[cur] = "stopChildren" /\ UNCHANGED <<parent, children>>
      BY <2>9 DEF StopNextChild
    <3>3. /\ cur \in Session /\ x \in Session /\ parent[x] = cur /\ cur < x /\ InStop(cur)
          /\ \A s \in Session : InStop(s) => s < x
      BY <3>2, NextChild
    <3>4. CASE status[x] = "stopped"
      <4>1. todo' = [todo EXCEPT ![cur] = @ \ {c}] /\ UNCHANGED <<cur, pc>>
        BY <3>1, <3>4 DEF Visits
      <4>2. \A s \in Session : todo'[s] \subseteq todo[s]
        BY <4>1 DEF TypeOK
      <4> QED
        BY <3>2, <4>1, <4>2 DEF Nesting, InStop, Registered
    <3>5. CASE status[x] # "stopped"
      <4>1. /\ cur' = x
            /\ pc' = [pc EXCEPT ![x] = "stopChildren"]
            /\ todo' = [todo EXCEPT ![cur] = @ \ {c}, ![x] = Registered(x)]
        BY <3>1, <3>5 DEF Visits
      <4> HIDE DEF x
      <4>2. /\ pc'[x] = "stopChildren" /\ todo'[x] = Registered(x)
            /\ \A r \in Session \ {x} : pc'[r] = pc[r] /\ todo'[r] \subseteq todo[r]
        <5> DEFINE left == [todo EXCEPT ![cur] = @ \ {c}]
        <5>1. DOMAIN pc = Session /\ DOMAIN todo = Session
          BY DEF TypeOK
        <5>2. DOMAIN left = Session /\ \A r \in Session : left[r] \subseteq todo[r]
          BY <5>1
        <5>3. todo' = [left EXCEPT ![x] = Registered(x)]
          BY <4>1
        <5> HIDE DEF left
        <5>4. todo'[x] = Registered(x) /\ \A r \in Session \ {x} : todo'[r] = left[r]
          BY <3>3, <5>2, <5>3
        <5>5. pc'[x] = "stopChildren" /\ \A r \in Session \ {x} : pc'[r] = pc[r]
          BY <3>3, <4>1, <5>1
        <5> QED
          BY <5>2, <5>4, <5>5
      <4>3. \A r \in Session : InStop(r)' <=> InStop(r) \/ r = x
        BY <4>2 DEF InStop, StopPCs
      <4>4. /\ parent' = parent /\ children' = children /\ x \in Nat
            /\ \A s \in Session : s \in Nat
        BY <3>2, <3>3 DEF Session
      <4>5. \A s \in Session : InStop(s) => s <= cur /\ s # x /\ pc[s] = "stopChildren"
        BY <3>2, <3>3 DEF Nesting, InStop, StopPCs, Session
      <4>6. \A s \in Session : InStop(s)' => cur' \in Session /\ s <= cur' /\ InStop(cur)'
        BY <3>3, <4>1, <4>3, <4>4
      <4>7. ASSUME NEW r \in Session, NEW s \in Session, InStop(r)', InStop(s)', s < r
            PROVE  s <= parent'[r] /\ pc'[parent'[r]] = "stopChildren"
        <5>1. CASE r = x
          <6>1. InStop(s) /\ s <= cur
            BY <4>3, <4>4, <4>5, <4>7, <5>1
          <6>2. pc'[cur] = "stopChildren"
            BY <3>2, <3>3, <4>2, <4>4
          <6> QED
            BY <3>3, <4>4, <5>1, <6>1, <6>2
        <5>2. CASE r # x
          <6>1. InStop(r) /\ InStop(s) /\ r < x
            BY <3>3, <4>3, <4>4, <4>7, <5>2
          <6>2. s <= parent[r] /\ pc[parent[r]] = "stopChildren"
            BY <4>7, <6>1 DEF Nesting
          <6>3. parent[r] \in Session
            BY <4>4, <6>2 DEF TypeOK, NoSession, Session
          <6> QED
            BY <4>2, <4>4, <6>2, <6>3
        <5> QED
          BY <5>1, <5>2
      <4>8. \A s \in Session : pc'[s] # "stopEffects"
        BY <4>2, <4>5 DEF InStop, StopPCs
      <4>9. ASSUME NEW s \in Session, pc'[s] = "stopChildren"
            PROVE  todo'[s] \subseteq Registered(s)'
        <5>1. Registered(s)' = Registered(s)
          BY <4>4 DEF Registered
        <5> QED
          BY <4>2, <4>9, <5>1 DEF Nesting
      <4> QED
        BY <4>6, <4>7, <4>8, <4>9 DEF Nesting
    <3> QED
      BY <3>4, <3>5
  \* the actor's own part
  <2>10. CASE StopSelf
    <3>1. /\ cur \in Session /\ pc[cur] = "stopChildren" /\ UNCHANGED <<cur, todo, parent>>
          /\ pc' = [pc EXCEPT ![cur] = "stopEffects"]
          /\ \A s \in Session \ {cur} : children'[s] = children[s]
      BY <2>10 DEF StopSelf, Idle, TypeOK
    <3>2. /\ pc'[cur] = "stopEffects"
          /\ \A s \in Session \ {cur} : pc'[s] = pc[s]
          /\ \A s \in Session : InStop(s)' <=> InStop(s)
      BY <3>1 DEF InStop, StopPCs, TypeOK
    <3>3. \A s \in Session : pc'[s] = "stopEffects" => s = cur
      BY <3>1, <3>2 DEF Nesting
    <3>4. ASSUME NEW c \in Session, NEW s \in Session, InStop(c)', InStop(s)', s < c
          PROVE  s <= parent'[c] /\ pc'[parent'[c]] = "stopChildren"
      <4>1. s <= parent[c] /\ pc[parent[c]] = "stopChildren" /\ c <= cur
        BY <3>2, <3>4 DEF Nesting
      <4>2. parent[c] \in Session
        BY <4>1 DEF TypeOK, NoSession, Session
      <4>3. cur \in Existing
        BY <2>10 DEF StopSelf, Idle, NamesExist
      <4>4. c \in Existing \ {Root} /\ parent[c] < c
        <5>1. c # Root
          BY <4>2 DEF Family, Session, NoSession
        <5>2. c \in Existing
          BY <4>1, <4>3 DEF Existing, Session, TypeOK
        <5> QED
          BY <5>1, <5>2 DEF Family, Session
      <4>5. parent[c] # cur
        BY <4>1, <4>2, <4>4 DEF Session
      <4> QED
        BY <3>1, <3>2, <4>1, <4>2, <4>5
    <3>5. ASSUME NEW s \in Session, pc'[s] = "stopChildren"
          PROVE  todo'[s] \subseteq Registered(s)'
      <4>1. s # cur /\ pc[s] = "stopChildren"
        BY <3>2, <3>5
      <4>2. Registered(s)' = Registered(s)
        BY <3>1, <4>1 DEF Registered
      <4> QED
        BY <3>1, <4>1, <4>2 DEF Nesting
    <3> QED
      BY <3>1, <3>2, <3>3, <3>4, <3>5 DEF Nesting
  \* and back to the parent
  <2>11. CASE StopFinish
    <3>1. /\ cur \in Session /\ pc[cur] = "stopEffects" /\ UNCHANGED <<children, todo, parent>>
          /\ pc' = [pc EXCEPT ![cur] = "idle"]
          /\ cur' = IF parent[cur] # NoSession /\ pc[parent[cur]] = "stopChildren"
                    THEN parent[cur] ELSE NoSession
      BY <2>11 DEF StopFinish, Idle, TypeOK
    <3>2. /\ \A s \in Session \ {cur} : pc'[s] = pc[s]
          /\ \A s \in Session : InStop(s)' <=> InStop(s) /\ s # cur
      BY <3>1 DEF InStop, StopPCs, TypeOK
    <3>3. \A s \in Session : InStop(s)' => s < cur
      BY <3>1, <3>2 DEF Nesting, Session
    <3>4. InStop(cur)
      BY <3>1 DEF InStop, StopPCs
    <3>5. \A s \in Session : InStop(s)' => s <= parent[cur] /\ pc[parent[cur]] = "stopChildren"
      BY <3>1, <3>2, <3>3, <3>4 DEF Nesting
    <3>6. ASSUME NEW s \in Session, InStop(s)'
          PROVE  cur' \in Session /\ s <= cur' /\ InStop(cur)'
      <4>1. s <= parent[cur] /\ pc[parent[cur]] = "stopChildren"
        BY <3>5, <3>6
      <4>2. parent[cur] \in Session
        BY <3>1, <4>1 DEF TypeOK, NoSession, Session
      <4>3. cur' = parent[cur]
        BY <3>1, <4>1, <4>2 DEF NoSession, Session
      <4>4. InStop(parent[cur]) /\ parent[cur] # cur
        BY <3>1, <4>1 DEF InStop, StopPCs
      <4> QED
        BY <3>2, <4>1, <4>2, <4>3, <4>4 DEF InStop
    <3>7. ASSUME NEW c \in Session, NEW s \in Session, InStop(c)', InStop(s)', s < c
          PROVE  s <= parent'[c] /\ pc'[parent'[c]] = "stopChildren"
      <4>1. s <= parent[c] /\ pc[parent[c]] = "stopChildren"
        BY <3>2, <3>7 DEF Nesting
      <4>2. parent[c] \in Session
        BY <4>1 DEF TypeOK, NoSession, Session
      <4>3. parent[c] # cur
        BY <3>1, <4>1
      <4> QED
        BY <3>1, <3>2, <4>1, <4>2, <4>3
    <3>8. \A s \in Session : pc'[s] # "stopEffects"
      BY <3>1, <3>2 DEF Nesting, TypeOK
    <3>9. \A s \in Session : pc'[s] = "stopChildren" => todo'[s] \subseteq Registered(s)'
      BY <3>1, <3>2 DEF Nesting, Registered, TypeOK
    <3> QED
      BY <3>6, <3>7, <3>8, <3>9 DEF Nesting
  <2>12. CASE StopNotifyThrows
    BY <2>1, <2>12 DEF StopNotifyThrows, StopPCs
  <2> QED
    BY <2>2, <2>3, <2>5, <2>6, <2>7, <2>8, <2>9, <2>10, <2>11, <2>12
    DEF Next, Executor, RunTask, Execute, Return, Stopping
<1> QED
  BY <1>1, <1>2, TypeCorrect, NamesAreOfActors, FamilyIsKept, OneHandler, PTL DEF Spec

\* Effects wait only in a handler that executes them, and parting ones leave no
\* timer and no child.
Quiet(es) == \A i \in DOMAIN es : es[i].kind \notin {"timer", "spawn"}
Pending ==
    /\ \A s \in Session : pc[s] \notin {"effects", "stopEffects"} => eff[s] = <<>>
    /\ \A s \in Session : pc[s] = "stopEffects" => Quiet(eff[s])

\* What is left of quiet effects is quiet.
LEMMA QuietTail ==
    ASSUME NEW es \in Seq(Effect), es # <<>>, Quiet(es)
    PROVE  Quiet(Tail(es)) /\ Head(es).kind \notin {"timer", "spawn"}
<1>1. \A i \in DOMAIN Tail(es) : i + 1 \in DOMAIN es /\ Tail(es)[i] = es[i + 1]
  OBVIOUS
<1>2. 1 \in DOMAIN es /\ Head(es) = es[1]
  OBVIOUS
<1> QED
  BY <1>1, <1>2 DEF Quiet

\* Every step keeps that, if no logic parts with a timer or a child.
LEMMA PendingIsKept ==
    ASSUME PartingIsQuiet, TypeOK, NamesExist, Family, HandlerIsOne, Nesting, Pending,
           [Next]_vars
    PROVE  Pending'
<1> USE DEF lifecycle, timing, running
<1>0. \A s \in Session : s \in Nat /\ s # NoSession
  BY DEF Session, NoSession
\* one handler moves, to where nothing is left to execute
<1>1. ASSUME NEW s \in Session, NEW p \in PCs, pc' = [pc EXCEPT ![s] = p],
             \/ eff' = [eff EXCEPT ![s] = <<>>]
             \/ eff' = eff /\ eff[s] = <<>>
      PROVE  Pending'
  <2>1. pc'[s] = p /\ eff'[s] = <<>> /\ Quiet(<<>>)
        /\ \A r \in Session \ {s} : pc'[r] = pc[r] /\ eff'[r] = eff[r]
    BY <1>1 DEF TypeOK, Quiet
  <2> QED
    BY <2>1 DEF Pending
<1>2. CASE DoStart \/ DoReceive
  <2>1. PICK s \in Session : s = Head(queue).actor
    BY <1>2, HeadOfQueue DEF DoStart, DoReceive, HeadIs, Task
  <2>2. \/ UNCHANGED <<pc, eff>>
        \/ BecomeError(s, Tail(queue))
        \/ \E es : pc' = [pc EXCEPT ![s] = "effects"] /\ eff' = [eff EXCEPT ![s] = es]
    BY <1>2, <2>1 DEF DoStart, DoReceive, DropTask, RunLogic
  <2>3. ASSUME NEW es, pc' = [pc EXCEPT ![s] = "effects"], eff' = [eff EXCEPT ![s] = es]
        PROVE  Pending'
    <3>1. pc'[s] = "effects" /\ \A r \in Session \ {s} : pc'[r] = pc[r] /\ eff'[r] = eff[r]
      BY <2>3 DEF TypeOK
    <3> QED
      BY <3>1 DEF Pending
  <2>4. CASE UNCHANGED <<pc, eff>>
    BY <2>4 DEF Pending
  <2>5. CASE BecomeError(s, Tail(queue))
    BY <1>1, <2>5 DEF BecomeError, PCs
  <2> QED
    BY <2>2, <2>3, <2>4, <2>5
<1>3. CASE ExecuteSend \/ StartTimer \/ CancelTimer \/ SpawnChild \/ StopChild
  <2>1. /\ cur \in Session /\ pc[cur] \in {"effects", "stopEffects"} /\ pc' = pc
        /\ eff[cur] \in Seq(Effect) /\ eff[cur] # <<>>
        /\ eff' = [eff EXCEPT ![cur] = Tail(eff[cur])]
    BY <1>3, FirstTyped DEF ExecuteSend, StartTimer, CancelTimer, SpawnChild, StopChild,
       InEffects, Consume, TypeOK
  <2>2. eff'[cur] = Tail(eff[cur]) /\ \A r \in Session \ {cur} : eff'[r] = eff[r]
    BY <2>1 DEF TypeOK
  <2>3. Quiet(eff[cur]) => Quiet(eff'[cur])
    BY <2>1, <2>2, QuietTail
  <2> QED
    BY <2>1, <2>2, <2>3 DEF Pending
<1>4. CASE EffectThrows
  <2>1. cur \in Session /\ pc[cur] \in {"effects", "stopEffects"}
    BY <1>4, FirstTyped DEF EffectThrows, InEffects
  <2>2. CASE pc[cur] = "effects"
    BY <1>1, <1>4, <2>1, <2>2 DEF EffectThrows, BecomeError, PCs
  <2>3. CASE pc[cur] # "effects"
    <3>1. pc' = pc /\ eff' = [eff EXCEPT ![cur] = <<>>]
      BY <1>4, <2>3 DEF EffectThrows
    <3>2. pc' = [pc EXCEPT ![cur] = pc[cur]] /\ pc[cur] \in PCs
      BY <2>1, <3>1 DEF TypeOK, PCs
    <3> QED
      BY <1>1, <2>1, <3>1, <3>2
  <2> QED
    BY <2>2, <2>3
<1>5. CASE Finish \/ Notify \/ NotifyThrows
  <2>1. cur \in Session
    BY <1>5 DEF Finish, Notify, NotifyThrows, Idle, TypeOK
  <2>2. eff[cur] = <<>>
    BY <1>5, <2>1 DEF Finish, Notify, NotifyThrows, Pending
  <2>3. \E p \in PCs : pc' = [pc EXCEPT ![cur] = p]
    BY <1>5 DEF Finish, Notify, NotifyThrows, BecomeError, PCs
  <2>4. eff' = eff \/ eff' = [eff EXCEPT ![cur] = <<>>]
    BY <1>5 DEF Finish, Notify, NotifyThrows, BecomeError
  <2> QED
    BY <1>1, <2>1, <2>2, <2>3, <2>4
<1>6. CASE DoStop
  <2>1. PICK s \in Session : s = Head(queue).actor
    BY <1>6, HeadOfQueue DEF DoStop, HeadIs, Task
  <2>2. pc[s] \notin {"effects", "stopEffects"}
    <3>1. ~InStop(s)
      BY <1>6, NobodyStops DEF DoStop, HeadIs
    <3> QED
      BY <1>0, <1>6, <3>1 DEF DoStop, HeadIs, Idle, HandlerIsOne, InStop, StopPCs
  <2>3. eff' = eff /\ (pc' = pc \/ pc' = [pc EXCEPT ![s] = "stopChildren"])
    BY <1>6, <2>1 DEF DoStop, EnterStop
  <2> QED
    BY <1>1, <2>2, <2>3 DEF Pending, PCs
<1>7. CASE StopNextChild
  <2>1. PICK c \in todo[cur] : Visits(c)
    BY <1>7 DEF StopNextChild, Visits
  <2>2. PICK x \in Session : x = children[cur][c] /\ cur < x /\ ~InStop(x) /\ cur \in Session
    BY <1>0, <1>7, NextChild DEF StopNextChild
  <2>3. eff' = eff /\ (pc' = pc \/ pc' = [pc EXCEPT ![x] = "stopChildren"])
    BY <1>7, <2>1, <2>2 DEF StopNextChild, Visits
  <2>4. pc[x] \notin {"effects", "stopEffects"}
    BY <1>0, <2>2 DEF HandlerIsOne, InStop, StopPCs
  <2> QED
    BY <1>1, <2>3, <2>4 DEF Pending, PCs
<1>8. CASE StopSelf
  <2>1. /\ cur \in Session /\ pc[cur] = "stopChildren"
        /\ pc' = [pc EXCEPT ![cur] = "stopEffects"]
    BY <1>8 DEF StopSelf, Idle, TypeOK
  <2>2. CASE status[cur] # "active"
    BY <1>1, <1>8, <2>1, <2>2 DEF StopSelf, Pending, PCs
  <2>3. CASE status[cur] = "active"
    <3>1. PICK o \in Answers(cur, "stop") :
             eff' = [eff EXCEPT ![cur] = IF o.throws THEN <<>> ELSE o.effects]
      BY <1>8, <2>3 DEF StopSelf
    <3>2. Quiet(o.effects) /\ Quiet(<<>>)
      <4>1. id[cur] \in ChildIds \cup {RootId} /\ o \in Behaviour[id[cur]]["stop"]
        BY <2>1, <3>1 DEF Answers, TypeOK
      <4> QED
        BY <4>1 DEF PartingIsQuiet, Quiet
    <3>3. /\ Quiet(eff'[cur]) /\ pc'[cur] = "stopEffects"
          /\ \A r \in Session \ {cur} : pc'[r] = pc[r] /\ eff'[r] = eff[r]
      BY <2>1, <3>1, <3>2 DEF TypeOK
    <3> QED
      BY <3>3 DEF Pending
  <2> QED
    BY <2>2, <2>3
<1>9. CASE StopFinish \/ StopNotifyThrows
  <2>1. /\ cur \in Session /\ pc[cur] = "stopEffects" /\ eff[cur] = <<>> /\ eff' = eff
    BY <1>9 DEF StopFinish, StopNotifyThrows, Idle, TypeOK
  <2>2. ASSUME NEW s \in Session PROVE eff[s] = <<>>
    <3>1. CASE pc[s] = "effects"
      BY <2>1, <3>1 DEF HandlerIsOne
    <3>2. CASE pc[s] = "stopEffects"
      BY <2>1, <3>2 DEF Nesting
    <3> QED
      BY <3>1, <3>2 DEF Pending
  <2>3. \A s \in Session : eff'[s] = <<>> /\ Quiet(<<>>)
    BY <2>1, <2>2 DEF Quiet
  <2> QED
    BY <2>3 DEF Pending
<1>10. CASE Others \/ FireTimer \/ UNCHANGED vars
  BY <1>10 DEF Others, RootStart, ForeignSend, RootStop, FireTimer, vars, Pending
<1> QED
  BY <1>2, <1>3, <1>4, <1>5, <1>6, <1>7, <1>8, <1>9, <1>10
  DEF Next, Executor, RunTask, Execute, Return, Stopping

\* Where an actor has stopped, or executes its parting effects, no timer of it is
\* armed and no child registered.
Cleared ==
    \A s \in Session : status[s] = "stopped" \/ pc[s] = "stopEffects" =>
       (\A t \in clock : t.actor # s) /\ Registered(s) = {}

\* Nothing is added to what an actor has but by a handler in its effects, of an
\* actor that has not stopped.
LEMMA InItsEffects ==
    ASSUME TypeOK, InHandler, Pending, StartTimer \/ SpawnChild
    PROVE  cur \in Session /\ pc[cur] = "effects" /\ status[cur] # "stopped"
<1>1. /\ cur \in Session /\ pc[cur] \in {"effects", "stopEffects"}
      /\ eff[cur] \in Seq(Effect) /\ eff[cur] # <<>>
      /\ Head(eff[cur]).kind \in {"timer", "spawn"}
  BY FirstTyped DEF StartTimer, SpawnChild, InEffects, First, TypeOK
<1>2. pc[cur] # "stopEffects"
  BY <1>1, QuietTail DEF Pending
<1> QED
  BY <1>1, <1>2 DEF InHandler

\* A step after which an actor has stopped or executes parting effects: it did
\* before, or it clears what it had.
LEMMA StopsOrStopped ==
    ASSUME TypeOK, [Next]_vars, [LifeStep]_status, NEW s \in Session,
           status'[s] = "stopped" \/ pc'[s] = "stopEffects"
    PROVE  \/ status[s] = "stopped" \/ pc[s] = "stopEffects"
           \/ StopSelf /\ s = cur
<1> USE DEF lifecycle, timing, running
<1>1. CASE StopSelf
  BY <1>1 DEF StopSelf, Idle, TypeOK
<1>2. CASE StopFinish \/ StopNotifyThrows
  BY <1>2 DEF StopFinish, StopNotifyThrows, TypeOK, Idle
<1>3. CASE StopNextChild \/ DoStop
  BY <1>3 DEF StopNextChild, DoStop, EnterStop, TypeOK
<1>4. CASE DoStart \/ DoReceive
  <2>1. PICK r \in Session : r = Head(queue).actor
    BY <1>4, HeadOfQueue DEF DoStart, DoReceive, HeadIs, Task
  <2>2. CASE DropTask
    BY <2>2 DEF DropTask
  <2>3. CASE ~DropTask
    <3>1. PICK stimulus \in Stimulus : RunLogic(r, stimulus)
      BY <1>4, <2>1, <2>3, HeadOfQueue, Stimuli DEF DoStart, DoReceive, Stimulus, HeadIs
    <3>2. PICK o \in Answers(r, stimulus) :
             IF o.throws THEN BecomeError(r, Tail(queue))
             ELSE /\ status' = [status EXCEPT ![r] = o.status]
                  /\ pc' = [pc EXCEPT ![r] = "effects"]
      BY <3>1 DEF RunLogic
    <3>3. o.status # "stopped"
      BY <3>1, <3>2, AnswersAreOutcomes, BehaviourAssumption
    <3> QED
      BY <3>2, <3>3 DEF BecomeError, TypeOK
  <2> QED
    BY <2>2, <2>3
<1>5. CASE EffectThrows \/ NotifyThrows
  BY <1>5 DEF EffectThrows, NotifyThrows, BecomeError, TypeOK
<1>6. CASE Finish \/ Notify
  BY <1>6 DEF Finish, Notify, TypeOK
<1>7. CASE \/ Others \/ ExecuteSend \/ StartTimer \/ CancelTimer \/ SpawnChild \/ StopChild
           \/ FireTimer \/ UNCHANGED vars
  BY <1>7 DEF Others, RootStart, ForeignSend, RootStop, ExecuteSend, StartTimer,
     CancelTimer, SpawnChild, StopChild, FireTimer, vars
<1> QED
  BY <1>1, <1>2, <1>3, <1>4, <1>5, <1>6, <1>7
  DEF Next, Executor, RunTask, Execute, Return, Stopping

\* Nobody stops and keeps a timer or a child.
LEMMA ClearedIsKept ==
    ASSUME TypeOK, NamesExist, InHandler, Pending, Cleared, [Next]_vars, [LifeStep]_status
    PROVE  Cleared'
<1> USE DEF lifecycle, timing, running
<1> SUFFICES ASSUME NEW s \in Session, status'[s] = "stopped" \/ pc'[s] = "stopEffects"
             PROVE  (\A t \in clock' : t.actor # s) /\ Registered(s)' = {}
  BY DEF Cleared
<1>1. CASE StopSelf /\ s = cur
  BY <1>1 DEF StopSelf, Registered, TypeOK
<1>2. CASE status[s] = "stopped" \/ pc[s] = "stopEffects"
  <2>1. (\A t \in clock : t.actor # s) /\ Registered(s) = {}
    BY <1>2 DEF Cleared
  <2>2. \A t \in clock' : t.actor # s
    <3>1. CASE StartTimer
      <4>1. cur # s
        BY <1>2, <3>1, InItsEffects
      <4> QED
        BY <2>1, <3>1, <4>1 DEF StartTimer
    <3>2. CASE ~StartTimer
      <4>1. clock' \subseteq clock
        BY <3>2 DEF Next, Others, Executor, RunTask, Execute, Return, Stopping, RootStart,
           ForeignSend, RootStop, DoStart, DoReceive, DoStop, ExecuteSend, SpawnChild,
           CancelTimer, StopChild, EffectThrows, Finish, Notify, NotifyThrows,
           StopNextChild, StopSelf, StopFinish, StopNotifyThrows, FireTimer, vars
      <4> QED
        BY <2>1, <4>1
    <3> QED
      BY <3>1, <3>2
  <2>3. Registered(s)' = {}
    <3>1. \A c \in ChildIds : children'[s][c] \in {children[s][c], NoSession}
      <4>1. CASE SpawnChild
        <5>1. cur # s
          BY <1>2, <4>1, InItsEffects
        <5> QED
          BY <4>1, <5>1, SpawnSteps
      <4> QED
        BY <4>1, OnlySpawnCreates
    <3> QED
      BY <2>1, <3>1 DEF Registered
  <2> QED
    BY <2>2, <2>3
<1> QED
  BY <1>1, <1>2, StopsOrStopped

-----------------------------------------------------------------------------
(* A child is registered with a parent that has not stopped, until its stop  *)
(* is posted or it is visited by the parent's doStop.                        *)

Held(c) ==
    /\ children[parent[c]][id[c]] = c
    /\ status[parent[c]] # "stopped"
    /\ pc[parent[c]] # "stopEffects"
    /\ pc[parent[c]] = "stopChildren" => id[c] \in todo[parent[c]]
Owned(c) ==
    \/ status[c] = "stopped"
    \/ InStop(c)
    \/ Waits(StopTask(c))
    \/ Held(c)
AllOwned == \A c \in Existing \ {Root} : Owned(c)

\* A task that waits goes on waiting until it is the one that is run.
LEMMA WaitsOn ==
    ASSUME TypeOK, NamesExist, [Next]_vars, NEW s, Waits(StopTask(s))
    PROVE  \/ Waits(StopTask(s))'
           \/ DoStop /\ Head(queue) = StopTask(s)
<1>1. PICK i \in DOMAIN queue : queue[i] = StopTask(s)
  BY DEF Waits
<1>2. queue \in Seq(Task) /\ queue # <<>>
  BY <1>1 DEF TypeOK
<1>3. ASSUME NEW q \in Seq(Task), NEW j \in DOMAIN q, q[j] = StopTask(s), Appends(q)
      PROVE  Waits(StopTask(s))'
  <2>1. \E k \in DOMAIN queue' : queue'[k] = q[j]
    BY <1>3 DEF Appends
  <2>2. StopTask(s)' = StopTask(s)'
    OBVIOUS
  <2> QED
    BY <1>3, <2>1 DEF Waits, StopTask
<1>4. CASE Appends(queue)
  BY <1>1, <1>2, <1>3, <1>4
<1>5. CASE RunTask /\ Appends(Tail(queue))
  <2>1. CASE i = 1
    <3>1. Head(queue) = StopTask(s)
      BY <1>1, <1>2, <2>1
    <3>2. Head(queue).kind = "stop"
      BY <3>1 DEF StopTask
    <3> QED
      BY <1>5, <3>1, <3>2 DEF RunTask, DoStart, DoReceive, HeadIs
  <2>2. CASE i # 1
    <3>1. /\ Tail(queue) \in Seq(Task) /\ i - 1 \in DOMAIN Tail(queue)
          /\ Tail(queue)[i - 1] = StopTask(s)
      BY <1>1, <1>2, <2>2
    <3> QED
      BY <1>3, <1>5, <3>1
  <2> QED
    BY <2>1, <2>2
<1> QED
  BY <1>4, <1>5, QueueSteps, BoundsAssumption

\* A stopped actor stays stopped.
LEMMA StoppedStays ==
    ASSUME [LifeStep]_status, NEW s \in Session, status[s] = "stopped"
    PROVE  status'[s] = "stopped"
BY DEF LifeStep, Life!Next, Life!Follows

\* Inside doStop an actor goes on to be stopped, unless an observer of somebody
\* else throws when that one has stopped.
LEMMA StopGoesOn ==
    ASSUME TypeOK, NamesExist, Family, HandlerIsOne, Nesting, [Next]_vars,
           ObserversAreQuiet(ObserversThrow),
           NEW c \in Existing \ {Root}, c \in Session, InStop(c)
    PROVE  InStop(c)' \/ status'[c] = "stopped"
<1> USE DEF lifecycle, timing, running
<1>0. cur \in Session /\ c <= cur /\ InStop(cur)
  BY DEF Nesting
<1>1. ~Idle /\ pc[cur] \notin {"effects", "notify"}
  BY <1>0 DEF Idle, Session, NoSession, InStop, StopPCs
<1>2. CASE StopNextChild \/ StopSelf
  BY <1>2 DEF StopNextChild, StopSelf, InStop, StopPCs, TypeOK
<1>3. CASE StopFinish
  BY <1>0, <1>3 DEF StopFinish, InStop, TypeOK
<1>4. CASE StopNotifyThrows
  <2>1. id[cur] \in ChildIds
    <3>1. cur \in Existing \ {Root}
      BY <1>0, <1>1 DEF NamesExist, Session, Existing, Root, TypeOK, Idle
    <3> QED
      BY <3>1 DEF Family
  <2> QED
    BY <1>4, <2>1 DEF StopNotifyThrows, ObserversAreQuiet
<1>5. CASE EffectThrows
  BY <1>1, <1>5 DEF EffectThrows, InStop
<1>6. CASE Finish \/ Notify \/ NotifyThrows
  BY <1>1, <1>6 DEF Finish, Notify, NotifyThrows
<1>7. CASE RunTask
  BY <1>1, <1>7 DEF RunTask, DoStart, DoReceive, DoStop, HeadIs
<1>8. CASE \/ Others \/ ExecuteSend \/ StartTimer \/ CancelTimer \/ SpawnChild \/ StopChild
           \/ FireTimer \/ UNCHANGED vars
  BY <1>8 DEF Others, RootStart, ForeignSend, RootStop, ExecuteSend, StartTimer,
     CancelTimer, SpawnChild, StopChild, FireTimer, vars, InStop
<1> QED
  BY <1>2, <1>3, <1>4, <1>5, <1>6, <1>7, <1>8
  DEF Next, Executor, Execute, Return, Stopping

\* A task to stop an actor that is run stops it.
LEMMA StopBegins ==
    ASSUME TypeOK, DoStop, NEW s \in Session, Head(queue) = StopTask(s)
    PROVE  status'[s] = "stopped" \/ InStop(s)'
BY DEF DoStop, StopTask, EnterStop, InStop, StopPCs, TypeOK, lifecycle

\* A child that its parent holds is let go only to be stopped.
LEMMA HeldIsOwned ==
    ASSUME TypeOK, TypeOK', NamesExist, Family, InHandler, HandlerIsOne, Nesting, Pending,
           NoTakeOver, [Next]_vars, [LifeStep]_status,
           ObserversAreQuiet(ObserversThrow),
           NEW c \in Existing \ {Root}, c \in Session, Held(c)
    PROVE  Owned(c)'
<1> USE DEF lifecycle, timing, running
<1> DEFINE p == parent[c]
           i == id[c]
<1>0. /\ p \in Session /\ i \in ChildIds /\ p \in Existing /\ c # NoSession
      /\ children[p][i] = c
      /\ status[p] # "stopped" /\ pc[p] # "stopEffects"
      /\ pc[p] = "stopChildren" => i \in todo[p]
  <2>1. p \in 1 .. c - 1 /\ i \in ChildIds
    BY DEF Family
  <2>2. p \in Session
    BY <2>1, BoundsAssumption DEF Session
  <2> QED
    BY <2>1, <2>2 DEF Held, NamesExist, Session, NoSession
<1>00. parent'[c] = p /\ id'[c] = i
  BY IdentityKept
<1> HIDE DEF p, i
\* the parent keeps it
<1>1. ASSUME children'[p][i] = c, status'[p] # "stopped", pc'[p] # "stopEffects",
             pc'[p] = "stopChildren" => i \in todo'[p]
      PROVE  Owned(c)'
  BY <1>00, <1>1 DEF Owned, Held
\* steps in which nobody comes nearer to have stopped
<1>2. ASSUME children'[p][i] = c, ~StopSelf, ~StopFinish, ~StopNotifyThrows,
             pc'[p] = "stopChildren" => i \in todo'[p]
      PROVE  Owned(c)'
  <2>1. status'[p] # "stopped" /\ pc'[p] # "stopEffects"
    <3>1. ~(StopSelf /\ p = cur)
      BY <1>2
    <3> QED
      BY <1>0, <3>1, StopsOrStopped
  <2> QED
    BY <1>1, <1>2, <2>1
<1>3. CASE SpawnChild
  <2>1. ~(p = cur /\ i = First.id)
    BY <1>0, <1>3 DEF SpawnChild, NoTakeOver
  <2>2. children'[p][i] = c
    BY <1>0, <1>3, <2>1, SpawnSteps
  <2>3. UNCHANGED <<pc, todo, status>>
    BY <1>3 DEF SpawnChild
  <2> QED
    BY <1>0, <1>1, <2>2, <2>3
<1>4. CASE StopChild
  <2>1. cur \in Session /\ First \in Effect
    BY <1>4, FirstTyped DEF StopChild
  <2>2. UNCHANGED <<pc, todo, status>>
    BY <1>4 DEF StopChild
  <2>3. CASE children[cur][First.id] = c
    <3>1. queue \in Seq(Task) /\ queue' = Append(queue, StopTask(c))
      BY <1>0, <1>4, <2>3 DEF StopChild, Post, TypeOK
    <3>2. \E k \in DOMAIN queue' : queue'[k] = StopTask(c)
      BY <3>1
    <3> QED
      BY <3>2 DEF Owned, Waits, StopTask
  <2>4. CASE children[cur][First.id] # c
    <3>1. \/ children' = children
          \/ children' = [children EXCEPT ![cur][First.id] = NoSession]
      BY <1>4 DEF StopChild
    <3>2. children'[p][i] = children[p][i]
      <4>1. children \in [Session -> [ChildIds -> Session \cup {NoSession}]]
        BY DEF TypeOK
      <4>2. p # cur \/ i # First.id
        BY <1>0, <2>4
      <4> QED
        BY <1>0, <3>1, <4>1, <4>2
    <3> QED
      BY <1>0, <1>1, <2>2, <3>2
  <2> QED
    BY <2>3, <2>4
<1>5. CASE DoStop
  <2>1. PICK s \in Session : s = Head(queue).actor
    BY <1>5, HeadOfQueue DEF DoStop, HeadIs, Task
  <2>2. /\ children' = children
        /\ UNCHANGED <<pc, todo>> \/ EnterStop(s)
    BY <1>5, <2>1 DEF DoStop
  <2>3. pc'[p] = "stopChildren" => i \in todo'[p]
    <3>1. CASE EnterStop(s) /\ p = s
      <4>1. i \in Registered(s)
        BY <1>0, <3>1 DEF Registered
      <4> QED
        BY <3>1, <4>1 DEF EnterStop, TypeOK
    <3>2. CASE EnterStop(s) /\ p # s
      BY <1>0, <3>2 DEF EnterStop, TypeOK
    <3> QED
      BY <1>0, <2>2, <3>1, <3>2
  <2> QED
    BY <1>0, <1>2, <1>5, <2>2, <2>3 DEF DoStop, StopSelf, StopFinish, StopNotifyThrows,
       HeadIs, Idle
<1>6. CASE StopNextChild
  <2>0. ~Idle /\ pc[cur] = "stopChildren" /\ UNCHANGED <<children, status>>
    BY <1>6 DEF StopNextChild
  <2>1. PICK d \in todo[cur] : Visits(d)
    BY <1>6 DEF StopNextChild, Visits
  <2>2. PICK x \in Session : /\ x = children[cur][d] /\ cur < x /\ cur \in Session
                             /\ x # Root /\ parent[x] = cur /\ id[x] = d
    BY <2>0, NextChild
  <2>3. CASE status[x] = "stopped"
    <3>1. todo' = [todo EXCEPT ![cur] = @ \ {d}] /\ UNCHANGED <<cur, pc>>
      BY <2>1, <2>2, <2>3 DEF Visits
    <3>2. CASE x = c
      BY <2>0, <2>3, <3>2 DEF Owned
    <3>3. CASE x # c
      <4>1. ~(p = cur /\ i = d)
        BY <1>0, <2>2, <3>3
      <4>2. i \in todo[p] => i \in todo'[p]
        BY <1>0, <2>2, <3>1, <4>1 DEF TypeOK
      <4> QED
        BY <1>0, <1>1, <2>0, <3>1, <4>2
    <3> QED
      BY <3>2, <3>3
  <2>4. CASE status[x] # "stopped"
    <3>1. /\ pc' = [pc EXCEPT ![x] = "stopChildren"]
          /\ todo' = [todo EXCEPT ![cur] = @ \ {d}, ![x] = Registered(x)]
      BY <2>1, <2>2, <2>4 DEF Visits
    <3>2. CASE x = c
      BY <2>2, <3>1, <3>2 DEF Owned, InStop, StopPCs, TypeOK
    <3>3. CASE x # c
      <4>1. ~(p = cur /\ i = d)
        BY <1>0, <2>2, <3>3
      <4>2. CASE p = x
        <5>1. i \in Registered(x)
          BY <1>0, <4>2 DEF Registered
        <5>2. pc'[p] = "stopChildren" /\ i \in todo'[p]
          BY <2>2, <3>1, <4>2, <5>1 DEF TypeOK
        <5> QED
          BY <1>0, <1>1, <2>0, <5>2
      <4>3. CASE p # x
        <5>1. pc'[p] = pc[p]
          BY <1>0, <2>2, <3>1, <4>3 DEF TypeOK
        <5>2. i \in todo[p] => i \in todo'[p]
          <6>1. todo \in [Session -> SUBSET ChildIds]
            BY DEF TypeOK
          <6> QED
            BY <1>0, <2>2, <3>1, <4>1, <4>3, <6>1
        <5> QED
          BY <1>0, <1>1, <2>0, <5>1, <5>2
      <4> QED
        BY <4>2, <4>3
    <3> QED
      BY <3>2, <3>3
  <2> QED
    BY <2>3, <2>4
<1>7. CASE StopSelf
  <2>1. cur \in Session /\ pc[cur] = "stopChildren" /\ todo[cur] = {}
    BY <1>7 DEF StopSelf, Idle, TypeOK
  <2>2. p # cur
    BY <1>0, <2>1
  <2>3. children'[p] = children[p] /\ pc'[p] = pc[p] /\ UNCHANGED <<status, todo>>
    BY <1>0, <1>7, <2>1, <2>2 DEF StopSelf, TypeOK
  <2> QED
    BY <1>0, <1>1, <2>3
<1>8. CASE StopFinish
  <2>1. cur \in Session /\ pc[cur] = "stopEffects"
    BY <1>8 DEF StopFinish, Idle, TypeOK
  <2>2. p # cur
    BY <1>0, <2>1
  <2>3. pc'[p] = pc[p] /\ status'[p] = status[p] /\ UNCHANGED <<children, todo>>
    BY <1>0, <1>8, <2>1, <2>2 DEF StopFinish, TypeOK
  <2> QED
    BY <1>0, <1>1, <2>3
<1>9. CASE StopNotifyThrows
  <2>1. cur \in Session /\ pc[cur] = "stopEffects"
    BY <1>9 DEF StopNotifyThrows, Idle, TypeOK
  <2>2. p # cur
    BY <1>0, <2>1
  <2>3. pc'[p] = "idle" /\ status'[p] = status[p] /\ UNCHANGED children
    BY <1>0, <1>9, <2>1, <2>2 DEF StopNotifyThrows, TypeOK
  <2> QED
    BY <1>0, <1>1, <2>3
\* no other step begins to stop anybody
<1>10. ASSUME UNCHANGED <<children, todo>>,
              pc'[p] = "stopChildren" => pc[p] = "stopChildren",
              ~StopSelf, ~StopFinish, ~StopNotifyThrows
       PROVE  Owned(c)'
  BY <1>0, <1>2, <1>10
<1>11. CASE DoStart \/ DoReceive
  <2>1. PICK s \in Session : s = Head(queue).actor
    BY <1>11, HeadOfQueue DEF DoStart, DoReceive, HeadIs, Task
  <2>2. pc' = pc \/ \E x \in {"idle", "effects"} : pc' = [pc EXCEPT ![s] = x]
    BY <1>11, <2>1 DEF DoStart, DoReceive, DropTask, RunLogic, BecomeError
  <2>3. pc'[p] = "stopChildren" => pc[p] = "stopChildren"
    BY <1>0, <2>2 DEF TypeOK
  <2>4. ~StopSelf /\ ~StopFinish /\ ~StopNotifyThrows
    BY <1>11 DEF DoStart, DoReceive, HeadIs, Idle, StopSelf, StopFinish, StopNotifyThrows
  <2> QED
    BY <1>10, <1>11, <2>3, <2>4 DEF DoStart, DoReceive
<1>12. CASE EffectThrows \/ Finish \/ Notify \/ NotifyThrows
  <2>1. pc' = pc \/ \E x \in {"idle", "notify"} : pc' = [pc EXCEPT ![cur] = x]
    BY <1>12 DEF EffectThrows, Finish, Notify, NotifyThrows, BecomeError
  <2>2. pc'[p] = "stopChildren" => pc[p] = "stopChildren"
    BY <1>0, <2>1 DEF TypeOK
  <2>3. UNCHANGED children
    BY <1>12 DEF EffectThrows, Finish, Notify, NotifyThrows
  <2>4. UNCHANGED todo
    BY <1>12 DEF EffectThrows, Finish, Notify, NotifyThrows
  <2> QED
    BY <1>0, <1>2, <1>7, <1>8, <1>9, <2>2, <2>3, <2>4
<1>13. CASE Others \/ ExecuteSend \/ StartTimer \/ CancelTimer \/ FireTimer \/ UNCHANGED vars
  <2>1. UNCHANGED <<children, todo, pc, status>>
    BY <1>13 DEF Others, RootStart, ForeignSend, RootStop, ExecuteSend, StartTimer,
       CancelTimer, FireTimer, vars
  <2> QED
    BY <1>0, <1>1, <2>1
<1> QED
  BY <1>3, <1>4, <1>5, <1>6, <1>7, <1>8, <1>9, <1>11, <1>12, <1>13
  DEF Next, Executor, RunTask, Execute, Return, Stopping

\* Every actor but the root is held by its parent until it is stopped, if no
\* child id is taken over and no observer throws that sees a child stopped.
LEMMA OwnedIsKept ==
    ASSUME TypeOK, TypeOK', NamesExist, Family, InHandler, HandlerIsOne, Nesting, Pending,
           AllOwned, NoTakeOver, [Next]_vars, [LifeStep]_status,
           ObserversAreQuiet(ObserversThrow)
    PROVE  AllOwned'
<1> SUFFICES ASSUME NEW c \in Existing' \ {Root} PROVE Owned(c)'
  BY DEF AllOwned
<1>1. CASE c \in Existing
  <2>1. c \in Session
    BY <1>1, BoundsAssumption DEF Existing, Session, TypeOK
  <2>2. Owned(c)
    BY <1>1 DEF AllOwned
  <2>3. CASE status[c] = "stopped"
    <3>1. status'[c] = "stopped"
      BY <2>1, <2>3, StoppedStays
    <3> QED
      BY <3>1 DEF Owned
  <2>4. CASE InStop(c)
    <3>1. InStop(c)' \/ status'[c] = "stopped"
      BY <1>1, <2>1, <2>4, StopGoesOn
    <3> QED
      BY <3>1 DEF Owned
  <2>5. CASE Waits(StopTask(c))
    <3>1. CASE Waits(StopTask(c))'
      <4>1. StopTask(c)' = StopTask(c)
        BY DEF StopTask, NoEvent, Plain
      <4> QED
        BY <3>1, <4>1 DEF Owned
    <3>2. CASE DoStop /\ Head(queue) = StopTask(c)
      <4>1. status'[c] = "stopped" \/ InStop(c)'
        BY <2>1, <3>2, StopBegins
      <4> QED
        BY <4>1 DEF Owned
    <3> QED
      BY <2>5, <3>1, <3>2, WaitsOn
  <2>6. CASE Held(c)
    BY <1>1, <2>1, <2>6, HeldIsOwned
  <2> QED
    BY <2>2, <2>3, <2>4, <2>5, <2>6 DEF Owned
<1>2. CASE c \notin Existing
  <2>1. SpawnChild
    BY <1>2, OnlySpawnCreates DEF Existing
  <2>2. /\ c = created + 1
        /\ parent'[c] = cur /\ id'[c] = First.id /\ children'[cur][First.id] = c
    BY <1>2, <2>1, SpawnSteps
  <2>3. UNCHANGED <<pc, todo, status>>
    BY <2>1 DEF SpawnChild
  <2>4. cur \in Session /\ pc[cur] = "effects" /\ status[cur] # "stopped"
    BY <2>1, InItsEffects
  <2> QED
    BY <2>2, <2>3, <2>4 DEF Owned, Held
<1> QED
  BY <1>1, <1>2

\* What an actor that has stopped leaves, from what it has cleared and who holds
\* its children.
LEMMA NothingIsLeft ==
    ASSUME TypeOK, Family, Cleared, AllOwned
    PROVE  StoppedLeavesNothing
<1> SUFFICES ASSUME NEW s \in Existing, status[s] = "stopped"
             PROVE  /\ \A t \in clock : t.actor # s
                    /\ Registered(s) = {}
                    /\ \A c \in Existing : parent[c] = s =>
                          \/ status[c] = "stopped"
                          \/ pc[c] \in {"stopChildren", "stopEffects"}
                          \/ Waits(StopTask(c))
  BY DEF StoppedLeavesNothing
<1>1. s \in Session
  BY BoundsAssumption DEF TypeOK, Existing, Session
<1>2. (\A t \in clock : t.actor # s) /\ Registered(s) = {}
  BY <1>1 DEF Cleared
<1>3. ASSUME NEW c \in Existing, parent[c] = s
      PROVE  \/ status[c] = "stopped"
             \/ pc[c] \in {"stopChildren", "stopEffects"}
             \/ Waits(StopTask(c))
  <2>1. c # Root
    BY <1>1, <1>3 DEF Family, Session, NoSession
  <2>2. Owned(c) /\ ~Held(c)
    BY <1>3, <2>1 DEF AllOwned, Held
  <2> QED
    BY <2>2 DEF Owned, InStop, StopPCs
<1> QED
  BY <1>2, <1>3

-----------------------------------------------------------------------------
(* Child ids *)

\* What is left of effects that free the ids they reuse: they still do, and an
\* id that was free before them or freed by them was so by their first or is by
\* what is left.
LEMMA FreesTail ==
    ASSUME NEW es \in Seq(Effect), es # <<>>, FreesItsIds(es)
    PROVE  /\ FreesItsIds(Tail(es))
           /\ \A i \in Spawns(Tail(es)) :
                 /\ i + 1 \in Spawns(es) /\ Tail(es)[i] = es[i + 1]
                 /\ FreedBetween(es, 0, i + 1) =>
                       \/ FreedBetween(Tail(es), 0, i)
                       \/ Head(es).kind = "stop" /\ Head(es).id = es[i + 1].id
                 /\ Head(es).kind = "spawn" /\ Head(es).id = es[i + 1].id =>
                       FreedBetween(Tail(es), 0, i)
<1>1. /\ \A i \in DOMAIN Tail(es) : i + 1 \in DOMAIN es /\ Tail(es)[i] = es[i + 1]
      /\ DOMAIN es = 1 .. Len(es) /\ DOMAIN Tail(es) = 1 .. Len(es) - 1
      /\ Len(es) \in Nat /\ Head(es) = es[1] /\ 1 \in DOMAIN es
  OBVIOUS
<1>2. \A i \in Spawns(Tail(es)) : i + 1 \in Spawns(es) /\ Tail(es)[i] = es[i + 1] /\ i \in Nat
  BY <1>1 DEF Spawns
<1>3. ASSUME NEW k \in Nat, NEW i \in Spawns(Tail(es)), FreedBetween(es, k + 1, i + 1)
      PROVE  FreedBetween(Tail(es), k, i)
  <2>1. PICK j \in k + 2 .. i : es[j].kind = "stop" /\ es[j].id = es[i + 1].id
    BY <1>2, <1>3 DEF FreedBetween
  <2>2. j - 1 \in k + 1 .. i - 1 /\ j - 1 \in DOMAIN Tail(es) /\ Tail(es)[j - 1] = es[j]
    BY <1>1, <1>2, <2>1 DEF Spawns
  <2>3. Tail(es)[i] = es[i + 1]
    BY <1>2
  <2> QED
    BY <2>1, <2>2, <2>3 DEF FreedBetween
<1>4. FreesItsIds(Tail(es))
  <2> SUFFICES ASSUME NEW i \in Spawns(Tail(es)), NEW k \in Spawns(Tail(es)),
                      k < i, Tail(es)[k].id = Tail(es)[i].id
               PROVE  FreedBetween(Tail(es), k, i)
    BY DEF FreesItsIds
  <2>0. i + 1 \in Spawns(es) /\ k + 1 \in Spawns(es) /\ k + 1 < i + 1 /\ k \in Nat
        /\ es[k + 1].id = es[i + 1].id
    <3>1. /\ i + 1 \in Spawns(es) /\ Tail(es)[i] = es[i + 1] /\ i \in Nat
          /\ k + 1 \in Spawns(es) /\ Tail(es)[k] = es[k + 1] /\ k \in Nat
      BY <1>2
    <3>2. k + 1 < i + 1
      BY <3>1
    <3>3. es[k + 1].id = es[i + 1].id
      BY <3>1, Zenon
    <3> QED
      BY <3>1, <3>2, <3>3
  <2>1. FreedBetween(es, k + 1, i + 1)
    BY <2>0 DEF FreesItsIds
  <2> QED
    BY <1>3, <2>0, <2>1
<1>5. ASSUME NEW i \in Spawns(Tail(es)), FreedBetween(es, 0, i + 1)
      PROVE  \/ FreedBetween(Tail(es), 0, i)
             \/ Head(es).kind = "stop" /\ Head(es).id = es[i + 1].id
  <2>1. PICK j \in 1 .. i : es[j].kind = "stop" /\ es[j].id = es[i + 1].id
    BY <1>2, <1>5 DEF FreedBetween
  <2>2. CASE j = 1
    BY <1>1, <2>1, <2>2
  <2>3. CASE j # 1
    <3>1. FreedBetween(es, 1, i + 1)
      BY <1>2, <2>1, <2>3 DEF FreedBetween
    <3> QED
      BY <1>3, <3>1
  <2> QED
    BY <2>2, <2>3
<1>6. ASSUME NEW i \in Spawns(Tail(es)), Head(es).kind = "spawn", Head(es).id = es[i + 1].id
      PROVE  FreedBetween(Tail(es), 0, i)
  <2>1. 1 \in Spawns(es) /\ 1 < i + 1
    BY <1>1, <1>2, <1>6 DEF Spawns
  <2>2. FreedBetween(es, 1, i + 1)
    BY <1>1, <1>2, <1>6, <2>1 DEF FreesItsIds
  <2> QED
    BY <1>3, <2>2
<1> QED
  BY <1>2, <1>4, <1>5, <1>6

\* The ids of the children an actor is still going to create are free, or will
\* be before.
Freeing(s, es) ==
    /\ FreesItsIds(es)
    /\ \A i \in Spawns(es) : children[s][es[i].id] = NoSession \/ FreedBetween(es, 0, i)
Freed ==
    /\ \A s \in Session : Freeing(s, eff[s])
    /\ \A s \in Session : status[s] = "none" => Registered(s) = {}

\* Nothing to do takes over nothing.
LEMMA NothingFrees ==
    ASSUME NEW s
    PROVE  Freeing(s, <<>>)'
BY DEF Freeing, FreesItsIds, Spawns

\* Each step keeps the ids free, if logics free what they reuse.
LEMMA FreedIsKept ==
    ASSUME PartingIsQuiet, IdsAreFreed, TypeOK, TypeOK', NamesExist, InHandler, Pending,
           Freed, [Next]_vars, [LifeStep]_status
    PROVE  Freed'
<1> USE DEF lifecycle, timing, running
<1>0. \A s \in Session : status'[s] = "none" => status[s] = "none"
  BY NoneIsFirst
\* nobody is registered, and the effects are the same or none
<1>1. ASSUME \A s \in Session, c \in ChildIds : children'[s][c] \in {children[s][c], NoSession},
             \A s \in Session : eff'[s] \in {eff[s], <<>>}
      PROVE  Freed'
  <2>1. ASSUME NEW s \in Session PROVE Freeing(s, eff[s])'
    <3>1. CASE eff'[s] = <<>>
      BY <3>1, NothingFrees DEF Freeing
    <3>2. CASE eff'[s] = eff[s]
      <4>1. eff[s] \in Seq(Effect) /\ Freeing(s, eff[s])
        BY DEF TypeOK, Freed
      <4>2. ASSUME NEW i \in Spawns(eff[s])
            PROVE  \/ children'[s][eff[s][i].id] = NoSession
                   \/ FreedBetween(eff[s], 0, i)
        <5>1. eff[s][i].id \in ChildIds
          BY <4>1, <4>2 DEF Spawns, Effect
        <5> QED
          BY <1>1, <4>1, <5>1 DEF Freeing
      <4> QED
        BY <3>2, <4>1, <4>2 DEF Freeing
    <3> QED
      BY <1>1, <3>1, <3>2
  <2>2. ASSUME NEW s \in Session, status'[s] = "none" PROVE Registered(s)' = {}
    <3>1. status[s] = "none"
      BY <1>0, <2>2
    <3> QED
      BY <1>1, <3>1 DEF Freed, Registered
  <2> QED
    BY <2>1, <2>2 DEF Freed
<1>2. CASE DoStart \/ DoReceive
  <2>1. PICK s \in Session : s = Head(queue).actor
    BY <1>2, HeadOfQueue DEF DoStart, DoReceive, HeadIs, Task
  <2>2. UNCHANGED children
    BY <1>2 DEF DoStart, DoReceive
  <2>3. CASE \A r \in Session : eff'[r] \in {eff[r], <<>>}
    BY <1>1, <2>2, <2>3
  <2>4. CASE ~\A r \in Session : eff'[r] \in {eff[r], <<>>}
    <3>1. ~DropTask /\ ~BecomeError(s, Tail(queue))
      BY <2>4 DEF DropTask, BecomeError, TypeOK
    <3>2. PICK stimulus \in Stimulus :
             /\ RunLogic(s, stimulus)
             /\ \/ stimulus = "start" /\ status[s] = "none"
                \/ stimulus \in EventTypes \cup {"done.actor", "error.actor"}
      <4>1. Head(queue) \in Task
        BY <1>2, HeadOfQueue DEF DoStart, DoReceive, HeadIs
      <4>2. Head(queue).event.type \in EventTypes \cup {"done.actor", "error.actor"}
        BY <4>1 DEF Task, Event
      <4> QED
        BY <1>2, <2>1, <3>1, <4>2 DEF DoStart, DoReceive, Stimulus
    <3>3. PICK o \in Answers(s, stimulus) :
             /\ status' = [status EXCEPT ![s] = o.status]
             /\ eff' = [eff EXCEPT ![s] = o.effects]
      BY <3>1, <3>2 DEF RunLogic
    <3>4. /\ o.effects \in Seq(Effect) /\ o.status # "none"
          /\ FreesItsIds(o.effects)
          /\ stimulus \in EventTypes \cup {"done.actor", "error.actor"} =>
                \A i \in Spawns(o.effects) : FreedBetween(o.effects, 0, i)
      <4>1. o.effects \in Seq(Effect) /\ o.status # "none"
        BY <2>1, <3>2, <3>3, AnswersAreOutcomes, BehaviourAssumption
      <4>2. /\ id[s] \in ChildIds \cup {RootId} /\ stimulus \in Stimulus
            /\ o \in Behaviour[id[s]][stimulus]
        BY <3>2, <3>3 DEF TypeOK, Answers
      <4> QED
        BY <4>1, <4>2 DEF IdsAreFreed
    <3>5. \A i \in Spawns(o.effects) :
             children[s][o.effects[i].id] = NoSession \/ FreedBetween(o.effects, 0, i)
      <4>1. CASE status[s] = "none"
        <5>1. \A c \in ChildIds : children[s][c] = NoSession
          BY <4>1 DEF Freed, Registered
        <5>2. \A i \in Spawns(o.effects) : o.effects[i].id \in ChildIds
          BY <3>4 DEF Spawns, Effect
        <5> QED
          BY <5>1, <5>2
      <4> QED
        BY <3>2, <3>4, <4>1
    <3>6. eff'[s] = o.effects /\ \A r \in Session \ {s} : eff'[r] = eff[r]
      BY <3>3 DEF TypeOK
    <3>7. ASSUME NEW r \in Session PROVE Freeing(r, eff[r])'
      <4>1. CASE r = s
        BY <2>2, <3>4, <3>5, <3>6, <4>1 DEF Freeing
      <4>2. CASE r # s
        BY <2>2, <3>6, <4>2 DEF Freed, Freeing
      <4> QED
        BY <4>1, <4>2
    <3>8. ASSUME NEW r \in Session, status'[r] = "none" PROVE Registered(r)' = {}
      BY <1>0, <2>2, <3>8 DEF Freed, Registered
    <3> QED
      BY <3>7, <3>8 DEF Freed
  <2> QED
    BY <2>3, <2>4
<1>3. CASE ExecuteSend \/ StartTimer \/ CancelTimer \/ SpawnChild \/ StopChild
  <2>1. /\ cur \in Session /\ eff[cur] \in Seq(Effect) /\ eff[cur] # <<>>
        /\ eff' = [eff EXCEPT ![cur] = Tail(eff[cur])] /\ UNCHANGED status
        /\ First = Head(eff[cur]) /\ First \in Effect
    BY <1>3, FirstTyped DEF ExecuteSend, StartTimer, CancelTimer, SpawnChild, StopChild,
       InEffects, Consume, TypeOK, First
  <2>0. PICK s \in Session : s = cur
    BY <2>1
  <2>2. eff'[s] = Tail(eff[s]) /\ \A r \in Session \ {s} : eff'[r] = eff[r]
    BY <2>0, <2>1 DEF TypeOK
  <2>3. \A r \in Session \ {s}, c \in ChildIds : children'[r][c] \in {children[r][c], NoSession}
    BY <1>3, <2>0, SpawnSteps, OnlySpawnCreates
  \* the other actors
  <2>4. ASSUME NEW r \in Session \ {s} PROVE Freeing(r, eff[r])'
    <3>1. eff[r] \in Seq(Effect) /\ Freeing(r, eff[r]) /\ eff'[r] = eff[r]
      BY <2>2 DEF TypeOK, Freed
    <3>2. \A i \in Spawns(eff[r]) : eff[r][i].id \in ChildIds
      BY <3>1 DEF Spawns, Effect
    <3> QED
      BY <2>3, <3>1, <3>2 DEF Freeing
  \* the one that executes
  <2>5. Freeing(s, eff[s]) /\ eff[s] \in Seq(Effect)
    BY <2>0, <2>1 DEF Freed
  <2>6. ASSUME NEW i \in Spawns(Tail(eff[s]))
        PROVE  \/ children'[s][Tail(eff[s])[i].id] = NoSession
               \/ FreedBetween(Tail(eff[s]), 0, i)
    <3> DEFINE c == Tail(eff[s])[i].id
    <3>1. /\ i + 1 \in Spawns(eff[s]) /\ c = eff[s][i + 1].id
          /\ FreedBetween(eff[s], 0, i + 1) =>
                \/ FreedBetween(Tail(eff[s]), 0, i)
                \/ First.kind = "stop" /\ First.id = c
          /\ First.kind = "spawn" /\ First.id = c => FreedBetween(Tail(eff[s]), 0, i)
      BY <2>0, <2>1, <2>5, FreesTail DEF Freeing
    <3>2. c \in ChildIds
      BY <2>0, <2>1, <3>1 DEF Spawns, Effect
    <3>3. children[s][c] = NoSession \/ FreedBetween(eff[s], 0, i + 1)
      BY <2>5, <3>1 DEF Freeing
    <3> HIDE DEF c
    <3>4. CASE SpawnChild
      <4>1. First.kind = "spawn"
        BY <3>4 DEF SpawnChild
      <4>2. First.id # c => children'[s][c] = children[s][c]
        BY <2>0, <2>1, <3>2, <3>4, SpawnSteps
      <4> QED
        BY <3>1, <3>3, <4>1, <4>2 DEF c
    <3>5. CASE ~SpawnChild
      <4>1. children'[s][c] \in {children[s][c], NoSession}
        BY <2>0, <2>1, <3>2, <3>5, OnlySpawnCreates
      <4>2. First.kind = "stop" /\ First.id = c => children'[s][c] = NoSession
        <5>1. First.kind = "stop" => StopChild
          BY <1>3 DEF ExecuteSend, StartTimer, CancelTimer, SpawnChild
        <5>2. children \in [Session -> [ChildIds -> Session \cup {NoSession}]]
          BY DEF TypeOK
        <5>3. StopChild => \/ children' = children /\ children[s][First.id] = NoSession
                           \/ children' = [children EXCEPT ![s][First.id] = NoSession]
          BY <2>0 DEF StopChild
        <5> QED
          BY <2>0, <2>1, <3>2, <5>1, <5>2, <5>3
      <4> QED
        BY <3>1, <3>3, <4>1, <4>2 DEF c
    <3> QED
      BY <3>4, <3>5
  <2>7. Freeing(s, eff[s])'
    <3>1. FreesItsIds(Tail(eff[s]))
      BY <2>0, <2>1, <2>5, FreesTail DEF Freeing
    <3> QED
      BY <2>0, <2>2, <2>6, <3>1 DEF Freeing
  <2>9. ASSUME NEW r \in Session, status'[r] = "none" PROVE Registered(r)' = {}
    <3>1. Registered(r) = {}
      BY <2>1, <2>9 DEF Freed
    <3>2. CASE SpawnChild
      <4>1. status[s] # "none"
        BY <2>0, <3>2, InItsEffects DEF InHandler
      <4>2. \A c \in ChildIds : children'[r][c] \in {children[r][c], NoSession}
        BY <2>1, <2>3, <2>9, <4>1
      <4> QED
        BY <3>1, <4>2 DEF Registered
    <3>3. CASE ~SpawnChild
      BY <3>1, <3>3, OnlySpawnCreates DEF Registered
    <3> QED
      BY <3>2, <3>3
  <2> QED
    BY <2>1, <2>4, <2>7, <2>9 DEF Freed
<1>4. CASE EffectThrows \/ NotifyThrows
  <2>1. UNCHANGED children /\ cur \in Session /\ eff' = [eff EXCEPT ![cur] = <<>>]
    BY <1>4 DEF EffectThrows, NotifyThrows, BecomeError, InEffects, Idle, TypeOK
  <2>2. \A r \in Session : eff'[r] \in {eff[r], <<>>}
    BY <2>1 DEF TypeOK
  <2> QED
    BY <1>1, <2>1, <2>2
<1>5. CASE StopSelf
  <2>1. /\ cur \in Session
        /\ children' = [children EXCEPT ![cur] = [c \in ChildIds |-> NoSession]]
    BY <1>5 DEF StopSelf, Idle, TypeOK
  <2>0. PICK s \in Session : s = cur
    BY <2>1
  <2>2. /\ \A c \in ChildIds : children'[s][c] = NoSession
        /\ \A r \in Session \ {s} : children'[r] = children[r]
    BY <2>0, <2>1 DEF TypeOK
  <2>3. \/ eff' = eff
        \/ Quiet(eff'[s]) /\ \A r \in Session \ {s} : eff'[r] = eff[r]
    <3>1. CASE status[s] = "active"
      <4>1. PICK o \in Answers(s, "stop") :
               eff' = [eff EXCEPT ![s] = IF o.throws THEN <<>> ELSE o.effects]
        BY <1>5, <2>0, <3>1 DEF StopSelf
      <4>2. Quiet(o.effects) /\ Quiet(<<>>)
        <5>1. id[s] \in ChildIds \cup {RootId} /\ o \in Behaviour[id[s]]["stop"]
          BY <4>1 DEF Answers, TypeOK
        <5> QED
          BY <5>1 DEF PartingIsQuiet, Quiet
      <4> QED
        BY <4>1, <4>2 DEF TypeOK
    <3>2. CASE status[s] # "active"
      BY <1>5, <2>0, <3>2 DEF StopSelf
    <3> QED
      BY <3>1, <3>2
  <2>4. CASE eff' = eff
    BY <1>1, <2>2, <2>4
  <2>5. CASE Quiet(eff'[s]) /\ \A r \in Session \ {s} : eff'[r] = eff[r]
    <3>1. Freeing(s, eff[s])'
      <4>1. Spawns(eff'[s]) = {}
        BY <2>5 DEF Quiet, Spawns
      <4> QED
        BY <4>1 DEF Freeing, FreesItsIds, Spawns
    <3>2. \A r \in Session \ {s} : Freeing(r, eff[r])'
      BY <2>2, <2>5 DEF Freed, Freeing
    <3>3. ASSUME NEW r \in Session, status'[r] = "none" PROVE Registered(r)' = {}
      BY <1>0, <2>2, <3>3 DEF Freed, Registered
    <3> QED
      BY <3>1, <3>2, <3>3 DEF Freed
  <2> QED
    BY <2>3, <2>4, <2>5
<1>6. CASE \/ Others \/ DoStop \/ Finish \/ Notify \/ StopNextChild \/ StopFinish
           \/ StopNotifyThrows \/ FireTimer \/ UNCHANGED vars
  <2>1. UNCHANGED <<children, eff>>
    BY <1>6 DEF Others, RootStart, ForeignSend, RootStop, DoStop, Finish, Notify,
       StopNextChild, StopFinish, StopNotifyThrows, FireTimer, vars
  <2> QED
    BY <1>1, <2>1
<1> QED
  BY <1>2, <1>3, <1>4, <1>5, <1>6
  DEF Next, Executor, RunTask, Execute, Return, Stopping

-----------------------------------------------------------------------------
(* What actors that stop leave *)

\* Effects wait only in handlers that execute them, and an actor that stops has
\* cleared what it had.
LEMMA PartingIsClean ==
    ASSUME PartingIsQuiet
    PROVE  Spec => [](Pending /\ Cleared)
<1>1. Init => Pending /\ Cleared
  BY DEF Init, Pending, Cleared, Quiet
<1>2. /\ TypeOK /\ NamesExist /\ Family /\ InHandler /\ HandlerIsOne /\ Nesting
      /\ Pending /\ Cleared /\ [Next]_vars /\ [LifeStep]_status
      => (Pending /\ Cleared)'
  BY PendingIsKept, ClearedIsKept
<1> QED
  BY <1>1, <1>2, TypeCorrect, NamesAreOfActors, FamilyIsKept, StatusesFollow, OneHandler,
     NestingIsKept, PTL DEF Spec

\* No spawn takes a child id over from a child that has it, if every logic frees
\* the ids it reuses (SpawnChild assigns children_[e.id], system.hpp:347).
THEOREM NothingIsTakenOver ==
    ASSUME PartingIsQuiet, IdsAreFreed
    PROVE  Spec => []NoTakeOver
<1>1. Init => Freed
  BY DEF Init, Freed, Freeing, FreesItsIds, Spawns, Registered
<1>2. /\ TypeOK /\ TypeOK' /\ NamesExist /\ InHandler /\ Pending /\ Freed
      /\ [Next]_vars /\ [LifeStep]_status
      => Freed'
  BY FreedIsKept
<1>3. TypeOK /\ Freed => NoTakeOver
  <2> SUFFICES ASSUME TypeOK, Freed, InEffects, First.kind = "spawn"
               PROVE  children[cur][First.id] = NoSession
    BY DEF NoTakeOver
  <2>1. /\ cur \in Session /\ eff[cur] \in Seq(Effect) /\ eff[cur] # <<>>
    BY DEF InEffects, Idle, TypeOK
  <2>2. 1 \in Spawns(eff[cur]) /\ eff[cur][1] = First
    BY <2>1 DEF Spawns, First
  <2>3. ~FreedBetween(eff[cur], 0, 1)
    BY DEF FreedBetween
  <2> QED
    BY <2>1, <2>2, <2>3 DEF Freed, Freeing
<1> QED
  BY <1>1, <1>2, <1>3, TypeCorrect, NamesAreOfActors, StatusesFollow, PartingIsClean,
     PTL DEF Spec

\* For all actors whose logics part without timers and children and free the
\* child ids they reuse, and whose observers do not throw when a child has
\* stopped: an actor that has stopped has no timer armed and no child registered,
\* and everybody it created has stopped, is stopping or has its stop posted.
THEOREM StoppedActorsLeaveNothing ==
    ASSUME PartingIsQuiet, IdsAreFreed, ObserversAreQuiet(ObserversThrow)
    PROVE  Spec => []StoppedLeavesNothing
<1>1. Init => AllOwned
  <2>1. Init => Existing = {Root}
    BY DEF Init, Existing, Root
  <2> QED
    BY <2>1 DEF AllOwned
<1>2. /\ TypeOK /\ TypeOK' /\ NamesExist /\ Family /\ InHandler /\ HandlerIsOne /\ Nesting
      /\ Pending /\ AllOwned /\ NoTakeOver /\ [Next]_vars /\ [LifeStep]_status
      => AllOwned'
  BY OwnedIsKept
<1>3. TypeOK /\ Family /\ Cleared /\ AllOwned => StoppedLeavesNothing
  BY NothingIsLeft
<1> QED
  BY <1>1, <1>2, <1>3, TypeCorrect, NamesAreOfActors, FamilyIsKept, StatusesFollow,
     OneHandler, NestingIsKept, PartingIsClean, NothingIsTakenOver, PTL DEF Spec
=============================================================================
