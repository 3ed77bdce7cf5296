----------------------------- MODULE ActorSystem -----------------------------
(***************************************************************************)
(* The actors of one system on its executor thread: include/xstate/        *)
(* system.hpp and actor.hpp.  An actor is a session (numbered in creation  *)
(* order, system.hpp:122) around an ActorLogic.  The executor runs posted  *)
(* tasks one at a time; the clock calls back on the same thread between    *)
(* tasks; any other thread may only post.                                  *)
(*                                                                         *)
(* A task is several steps here, one per effect it executes, so that what  *)
(* other threads post can land between them.  `cur' is the actor whose     *)
(* handler is running and pc where each handler stands; stopping an actor  *)
(* stops its children by a nested call, so several actors can be inside    *)
(* doStop at once, each in the parent's loop over its children.            *)
(*                                                                         *)
(* The logic of an actor is data: what it may answer to being started, to  *)
(* an event and to being stopped (Behaviour).  An actor is assumed to be   *)
(* referenced by somebody: the destruction of unreferenced actors is not   *)
(* modelled.                                                               *)
(***************************************************************************)
EXTENDS Integers, Sequences, FiniteSets

CONSTANTS
    MaxActors,     \* bound on the sessions ever created
    MaxTimers,     \* bound on the timers ever started
    MaxQueue,      \* other threads post only while the queue is shorter
    ChildIds,      \* the ids children are registered under
    SendIds,       \* the ids of timers
    EventTypes,    \* what actors send each other
    Posted,        \* those of EventTypes other threads send
    Behaviour,     \* see BehaviourAssumption
    ObserversThrow \* whose observers may throw when they see which status

Session == 1 .. MaxActors
NoSession == 0
TimerId == 1 .. MaxTimers
NoTimer == 0
Root == 1
RootId == "root"

Status == {"none", "active", "done", "error", "stopped"}

\* An event carries its type and, for the two completion reports, the id of
\* the child it is about (events::doneActor, events::errorActor).
Event == [type : EventTypes \cup {"done.actor", "error.actor"},
          of : ChildIds \cup {RootId}]
Plain(type) == [type |-> type, of |-> RootId]
NoEvent == Plain(CHOOSE t \in EventTypes : TRUE)

\* An effect (actor_logic.hpp).  `to' is the target of a send or a timer;
\* "fail" stands for an effect whose execution throws: an emit handler, an
\* actor factory.
Target == ChildIds \cup {"self", "parent"}
AnyEffect == [kind : {"send", "timer", "cancel", "spawn", "stop", "fail"},
              id : ChildIds \cup SendIds, to : Target, type : EventTypes]
Effect == {e \in AnyEffect : /\ e.kind \in {"timer", "cancel"} => e.id \in SendIds
                             /\ e.kind \in {"spawn", "stop"} => e.id \in ChildIds}

Outcome == [throws : BOOLEAN, status : {"active", "done", "error"},
            effects : Seq(Effect)]

\* Behaviour[id][stimulus]: what the logic of the actor with this id may do
\* when started, stopped or sent an event of the given type.
Stimulus == {"start", "stop", "done.actor", "error.actor"} \cup EventTypes

ASSUME BoundsAssumption ==
    /\ MaxActors \in Nat \ {0}
    /\ MaxTimers \in Nat
    /\ MaxQueue \in Nat
    /\ EventTypes # {}
    /\ Posted \subseteq EventTypes
    /\ RootId \notin ChildIds
    /\ ObserversThrow \subseteq (ChildIds \cup {RootId}) \X Status
ASSUME BehaviourAssumption ==
    /\ Behaviour \in [ChildIds \cup {RootId} -> [Stimulus -> SUBSET Outcome]]
    \* (the bounds below never leave a logic without an answer)
    /\ \A r \in ChildIds \cup {RootId}, s \in Stimulus : \E o \in Behaviour[r][s] :
          \A i \in DOMAIN o.effects : o.effects[i].kind \notin {"timer", "spawn"}

VARIABLES
    queue,      \* the executor's tasks, first in first out
    created,    \* how many sessions exist (sessionCounter_)
    started,    \* startRequested_ of the root
    id,         \* Actor::id_
    parent,     \* Actor::parent_
    status,     \* the status of Actor::snapshot_; "none" while it is null
    children,   \* Actor::children_
    timers,     \* Actor::timers_: send id -> platform timer
    told,       \* what the actor reported to its parent (completionReported_)
    clock,      \* the platform timers that are armed
    nextTimer,  \* the platform's timer ids given out
    cur,        \* the actor whose handler runs, or NoSession
    pc,         \* where its handler stands
    eff,        \* the effects it has still to execute
    todo        \* the children a doStop has still to visit

lifecycle == <<id, parent, status, told>>
timing == <<timers, clock, nextTimer>>
running == <<cur, pc, eff, todo>>
vars == <<queue, created, started, lifecycle, children, timing, running>>

Existing == 1 .. created

Task == [kind : {"start", "receive", "stop"}, actor : Session, event : Event]
StartTask(s) == [kind |-> "start", actor |-> s, event |-> NoEvent]
StopTask(s) == [kind |-> "stop", actor |-> s, event |-> NoEvent]
ReceiveTask(s, e) == [kind |-> "receive", actor |-> s, event |-> e]

\* Executor::post
Post(task) == queue' = Append(queue, task)

Idle == cur = NoSession
HeadIs(kind) == Idle /\ queue # <<>> /\ Head(queue).kind = kind

Init ==
    /\ queue = <<>>
    /\ created = 1
    /\ started = FALSE
    /\ id = [s \in Session |-> RootId]
    /\ parent = [s \in Session |-> NoSession]
    /\ status = [s \in Session |-> "none"]
    /\ children = [s \in Session |-> [c \in ChildIds |-> NoSession]]
    /\ timers = [s \in Session |-> [i \in SendIds |-> NoTimer]]
    /\ told = [s \in Session |-> "nothing"]
    /\ clock = {}
    /\ nextTimer = 0
    /\ cur = NoSession
    /\ pc = [s \in Session |-> "idle"]
    /\ eff = [s \in Session |-> <<>>]
    /\ todo = [s \in Session |-> {}]

-----------------------------------------------------------------------------
(* What other threads do: they only post *)

RootStart ==
    /\ ~started
    /\ started' = TRUE
    /\ Post(StartTask(Root))
    /\ UNCHANGED <<created, lifecycle, children, timing, running>>

ForeignSend ==
    /\ Len(queue) < MaxQueue
    /\ \E s \in Existing, type \in Posted : Post(ReceiveTask(s, Plain(type)))
    /\ UNCHANGED <<created, started, lifecycle, children, timing, running>>

RootStop ==
    /\ Len(queue) < MaxQueue
    /\ Post(StopTask(Root))
    /\ UNCHANGED <<created, started, lifecycle, children, timing, running>>

-----------------------------------------------------------------------------
(* Completion *)

\* (mutant: completionReported_ is not consulted)
ReportsAgain(s, st) == parent[s] # NoSession /\ st \in {"done", "error"}
Reports(s, st) == /\ told[s] = "nothing"
                  /\ parent[s] # NoSession
                  /\ st \in {"done", "error"}
Report(s, st) == ReceiveTask(parent[s], [type |-> IF st = "done" THEN "done.actor"
                                                               ELSE "error.actor",
                                         of |-> id[s]])

\* reportCompletionToParent with the status st, posting after `tasks'.
ReportAfter(tasks, s, st) ==
    IF Reports(s, st)
    THEN told' = [told EXCEPT ![s] = st] /\ queue' = Append(tasks, Report(s, st))
    ELSE told' = told /\ queue' = tasks

\* (mutant: becomeError does not report)
BecomeErrorSilently(s, tasks) ==
    /\ status' = [status EXCEPT ![s] = "error"]
    /\ queue' = tasks
    /\ cur' = NoSession
    /\ pc' = [pc EXCEPT ![s] = "idle"]
    /\ eff' = [eff EXCEPT ![s] = <<>>]
    /\ UNCHANGED told

\* becomeError: children and timers are left as they are.
BecomeError(s, tasks) ==
    /\ status' = [status EXCEPT ![s] = "error"]
    /\ ReportAfter(tasks, s, "error")
    /\ cur' = NoSession
    /\ pc' = [pc EXCEPT ![s] = "idle"]
    /\ eff' = [eff EXCEPT ![s] = <<>>]

Count(effects, kind) == Cardinality({i \in DOMAIN effects : effects[i].kind = kind})

\* (the bounds on sessions and timers)
Answers(s, stimulus) ==
    {o \in Behaviour[id[s]][stimulus] :
        /\ created + Count(o.effects, "spawn") <= MaxActors
        /\ nextTimer + Count(o.effects, "timer") <= MaxTimers}

\* The logic answers: it throws, or its snapshot is stored and the execution of
\* its effects begins.
RunLogic(s, stimulus) ==
    \E o \in Answers(s, stimulus) :
        IF o.throws THEN BecomeError(s, Tail(queue))
        ELSE /\ status' = [status EXCEPT ![s] = o.status]
             /\ queue' = Tail(queue)
             /\ cur' = s
             /\ pc' = [pc EXCEPT ![s] = "effects"]
             /\ eff' = [eff EXCEPT ![s] = o.effects]
             /\ UNCHANGED told

DropTask == /\ queue' = Tail(queue)
            /\ UNCHANGED <<status, told, cur, pc, eff>>

\* (mutant: a second snapshot replaces the first)
DoStartAgain ==
    /\ HeadIs("start")
    /\ RunLogic(Head(queue).actor, "start")
    /\ UNCHANGED <<created, started, id, parent, children, timing, todo>>

\* doStart up to the effects; an actor that has a snapshot is not started.
DoStart ==
    /\ HeadIs("start")
    /\ LET s == Head(queue).actor IN
       IF status[s] # "none" THEN DropTask ELSE RunLogic(s, "start")
    /\ UNCHANGED <<created, started, id, parent, children, timing, todo>>

\* doReceive up to the effects; an actor that is not active drops the event.
DoReceive ==
    /\ HeadIs("receive")
    /\ LET s == Head(queue).actor IN
       IF status[s] # "active" THEN DropTask
       ELSE RunLogic(s, Head(queue).event.type)
    /\ UNCHANGED <<created, started, id, parent, children, timing, todo>>

-----------------------------------------------------------------------------
(* Executing effects: the first of eff[cur] *)

InEffects == ~Idle /\ pc[cur] \in {"effects", "stopEffects"} /\ eff[cur] # <<>>
First == Head(eff[cur])
Consume == eff' = [eff EXCEPT ![cur] = Tail(@)]

\* resolveTarget (the receptionist is not modelled)
Resolve(s, to) == CASE to = "self" -> s
                    [] to = "parent" -> parent[s]
                    [] OTHER -> children[s][to]

ExecuteSend ==
    /\ InEffects /\ First.kind = "send"
    /\ LET t == Resolve(cur, First.to) IN
       IF t = NoSession THEN UNCHANGED queue
       ELSE Post(ReceiveTask(t, Plain(First.type)))
    /\ Consume
    /\ UNCHANGED <<created, started, lifecycle, children, timing, cur, pc, todo>>

\* A timer under an id in use replaces the one that has it.  (Answers sees to it
\* that the bound holds here, as in SpawnChild.)
StartTimer ==
    /\ InEffects /\ First.kind = "timer"
    /\ nextTimer < MaxTimers
    /\ nextTimer' = nextTimer + 1
    /\ clock' = {t \in clock : t.timer # timers[cur][First.id]}
                \cup {[timer |-> nextTimer', actor |-> cur, id |-> First.id,
                       to |-> First.to, type |-> First.type]}
    /\ timers' = [timers EXCEPT ![cur][First.id] = nextTimer']
    /\ Consume
    /\ UNCHANGED <<queue, created, started, lifecycle, children, cur, pc, todo>>

CancelTimer ==
    /\ InEffects /\ First.kind = "cancel"
    /\ clock' = {t \in clock : t.timer # timers[cur][First.id]}
    /\ timers' = [timers EXCEPT ![cur][First.id] = NoTimer]
    /\ Consume
    /\ UNCHANGED <<queue, created, started, lifecycle, children, nextTimer, cur, pc,
                   todo>>

\* (mutant: the child is not started)
SpawnAsleep ==
    LET s == created + 1 IN
    /\ InEffects /\ First.kind = "spawn" /\ created < MaxActors
    /\ created' = s
    /\ id' = [id EXCEPT ![s] = First.id]
    /\ parent' = [parent EXCEPT ![s] = cur]
    /\ children' = [children EXCEPT ![cur][First.id] = s]
    /\ Consume
    /\ UNCHANGED <<queue, started, status, told, timing, cur, pc, todo>>

\* The child exists, registered and with its start posted, before the next
\* effect runs.  An id in use is taken over from the child that has it.
SpawnChild ==
    LET s == created + 1 IN
    /\ InEffects /\ First.kind = "spawn" /\ created < MaxActors
    /\ created' = s
    /\ id' = [id EXCEPT ![s] = First.id]
    /\ parent' = [parent EXCEPT ![s] = cur]
    /\ children' = [children EXCEPT ![cur][First.id] = s]
    /\ Post(StartTask(s))
    /\ Consume
    /\ UNCHANGED <<started, status, told, timing, cur, pc, todo>>

StopChild ==
    /\ InEffects /\ First.kind = "stop"
    /\ LET c == children[cur][First.id] IN
       IF c = NoSession THEN UNCHANGED <<queue, children>>
       ELSE /\ Post(StopTask(c))
            /\ children' = [children EXCEPT ![cur][First.id] = NoSession]
    /\ Consume
    /\ UNCHANGED <<created, started, lifecycle, timing, cur, pc, todo>>

\* doReceive and doStart become an error; doStop swallows what is thrown.
EffectThrows ==
    /\ InEffects /\ First.kind = "fail"
    /\ IF pc[cur] = "effects" THEN BecomeError(cur, queue)
       ELSE /\ eff' = [eff EXCEPT ![cur] = <<>>]
            /\ UNCHANGED <<status, told, queue, cur, pc>>
    /\ UNCHANGED <<created, started, id, parent, children, timing, todo>>

\* The rest of doStart and doReceive: completion is reported, then observers
\* are notified.
Finish ==
    /\ ~Idle /\ pc[cur] = "effects" /\ eff[cur] = <<>>
    /\ ReportAfter(queue, cur, status[cur])
    /\ pc' = [pc EXCEPT ![cur] = "notify"]
    /\ UNCHANGED <<created, started, id, parent, status, children, timing, cur, eff,
                   todo>>

Notify ==
    /\ ~Idle /\ pc[cur] = "notify"
    /\ cur' = NoSession
    /\ pc' = [pc EXCEPT ![cur] = "idle"]
    /\ UNCHANGED <<queue, created, started, lifecycle, children, timing, eff, todo>>

\* An observer throws: the actor becomes an error after it has reported that it
\* is done.
NotifyThrows ==
    /\ ~Idle /\ pc[cur] = "notify"
    /\ <<id[cur], status[cur]>> \in ObserversThrow
    /\ BecomeError(cur, queue)
    /\ UNCHANGED <<created, started, id, parent, children, timing, todo>>

-----------------------------------------------------------------------------
(* Timers: between tasks, on the executor thread *)

\* (mutant: the timer that fired keeps its send id)
FireTimerOnly ==
    /\ Idle
    /\ \E t \in clock :
          /\ clock' = clock \ {t}
          /\ LET target == Resolve(t.actor, t.to) IN
             IF target = NoSession THEN UNCHANGED queue
             ELSE Post(ReceiveTask(target, Plain(t.type)))
    /\ UNCHANGED <<created, started, lifecycle, children, timers, nextTimer, running>>

\* The send id is free again before the event is sent, to whoever the target
\* names now.
FireTimer ==
    /\ Idle
    /\ \E t \in clock :
          /\ clock' = clock \ {t}
          /\ timers' = [timers EXCEPT ![t.actor][t.id] = NoTimer]
          /\ LET target == Resolve(t.actor, t.to) IN
             IF target = NoSession THEN UNCHANGED queue
             ELSE Post(ReceiveTask(target, Plain(t.type)))
    /\ UNCHANGED <<created, started, lifecycle, children, nextTimer, running>>

-----------------------------------------------------------------------------
(* Stopping *)

Registered(s) == {c \in ChildIds : children[s][c] # NoSession}

\* doStop is entered, by a task or for a child: nothing more happens to an
\* actor that has stopped, any other begins with its children.
EnterStop(s) ==
    /\ cur' = s
    /\ pc' = [pc EXCEPT ![s] = "stopChildren"]
    /\ todo' = [todo EXCEPT ![s] = Registered(s)]

DoStop ==
    /\ HeadIs("stop")
    /\ LET s == Head(queue).actor IN
       IF status[s] = "stopped" THEN UNCHANGED <<cur, pc, todo>> ELSE EnterStop(s)
    /\ queue' = Tail(queue)
    /\ UNCHANGED <<created, started, lifecycle, children, timing, eff>>

\* (mutant: a child that has no snapshot yet is passed over)
StopStartedChild ==
    /\ ~Idle /\ pc[cur] = "stopChildren"
    /\ \E c \in todo[cur] :
          LET child == children[cur][c] IN
          IF status[child] \in {"none", "stopped"}
          THEN /\ todo' = [todo EXCEPT ![cur] = @ \ {c}]
               /\ UNCHANGED <<cur, pc>>
          ELSE /\ cur' = child
               /\ pc' = [pc EXCEPT ![child] = "stopChildren"]
               /\ todo' = [todo EXCEPT ![cur] = @ \ {c}, ![child] = Registered(child)]
    /\ UNCHANGED <<queue, created, started, lifecycle, children, timing, eff>>

\* The loop over the children (in some order of their ids).
StopNextChild ==
    /\ ~Idle /\ pc[cur] = "stopChildren"
    /\ \E c \in todo[cur] :
          LET child == children[cur][c] IN
          IF status[child] = "stopped"
          THEN /\ todo' = [todo EXCEPT ![cur] = @ \ {c}]
               /\ UNCHANGED <<cur, pc>>
          ELSE /\ cur' = child
               /\ pc' = [pc EXCEPT ![child] = "stopChildren"]
               /\ todo' = [todo EXCEPT ![cur] = @ \ {c}, ![child] = Registered(child)]
    /\ UNCHANGED <<queue, created, started, lifecycle, children, timing, eff>>

\* (mutant: platform timers outlive the actor)
StopSelfKeepsTimers ==
    /\ ~Idle /\ pc[cur] = "stopChildren" /\ todo[cur] = {}
    /\ children' = [children EXCEPT ![cur] = [c \in ChildIds |-> NoSession]]
    /\ pc' = [pc EXCEPT ![cur] = "stopEffects"]
    /\ IF status[cur] = "active"
       THEN \E o \in Answers(cur, "stop") :
               eff' = [eff EXCEPT ![cur] = IF o.throws THEN <<>> ELSE o.effects]
       ELSE UNCHANGED eff
    /\ UNCHANGED <<queue, created, started, lifecycle, timing, cur, todo>>

\* With its children stopped, the actor forgets them and its timers; then its
\* logic is asked for its parting effects.  Only one that is active has any,
\* and what it throws is swallowed.
StopSelf ==
    /\ ~Idle /\ pc[cur] = "stopChildren" /\ todo[cur] = {}
    /\ children' = [children EXCEPT ![cur] = [c \in ChildIds |-> NoSession]]
    /\ clock' = {t \in clock : t.actor # cur}
    /\ timers' = [timers EXCEPT ![cur] = [i \in SendIds |-> NoTimer]]
    /\ pc' = [pc EXCEPT ![cur] = "stopEffects"]
    /\ IF status[cur] = "active"
       THEN \E o \in Answers(cur, "stop") :
               eff' = [eff EXCEPT ![cur] = IF o.throws THEN <<>> ELSE o.effects]
       ELSE UNCHANGED eff
    /\ UNCHANGED <<queue, created, started, lifecycle, nextTimer, cur, todo>>

\* The snapshot becomes "stopped", observers see it, and doStop returns: to the
\* parent's loop if that is where it was called.
StopFinish ==
    /\ ~Idle /\ pc[cur] = "stopEffects" /\ eff[cur] = <<>>
    /\ status' = [status EXCEPT ![cur] = "stopped"]
    /\ pc' = [pc EXCEPT ![cur] = "idle"]
    /\ cur' = IF parent[cur] # NoSession /\ pc[parent[cur]] = "stopChildren"
              THEN parent[cur] ELSE NoSession
    /\ UNCHANGED <<queue, created, started, id, parent, told, children, timing, eff,
                   todo>>

\* An observer that throws there is not caught in doStop: the exception leaves
\* the whole task, and the parents that were waiting for this child stay as
\* they are.
StopNotifyThrows ==
    /\ ~Idle /\ pc[cur] = "stopEffects" /\ eff[cur] = <<>>
    /\ <<id[cur], "stopped">> \in ObserversThrow
    /\ status' = [status EXCEPT ![cur] = "stopped"]
    /\ pc' = [s \in Session |-> "idle"]
    /\ todo' = [s \in Session |-> {}]
    /\ cur' = NoSession
    /\ UNCHANGED <<queue, created, started, id, parent, told, children, timing, eff>>

-----------------------------------------------------------------------------
Others == RootStart \/ ForeignSend \/ RootStop
RunTask == DoStart \/ DoReceive \/ DoStop
Execute == ExecuteSend \/ StartTimer \/ CancelTimer \/ SpawnChild \/ StopChild
           \/ EffectThrows
Return == Finish \/ Notify \/ NotifyThrows
Stopping == StopNextChild \/ StopSelf \/ StopFinish \/ StopNotifyThrows
Executor == RunTask \/ Execute \/ Return \/ Stopping

Next == Others \/ Executor \/ FireTimer

\* The thread that runs the executor (EventLoop's worker, or whoever pumps a
\* ManualExecutor) goes on while there is something to run.  Nobody else has to
\* do anything, and a clock may never call back.
Fairness == WF_vars(Executor)

Spec == Init /\ [][Next]_vars
FairSpec == Spec /\ Fairness

-----------------------------------------------------------------------------
(* What stopping leaves depends on what logics and observers do              *)

\* No logic delays a send or creates a child when it is stopped: its timers and
\* children are cleared before those effects run (doStop, system.hpp:256), and
\* nobody clears what they leave.
PartingIsQuiet ==
    \A r \in ChildIds \cup {RootId} : \A o \in Behaviour[r]["stop"] :
       \A i \in DOMAIN o.effects : o.effects[i].kind \notin {"timer", "spawn"}

\* Of the effects es, one between the k-th and the i-th stops the child the i-th
\* is about.
FreedBetween(es, k, i) ==
    \E j \in k + 1 .. i - 1 : es[j].kind = "stop" /\ es[j].id = es[i].id
Spawns(es) == {i \in DOMAIN es : es[i].kind = "spawn"}
FreesItsIds(es) ==
    \A i, k \in Spawns(es) : k < i /\ es[k].id = es[i].id => FreedBetween(es, k, i)

\* A logic stops the child that has an id before it creates another under it:
\* one it created in the same handler, and in a handler of events any other.
IdsAreFreed ==
    \A r \in ChildIds \cup {RootId}, st \in Stimulus : \A o \in Behaviour[r][st] :
       /\ FreesItsIds(o.effects)
       /\ st \in EventTypes \cup {"done.actor", "error.actor"} =>
             \A i \in Spawns(o.effects) : FreedBetween(o.effects, 0, i)

\* No child id is taken over from the child that has it: the one that loses it
\* is no longer stopped with its parent (system.hpp:347).
NoTakeOver == InEffects /\ First.kind = "spawn" => children[cur][First.id] = NoSession

\* No observer throws when it sees that a child has stopped: that exception
\* leaves the loop of the parent over its children (system.hpp:265).
ObserversAreQuiet(throw) == \A c \in ChildIds : <<c, "stopped">> \notin throw

-----------------------------------------------------------------------------
(* Properties *)

Timer == [timer : TimerId, actor : Session, id : SendIds, to : Target,
          type : EventTypes]

\* Every variable has its type.
TypeOK ==
    /\ queue \in Seq(Task)
    /\ created \in Session
    /\ started \in BOOLEAN
    /\ id \in [Session -> ChildIds \cup {RootId}]
    /\ parent \in [Session -> Session \cup {NoSession}]
    /\ status \in [Session -> Status]
    /\ children \in [Session -> [ChildIds -> Session \cup {NoSession}]]
    /\ timers \in [Session -> [SendIds -> TimerId \cup {NoTimer}]]
    /\ told \in [Session -> {"nothing", "done", "error"}]
    /\ clock \subseteq Timer
    /\ nextTimer \in TimerId \cup {NoTimer}
    /\ cur \in Session \cup {NoSession}
    /\ pc \in [Session -> {"idle", "effects", "notify", "stopChildren", "stopEffects"}]
    /\ eff \in [Session -> Seq(Effect)]
    /\ todo \in [Session -> SUBSET ChildIds]

\* The bookkeeping of an actor and the platform agree: every armed timer is
\* the one its actor has under that send id, and every id in use stands for an
\* armed timer.  So a cancellation never reaches a timer that fired or belongs
\* to somebody else ("or a later CancelTimer would clear an already-fired
\* platform timer", system.hpp:314).
ClockMatchesTimers ==
    /\ \A t \in clock : timers[t.actor][t.id] = t.timer
    /\ \A s \in Session, i \in SendIds :
          timers[s][i] # NoTimer =>
             \E t \in clock : t.timer = timers[s][i] /\ t.actor = s /\ t.id = i

Waits(task) == \E i \in DOMAIN queue : queue[i] = task

\* A child is started before anything sent to it is handled: as long as it has
\* no snapshot, its start waits ahead of every event for it.
StartComesFirst ==
    \A s \in Existing \ {Root} : status[s] = "none" =>
       \E i \in DOMAIN queue :
          /\ queue[i] = StartTask(s)
          /\ \A j \in 1 .. i : queue[j].kind = "receive" => queue[j].actor # s

\* An actor that has stopped leaves nothing behind: no timer of it is armed,
\* no child is registered with it, and every actor it ever created has stopped,
\* is stopping or has its stop posted ("stops children first", actor.hpp:36).
StoppedLeavesNothing ==
    \A s \in Existing : status[s] = "stopped" =>
       /\ \A t \in clock : t.actor # s
       /\ Registered(s) = {}
       /\ \A c \in Existing : parent[c] = s =>
             \/ status[c] = "stopped"
             \/ pc[c] \in {"stopChildren", "stopEffects"}
             \/ Waits(StopTask(c))

\* An actor that finished, and whose handler returned, told its parent so; what
\* it told is what it is now, but for one whose observers threw when they saw
\* that it is done.
CompletionIsTold ==
    \A s \in Existing \ {Root} :
       status[s] \in {"done", "error"} /\ pc[s] = "idle" =>
          \/ told[s] = status[s]
          \/ told[s] = "done" /\ <<id[s], "done">> \in ObserversThrow

\* A parent never hears twice of one completion: the reports about a child id
\* that wait are never more than the children of that id that finished, and a
\* child that has not finished is not reported.
ReportsAbout(p, c) ==
    {i \in DOMAIN queue : /\ queue[i].kind = "receive"
                          /\ queue[i].actor = p
                          /\ queue[i].event.type \in {"done.actor", "error.actor"}
                          /\ queue[i].event.of = c}
ReportedOnce ==
    \A p \in Existing, c \in ChildIds :
       Cardinality(ReportsAbout(p, c)) <=
          Cardinality({s \in Existing : /\ parent[s] = p /\ id[s] = c
                                        /\ status[s] \in {"done", "error", "stopped"}})

\* Each actor goes through the statuses of an actor's lifecycle, whatever its
\* handlers, its parent and other threads do: in particular a start that comes
\* after the stop, and an error after it, change nothing.
Life(s) == INSTANCE Lifecycle WITH status <- status[s]
ImplementsLifecycle ==
    /\ \A s \in Session : Life(s)!Init
    /\ [][\A s \in Session : [Life(s)!Next]_(status[s])]_status

\* What was asked to stop stops, and everything below it: once the root's stop
\* is posted there comes a time when every actor there is has stopped ("stops
\* children first; observers see Stopped", actor.hpp:36).
StopReachesAll ==
    Waits(StopTask(Root)) ~> (\A s \in Existing : status[s] = "stopped")
=============================================================================
