---------------------------- MODULE MachineActor ----------------------------
(***************************************************************************)
(* One machine in its actor: the effects a macrostep lists (executeActions *)
(* and the effects around it, machine.hpp:177-395), the actor that         *)
(* executes them (system.hpp:178-371), its clock, its children, and its    *)
(* persistence (getPersistedSnapshot, restoreSnapshot).                    *)
(*                                                                         *)
(* The machine is flat: states below a root, one of them active, as data.  *)
(* What makes a configuration of a deeper one is Statechart's subject, how *)
(* the tasks of several actors interleave ActorSystem's; here a task of    *)
(* the executor is one step.  A child is a machine that is done once it is *)
(* told to finish.  When nobody refers to it any more it is gone.          *)
(***************************************************************************)
EXTENDS Integers, FiniteSetsExt, SequencesExt

CONSTANTS
    Machines,     \* a set of machines, see the variable m
    ChildIds,     \* the ids children are registered under
    Objects,      \* the child actors that can exist at a time; a task that would
                  \* need more of them does not run
    ExternalEvents,  \* events other threads send
    MaxQueue,     \* other threads post only while the executor's queue is shorter
    MaxCrashes,   \* how often the program ends and starts again from what it saved
    StepLimit     \* raised events of a macrostep; one with more of them does not run

VARIABLES
    m,            \* the machine; it never changes, see IsMachine
    status,       \* the status of the snapshot; "none" while there is none
    leaf,         \* the active state
    timers,       \* timers_ with what the clock knows of them, by due time
    children,     \* children_: an object, or NoObject
    object,       \* the child actors
    mailbox,      \* the executor's tasks
    heard,        \* children whose completion the machine received (for properties)
    saved,        \* what was last persisted
    restoring,    \* restoreFrom_
    crashes       \* how often the program ended

shell == <<timers, children, object, mailbox, heard>>
vars == <<m, status, leaf, shell, saved, restoring, crashes>>

Self == 0                        \* the machine, as the receiver of a task
NoObject == -1
Top == "root"
NoName == ""
NoSave == [leaf |-> NoName]
Gone == [id |-> NoName, status |-> "none", from |-> "none"]

\* Events; the send id of an `after' timer is its event type.
External(e) == <<"external", e, 0>>
AfterEvent(s, i) == <<"after", s, i>>
DoneActor(c) == <<"done", c, 0>>
Control(k) == <<k, NoName, 0>>
Start == Control("start")
Finish == External("FINISH")
Stop == Control("stop")
Named(id) == <<"named", id, 0>>
Anonymous(kind, n) == <<"anonymous", kind, n>>

Task(to, event) == [to |-> to, event |-> event]

\* A machine: [initial, final (a set), trans, and for every state entry, exit,
\* after (delays), invokes (child ids)]; the root has entry and exit actions, too.
Events == {"external", "after", "done"} \X STRING \X Nat
ActionKinds == {"raise", "send", "cancel", "spawnChild", "stopChild"}
Actions ==
    {a \in [kind : ActionKinds, id : STRING, to : ChildIds \union {NoName},
            event : STRING, delay : Nat] :
        a.kind \in {"spawnChild", "stopChild"} => a.to \in ChildIds}
Transitions(states) ==
    [from : {Top} \union states, event : Events, target : {NoName} \union states,
     reenter : BOOLEAN, actions : Seq(Actions)]
IsMachine(x) ==
    LET states == DOMAIN x.after
    IN /\ states \subseteq STRING \ {Top, NoName} /\ x.initial \in states
       /\ \A s \in states : x.after[s] \in Seq(Nat) /\ x.invokes[s] \in Seq(ChildIds)
       /\ \A s \in {Top} \union states :
             x.entry[s] \in Seq(Actions) /\ x.exit[s] \in Seq(Actions)
       /\ x.trans \in Seq(Transitions(states))

ASSUME MachinesAssumption == \A x \in Machines : IsMachine(x)
ASSUME NamesAssumption ==
    /\ IsFiniteSet(ChildIds) /\ ChildIds \subseteq STRING /\ NoName \notin ChildIds
    /\ Self \notin Objects /\ NoObject \notin Objects
    /\ ExternalEvents \subseteq STRING
    /\ StepLimit \in Nat /\ MaxCrashes \in Nat

-----------------------------------------------------------------------------
(* Actions and the effects they list.  An action is a record                *)
(* [kind, id, to, event, delay]: raise, send, cancel, spawnChild, stopChild *)

Raised(a) == a.kind = "raise" /\ a.delay = 0
TakesNumber(a) == a.kind \in {"raise", "send"} /\ ~Raised(a) /\ a.id = NoName

\* The actions of one microstep share a counter that starts from 0 in each.
SendId(acts, i) ==
    IF acts[i].id # NoName THEN Named(acts[i].id)
    ELSE Anonymous(acts[i].kind, Quantify(1 .. i - 1, LAMBDA j : TakesNumber(acts[j])))

Effect(kind, id, to, event, delay) ==
    [kind |-> kind, id |-> id, to |-> to, event |-> event, delay |-> delay]
EffectOf(acts, i) ==
    LET a == acts[i]
        listed == IF Raised(a) THEN "none"
                  ELSE IF a.kind = "raise" \/ (a.kind = "send" /\ a.delay > 0) THEN "timer"
                  ELSE a.kind
    IN Effect(listed, SendId(acts, i), a.to, External(a.event), a.delay)
\* Those of the n actions after the first ones; an event raised at once is none.
EffectsIn(acts, first, n) == [i \in 1 .. n |-> EffectOf(acts, first + i)]
EffectsOf(acts) == EffectsIn(acts, 0, Len(acts))
RaisedBy(acts) ==
    LET raises == SelectSeq(acts, Raised)
    IN [i \in DOMAIN raises |-> External(raises[i].event)]

CancelDelays(s) == [i \in DOMAIN m.after[s] |->
    Effect("cancel", AfterEvent(s, i), NoName, Stop, 0)]
StartDelays(s) == [i \in DOMAIN m.after[s] |->
    Effect("timer", AfterEvent(s, i), NoName, AfterEvent(s, i), m.after[s][i])]
InvokeEffects(kind, s) == [i \in DOMAIN m.invokes[s] |->
    Effect(kind, Named(m.invokes[s][i]), m.invokes[s][i], Control("none"), 0)]

-----------------------------------------------------------------------------
(* Macrosteps: [leaf, raised, effects]                                      *)

TransitionsOf(s, e) == {i \in DOMAIN m.trans : m.trans[i].from = s /\ m.trans[i].event = e}
\* The transitions that answer e: those of the active state before the root's.
Candidates(s, e) == IF TransitionsOf(s, e) # {} THEN TransitionsOf(s, e) ELSE TransitionsOf(Top, e)

\* A transition to its own state does not leave it, unless it reenters.
Moves(t) == t.target # NoName /\ (t.target # t.from \/ t.reenter)

Microstep(step, t) ==
    LET s == step.leaf
        acts == IF Moves(t) THEN m.exit[s] \o t.actions \o m.entry[t.target] ELSE t.actions
        exits == Len(m.exit[s])
        entries == Len(m.entry[t.target])
        after == step.raised \o RaisedBy(acts)
    IN IF ~Moves(t)
       THEN [step EXCEPT !.raised = after, !.effects = @ \o EffectsOf(acts)]
       ELSE [leaf |-> t.target, raised |-> after,
             effects |-> step.effects
                \o EffectsIn(acts, 0, exits) \o CancelDelays(s) \o InvokeEffects("stopChild", s)
                \o EffectsIn(acts, exits, Len(t.actions))
                \o InvokeEffects("spawnChild", t.target)
                \o EffectsIn(acts, exits + Len(t.actions), entries) \o StartDelays(t.target)]

InitialStep ==
    LET acts == m.entry[Top] \o m.entry[m.initial]
    IN [leaf |-> m.initial, raised |-> RaisedBy(acts),
        effects |-> InvokeEffects("spawnChild", m.initial)
                    \o EffectsOf(acts) \o StartDelays(m.initial)]

Settled(step) == step.leaf \in m.final \/ step.raised = <<>>
\* The next raised event is taken.
Settle(step) ==
    LET rest == [step EXCEPT !.raised = Tail(@)]
        ways == Candidates(step.leaf, Head(step.raised))
    IN IF Settled(step) THEN step
       ELSE IF ways = {} THEN rest ELSE Microstep(rest, m.trans[Min(ways)])
Stabilize(step) ==
    LET settling[n \in 0 .. StepLimit] ==
            IF n = 0 THEN step ELSE Settle(settling[n - 1])
    IN settling[StepLimit]

ExitActions(s) == EffectsOf(m.exit[s] \o m.exit[Top])
\* Finishing cancels `after' timers and stops invoked children, no others.
FinishIfDone(step) ==
    IF step.leaf \notin m.final THEN step
    ELSE [step EXCEPT !.effects = @ \o ExitActions(step.leaf)
                \o CancelDelays(step.leaf) \o InvokeEffects("stopChild", step.leaf)]
Macrostep(step) == FinishIfDone(Stabilize(step))
StatusOf(step) == IF step.leaf \in m.final THEN "done" ELSE "active"

-----------------------------------------------------------------------------
(* The actor executes the effects                                           *)

Post(sh, to, event) ==
    IF to = NoObject THEN sh ELSE [sh EXCEPT !.mailbox = Append(@, Task(to, event))]
ResolveTarget(sh, name) == IF name = NoName THEN Self ELSE sh.children[name]

\* An id has one timer at most.
ClearTimer(sh, id) ==
    LET armed == {i \in DOMAIN sh.timers : sh.timers[i].id = id}
    IN IF armed = {} THEN sh ELSE [sh EXCEPT !.timers = RemoveAt(@, Min(armed))]
\* It comes after those that are due no later.
StartTimer(sh, e) ==
    LET others == ClearTimer(sh, e.id).timers
        later == {i \in DOMAIN others : others[i].left > e.delay}
        timer == [id |-> e.id, event |-> e.event, to |-> e.to, left |-> e.delay]
    IN [sh EXCEPT !.timers = IF later = {} THEN Append(others, timer)
                             ELSE InsertAt(others, Min(later), timer)]

Referred(sh) == {sh.children[c] : c \in ChildIds} \union {t.to : t \in ToSet(sh.mailbox)}
Unused(sh) == Objects \ Referred(sh)
\* Takes the place of a child registered as c.
SpawnFrom(sh, c, from) ==
    LET new == CHOOSE o \in Unused(sh) : TRUE
        made == [sh EXCEPT !.children[c] = new, !.heard = @ \ {c},
                           !.object[new] = [id |-> c, status |-> "none", from |-> from]]
    IN IF Unused(sh) = {} THEN [sh EXCEPT !.room = FALSE] ELSE Post(made, new, Start)
\* (mutant: the child is forgotten and goes on running)
ForgetChild(sh, c) == [sh EXCEPT !.children[c] = NoObject]
StopChild(sh, c) == [Post(sh, sh.children[c], Stop) EXCEPT !.children[c] = NoObject]

ExecuteEffect(sh, e) ==
    CASE e.kind = "send" -> Post(sh, ResolveTarget(sh, e.to), e.event)
      [] e.kind = "timer" -> StartTimer(sh, e)
      [] e.kind = "cancel" -> ClearTimer(sh, e.id)
      [] e.kind = "spawnChild" -> SpawnFrom(sh, e.to, "none")
      [] e.kind = "respawnChild" -> SpawnFrom(sh, e.to, restoring.children[e.to])
      [] e.kind = "stopChild" -> StopChild(sh, e.to)
      [] e.kind = "none" -> sh
ExecuteEffects(sh, effects) ==
    LET after[n \in 0 .. Len(effects)] ==
            IF n = 0 THEN sh ELSE ExecuteEffect(after[n - 1], effects[n])
    IN after[Len(effects)]

\* The shell is changed as a record, with whether there was room for all children;
\* those nobody refers to are destroyed.
Shell == [timers |-> timers, children |-> children, object |-> object,
          mailbox |-> mailbox, heard |-> heard, room |-> TRUE]
Become(sh) ==
    /\ sh.room
    /\ timers' = sh.timers
    /\ children' = sh.children
    /\ mailbox' = sh.mailbox
    /\ heard' = sh.heard
    /\ object' = [o \in Objects |-> IF o \in Referred(sh) THEN sh.object[o] ELSE Gone]

-----------------------------------------------------------------------------
(* The tasks of the executor, in order                                      *)

Fresh == [timers |-> <<>>, children |-> [c \in ChildIds |-> NoObject],
          object |-> [o \in Objects |-> Gone], mailbox |-> <<Task(Self, Start)>>, heard |-> {},
          room |-> TRUE]

Init ==
    /\ m \in Machines
    /\ status = "none" /\ leaf = NoName
    /\ timers = Fresh.timers /\ children = Fresh.children /\ object = Fresh.object
    /\ mailbox = Fresh.mailbox /\ heard = Fresh.heard
    /\ saved = NoSave /\ restoring = NoSave
    /\ crashes = 0

IsNext(to, event) == mailbox # <<>> /\ Head(mailbox) = Task(to, event)
Popped == [Shell EXCEPT !.mailbox = Tail(@)]

Enter(step, sh) ==
    /\ Settled(step)
    /\ leaf' = step.leaf
    /\ status' = StatusOf(step)
    /\ Become(ExecuteEffects(sh, step.effects))

StartMachine ==
    /\ IsNext(Self, Start)
    /\ restoring = NoSave
    /\ Enter(Macrostep(InitialStep), Popped)
    /\ UNCHANGED <<m, saved, restoring, crashes>>

\* (mutant: the delays of the restored state are not started)
NotRearmed == <<>>
\* A restored machine that is active starts its delays over, then its children,
\* each from the snapshot it was persisted with.
Rearmed == StartDelays(restoring.leaf)
Respawned ==
    LET kept == SetToSeq({c \in ChildIds : restoring.children[c] # "absent"})
    IN [i \in DOMAIN kept |->
           Effect("respawnChild", Named(kept[i]), kept[i], Control("none"), 0)]
RestoreMachine ==
    /\ IsNext(Self, Start)
    /\ restoring # NoSave
    /\ leaf' = restoring.leaf
    /\ status' = restoring.status
    /\ Become(IF status' = "active" THEN ExecuteEffects(Popped, Rearmed \o Respawned) ELSE Popped)
    /\ UNCHANGED <<m, saved, restoring, crashes>>

\* The machine is told an event it has a transition for, or not.
Receive ==
    /\ mailbox # <<>>
    /\ Head(mailbox).to = Self
    /\ Head(mailbox).event \notin {Start, Stop}
    /\ status = "active"
    /\ LET e == Head(mailbox).event
           told == [Popped EXCEPT !.heard = @ \union {c \in ChildIds : e = DoneActor(c)}]
           ways == Candidates(leaf, e)
           here == [leaf |-> leaf, raised |-> <<>>, effects |-> <<>>]
           step == Macrostep(Microstep(here, m.trans[Min(ways)]))
       IN IF ways = {}
          THEN /\ Become(told)
               /\ UNCHANGED <<leaf, status>>
          ELSE Enter(step, told)
    /\ UNCHANGED <<m, saved, restoring, crashes>>

DeadLetter ==
    /\ mailbox # <<>>
    /\ Head(mailbox).to = Self
    /\ Head(mailbox).event # Start
    /\ status \notin {"none", "active"} /\ (Head(mailbox).event # Stop \/ status = "stopped")
    /\ Become(Popped)
    /\ UNCHANGED <<m, status, leaf, saved, restoring, crashes>>

\* Its children and timers first, then what an active machine does on its way out.
StopMachine ==
    /\ IsNext(Self, Stop)
    /\ status # "stopped"
    /\ LET stopped == [o \in Objects |->
               IF \E c \in ChildIds : children[c] = o
               THEN [object[o] EXCEPT !.status = "stopped"] ELSE object[o]]
           cleared == [Popped EXCEPT !.object = stopped, !.timers = <<>>,
                                     !.children = [c \in ChildIds |-> NoObject]]
       IN Become(IF status = "active" THEN ExecuteEffects(cleared, ExitActions(leaf)) ELSE cleared)
    /\ status' = "stopped"
    /\ UNCHANGED <<m, leaf, saved, restoring, crashes>>

\* A child restored as done tells its parent again.
\* (mutant: it takes its completion for reported)
ChildEntersOnce(sh, o, new) ==
    LET there == [sh EXCEPT !.object[o].status = new]
    IN IF new = "done" /\ object[o].from # "done"
       THEN Post(there, Self, DoneActor(object[o].id)) ELSE there
ChildEnters(sh, o, new) ==
    LET there == [sh EXCEPT !.object[o].status = new]
    IN IF new = "done" THEN Post(there, Self, DoneActor(object[o].id)) ELSE there
ChildTask ==
    /\ mailbox # <<>>
    /\ Head(mailbox).to # Self
    /\ LET o == Head(mailbox).to
           e == Head(mailbox).event
           was == object[o].status
           new == CASE e = Start /\ was = "none" ->
                          IF object[o].from = "none" THEN "active" ELSE object[o].from
                    [] e = Finish /\ was = "active" -> "done"
                    [] e = Stop -> "stopped"
                    [] OTHER -> was
       IN Become(IF new = was THEN Popped ELSE ChildEnters(Popped, o, new))
    /\ UNCHANGED <<m, status, leaf, saved, restoring, crashes>>

RunTask == StartMachine \/ RestoreMachine \/ Receive \/ DeadLetter \/ StopMachine \/ ChildTask

-----------------------------------------------------------------------------
(* The clock, other threads, and the end of the program                     *)

Tick ==
    /\ \E i \in DOMAIN timers : timers[i].left > 0
    /\ timers' = [i \in DOMAIN timers |-> [timers[i] EXCEPT !.left = IF @ > 0 THEN @ - 1 ELSE 0]]
    /\ UNCHANGED <<m, status, leaf, children, object, mailbox, heard, saved, restoring, crashes>>

\* The callback forgets the timer and looks its target up when it runs.
Fire ==
    /\ timers # <<>>
    /\ Head(timers).left = 0
    /\ Become(Post([Shell EXCEPT !.timers = Tail(@)],
                   ResolveTarget(Shell, Head(timers).to), Head(timers).event))
    /\ UNCHANGED <<m, status, leaf, saved, restoring, crashes>>

PostFromOutside ==
    /\ Len(mailbox) < MaxQueue
    /\ \/ \E e \in ExternalEvents : Become(Post(Shell, Self, External(e)))
       \/ Become(Post(Shell, Self, Stop))
       \/ \E c \in ChildIds :
             /\ children[c] # NoObject
             /\ object[children[c]].status = "active"
             /\ Become(Post(Shell, children[c], Finish))
    /\ UNCHANGED <<m, status, leaf, saved, restoring, crashes>>

\* Between tasks.  It fails while a child has not started.
Persist ==
    /\ status # "none"
    /\ \A c \in ChildIds : children[c] # NoObject => object[children[c]].status # "none"
    /\ saved' = [leaf |-> leaf, status |-> status, children |-> [c \in ChildIds |->
                    IF children[c] = NoObject THEN "absent" ELSE object[children[c]].status]]
    /\ UNCHANGED <<m, status, leaf, shell, restoring, crashes>>

\* The program ends; what is not in the persisted snapshot is lost.
Crash ==
    /\ saved # NoSave
    /\ crashes < MaxCrashes
    /\ crashes' = crashes + 1
    /\ restoring' = saved
    /\ status' = "none" /\ leaf' = NoName
    /\ Become(Fresh)
    /\ UNCHANGED <<m, saved>>

Next == RunTask \/ Tick \/ Fire \/ PostFromOutside \/ Persist \/ Crash

Spec == Init /\ [][Next]_vars
\* The executor runs what is posted: weak fairness of RunTask, which is enabled
\* as long as a task waits and no bound is met.  Time passes, and due timers fire.
RunsWhatIsPosted == []<>(mailbox = <<>>) \/ []<><<RunTask>>_vars
FairSpec == Spec /\ RunsWhatIsPosted /\ WF_vars(Tick) /\ WF_vars(Fire)

-----------------------------------------------------------------------------
(* Machines whose actions spawn no child that may still be registered       *)

\* Of actions or effects.
Spawns(x, c) == x.kind \in {"spawnChild", "respawnChild"} /\ x.to = c
Stops(x, c) == x.kind = "stopChild" /\ x.to = c

\* When the children R are registered before the first of a list, c is so before
\* the i-th, and After(list, R) after the last; no spawn meets a registered child.
Holds(list, i, R, c) ==
    \/ c \in R /\ \A j \in 1 .. i - 1 : ~Stops(list[j], c)
    \/ \E j \in 1 .. i - 1 :
          Spawns(list[j], c) /\ \A k \in j + 1 .. i - 1 : ~Stops(list[k], c)
After(list, R) == {c \in ChildIds : Holds(list, Len(list) + 1, R, c)}
Clean(list, R) ==
    \A i \in 1 .. Len(list), c \in ChildIds : Spawns(list[i], c) => ~Holds(list, i, R, c)

\* The children of invocations, and a plan: for every state the other children
\* that may be registered in it.
Invoked(x) == UNION {ToSet(x.invokes[s]) : s \in DOMAIN x.after}
ActionLists(x) ==
    {x.entry[s] : s \in {Top} \union DOMAIN x.after}
    \union {x.exit[s] : s \in {Top} \union DOMAIN x.after}
    \union {x.trans[i].actions : i \in DOMAIN x.trans}
LeadsTo(acts, R, S) == Clean(acts, R) /\ After(acts, R) \subseteq S
IsPlan(x, plan) ==
    /\ LeadsTo(x.entry[Top] \o x.entry[x.initial], {}, plan[x.initial])
    /\ \A s \in DOMAIN x.after : Clean(x.exit[s] \o x.exit[Top], plan[s])
    /\ \A s \in DOMAIN x.after, i \in DOMAIN x.trans :
          LET t == x.trans[i] IN
          t.from \in {s, Top} =>
             IF Moves(t)
             THEN LeadsTo(x.exit[s] \o t.actions \o x.entry[t.target], plan[s], plan[t.target])
             ELSE LeadsTo(t.actions, plan[s], plan[s])
Plans(x) == [DOMAIN x.after -> SUBSET (ChildIds \ Invoked(x))]

\* Otherwise one child takes the place of another, which goes on running.
Tidy(x) ==
    /\ \A s \in DOMAIN x.after : IsInjective(x.invokes[s])
    /\ \A acts \in ActionLists(x) : \A i \in DOMAIN acts, c \in Invoked(x) :
          ~Spawns(acts[i], c) /\ ~Stops(acts[i], c)
    /\ \E plan \in Plans(x) : IsPlan(x, plan)

-----------------------------------------------------------------------------
(* Properties                                                               *)

\* A registered child that is done has told the machine, or its report waits: it
\* may be done before the machine was persisted and heard only after it is
\* restored, since a report that waits is lost with the program
\* (reportCompletionToParent, system.hpp:406-419; restore, machine.hpp:94-106).
CompletionArrives ==
    status = "active" => \A c \in ChildIds :
        (children[c] # NoObject /\ object[children[c]].status = "done")
            => c \in heard \/ Task(Self, DoneActor(c)) \in ToSet(mailbox)

\* The children the active state invokes are registered, after a restore as
\* well, and a child that runs is registered or about to be stopped: neither a
\* state left and entered again nor the end of the machine leaves one behind
\* (machine.hpp:648-672, system.hpp:334-360).
ChildrenAreOwned ==
    /\ status = "active" =>
          \A c \in ToSet(m.invokes[leaf]) : children[c] # NoObject
    /\ \A o \in Objects :
          object[o].status = "active" /\ children[object[o].id] # o
              => Task(o, Stop) \in ToSet(mailbox)

\* A state with a delayed transition is left, by it or before it, also when the
\* program ends and the machine is restored (README.md:109 "timers restart from
\* their full delay on restore").
HasDelayedWay(s) == \E i \in DOMAIN m.trans :
    m.trans[i].from = s /\ m.trans[i].event[1] = "after" /\ Moves(m.trans[i])
DelayedStatesAreLeft ==
    \A s \in UNION {DOMAIN x.after : x \in Machines} :
        (status = "active" /\ leaf = s /\ HasDelayedWay(s)) ~> (leaf # s \/ status # "active")

\* A machine that is done holds no timer: "A machine that reached its top-level
\* final state stops: [...] timers are cancelled" (machine.hpp:210-212).
TimersAreCancelled == status = "done" => timers = <<>>
=============================================================================
