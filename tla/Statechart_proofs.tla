-------------------------- MODULE Statechart_proofs --------------------------
(***************************************************************************)
(* For all machines: the types, the lifecycle of an actor, and the timers  *)
(* that are armed are those of the configuration.  For machines that keep  *)
(* to the rules each theorem names (MachineShape, Calm): the children that *)
(* run are those of the configuration, of conflicting transitions none is  *)
(* lost, a machine at rest has nothing left to do, and done events are     *)
(* raised of the states that are complete and of no other.                 *)
(*                                                                         *)
(* Types, lifecycle, timers and rest need an invariant of their own        *)
(* (TypeInv, StatusInv, TimerInv, RestInv); the other properties are       *)
(* inductive once the configuration is legal (LegalInv).                   *)
(***************************************************************************)
EXTENDS Configuration_proofs

-----------------------------------------------------------------------------
(* The lifecycle *)

\* The statuses of an actor.
Statuses == {"none", "active", "done", "error", "stopped"}

\* A macrostep begins with a machine that is not started or active, and works
\* on a snapshot that is active or done.
StatusInv ==
    /\ phase \in {"idle", "running"}
    /\ status \in Statuses
    /\ phase = "running" => /\ status \in {"active", "done"}
                            /\ saved.status \in {"none", "active"}

\* An event from the mailbox is not answered, or begins a macrostep.
LEMMA HandleStatus ==
    ASSUME NEW e, Handle(e), phase = "idle", status = "active"
    PROVE  \/ UNCHANGED <<status, control>>
           \/ phase' = "running" /\ status' \in {"active", "done"}
              /\ saved'.status = "active"
<1>1. CASE Selected(e) = <<>>
  BY <1>1 DEF Handle, Answer
<1>2. CASE Selected(e) # <<>>
  <2>1. Microstep(Selected(e), <<>>) /\ BeginSettling
    BY <1>2 DEF Handle, Answer
  <2> QED
    BY <2>1, MicrostepStatus DEF BeginSettling, Committed
<1> QED
  BY <1>1, <1>2

\* The steps of a macrostep that go on with it.
LEMMA SettlingStatus ==
    ASSUME EventlessStep \/ RaisedStep
    PROVE  /\ phase = "running" /\ UNCHANGED <<phase, saved, m>>
           /\ status = "active" /\ status' \in {"active", "done"}
<1>1. CASE EventlessStep
  BY <1>1, MicrostepStatus DEF EventlessStep, Settling
<1>2. CASE RaisedStep
  <2>1. status' \in {"active", "done"}
    BY <1>2, MicrostepStatus DEF RaisedStep, Settling
  <2> QED
    BY <1>2, <2>1 DEF RaisedStep, Settling
<1> QED
  BY <1>1, <1>2

\* Every step keeps the invariant and is, for an observer, a step of the
\* lifecycle or none.
LEMMA StatusStep ==
    ASSUME StatusInv, [Next]_vars
    PROVE  StatusInv' /\ [Actor!Next]_VisibleStatus
<1> DEFINE Goal == StatusInv' /\ [Actor!Next]_VisibleStatus
<1> USE DEF StatusInv, Statuses, VisibleStatus, Actor!Next, Actor!Follows
<1>1. ASSUME UNCHANGED <<status, phase, saved>> PROVE Goal
  BY <1>1
<1>2. CASE Start
  <2>1. status' \in {"active", "done"} /\ phase' = "running" /\ saved'.status = status
    BY <1>2 DEF Start, BeginSettling, Committed
  <2> QED
    BY <1>2, <2>1 DEF Start
<1>3. ASSUME phase = "idle", status = "active",
             \/ UNCHANGED <<status, control>>
             \/ phase' = "running" /\ status' \in {"active", "done"}
                /\ saved'.status = "active"
      PROVE  Goal
  BY <1>3 DEF control
<1>4. CASE Receive
  BY <1>3, <1>4, HandleStatus DEF Receive
<1>5. CASE ReceiveAfter
  <2>1. CASE status = "active"
    BY <1>3, <1>5, <2>1, HandleStatus DEF ReceiveAfter
  <2>2. CASE status # "active"
    BY <1>1, <1>5, <2>2 DEF ReceiveAfter, control
  <2> QED
    BY <2>1, <2>2
<1>6. CASE EventlessStep \/ RaisedStep
  BY <1>6, SettlingStatus
<1>7. CASE Settle
  BY <1>7 DEF Settle, Settling, Rest
<1>8. CASE Finish
  BY <1>8 DEF Finish, Rest
<1>9. CASE Throw
  BY <1>9 DEF Throw, Rest
<1>10. CASE UserCodeThrows \/ TooManySteps
  BY <1>9, <1>10 DEF UserCodeThrows, TooManySteps, control
<1>11. CASE Stop
  BY <1>11 DEF Stop, control
<1>12. CASE Fire \/ UNCHANGED vars
  BY <1>1, <1>12 DEF Fire, control, vars
<1> QED
  BY <1>2, <1>4, <1>5, <1>6, <1>7, <1>8, <1>10, <1>11, <1>12 DEF Next

\* The machine goes through the statuses every actor may go through, whatever
\* its tree and transitions, and wherever user code throws (getInitialSnapshot,
\* transition, becomeError).
THEOREM HasALifecycle == Spec => ImplementsLifecycle
<1>1. Init => StatusInv /\ Actor!Init
  BY DEF Init, StatusInv, Statuses, Actor!Init, VisibleStatus
<1>2. StatusInv /\ [Next]_vars => StatusInv' /\ [Actor!Next]_VisibleStatus
  BY StatusStep
<1> QED
  BY <1>1, <1>2, PTL DEF Spec, ImplementsLifecycle, Actor!Spec

\* The invariant of the statuses.
LEMMA StatusesKept == Spec => []StatusInv
<1>1. Init => StatusInv
  BY DEF Init, StatusInv, Statuses
<1> QED
  BY <1>1, StatusStep, PTL DEF Spec

-----------------------------------------------------------------------------
(* Timers *)

\* While a machine works or rests, only states it is in have timers, and those
\* it just entered do.
TimerInv ==
    /\ status = "none" => armed = {}
    /\ status = "active" \/ (status = "done" /\ phase = "running") => armed \subseteq cfg
    /\ phase = "running" => last.entered \cap m.delayed \subseteq armed
    /\ status \in {"done", "stopped"} /\ phase = "idle" => armed = {}

\* A microstep keeps what it does not exit: the timers it leaves alone are of
\* states that stay, and those it starts of states that are entered.
LEMMA MicrostepTimers ==
    ASSUME NEW sel, NEW rest, Microstep(sel, rest), armed \subseteq cfg
    PROVE  armed' \subseteq cfg' /\ last'.entered \cap m.delayed \subseteq armed'
<1> DEFINE before  == Kept(sel) \cup Targeted(Requests(sel, Recorded(sel)))
           next    == Completion(before)
           entered == next \ Kept(sel)
<1>1. cfg' = next /\ last'.entered = entered /\ armed' = Armed(Exited(sel), entered)
  <2> DEFINE done == DoneEvents(entered, next)
  <2>1. /\ cfg' = next /\ armed' = Armed(Exited(sel), entered)
        /\ last' = [taken |-> sel, exited |-> Exited(sel), entered |-> entered, done |-> done]
    BY MicrostepEffects
  <2> HIDE DEF next, entered, done
  <2> QED
    BY <2>1
<1>2. before \subseteq next
  BY DEF Completion
<1> HIDE DEF next
<1> QED
  BY <1>1, <1>2 DEF Armed, Kept

\* An event that is handled keeps the invariant.
LEMMA HandleTimers ==
    ASSUME NEW e, Handle(e), phase = "idle", status = "active", TimerInv, UNCHANGED m
    PROVE  TimerInv'
<1>1. CASE Selected(e) = <<>>
  BY <1>1 DEF Handle, Answer, TimerInv, control
<1>2. CASE Selected(e) # <<>>
  <2>1. Microstep(Selected(e), <<>>) /\ BeginSettling
    BY <1>2 DEF Handle, Answer
  <2>2. armed' \subseteq cfg' /\ last'.entered \cap m.delayed \subseteq armed'
    BY <2>1, MicrostepTimers DEF TimerInv
  <2>3. status' \in {"active", "done"} /\ phase' = "running"
    BY <2>1, MicrostepStatus DEF BeginSettling
  <2> QED
    BY <2>2, <2>3 DEF TimerInv
<1> QED
  BY <1>1, <1>2

\* Every step keeps it.
LEMMA TimersAreKept ==
    ASSUME StatusInv, TimerInv, [Next]_vars
    PROVE  TimerInv'
<1> USE DEF StatusInv, Statuses
<1>1. CASE Start
  <2>1. armed = {}
    BY <1>1 DEF Start, TimerInv
  <2> DEFINE entered == Descent(Root)
  <2>2. /\ cfg' = entered /\ last'.entered = entered /\ armed' = Armed({}, entered)
        /\ status' \in {"active", "done"} /\ phase' = "running" /\ m' = m
    BY <1>1 DEF Start, BeginSettling
  <2> HIDE DEF entered
  <2> QED
    BY <2>1, <2>2 DEF TimerInv, Armed
<1>2. CASE Receive
  BY <1>2, HandleTimers DEF Receive
<1>3. CASE ReceiveAfter
  <2>1. CASE status = "active"
    BY <1>3, <2>1, HandleTimers DEF ReceiveAfter
  <2>2. CASE status # "active"
    BY <1>3, <2>2 DEF ReceiveAfter, control, TimerInv
  <2> QED
    BY <2>1, <2>2
<1>4. CASE EventlessStep \/ RaisedStep
  <2>1. /\ phase' = "running" /\ status' \in {"active", "done"} /\ m' = m
        /\ armed \subseteq cfg /\ last.entered \cap m.delayed \subseteq armed
    BY <1>4, SettlingStatus DEF TimerInv
  <2>2. armed' \subseteq cfg' /\ last'.entered \cap m.delayed \subseteq armed'
    <3>1. CASE EventlessStep
      BY <2>1, <3>1, MicrostepTimers DEF EventlessStep
    <3>2. CASE RaisedStep
      <4>1. \/ UNCHANGED <<cfg, armed>> /\ last'.entered = {}
            \/ \E sel : Microstep(sel, Tail(q))
        BY <3>2 DEF RaisedStep, NoStep
      <4> QED
        BY <2>1, <4>1, MicrostepTimers
    <3> QED
      BY <1>4, <3>1, <3>2
  <2> QED
    BY <2>1, <2>2 DEF TimerInv
<1>5. CASE Settle
  BY <1>5 DEF Settle, Settling, Rest, TimerInv
<1>6. CASE Finish
  BY <1>6 DEF Finish, Rest, TimerInv
<1>7. CASE Throw
  BY <1>7 DEF Throw, Rest, TimerInv
<1>8. CASE UserCodeThrows \/ TooManySteps
  BY <1>7, <1>8 DEF UserCodeThrows, TooManySteps, control, TimerInv
<1>9. CASE Stop \/ Fire \/ UNCHANGED vars
  BY <1>9 DEF Stop, Fire, control, vars, TimerInv
<1> QED
  BY <1>1, <1>2, <1>3, <1>4, <1>5, <1>6, <1>8, <1>9 DEF Next

\* Timers follow the configuration of any machine: whatever is exited, entered
\* or completed in one microstep, only active states have timers, a state that
\* was just entered has its own, and none is left when the machine is done or
\* stopped (emitDelayEffects, finishIfDone, doStop).
THEOREM TimersOfTheConfiguration == Spec => []TimersFollowConfig
<1>1. Init => TimerInv
  BY DEF Init, TimerInv, NoStep
<1>2. StatusInv /\ TimerInv /\ [Next]_vars => TimerInv'
  BY TimersAreKept
<1>3. TimerInv => TimersFollowConfig
  BY DEF TimerInv, TimersFollowConfig
<1> QED
  BY <1>1, <1>2, <1>3, StatusesKept, PTL DEF Spec

-----------------------------------------------------------------------------
(* Invoked children *)

\* The children that run are those of the states in S.
Hosting(kids, S) ==
    \A id \in ChildIds : {n \in S : id \in m.invokes[n]} = {kids[id]} \ {NoNode}

\* No two active states invoke under one id.
LEMMA OneInvoker ==
    ASSUME Chart, Exclusive(m), NEW C, Legal(C), NEW id \in ChildIds,
           NEW x \in C, id \in m.invokes[x], NEW y \in C, id \in m.invokes[y]
    PROVE  x = y
<1> SUFFICES ASSUME x # y PROVE FALSE
  OBVIOUS
<1>1. x \in Nodes /\ y \in Nodes /\ m.up[x] \subseteq C /\ m.up[y] \subseteq C /\ Single(C)
  BY DEF Legal, Partial, Closed
<1>2. PICK p \in Nodes, c \in Nodes, d \in Nodes :
         /\ m.type[p] = "compound" /\ c # d
         /\ m.parent[c] = p /\ c \in m.up[x]
         /\ m.parent[d] = p /\ d \in m.up[y]
  BY <1>1 DEF Exclusive, Fork, Nodes
<1>3. c \in Children(p) \cap C /\ d \in Children(p) \cap C
  BY <1>1, <1>2 DEF Children
<1> QED
  BY <1>1, <1>2, <1>3 DEF Single

\* Stopping the children of the states left and spawning those of the states
\* entered follows the configuration from S to C.
LEMMA SpawnedFollows ==
    ASSUME Chart, Exclusive(m), NEW S, NEW C, S = {} \/ Legal(S), Legal(C),
           NEW gone \in SUBSET S, S \ gone \subseteq C,
           NEW kids, Hosting(kids, S)
    PROVE  Hosting(Spawned(kids, gone, C \ (S \ gone)), C)
<1> DEFINE entered == C \ (S \ gone)
<1> SUFFICES ASSUME NEW id \in ChildIds
             PROVE  {n \in C : id \in m.invokes[n]}
                       = {Spawned(kids, gone, entered)[id]} \ {NoNode}
  BY DEF Hosting
<1> DEFINE by == {n \in entered : id \in m.invokes[n]}
           now == Spawned(kids, gone, entered)[id]
<1>1. now = CASE by # {} -> Max(by)
              [] by = {} /\ (\E n \in gone : id \in m.invokes[n]) -> NoNode
              [] OTHER -> kids[id]
  BY DEF Spawned
<1>2. C \subseteq Nodes
  BY DEF Legal, Partial, Closed
<1>3. {n \in S : id \in m.invokes[n]} = {kids[id]} \ {NoNode}
  BY DEF Hosting
<1>4. CASE by # {}
  <2>1. by \in SUBSET Nodes
    BY <1>2
  <2>2. Max(by) \in by
    <3> HIDE DEF by
    <3> QED
      BY <1>4, <2>1, GreatestNode
  <2>3. now = Max(by)
    <3> HIDE DEF by, now
    <3> QED
      BY <1>1, <1>4
  <2> HIDE DEF now
  <2>4. now \in C /\ id \in m.invokes[now] /\ now # NoNode
    BY <1>2, <2>2, <2>3, NodesAreNumbers
  <2>5. \A n \in C : id \in m.invokes[n] => n = now
    BY <2>4, OneInvoker
  <2> QED
    BY <2>4, <2>5 DEF now
<1>5. CASE by = {} /\ \E n \in gone : id \in m.invokes[n]
  <2>1. now = NoNode
    <3> HIDE DEF by, now
    <3> QED
      BY <1>1, <1>5
  <2>2. PICK n \in gone : id \in m.invokes[n]
    BY <1>5
  <2>3. \A k \in S : id \in m.invokes[k] => k = n
    BY <2>2, OneInvoker
  <2>4. \A k \in C : id \notin m.invokes[k]
    BY <1>5, <2>2, <2>3
  <2> QED
    BY <2>1, <2>4
<1>6. CASE by = {} /\ ~\E n \in gone : id \in m.invokes[n]
  <2>1. now = kids[id]
    <3> HIDE DEF by, now
    <3> QED
      BY <1>1, <1>6
  <2>2. {n \in C : id \in m.invokes[n]} = {n \in S : id \in m.invokes[n]}
    BY <1>6
  <2> QED
    BY <1>3, <2>1, <2>2
<1> QED
  BY <1>4, <1>5, <1>6

\* The children of a machine.
ChildInv ==
    /\ status = "none" => Hosting(children, {})
    /\ status = "active" \/ (status = "done" /\ phase = "running") => Hosting(children, cfg)
    /\ status \in {"done", "stopped"} /\ phase = "idle" =>
          \A id \in ChildIds : children[id] = NoNode

\* A microstep hands the children over to the new configuration.
LEMMA MicrostepChildren ==
    ASSUME Chart, Orderly(m), Exclusive(m), Legal(cfg), Memory(hist), m' = m,
           NEW e, NEW rest, Microstep(Selected(e), rest), Hosting(children, cfg)
    PROVE  Hosting(children, cfg)'
<1> DEFINE sel == Selected(e)
           gone == Exited(sel)
<1>1. PICK C : C = cfg'
  OBVIOUS
<1>2. children' = Spawned(children, gone, C \ Kept(sel))
  BY <1>1, MicrostepShape
<1>3. Legal(C) /\ Kept(sel) \subseteq C
  BY <1>1, MicrostepIsLegal, SameMachine
<1>4. gone \in SUBSET cfg /\ Kept(sel) = cfg \ gone
  BY DEF Exited, ExitSetOf, Kept
<1> HIDE DEF sel, gone
<1>5. Hosting(Spawned(children, gone, C \ (cfg \ gone)), C)
  BY <1>3, <1>4, SpawnedFollows
<1>6. Hosting(children', cfg')
  BY <1>1, <1>2, <1>4, <1>5
<1> QED
  BY <1>6 DEF Hosting

\* Of the machines it is assumed that they are exclusive.
ExclusiveCharts == \A i \in DOMAIN Charts : Exclusive(Charts[i])

\* An event from the mailbox leaves the children to the microstep it causes.
LEMMA HandleChildren ==
    ASSUME Chart, Orderly(m), Exclusive(m), LegalInv, ChildInv, UNCHANGED m,
           NEW e, Handle(e), phase = "idle", status = "active"
    PROVE  ChildInv'
<1>1. CASE Selected(e) = <<>>
  BY <1>1 DEF Handle, Answer, ChildInv, control, Hosting
<1>2. CASE Selected(e) # <<>>
  <2>1. Microstep(Selected(e), <<>>) /\ phase' = "running"
    BY <1>2 DEF Handle, Answer, BeginSettling
  <2>2. Hosting(children, cfg)' /\ status' \in {"active", "done"}
    BY <2>1, MicrostepChildren, MicrostepStatus DEF LegalInv, ChildInv
  <2> QED
    BY <2>1, <2>2 DEF ChildInv
<1> QED
  BY <1>1, <1>2

\* Every step keeps them.
LEMMA ChildrenAreKept ==
    ASSUME OrderlyCharts, ExclusiveCharts, StatusInv, LegalInv, ChildInv, [Next]_vars
    PROVE  ChildInv'
<1>1. Chart /\ Orderly(m) /\ Exclusive(m)
  BY MachinesAreCharts DEF LegalInv, ExclusiveCharts, Range
<1>2. m' = m
  BY StepsOfTheConfiguration DEF ConfigStep
<1>3. CASE Start
  <2>1. /\ status = "none" /\ cfg' = Descent(Root)
        /\ children' = Spawned(children, {}, Descent(Root))
        /\ status' \in {"active", "done"} /\ phase' = "running"
    BY <1>3 DEF Start, BeginSettling
  <2>2. Legal(Descent(Root)) /\ Hosting(children, {})
    BY <1>1, <2>1, InitialIsLegal DEF ChildInv
  <2>3. PICK C : C = Descent(Root)
    OBVIOUS
  <2>4. C \ ({} \ {}) = C /\ {} \ {} = {}
    OBVIOUS
  <2>5. Hosting(Spawned(children, {}, C), C)
    BY <1>1, <2>2, <2>3, <2>4, SpawnedFollows
  <2>6. Hosting(children', cfg')
    BY <2>1, <2>3, <2>5
  <2> QED
    BY <1>2, <2>1, <2>6 DEF ChildInv, Hosting
<1>4. CASE Receive
  BY <1>1, <1>4, HandleChildren DEF Receive
<1>5. CASE ReceiveAfter
  <2>1. CASE status = "active"
    BY <1>1, <1>5, <2>1, HandleChildren DEF ReceiveAfter
  <2>2. CASE status # "active"
    BY <1>5, <2>2 DEF ReceiveAfter, ChildInv, control, Hosting
  <2> QED
    BY <2>1, <2>2
<1>6. CASE EventlessStep \/ RaisedStep
  <2>1. /\ phase' = "running" /\ status = "active" /\ status' \in {"active", "done"}
    BY <1>6, SettlingStatus
  <2>2. \/ UNCHANGED <<cfg, children>>
        \/ \E e, rest : Microstep(Selected(e), rest)
    BY <1>6 DEF EventlessStep, RaisedStep
  <2>3. CASE UNCHANGED <<cfg, children>>
    BY <1>2, <2>1, <2>3 DEF ChildInv, Hosting
  <2>4. CASE \E e, rest : Microstep(Selected(e), rest)
    <3>1. Hosting(children, cfg)'
      BY <1>1, <1>2, <2>1, <2>4, MicrostepChildren DEF LegalInv, ChildInv
    <3> QED
      BY <2>1, <3>1 DEF ChildInv
  <2> QED
    BY <2>2, <2>3, <2>4
<1>7. CASE Settle
  BY <1>7 DEF Settle, Settling, Rest, ChildInv, Hosting
<1>8. CASE Finish
  <2>1. /\ children' = Spawned(children, cfg, {}) /\ status = "done" /\ phase = "running"
        /\ status' = "done" /\ phase' = "idle"
    BY <1>8 DEF Finish, Rest
  <2>2. ASSUME NEW id \in ChildIds PROVE children'[id] = NoNode
    <3>1. {n \in cfg : id \in m.invokes[n]} = {children[id]} \ {NoNode}
      BY <2>1 DEF ChildInv, Hosting
    <3>2. children'[id] = IF \E n \in cfg : id \in m.invokes[n] THEN NoNode
                          ELSE children[id]
      BY <2>1 DEF Spawned
    <3> QED
      BY <3>1, <3>2
  <2> QED
    BY <2>1, <2>2 DEF ChildInv
<1>9. CASE UserCodeThrows \/ TooManySteps
  <2>1. status' = "error"
    BY <1>9 DEF UserCodeThrows, TooManySteps, Throw
  <2> QED
    BY <2>1 DEF ChildInv
<1>10. CASE Stop
  BY <1>10 DEF Stop, ChildInv
<1>11. CASE Fire \/ UNCHANGED vars
  BY <1>11 DEF Fire, vars, control, ChildInv, Hosting
<1> QED
  BY <1>3, <1>4, <1>5, <1>6, <1>7, <1>8, <1>9, <1>10, <1>11 DEF Next

\* For all machines that are orderly and exclusive: the invoked children that run
\* are those of the active states, also when a child id is handed over.
THEOREM ChildrenOfTheConfiguration ==
    ASSUME \A i \in DOMAIN Charts : Orderly(Charts[i]) /\ Exclusive(Charts[i])
    PROVE  Spec => []ChildrenFollowConfig
<1>1. OrderlyCharts /\ ExclusiveCharts
  BY DEF OrderlyCharts, ExclusiveCharts
<1>2. Init => ChildInv
  BY DEF Init, ChildInv, Hosting
<1>3. StatusInv /\ LegalInv /\ ChildInv /\ [Next]_vars => ChildInv'
  BY <1>1, ChildrenAreKept
<1>4. ChildInv => ChildrenFollowConfig
  BY DEF ChildInv, ChildrenFollowConfig, Hosting
<1> QED
  BY <1>1, <1>2, <1>3, <1>4, StatusesKept, LegalAlways, PTL DEF Spec

-----------------------------------------------------------------------------
(* Conflicts *)

\* Document order is depth first: what lies between a state and one below it is
\* below it too.
LEMMA BetweenIsBelow ==
    ASSUME Chart, NEW z \in Nodes, NEW a \in m.up[z], NEW y \in Nodes, a <= y, y <= z
    PROVE  a \in m.up[y]
<1> DEFINE Bad == {x \in Nodes : a <= x /\ x <= z /\ a \notin m.up[x]}
<1> SUFFICES ASSUME Bad # {} PROVE FALSE
  OBVIOUS
<1>1. PICK x \in Bad : \A w \in Bad : w <= x
  <2>1. Bad \in SUBSET Nodes
    OBVIOUS
  <2> HIDE DEF Bad
  <2> QED
    BY <2>1, GreatestNode
<1>2. x \in Nodes /\ a <= x /\ x <= z /\ a \notin m.up[x]
  BY <1>1
<1>3. /\ Nodes = 0 .. (Cardinality(Nodes) - 1) /\ Nodes \subseteq Nat
      /\ a \in Nodes /\ x # z /\ x < x + 1 /\ x + 1 - 1 = x
      /\ a < x + 1 /\ x + 1 <= z /\ x + 1 # Root
  <2>1. a \in Nodes
    BY Ancestors
  <2>2. Nodes = 0 .. (Cardinality(Nodes) - 1)
    BY DEF Chart, IsChart, Nodes
  <2>3. Nodes \subseteq Nat
    BY NodesAreNumbers
  <2> QED
    BY <1>2, <2>1, <2>2, <2>3 DEF Root
<1>4. x + 1 \in Nodes \ {Root}
  <2>1. Cardinality(Nodes) \in Nat
    BY FS_CardinalityType DEF Chart, IsChart, Nodes
  <2> QED
    BY <1>3, <2>1
<1>5. x + 1 \notin Bad
  <2>1. ~(x + 1 <= x)
    BY <1>3
  <2> HIDE DEF Bad
  <2> QED
    BY <1>1, <2>1
<1>6. a \in m.up[x + 1]
  <2>1. a <= x + 1
    BY <1>3
  <2> QED
    BY <1>3, <1>4, <1>5, <2>1
<1>7. m.parent[x + 1] \in m.up[x]
  <2>1. \A n \in Nodes \ {Root} : m.parent[n] \in m.up[n - 1]
    BY DEF Chart, IsChart, Nodes
  <2> QED
    BY <1>3, <1>4, <2>1
<1>8. a \in m.up[m.parent[x + 1]]
  <2>1. a # x + 1
    BY <1>3
  <2> QED
    BY <1>4, <1>6, <2>1, NodesAreNumbers
<1>9. m.up[m.parent[x + 1]] \subseteq m.up[x]
  BY <1>2, <1>7, AncestorsOfAncestors
<1> QED
  BY <1>2, <1>8, <1>9

\* The facts about conflicts that the filter relies on: a transition that wins
\* over one of an earlier leaf has all those in between win over it too; winning
\* is transitive; and two transitions with something to exit, the one from below
\* the other's source, exit something in common.
Nested(n, clash, wins) ==
    /\ \A a, b : <<a, b>> \in clash => <<b, a>> \in clash
    /\ \A u, i, j \in 1 .. n : u < i /\ i < j /\ <<j, u>> \in wins => <<i, u>> \in wins
    /\ \A a, b, c : <<a, b>> \in wins /\ <<b, c>> \in wins => <<a, c>> \in wins
    /\ \A a, b : <<a, b>> \in wins => <<b, a>> \notin wins
    /\ \A i, j, x, y : /\ <<i, x>> \in clash /\ <<j, y>> \in clash
                       /\ <<j, i>> \in wins
                       => <<j, i>> \in clash

\* Why i was left out: for u that came before it, or for a later one that won.
Yields(i, u, clash, wins) ==
    /\ <<i, u>> \in clash
    /\ (u < i /\ <<i, u>> \notin wins) \/ <<u, i>> \in wins

\* One round of the filter: whoever is left out yields to one that is kept.
LEMMA RoundLosesNone ==
    ASSUME NEW n \in Nat, NEW k \in 1 .. n, NEW clash, NEW wins, Nested(n, clash, wins),
           NEW K \in SUBSET (1 .. k - 1),
           \A a, b \in K : a # b => <<a, b>> \notin clash,
           \A i \in (1 .. k - 1) \ K : \E u \in K : Yields(i, u, clash, wins)
    PROVE  /\ Resolve(K, k, clash, wins) \subseteq 1 .. k
           /\ \A i \in (1 .. k) \ Resolve(K, k, clash, wins) :
                 \E u \in Resolve(K, k, clash, wins) : Yields(i, u, clash, wins)
<1> DEFINE B == Blockers(K, k, clash, wins)
           next == Resolve(K, k, clash, wins)
<1>1. B = {u \in K : <<k, u>> \in clash /\ <<k, u>> \notin wins}
  BY DEF Blockers
<1>2. next = {u \in K : <<k, u>> \notin clash \/ (B # {} /\ u >= Min(B))}
             \cup IF B = {} THEN {k} ELSE {}
  BY DEF Resolve
<1>3. /\ \A a, b : <<a, b>> \in clash => <<b, a>> \in clash
      /\ \A u, i, j \in 1 .. n : u < i /\ i < j /\ <<j, u>> \in wins => <<i, u>> \in wins
      /\ \A a, b, c : <<a, b>> \in wins /\ <<b, c>> \in wins => <<a, c>> \in wins
      /\ \A i, j, x, y : /\ <<i, x>> \in clash /\ <<j, y>> \in clash /\ <<j, i>> \in wins
                         => <<j, i>> \in clash
  BY DEF Nested
<1>4. /\ k \in 1 .. n /\ K \subseteq 1 .. n
      /\ \A u \in K : u \in 1 .. k /\ u < k /\ u \in Nat
      /\ \A i \in 1 .. k : i # k => i \in 1 .. k - 1 /\ i \in 1 .. n /\ i < k
  OBVIOUS
<1> HIDE DEF B, next
<1>5. next \subseteq 1 .. k
  <2>1. k \in 1 .. k
    OBVIOUS
  <2>2. next \subseteq K \cup {k}
    BY <1>2
  <2> QED
    BY <1>4, <2>1, <2>2
<1>6. CASE B = {}
  <2>1. k \in next /\ \A u \in K : u \in next <=> <<k, u>> \notin clash
    BY <1>2, <1>4, <1>6
  <2>2. \A u \in K : <<k, u>> \in clash => <<k, u>> \in wins
    BY <1>1, <1>6
  <2>3. ASSUME NEW i \in (1 .. k) \ next PROVE \E u \in next : Yields(i, u, clash, wins)
    <3>1. i # k /\ i \in 1 .. k - 1 /\ i \in 1 .. n /\ i < k
      BY <1>4, <2>1, <2>3
    <3>2. SUFFICES \/ \E u \in next : Yields(i, u, clash, wins)
                   \/ <<i, k>> \in clash /\ <<k, i>> \in wins
      BY <2>1 DEF Yields
    <3>3. CASE i \in K
      BY <1>3, <2>1, <2>2, <2>3, <3>3
    <3>4. CASE i \notin K
      <4>1. PICK u \in K : Yields(i, u, clash, wins)
        BY <3>1, <3>4
      <4>2. CASE u \in next
        BY <4>1, <4>2
      <4>3. CASE u \notin next
        <5>1. <<k, u>> \in clash /\ <<k, u>> \in wins /\ <<i, u>> \in clash
          BY <2>1, <2>2, <4>1, <4>3 DEF Yields
        <5>2. <<u, i>> \in wins
          <6>1. u < i => <<i, u>> \in wins
            BY <1>3, <1>4, <3>1, <5>1
          <6> QED
            BY <4>1, <6>1 DEF Yields
        <5>3. <<k, i>> \in wins
          BY <1>3, <5>1, <5>2
        <5>4. <<k, i>> \in clash
          BY <1>3, <5>1, <5>3
        <5> QED
          BY <1>3, <5>3, <5>4
      <4> QED
        BY <4>2, <4>3
    <3> QED
      BY <3>3, <3>4
  <2> QED
    BY <1>5, <2>3 DEF next
<1>7. CASE B # {}
  <2>1. Min(B) \in B
    <3>1. B \in SUBSET Nat
      BY <1>1, <1>4
    <3> QED
      BY <1>7, <3>1, Smallest
  <2> DEFINE b == Min(B)
  <2>2. b \in K /\ <<k, b>> \in clash /\ <<k, b>> \notin wins /\ b < k /\ b \in 1 .. n /\ b \in Nat
    BY <1>1, <1>4, <2>1
  <2>3. \A u \in K : u \in next <=> <<k, u>> \notin clash \/ u >= b
    BY <1>2, <1>7
  <2> HIDE DEF b
  <2>4. ASSUME NEW u \in K, u \notin next PROVE FALSE
    <3>1. <<k, u>> \in clash /\ u < b /\ u # b /\ u \in 1 .. n
      BY <1>4, <2>2, <2>3, <2>4
    <3>2. <<k, u>> \in wins
      <4>1. b = Min(B)
        BY DEF b
      <4>2. u \notin B
        <5>1. \A y \in B : b <= y
          <6>1. B \in SUBSET Nat
            BY <1>1, <1>4
          <6> QED
            BY <1>7, <4>1, <6>1, Smallest
        <5> QED
          BY <1>4, <2>2, <3>1, <5>1
      <4> QED
        BY <1>1, <3>1, <4>2
    <3>3. <<b, u>> \in wins
      BY <1>3, <1>4, <2>2, <3>1, <3>2
    <3>4. <<b, u>> \in clash
      BY <1>3, <2>2, <3>1, <3>3
    <3> QED
      BY <2>2, <3>1, <3>4
  <2>5. ASSUME NEW i \in (1 .. k) \ next PROVE \E u \in next : Yields(i, u, clash, wins)
    <3>1. CASE i = k
      BY <2>2, <2>4, <3>1 DEF Yields
    <3>2. CASE i # k
      <4>1. i \in 1 .. k - 1
        BY <1>4, <2>5, <3>2
      <4>2. i \notin K
        BY <2>4, <2>5
      <4> QED
        BY <2>4, <4>1, <4>2
    <3> QED
      BY <3>1, <3>2
  <2> QED
    BY <1>5, <2>5 DEF next
<1> QED
  BY <1>6, <1>7

\* The filter loses no transition to one that was lost itself.
LEMMA ResolvingLosesNone ==
    ASSUME NEW n \in Nat, NEW clash, NEW wins, Nested(n, clash, wins)
    PROVE  \A i \in (1 .. n) \ ResolveAll(n, clash, wins) :
              \E u \in ResolveAll(n, clash, wins) : <<i, u>> \in clash /\ <<i, u>> \notin wins
<1>1. PICK kept : Filters(kept, n, clash, wins)
  BY Rounds
<1>2. /\ kept[0] = {}
      /\ \A k \in 1 .. n : kept[k] = Resolve(kept[k - 1], k, clash, wins)
      /\ ResolveAll(n, clash, wins) = kept[n]
  BY <1>1 DEF Filters
<1>3. \A a, b : <<a, b>> \in clash => <<b, a>> \in clash
  BY DEF Nested
<1> DEFINE Ok(k) == /\ kept[k] \subseteq 1 .. k
                    /\ \A a, b \in kept[k] : a # b => <<a, b>> \notin clash
                    /\ \A i \in (1 .. k) \ kept[k] : \E u \in kept[k] : Yields(i, u, clash, wins)
           Wrong == {k \in 0 .. n : ~Ok(k)}
<1>4. Wrong = {}
  <2> SUFFICES ASSUME Wrong # {} PROVE FALSE
    OBVIOUS
  <2>1. PICK k \in Wrong : \A j \in Wrong : k <= j
    <3>1. Wrong \in SUBSET Nat
      OBVIOUS
    <3> HIDE DEF Wrong
    <3> QED
      BY <3>1, Least
  <2>2. k \in 0 .. n /\ ~Ok(k)
    OBVIOUS
  <2>3. k # 0
    BY <1>2, <2>2
  <2>4. k - 1 \in 0 .. n /\ ~(k <= k - 1) /\ k \in 1 .. n
    BY <2>2, <2>3
  <2>5. Ok(k - 1)
    BY <2>1, <2>4
  <2>6. kept[k] = Resolve(kept[k - 1], k, clash, wins)
    BY <1>2, <2>4
  <2>7. /\ Resolve(kept[k - 1], k, clash, wins) \subseteq 1 .. k
        /\ \A i \in (1 .. k) \ Resolve(kept[k - 1], k, clash, wins) :
              \E u \in Resolve(kept[k - 1], k, clash, wins) : Yields(i, u, clash, wins)
    BY <2>4, <2>5, RoundLosesNone
  <2>8. \A a, b \in Resolve(kept[k - 1], k, clash, wins) : a # b => <<a, b>> \notin clash
    <3>1. kept[k - 1] \in SUBSET (1 .. n)
      BY <2>4, <2>5
    <3> QED
      BY <1>3, <2>4, <2>5, <3>1, ResolveOne
  <2> QED
    BY <2>2, <2>6, <2>7, <2>8
<1>5. Ok(n)
  BY <1>4
<1>6. \A i, u : Yields(i, u, clash, wins) => <<i, u>> \in clash /\ <<i, u>> \notin wins
  BY DEF Yields, Nested
<1> QED
  BY <1>2, <1>5, <1>6

\* The candidates are the answers of some active leaves, in document order, and
\* no two are the same.
LEMMA CandidatesInOrder ==
    ASSUME Chart, Closed(cfg), NEW e
    PROVE  \E n \in Nat : \E leaf \in [1 .. n -> cfg] :
              /\ DOMAIN Candidates(e) = 1 .. n /\ Len(Candidates(e)) = n
              /\ \A i \in 1 .. n : /\ Candidates(e)[i] = Bubble(leaf[i], e)
                                   /\ Candidates(e)[i] # NoTransition
              /\ \A i, j \in 1 .. n : i < j => /\ leaf[i] < leaf[j]
                                              /\ Candidates(e)[i] # Candidates(e)[j]
<1> DEFINE leaves == Sorted(Atomic)
           picks == [i \in DOMAIN leaves |-> Bubble(leaves[i], e)]
           I == {i \in DOMAIN picks : /\ picks[i] # NoTransition
                                      /\ ~m.trans[picks[i]].forbidden}
           s == Pick(picks, I)
           J == {i \in DOMAIN s : \A j \in 1 .. (i - 1) : s[j] # s[i]}
           at(k) == Sorted(I)[Sorted(J)[k]]
           leaf == [k \in 1 .. Cardinality(J) |-> leaves[at(k)]]
<1>1. Candidates(e) = Pick(s, J)
  BY DEF Candidates, Distinct
<1>2. PICK n \in Nat : /\ Candidates(e) \in [1 .. n -> Trans]
                       /\ \A i \in 1 .. n : m.trans[Candidates(e)[i]].source \in cfg
  BY CandidatesAreActive DEF Closed
<1>3. PICK k \in Nat : Atomic \in SUBSET (0 .. k)
  <2>1. IsFiniteSet(Nodes) /\ Nodes = 0 .. (Cardinality(Nodes) - 1) /\ Nodes # {}
    BY DEF Chart, IsChart, Nodes
  <2>2. Cardinality(Nodes) \in Nat /\ Cardinality(Nodes) # 0
    BY <2>1, FS_CardinalityType, FS_EmptySet
  <2>3. Atomic \subseteq Nodes
    BY DEF Atomic, Closed
  <2>4. Cardinality(Nodes) - 1 \in Nat
    BY <2>2
  <2> QED
    BY <2>1, <2>3, <2>4
<1>4. /\ Cardinality(Atomic) \in Nat /\ DOMAIN leaves = 1 .. Cardinality(Atomic)
      /\ \A i \in DOMAIN leaves : leaves[i] \in Atomic
      /\ \A i, j \in DOMAIN leaves : i < j => leaves[i] < leaves[j]
  BY <1>3, SortedIsOrder
<1>5. I \subseteq DOMAIN leaves /\ I \in SUBSET (0 .. Cardinality(Atomic))
      /\ \A i \in I : picks[i] = Bubble(leaves[i], e) /\ picks[i] # NoTransition
  BY <1>4
<1> HIDE DEF leaves, picks, I
<1>6. /\ Cardinality(I) \in Nat /\ DOMAIN s = 1 .. Cardinality(I)
      /\ \A i \in DOMAIN s : s[i] = picks[Sorted(I)[i]] /\ Sorted(I)[i] \in I
      /\ \A i, j \in DOMAIN s : i < j => Sorted(I)[i] < Sorted(I)[j]
  <2>1. /\ Cardinality(I) \in Nat /\ DOMAIN Pick(picks, I) = 1 .. Cardinality(I)
        /\ \A i \in DOMAIN Pick(picks, I) : /\ Pick(picks, I)[i] = picks[Sorted(I)[i]]
                                            /\ Sorted(I)[i] \in I
    <3>1. PICK h \in Nat : I \in SUBSET (0 .. h)
      BY <1>4, <1>5
    <3> QED
      BY <3>1, PickIsPart
  <2>2. \A i, j \in DOMAIN Pick(picks, I) : i < j => Sorted(I)[i] < Sorted(I)[j]
    BY <1>4, <1>5, PickInOrder
  <2> QED
    BY <2>1, <2>2
<1> HIDE DEF s
<1>7. J \subseteq DOMAIN s /\ J \in SUBSET (0 .. Cardinality(I))
  BY <1>6
<1>8. \A i, j \in J : i < j => s[i] # s[j]
  <2> SUFFICES ASSUME NEW i \in J, NEW j \in J, i < j PROVE s[i] # s[j]
    OBVIOUS
  <2>1. i \in 1 .. (j - 1)
    BY <1>6
  <2> QED
    BY <2>1
<1> HIDE DEF J
<1>9. /\ Cardinality(J) \in Nat /\ DOMAIN Pick(s, J) = 1 .. Cardinality(J)
      /\ \A i \in DOMAIN Pick(s, J) : Pick(s, J)[i] = s[Sorted(J)[i]] /\ Sorted(J)[i] \in J
      /\ \A i, j \in DOMAIN Pick(s, J) : i < j => Sorted(J)[i] < Sorted(J)[j]
  <2>0. Cardinality(I) \in Nat /\ J \in SUBSET (0 .. Cardinality(I))
    BY <1>6, <1>7
  <2>1. /\ Cardinality(J) \in Nat /\ DOMAIN Pick(s, J) = 1 .. Cardinality(J)
        /\ \A i \in DOMAIN Pick(s, J) : /\ Pick(s, J)[i] = s[Sorted(J)[i]]
                                            /\ Sorted(J)[i] \in J
    BY <2>0, PickIsPart
  <2>2. \A i, j \in DOMAIN Pick(s, J) : i < j => Sorted(J)[i] < Sorted(J)[j]
    BY <2>0, PickInOrder
  <2> QED
    BY <2>1, <2>2
<1>10. DOMAIN Candidates(e) = 1 .. Cardinality(J) /\ Len(Candidates(e)) = Cardinality(J)
  <2>1. DOMAIN Candidates(e) = 1 .. n
    BY <1>2
  <2>2. 1 .. n = 1 .. Cardinality(J)
    BY <1>1, <1>9, <2>1
  <2>3. n = Cardinality(J)
    <3> DEFINE k2 == Cardinality(J)
    <3>1. k2 \in Nat /\ 1 .. n = 1 .. k2
      BY <1>9, <2>2
    <3> HIDE DEF k2
    <3>2. n >= 1 => n \in 1 .. k2
      BY <3>1
    <3>3. k2 >= 1 => k2 \in 1 .. n
      BY <3>1
    <3>4. n = k2
      BY <3>1, <3>2, <3>3
    <3> QED
      BY <3>4 DEF k2
  <2> QED
    BY <1>2, <2>1, <2>3
<1>11. ASSUME NEW i \in 1 .. Cardinality(J)
       PROVE  /\ at(i) \in I /\ at(i) \in DOMAIN leaves /\ leaves[at(i)] \in cfg
              /\ Candidates(e)[i] = Bubble(leaves[at(i)], e)
              /\ Candidates(e)[i] # NoTransition
              /\ Candidates(e)[i] = s[Sorted(J)[i]]
  <2>1. Sorted(J)[i] \in J /\ Sorted(J)[i] \in DOMAIN s /\ Candidates(e)[i] = s[Sorted(J)[i]]
    BY <1>1, <1>7, <1>9
  <2>2. at(i) \in I /\ s[Sorted(J)[i]] = picks[at(i)]
    BY <1>6, <2>1
  <2> HIDE DEF at
  <2>3. leaves[at(i)] \in cfg
    BY <1>4, <1>5, <2>2 DEF Atomic
  <2> QED
    BY <1>5, <2>1, <2>2, <2>3
<1>12. ASSUME NEW i \in 1 .. Cardinality(J), NEW j \in 1 .. Cardinality(J), i < j
       PROVE  leaves[at(i)] < leaves[at(j)] /\ Candidates(e)[i] # Candidates(e)[j]
  <2>1. /\ Sorted(J)[i] \in J /\ Sorted(J)[j] \in J /\ Sorted(J)[i] < Sorted(J)[j]
    BY <1>9, <1>12
  <2>2. s[Sorted(J)[i]] # s[Sorted(J)[j]]
    BY <1>8, <2>1
  <2>3. at(i) < at(j)
    BY <1>6, <1>7, <2>1
  <2>4. /\ at(i) \in DOMAIN leaves /\ at(j) \in DOMAIN leaves
        /\ Candidates(e)[i] = s[Sorted(J)[i]] /\ Candidates(e)[j] = s[Sorted(J)[j]]
    BY <1>11
  <2> HIDE DEF at
  <2> QED
    BY <1>4, <2>2, <2>3, <2>4
<1> HIDE DEF at
<1>13. leaf \in [1 .. Cardinality(J) -> cfg]
  BY <1>11
<1>14. \A i \in 1 .. Cardinality(J) : leaf[i] = leaves[at(i)]
  OBVIOUS
<1> HIDE DEF leaf
<1>15. \A i \in 1 .. Cardinality(J) : /\ Candidates(e)[i] = Bubble(leaf[i], e)
                                     /\ Candidates(e)[i] # NoTransition
  BY <1>11, <1>14
<1>16. \A i, j \in 1 .. Cardinality(J) : i < j => /\ leaf[i] < leaf[j]
                                                 /\ Candidates(e)[i] # Candidates(e)[j]
  BY <1>12, <1>14
<1> QED
  BY <1>9, <1>10, <1>13, <1>15, <1>16

\* A transition that exits something exits the active states below its domain,
\* which is above its source.
LEMMA ExitsBelowDomain ==
    ASSUME Chart, Closed(cfg), NEW t \in Trans, m.trans[t].source \in cfg,
           ExitSetOf(t) # {}
    PROVE  /\ TransitionDomain(t) \in m.up[m.trans[t].source]
           /\ ExitSetOf(t) = {n \in cfg \ {TransitionDomain(t)} : TransitionDomain(t) \in m.up[n]}
<1> DEFINE src == m.trans[t].source
           targets == Range(m.trans[t].targets)
           T == {Root} \cup {a \in m.up[src] \ {src} : Covers(a, targets)}
<1>1. src \in Nodes
  BY DEF Closed
<1>2. T \subseteq m.up[src] /\ T \in SUBSET Nodes /\ T # {}
  BY <1>1, Ancestors
<1>3. Max(T) \in T
  <2> HIDE DEF T
  <2> QED
    BY <1>2, GreatestNode
<1>4. TransitionDomain(t) \in {src, Max(T)}
  BY DEF TransitionDomain
<1> HIDE DEF T
<1> QED
  BY <1>1, <1>2, <1>3, <1>4, Ancestors DEF ExitSetOf, Below

\* The candidates' conflicts are such that the filter loses none.
LEMMA CandidatesAreNested ==
    ASSUME Chart, Closed(cfg), NEW e, NEW n \in Nat, n = Len(Candidates(e)),
           NEW clash, NEW wins,
           \A a, b : <<a, b>> \in clash <=>
                        /\ a \in DOMAIN Candidates(e) /\ b \in DOMAIN Candidates(e)
                        /\ Conflict(Candidates(e)[a], Candidates(e)[b]),
           \A a, b : <<a, b>> \in wins <=>
                        /\ a \in DOMAIN Candidates(e) /\ b \in DOMAIN Candidates(e)
                        /\ Preempts(Candidates(e)[a], Candidates(e)[b])
    PROVE  Nested(n, clash, wins)
<1> DEFINE cands == Candidates(e)
           S(i) == m.trans[cands[i]].source
           D(i) == TransitionDomain(cands[i])
<1>1. PICK k \in Nat : \E lf \in [1 .. k -> cfg] :
              /\ DOMAIN cands = 1 .. k /\ Len(cands) = k
              /\ \A i \in 1 .. k : cands[i] = Bubble(lf[i], e) /\ cands[i] # NoTransition
              /\ \A i, j \in 1 .. k : i < j => lf[i] < lf[j] /\ cands[i] # cands[j]
  BY CandidatesInOrder
<1>2. PICK leaf \in [1 .. k -> cfg] :
              /\ DOMAIN cands = 1 .. k /\ Len(cands) = k
              /\ \A i \in 1 .. k : cands[i] = Bubble(leaf[i], e) /\ cands[i] # NoTransition
              /\ \A i, j \in 1 .. k : i < j => leaf[i] < leaf[j] /\ cands[i] # cands[j]
  BY <1>1
<1>3. k = n /\ DOMAIN cands = 1 .. n
  BY <1>2
<1> HIDE DEF cands
<1>4. cfg \subseteq Nodes /\ \A x \in cfg : m.up[x] \subseteq cfg
  BY DEF Closed
<1>5. ASSUME NEW i \in 1 .. n
      PROVE  /\ leaf[i] \in cfg /\ leaf[i] \in Nodes
             /\ cands[i] \in Trans /\ S(i) \in m.up[leaf[i]] /\ S(i) \in cfg /\ S(i) \in Nodes
             /\ S(i) <= leaf[i]
             /\ cands[i] = SelectForNode(S(i), e) /\ cands[i] # NoTransition
             /\ \A a \in m.up[leaf[i]] : SelectForNode(a, e) # NoTransition => a <= S(i)
  <2>1. leaf[i] \in cfg /\ leaf[i] \in Nodes /\ cands[i] = Bubble(leaf[i], e)
        /\ cands[i] # NoTransition
    BY <1>2, <1>3, <1>4
  <2>2. /\ cands[i] \in Trans /\ S(i) \in m.up[leaf[i]]
        /\ cands[i] = SelectForNode(S(i), e)
        /\ \A a \in m.up[leaf[i]] : SelectForNode(a, e) # NoTransition => a <= S(i)
    BY <2>1, AnswersAreAbove
  <2>3. S(i) <= leaf[i]
    BY <2>1, <2>2, Ancestors
  <2> HIDE DEF S
  <2> QED
    BY <1>4, <2>1, <2>2, <2>3
<1>6. ASSUME NEW i \in 1 .. n, NEW j \in 1 .. n, i # j PROVE S(i) # S(j)
  <2>1. cands[i] # cands[j]
    <3>1. i < j \/ j < i
      BY <1>6
    <3> QED
      BY <1>2, <1>3, <3>1
  <2>2. cands[i] = SelectForNode(S(i), e) /\ cands[j] = SelectForNode(S(j), e)
    BY <1>5
  <2> HIDE DEF S
  <2> QED
    BY <2>1, <2>2
<1>7. ASSUME NEW i \in 1 .. n, NEW j \in 1 .. n, S(i) \in m.up[leaf[j]]
      PROVE  S(i) \in m.up[S(j)]
  <2>1. S(i) <= S(j) /\ S(j) \in m.up[leaf[j]] /\ leaf[j] \in Nodes
    BY <1>5, <1>7
  <2> HIDE DEF S
  <2> QED
    BY <1>7, <2>1, AncestorsAreAChain
<1>8. \A a, b : <<a, b>> \in wins <=> /\ a \in 1 .. n /\ b \in 1 .. n
                                      /\ S(a) # S(b) /\ S(b) \in m.up[S(a)]
  BY <1>3 DEF Preempts, Below, cands
<1>9. \A a, b : <<a, b>> \in clash <=> /\ a \in 1 .. n /\ b \in 1 .. n
                                       /\ ExitSetOf(cands[a]) \cap ExitSetOf(cands[b]) # {}
  BY <1>3 DEF Conflict, cands
<1>10. \A a, b : <<a, b>> \in clash => <<b, a>> \in clash
  BY <1>9
<1>11. ASSUME NEW u \in 1 .. n, NEW i \in 1 .. n, NEW j \in 1 .. n, u < i, i < j,
              <<j, u>> \in wins
       PROVE  <<i, u>> \in wins
  <2>1. S(u) \in m.up[S(j)] /\ S(j) \in m.up[leaf[j]] /\ leaf[j] \in Nodes /\ leaf[i] \in Nodes
        /\ leaf[u] \in Nodes /\ S(u) \in Nodes /\ S(u) <= leaf[u]
    BY <1>5, <1>8, <1>11
  <2>2. leaf[u] < leaf[i] /\ leaf[i] < leaf[j]
    BY <1>2, <1>3, <1>11
  <2> HIDE DEF S
  <2>3. S(u) \in m.up[leaf[j]]
    BY <2>1, AncestorsOfAncestors
  <2>4. S(u) <= leaf[i] /\ leaf[i] <= leaf[j]
    BY <2>1, <2>2, NodesAreNumbers
  <2>5. S(u) \in m.up[leaf[i]]
    BY <2>1, <2>3, <2>4, BetweenIsBelow
  <2>6. S(u) \in m.up[S(i)]
    BY <1>7, <2>5
  <2>7. S(i) # S(u)
    BY <1>6, <1>11
  <2> QED
    BY <1>8, <2>6, <2>7
<1>12. ASSUME NEW a, NEW b, <<a, b>> \in wins
       PROVE  <<b, a>> \notin wins
  <2>1. /\ a \in 1 .. n /\ b \in 1 .. n /\ S(a) # S(b) /\ S(b) \in m.up[S(a)]
    BY <1>8, <1>12
  <2>2. S(a) \in Nodes /\ S(b) \in Nodes
    BY <1>5, <2>1
  <2> HIDE DEF S
  <2> QED
    BY <1>8, <2>1, <2>2, Antisymmetric
<1>13. ASSUME NEW a, NEW b, NEW c, <<a, b>> \in wins, <<b, c>> \in wins
       PROVE  <<a, c>> \in wins
  <2>1. /\ a \in 1 .. n /\ b \in 1 .. n /\ S(a) # S(b) /\ S(b) \in m.up[S(a)]
        /\ c \in 1 .. n /\ S(b) # S(c) /\ S(c) \in m.up[S(b)]
    BY <1>8, <1>13
  <2>2. S(a) \in Nodes /\ S(b) \in Nodes
    BY <1>5, <2>1
  <2> HIDE DEF S
  <2>3. S(c) \in m.up[S(a)]
    BY <2>1, <2>2, AncestorsOfAncestors
  <2>4. S(a) # S(c)
    BY <2>1, <2>2, Antisymmetric
  <2> QED
    BY <1>8, <2>1, <2>3, <2>4
<1>14. ASSUME NEW i, NEW j, NEW x, NEW y, <<i, x>> \in clash, <<j, y>> \in clash,
              <<j, i>> \in wins
       PROVE  <<j, i>> \in clash
  <2>1. /\ i \in 1 .. n /\ j \in 1 .. n /\ S(i) \in m.up[S(j)]
        /\ ExitSetOf(cands[i]) # {} /\ ExitSetOf(cands[j]) # {}
    BY <1>8, <1>9, <1>14
  <2>2. S(i) \in Nodes /\ S(j) \in Nodes /\ S(i) \in cfg /\ S(j) \in cfg
        /\ cands[i] \in Trans /\ cands[j] \in Trans
    BY <1>5, <2>1
  <2>3. /\ D(i) \in m.up[S(i)] /\ D(j) \in m.up[S(j)]
        /\ ExitSetOf(cands[i]) = {v \in cfg \ {D(i)} : D(i) \in m.up[v]}
        /\ ExitSetOf(cands[j]) = {v \in cfg \ {D(j)} : D(j) \in m.up[v]}
    BY <2>1, <2>2, ExitsBelowDomain
  <2> HIDE DEF S, D
  <2>4. D(i) \in m.up[S(j)] /\ D(i) \in Nodes /\ D(j) \in Nodes
    BY <2>1, <2>2, <2>3, AncestorsOfAncestors, Ancestors
  <2>5. ASSUME NEW a \in Nodes, NEW b \in Nodes, a \in m.up[b],
               NEW v \in cfg \ {b}, b \in m.up[v]
        PROVE  v # a /\ a \in m.up[v]
    <3>1. v \in Nodes
      BY <1>4
    <3> QED
      BY <2>5, <3>1, AncestorsOfAncestors, Antisymmetric
  <2>6. D(i) \in m.up[D(j)] \/ D(j) \in m.up[D(i)]
    BY <2>2, <2>3, <2>4, Comparable
  <2>7. ExitSetOf(cands[i]) \cap ExitSetOf(cands[j]) # {}
    <3>1. CASE D(i) \in m.up[D(j)]
      BY <2>1, <2>3, <2>4, <2>5, <3>1
    <3>2. CASE D(j) \in m.up[D(i)]
      BY <2>1, <2>3, <2>4, <2>5, <3>2
    <3> QED
      BY <2>6, <3>1, <3>2
  <2> QED
    BY <1>9, <2>1, <2>7
<1> HIDE DEF S, D
<1> QED
  BY <1>10, <1>11, <1>12, <1>13, <1>14 DEF Nested

\* Of the candidates for an event those selected exit disjoint sets of states,
\* and every other one yields to one of them.
LEMMA NoneIsLost ==
    ASSUME Chart, Closed(cfg), NEW e
    PROVE  /\ \A t, u \in Range(Selected(e)) : t # u => ~Conflict(t, u)
           /\ \A t \in Range(Candidates(e)) \ Range(Selected(e)) :
                 \E u \in Range(Selected(e)) : Conflict(t, u) /\ ~Preempts(t, u)
<1> DEFINE cands == Candidates(e)
<1>1. PICK n \in Nat : /\ cands \in [1 .. n -> Trans]
                       /\ \A i \in 1 .. n : m.trans[cands[i]].source \in cfg
  BY CandidatesAreActive DEF Closed
<1> HIDE DEF cands
<1>2. Len(cands) = n /\ DOMAIN cands = 1 .. n
  BY <1>1
<1> DEFINE Pairs == (DOMAIN cands) \X (DOMAIN cands)
           clash == {p \in Pairs : Conflict(cands[p[1]], cands[p[2]])}
           wins == {p \in Pairs : Preempts(cands[p[1]], cands[p[2]])}
           I == ResolveAll(n, clash, wins)
<1>3. \A a, b : <<a, b>> \in clash <=> /\ a \in DOMAIN cands /\ b \in DOMAIN cands
                                       /\ Conflict(cands[a], cands[b])
  OBVIOUS
<1>4. \A a, b : <<a, b>> \in wins <=> /\ a \in DOMAIN cands /\ b \in DOMAIN cands
                                      /\ Preempts(cands[a], cands[b])
  OBVIOUS
<1>5. Selected(e) = Pick(cands, I)
  BY <1>2 DEF Selected, Survivors, cands
<1> HIDE DEF clash, wins
<1>6. Nested(n, clash, wins)
  BY <1>2, <1>3, <1>4, CandidatesAreNested DEF cands
<1>7. \A a, b : <<a, b>> \in clash => <<b, a>> \in clash
  BY <1>6 DEF Nested
<1>8. /\ I \subseteq 1 .. n
      /\ \A i \in (1 .. n) \ I : \E u \in I : <<i, u>> \in clash /\ <<i, u>> \notin wins
  BY <1>6, <1>7, ResolvingKeepsApart, ResolvingLosesNone
<1> HIDE DEF I
<1>9. I \in SUBSET (0 .. n)
  BY <1>8
<1>10. \A x \in I : \E i \in DOMAIN Selected(e) : Selected(e)[i] = cands[x]
  <2>1. /\ Cardinality(I) \in Nat /\ DOMAIN Pick(cands, I) = 1 .. Cardinality(I)
        /\ \A i \in DOMAIN Pick(cands, I) : /\ Pick(cands, I)[i] = cands[Sorted(I)[i]]
                                            /\ Sorted(I)[i] \in I
    BY <1>9, PickIsPart
  <2>2. \A x \in I : \E i \in DOMAIN Pick(cands, I) : Sorted(I)[i] = x
    BY <1>9, PickInOrder
  <2> QED
    BY <1>5, <2>1, <2>2
<1>11. \A x \in I : cands[x] \in Range(Selected(e))
  BY <1>10 DEF Range
<1>12. ASSUME NEW t \in Range(cands) \ Range(Selected(e))
       PROVE  \E u \in Range(Selected(e)) : Conflict(t, u) /\ ~Preempts(t, u)
  <2>1. PICK i \in 1 .. n : t = cands[i]
    BY <1>2 DEF Range
  <2>2. i \notin I
    BY <1>11, <1>12, <2>1
  <2>3. PICK u \in I : <<i, u>> \in clash /\ <<i, u>> \notin wins
    BY <1>8, <2>2
  <2>4. u \in DOMAIN cands /\ Conflict(cands[i], cands[u]) /\ ~Preempts(cands[i], cands[u])
    BY <1>2, <1>3, <1>4, <2>3
  <2> QED
    BY <1>11, <2>1, <2>3, <2>4
<1>13. ASSUME NEW t \in Range(Selected(e)), NEW u \in Range(Selected(e)), t # u
       PROVE  ~Conflict(t, u)
  <2>1. \E i, j \in DOMAIN Selected(e) : t = Selected(e)[i] /\ u = Selected(e)[j] /\ i # j
    BY <1>13 DEF Range
  <2> QED
    BY <2>1, SelectedAreApart DEF Closed
<1> QED
  BY <1>12, <1>13 DEF cands

\* So they are resolved in every legal configuration.
LEMMA LegalResolves ==
    ASSUME OrderlyCharts, LegalInv
    PROVE  ConflictsResolved
<1> SUFFICES ASSUME status = "active", NEW e
             PROVE  LET cands == Candidates(e)
                        sel == Range(Survivors(cands))
                    IN  /\ \A t, u \in sel : t # u => ~Conflict(t, u)
                        /\ \A t \in Range(cands) \ sel :
                              \E u \in sel : Conflict(t, u) /\ ~Preempts(t, u)
  BY DEF ConflictsResolved
<1>1. Chart /\ Closed(cfg)
  BY MachinesAreCharts DEF LegalInv, Legal, Partial
<1> QED
  BY <1>1, NoneIsLost DEF Selected

\* For all orderly machines: whatever event comes next, the transitions selected
\* for it exit disjoint sets of states, and none is given up but for one that is
\* taken (selectTransitions, machine.hpp:516-535).
THEOREM ConflictsAreResolved ==
    ASSUME \A i \in DOMAIN Charts : Orderly(Charts[i])
    PROVE  Spec => []ConflictsResolved
BY LegalResolves, LegalAlways, PTL DEF OrderlyCharts

-----------------------------------------------------------------------------
(* Types *)

\* Two sequences joined hold what both hold.
LEMMA JoinedRange ==
    ASSUME NEW S, NEW s \in Seq(S), NEW t \in Seq(S)
    PROVE  s \o t \in Seq(S) /\ Range(s \o t) = Range(s) \cup Range(t)
<1>1. /\ s \o t \in Seq(S) /\ Len(s) \in Nat /\ Len(t) \in Nat
      /\ DOMAIN s = 1 .. Len(s) /\ DOMAIN t = 1 .. Len(t)
      /\ DOMAIN (s \o t) = 1 .. Len(s) + Len(t)
      /\ \A i \in 1 .. Len(s) + Len(t) :
            (s \o t)[i] = IF i <= Len(s) THEN s[i] ELSE t[i - Len(s)]
  OBVIOUS
<1>2. ASSUME NEW x \in Range(s \o t) PROVE x \in Range(s) \cup Range(t)
  <2>1. PICK i \in 1 .. Len(s) + Len(t) : x = (s \o t)[i]
    BY <1>1 DEF Range
  <2>2. CASE i <= Len(s)
    <3>1. i \in DOMAIN s /\ x = s[i]
      BY <1>1, <2>1, <2>2
    <3> QED
      BY <3>1 DEF Range
  <2>3. CASE ~(i <= Len(s))
    <3>1. i - Len(s) \in DOMAIN t /\ x = t[i - Len(s)]
      BY <1>1, <2>1, <2>3
    <3> QED
      BY <3>1 DEF Range
  <2> QED
    BY <2>2, <2>3
<1>3. ASSUME NEW x \in Range(s) PROVE x \in Range(s \o t)
  <2>1. PICK i \in DOMAIN s : x = s[i]
    BY DEF Range
  <2>2. i \in 1 .. Len(s) + Len(t) /\ (s \o t)[i] = x
    BY <1>1, <2>1
  <2> QED
    BY <1>1, <2>2 DEF Range
<1>4. ASSUME NEW x \in Range(t) PROVE x \in Range(s \o t)
  <2>1. PICK i \in DOMAIN t : x = t[i]
    BY DEF Range
  <2>2. i + Len(s) \in 1 .. Len(s) + Len(t) /\ (s \o t)[i + Len(s)] = x
    <3>1. i + Len(s) \in 1 .. Len(s) + Len(t) /\ ~(i + Len(s) <= Len(s))
          /\ i + Len(s) - Len(s) = i
      BY <1>1, <2>1
    <3> QED
      BY <1>1, <2>1, <3>1
  <2> QED
    BY <1>1, <2>2 DEF Range
<1> QED
  BY <1>1, <1>2, <1>3, <1>4

\* g joins the first sequences of f, one after the other.
Joins(g, f, n) ==
    /\ g[1] = f[1]
    /\ \A k \in 1 .. n : k # 1 => g[k] = g[k - 1] \o f[k]
    /\ FlattenSeq(f) = g[n]

\* The recursion of FlattenSeq has a solution.
LEMMA Flattening ==
    ASSUME NEW S, NEW n \in Nat \ {0}, NEW f \in [1 .. n -> Seq(S)]
    PROVE  \E g : Joins(g, f, n)
<1>0. n \in Nat /\ n # 0 /\ Len(f) = n /\ DOMAIN f = 1 .. n
  OBVIOUS
<1> DEFINE Step(g, i) == IF i = 1 THEN f[i] ELSE g[i - 1] \o f[i]
           Bad == {k \in 1 .. n : ~\E g \in [1 .. k -> Seq(S)] :
                                       \A i \in 1 .. k : g[i] = Step(g, i)}
           flatten == CHOOSE g : g = [i \in 1 .. n |-> Step(g, i)]
<1>1. Bad = {}
  <2> SUFFICES ASSUME Bad # {} PROVE FALSE
    OBVIOUS
  <2>1. PICK k \in Bad : \A j \in Bad : k <= j
    <3>1. Bad \in SUBSET Nat
      OBVIOUS
    <3> HIDE DEF Bad
    <3> QED
      BY <3>1, Least
  <2>2. k \in 1 .. n /\ ~\E g \in [1 .. k -> Seq(S)] : \A i \in 1 .. k : g[i] = Step(g, i)
    OBVIOUS
  <2>3. CASE k = 1
    <3> DEFINE g == [i \in 1 .. 1 |-> f[1]]
    <3>1. f[1] \in Seq(S)
      BY <2>2, <2>3
    <3>2. g \in [1 .. k -> Seq(S)] /\ \A i \in 1 .. k : g[i] = Step(g, i)
      BY <2>3, <3>1
    <3> QED
      BY <2>2, <3>2
  <2>4. CASE k # 1
    <3>1. k - 1 \in 1 .. n /\ k - 1 \notin Bad
      <4>1. k - 1 \in 1 .. n /\ ~(k <= k - 1)
        BY <2>2, <2>4
      <4> HIDE DEF Bad
      <4> QED
        BY <2>1, <4>1
    <3>2. PICK h \in [1 .. k - 1 -> Seq(S)] : \A i \in 1 .. k - 1 : h[i] = Step(h, i)
      BY <3>1
    <3> DEFINE g == [i \in 1 .. k |-> IF i = k THEN h[k - 1] \o f[k] ELSE h[i]]
    <3>3. h[k - 1] \in Seq(S) /\ f[k] \in Seq(S)
      BY <2>2, <3>1, <3>2
    <3>4. h[k - 1] \o f[k] \in Seq(S)
      BY <3>3
    <3>5. g \in [1 .. k -> Seq(S)]
      <4>1. ASSUME NEW i \in 1 .. k, i # k PROVE h[i] \in Seq(S)
        <5>1. i \in 1 .. k - 1
          BY <2>2, <4>1
        <5> QED
          BY <3>2, <5>1
      <4> QED
        BY <3>4, <4>1
    <3>6. ASSUME NEW i \in 1 .. k PROVE g[i] = Step(g, i)
      <4>1. CASE i = k
        <5>1. g[k - 1] = h[k - 1]
          BY <2>2, <2>4
        <5> QED
          BY <2>4, <4>1, <5>1
      <4>2. CASE i # k
        <5>1. i \in 1 .. k - 1 /\ (i # 1 => i - 1 \in 1 .. k /\ i - 1 # k)
          BY <2>2, <4>2
        <5>2. g[i] = h[i] /\ h[i] = Step(h, i) /\ (i # 1 => g[i - 1] = h[i - 1])
          BY <3>2, <4>2, <5>1
        <5> QED
          BY <5>2
      <4> QED
        BY <4>1, <4>2
    <3> HIDE DEF g, Step
    <3> QED
      BY <2>2, <3>5, <3>6
  <2> QED
    BY <2>3, <2>4
<1>2. n \in 1 .. n /\ n \notin Bad
  <2>1. n \in 1 .. n
    BY <1>0
  <2> HIDE DEF Bad
  <2> QED
    BY <1>1, <2>1
<1>3. PICK g \in [1 .. n -> Seq(S)] : \A i \in 1 .. n : g[i] = Step(g, i)
  BY <1>2
<1>4. flatten = [i \in 1 .. n |-> Step(flatten, i)]
  <2> HIDE DEF Step
  <2>1. g = [i \in 1 .. n |-> Step(g, i)]
    BY <1>3
  <2> QED
    BY <2>1
<1> HIDE DEF flatten
<1>5. /\ flatten[1] = f[1]
      /\ \A k \in 1 .. n : k # 1 => flatten[k] = flatten[k - 1] \o f[k]
  <2>1. 1 \in 1 .. n
    BY <1>0
  <2> QED
    BY <1>4, <2>1
<1>6. FlattenSeq(f) = flatten[n]
  BY <1>0 DEF FlattenSeq, flatten
<1>7. Joins(flatten, f, n)
  BY <1>5, <1>6 DEF Joins
<1> QED
  BY <1>7

\* Sequences joined are one sequence that holds what they hold.
LEMMA FlattenIsSeq ==
    ASSUME NEW S, NEW n \in Nat, NEW f \in [1 .. n -> Seq(S)]
    PROVE  /\ FlattenSeq(f) \in Seq(S)
           /\ Range(FlattenSeq(f)) = UNION {Range(f[i]) : i \in 1 .. n}
<1>1. Len(f) = n /\ DOMAIN f = 1 .. n
  OBVIOUS
<1>2. CASE n = 0
  <2>1. f \in Seq(S) /\ FlattenSeq(f) = f /\ DOMAIN f = {} /\ 1 .. n = {}
    BY <1>1, <1>2 DEF FlattenSeq
  <2>2. Range(FlattenSeq(f)) = {} /\ UNION {Range(f[i]) : i \in 1 .. n} = {}
    BY <2>1 DEF Range
  <2> QED
    BY <2>1, <2>2
<1>3. CASE n # 0
  <2>1. PICK g : Joins(g, f, n)
    BY <1>3, Flattening
  <2>2. /\ g[1] = f[1]
        /\ \A k \in 1 .. n : k # 1 => g[k] = g[k - 1] \o f[k]
        /\ FlattenSeq(f) = g[n]
    BY <2>1 DEF Joins
  <2> DEFINE All(k) == UNION {Range(f[i]) : i \in 1 .. k}
             Wrong == {k \in 1 .. n : ~(g[k] \in Seq(S) /\ Range(g[k]) = All(k))}
  <2>3. Wrong = {}
    <3> SUFFICES ASSUME Wrong # {} PROVE FALSE
      OBVIOUS
    <3>1. PICK k \in Wrong : \A j \in Wrong : k <= j
      <4>1. Wrong \in SUBSET Nat
        OBVIOUS
      <4> HIDE DEF Wrong
      <4> QED
        BY <4>1, Least
    <3>2. k \in 1 .. n /\ ~(g[k] \in Seq(S) /\ Range(g[k]) = All(k)) /\ f[k] \in Seq(S)
      OBVIOUS
    <3>3. k # 1
      <4>1. 1 .. 1 = {1}
        OBVIOUS
      <4>2. UNION {Range(f[i]) : i \in {1}} = Range(f[1])
        OBVIOUS
      <4> QED
        BY <2>2, <3>2, <4>1, <4>2
    <3>4. k - 1 \in 1 .. n /\ k - 1 \notin Wrong
      <4>1. k - 1 \in 1 .. n /\ ~(k <= k - 1)
        BY <3>2, <3>3
      <4> HIDE DEF Wrong
      <4> QED
        BY <3>1, <4>1
    <3>5. g[k - 1] \in Seq(S) /\ Range(g[k - 1]) = All(k - 1)
      BY <3>4
    <3>6. g[k] = g[k - 1] \o f[k]
      BY <2>2, <3>2, <3>3
    <3>7. g[k] \in Seq(S) /\ Range(g[k]) = Range(g[k - 1]) \cup Range(f[k])
      BY <3>2, <3>5, <3>6, JoinedRange
    <3>8. 1 .. k = (1 .. k - 1) \cup {k}
      BY <3>2
    <3>9. All(k) = All(k - 1) \cup Range(f[k])
      BY <3>8
    <3> HIDE DEF All
    <3> QED
      BY <3>2, <3>5, <3>7, <3>9
  <2>4. n \in 1 .. n
    BY <1>3
  <2> QED
    BY <2>2, <2>3, <2>4
<1> QED
  BY <1>2, <1>3

\* A machine has finitely many states.
LEMMA NodesUpTo ==
    ASSUME Chart
    PROVE  \E k \in Nat : Nodes \subseteq 0 .. k
<1>1. IsFiniteSet(Nodes) /\ Nodes = 0 .. (Cardinality(Nodes) - 1) /\ Nodes # {}
  BY DEF Chart, IsChart, Nodes
<1>2. Cardinality(Nodes) \in Nat /\ Cardinality(Nodes) # 0
  BY <1>1, FS_CardinalityType, FS_EmptySet
<1>3. Cardinality(Nodes) - 1 \in Nat
  BY <1>2
<1> QED
  BY <1>1, <1>3

\* Some states in document order, and in the reverse order.
LEMMA NodesInOrder ==
    ASSUME Chart, NEW I \in SUBSET Nodes
    PROVE  /\ Cardinality(I) \in Nat
           /\ Sorted(I) \in [1 .. Cardinality(I) -> I]
           /\ Reverse(Sorted(I)) \in [1 .. Cardinality(I) -> I]
           /\ Range(Sorted(I)) = I /\ Range(Reverse(Sorted(I))) = I
<1>1. PICK k \in Nat : Nodes \subseteq 0 .. k
  BY NodesUpTo
<1>2. /\ Cardinality(I) \in Nat /\ DOMAIN Sorted(I) = 1 .. Cardinality(I)
      /\ \A i \in DOMAIN Sorted(I) : Sorted(I)[i] \in I
      /\ \A x \in I : \E i \in DOMAIN Sorted(I) : Sorted(I)[i] = x
  BY <1>1, SortedIsOrder
<1>3. Sorted(I) = [i \in 1 .. Cardinality(I) |-> Sorted(I)[i]]
  BY <1>2 DEF Sorted
<1> DEFINE n == Cardinality(I)
           s == Sorted(I)
<1> HIDE DEF n, s
<1>4. s \in [1 .. n -> I] /\ n \in Nat
  BY <1>2, <1>3 DEF n, s
<1>5. Len(s) = n
  BY <1>4
<1>6. Reverse(s) = [i \in 1 .. n |-> s[(n - i) + 1]]
  BY <1>5 DEF Reverse
<1>7. \A i \in 1 .. n : (n - i) + 1 \in 1 .. n /\ (n - ((n - i) + 1)) + 1 = i
  BY <1>4
<1>8. Reverse(s) \in [1 .. n -> I] /\ \A i \in 1 .. n : Reverse(s)[(n - i) + 1] = s[i]
  BY <1>4, <1>6, <1>7
<1>9. \A x \in I : \E i \in 1 .. n : s[i] = x
  BY <1>2 DEF n, s
<1>10. \A x \in I : \E i \in 1 .. n : Reverse(s)[i] = x
  BY <1>7, <1>8, <1>9
<1>11. ASSUME NEW f \in [1 .. n -> I], \A x \in I : \E i \in 1 .. n : f[i] = x
       PROVE  Range(f) = I
  BY <1>11 DEF Range
<1>12. Range(s) = I /\ Range(Reverse(s)) = I
  BY <1>4, <1>8, <1>9, <1>10, <1>11
<1> QED
  BY <1>4, <1>8, <1>12 DEF n, s

\* What the sequences of some states hold, one after the other.
LEMMA InOrderIsSeq ==
    ASSUME Chart, NEW I \in SUBSET Nodes, NEW S, NEW f \in [I -> Seq(S)]
    PROVE  /\ InOrder(f) \in Seq(S)
           /\ Range(InOrder(f)) = UNION {Range(f[x]) : x \in I}
<1> DEFINE order == Sorted(I)
           g == [i \in 1 .. Cardinality(I) |-> f[order[i]]]
<1>1. /\ Cardinality(I) \in Nat /\ order \in [1 .. Cardinality(I) -> I]
      /\ Range(order) = I
  BY NodesInOrder
<1>2. InOrder(f) = FlattenSeq(g)
  <2>1. DOMAIN f = I /\ DOMAIN order = 1 .. Cardinality(I)
    BY <1>1
  <2> QED
    BY <2>1 DEF InOrder
<1> HIDE DEF order
<1>3. g \in [1 .. Cardinality(I) -> Seq(S)]
  BY <1>1
<1>4. \A i \in 1 .. Cardinality(I) : order[i] \in I /\ g[i] = f[order[i]]
  BY <1>1
<1>5. \A x \in I : \E i \in 1 .. Cardinality(I) : order[i] = x
  BY <1>1 DEF Range
<1>6. UNION {Range(g[i]) : i \in 1 .. Cardinality(I)} = UNION {Range(f[x]) : x \in I}
  <2> HIDE DEF g
  <2>1. {Range(g[i]) : i \in 1 .. Cardinality(I)} = {Range(f[x]) : x \in I}
    BY <1>4, <1>5
  <2> QED
    BY <2>1
<1> HIDE DEF g
<1>7. /\ FlattenSeq(g) \in Seq(S)
      /\ Range(FlattenSeq(g)) = UNION {Range(g[i]) : i \in 1 .. Cardinality(I)}
  <2> DEFINE n == Cardinality(I)
  <2>1. n \in Nat /\ g \in [1 .. n -> Seq(S)]
    BY <1>1, <1>3
  <2> HIDE DEF n
  <2>2. /\ FlattenSeq(g) \in Seq(S)
        /\ Range(FlattenSeq(g)) = UNION {Range(g[i]) : i \in 1 .. n}
    BY <2>1, FlattenIsSeq
  <2> QED
    BY <2>2 DEF n
<1> QED
  BY <1>2, <1>6, <1>7

\* Picking elements of a sequence makes a sequence, and Distinct keeps them all.
LEMMA DistinctIsSeq ==
    ASSUME NEW S, NEW s \in Seq(S)
    PROVE  Distinct(s) \in Seq(S) /\ Range(Distinct(s)) = Range(s)
<1> DEFINE I == {i \in DOMAIN s : \A j \in 1 .. (i - 1) : s[j] # s[i]}
<1>1. Len(s) \in Nat /\ DOMAIN s = 1 .. Len(s) /\ \A i \in DOMAIN s : s[i] \in S
  OBVIOUS
<1>2. I \in SUBSET (0 .. Len(s)) /\ I \subseteq DOMAIN s
  BY <1>1
<1>3. \A x \in Range(s) : \E i \in I : s[i] = x
  <2> SUFFICES ASSUME NEW x \in Range(s) PROVE \E i \in I : s[i] = x
    OBVIOUS
  <2> DEFINE T == {i \in DOMAIN s : s[i] = x}
  <2>1. T # {} /\ T \in SUBSET Nat
    BY <1>1 DEF Range
  <2>2. PICK i \in T : \A j \in T : i <= j
    <3> HIDE DEF T
    <3> QED
      BY <2>1, Least
  <2>3. i \in 1 .. Len(s) /\ s[i] = x
    BY <1>1
  <2>4. \A j \in 1 .. (i - 1) : j \in 1 .. Len(s) /\ ~(i <= j)
    BY <1>1, <2>3
  <2>5. \A j \in 1 .. (i - 1) : s[j] # s[i]
    BY <1>1, <2>2, <2>3, <2>4
  <2> QED
    BY <1>1, <2>3, <2>5
<1>4. Distinct(s) = Pick(s, I)
  BY DEF Distinct
<1> HIDE DEF I
<1>5. /\ Cardinality(I) \in Nat /\ DOMAIN Pick(s, I) = 1 .. Cardinality(I)
      /\ \A i \in DOMAIN Pick(s, I) : Pick(s, I)[i] = s[Sorted(I)[i]] /\ Sorted(I)[i] \in I
      /\ \A x \in I : \E i \in DOMAIN Pick(s, I) : Sorted(I)[i] = x
  <2>1. Len(s) \in Nat /\ I \in SUBSET (0 .. Len(s))
    BY <1>1, <1>2
  <2>2. /\ Cardinality(I) \in Nat /\ DOMAIN Pick(s, I) = 1 .. Cardinality(I)
        /\ \A i \in DOMAIN Pick(s, I) : Pick(s, I)[i] = s[Sorted(I)[i]] /\ Sorted(I)[i] \in I
    BY <2>1, PickIsPart
  <2>3. \A x \in I : \E i \in DOMAIN Pick(s, I) : Sorted(I)[i] = x
    BY <2>1, PickInOrder
  <2> QED
    BY <2>2, <2>3
<1>6. Pick(s, I) = [i \in 1 .. Cardinality(I) |-> Pick(s, I)[i]]
  BY <1>5 DEF Pick
<1>7. \A i \in 1 .. Cardinality(I) : Pick(s, I)[i] \in S
  BY <1>1, <1>2, <1>5
<1>8. Pick(s, I) \in Seq(S)
  BY <1>5, <1>6, <1>7
<1>9. \A x \in Range(s) : \E i \in DOMAIN Pick(s, I) : Pick(s, I)[i] = x
  BY <1>3, <1>5
<1>10. \A i \in DOMAIN Pick(s, I) : \E j \in DOMAIN s : Pick(s, I)[i] = s[j]
  BY <1>2, <1>5
<1>11. Range(Pick(s, I)) = Range(s)
  <2> DEFINE p == Pick(s, I)
  <2>1. \A i \in DOMAIN p : p[i] \in Range(s)
    BY <1>10 DEF Range
  <2>2. \A x \in Range(s) : \E i \in DOMAIN p : p[i] = x
    BY <1>9
  <2> HIDE DEF p
  <2>3. \A x \in Range(s) : x \in Range(p)
    BY <2>2 DEF Range
  <2>4. \A x \in Range(p) : x \in Range(s)
    BY <2>1 DEF Range
  <2> QED
    BY <2>3, <2>4 DEF p
<1> QED
  BY <1>4, <1>8, <1>11

\* What the states and transitions of the machine that runs do.
Behaved == Chart /\ Acts(m)

\* The behaviours of states and transitions.
LEMMA ActsOfMachine ==
    ASSUME Behaved
    PROVE  /\ \A t \in Trans : m.trans[t].raise \in Seq(Event) /\ m.trans[t].targets \in Seq(Nodes)
           /\ \A n \in Nodes : /\ m.entry[n] \in Seq(Event) /\ m.exit[n] \in Seq(Event)
                               /\ m.initActs[n] \in Seq(Event)
           /\ m.delayed \subseteq Nodes
<1>1. \A t \in Trans : m.trans[t] \in Transition(Nodes)
  BY DEF Behaved, Acts, Trans, Nodes
<1>2. \A t \in Trans : m.trans[t].raise \in Seq(Event) /\ m.trans[t].targets \in Seq(Nodes)
  BY <1>1 DEF Transition
<1>3. \A n \in Nodes : /\ m.entry[n] \in Seq(Event) /\ m.exit[n] \in Seq(Event)
                       /\ m.initActs[n] \in Seq(Event)
  BY DEF Behaved, Acts, Nodes
<1>4. m.delayed \subseteq Nodes
  BY DEF Behaved, Chart, IsChart, Nodes
<1> QED
  BY <1>2, <1>3, <1>4

\* What is raised are events.
LEMMA RaisesAreEvents ==
    ASSUME Behaved, NEW sel, NEW n \in Nat, sel \in [1 .. n -> Trans],
           NEW gone \in SUBSET Nodes, NEW entered \in SUBSET Nodes, NEW via, Root \notin via
    PROVE  /\ ExitRaises(gone) \in Seq(Event)
           /\ TransitionRaises(sel) \in Seq(Event)
           /\ EntryRaises(entered, via) \in Seq(Event)
<1>1. Chart
  BY DEF Behaved
<1>2. ExitRaises(gone) \in Seq(Event)
  <2> DEFINE c == Cardinality(gone)
             s == Reverse(Sorted(gone))
  <2>1. c \in Nat /\ s \in [1 .. c -> gone]
    BY <1>1, NodesInOrder
  <2>2. ExitRaises(gone) = FlattenSeq([i \in 1 .. c |-> m.exit[s[i]]])
    BY DEF ExitRaises
  <2> HIDE DEF c, s
  <2> DEFINE f == [i \in 1 .. c |-> m.exit[s[i]]]
  <2>3. f \in [1 .. c -> Seq(Event)]
    BY <2>1, ActsOfMachine
  <2> HIDE DEF f
  <2>4. FlattenSeq(f) \in Seq(Event)
    BY <2>1, <2>3, FlattenIsSeq
  <2> QED
    BY <2>2, <2>4 DEF f
<1>3. TransitionRaises(sel) \in Seq(Event)
  <2> DEFINE f == [i \in 1 .. n |-> m.trans[sel[i]].raise]
  <2>1. f \in [1 .. n -> Seq(Event)]
    BY ActsOfMachine
  <2>2. TransitionRaises(sel) = FlattenSeq(f)
    <3>1. DOMAIN sel = 1 .. n
      OBVIOUS
    <3> QED
      BY <3>1 DEF TransitionRaises
  <2> HIDE DEF f
  <2> QED
    BY <2>1, <2>2, FlattenIsSeq
<1>4. EntryRaises(entered, via) \in Seq(Event)
  <2> DEFINE f == [x \in entered |-> (IF x \in via THEN m.initActs[m.parent[x]] ELSE <<>>)
                                     \o m.entry[x]]
  <2>1. ASSUME NEW x \in entered
        PROVE  (IF x \in via THEN m.initActs[m.parent[x]] ELSE <<>>) \in Seq(Event)
    <3>1. CASE x \in via
      <4>1. m.parent[x] \in Nodes
        BY <1>1, <3>1, NodesAreNumbers
      <4> QED
        BY <3>1, <4>1, ActsOfMachine
    <3>2. CASE x \notin via
      <4>1. <<>> \in Seq(Event)
        OBVIOUS
      <4> QED
        BY <3>2, <4>1
    <3> QED
      BY <3>1, <3>2
  <2>2. ASSUME NEW s \in Seq(Event), NEW t \in Seq(Event) PROVE s \o t \in Seq(Event)
    OBVIOUS
  <2>3. \A x \in entered : m.entry[x] \in Seq(Event)
    BY ActsOfMachine
  <2>4. f \in [entered -> Seq(Event)]
    <3>1. ASSUME NEW x \in entered PROVE f[x] \in Seq(Event)
      BY <2>1, <2>2, <2>3
    <3> QED
      BY <3>1
  <2>5. EntryRaises(entered, via) = InOrder(f)
    BY DEF EntryRaises
  <2> HIDE DEF f
  <2>6. InOrder(f) \in Seq(Event)
    BY <1>1, <2>4, InOrderIsSeq
  <2> QED
    BY <2>5, <2>6
<1> QED
  BY <1>2, <1>3, <1>4

\* The done events above a state.
LEMMA DoneAboveIsSeq ==
    ASSUME Chart, NEW p \in Nodes, NEW S
    PROVE  /\ DoneAbove(p, S) \in Seq(Event)
           /\ p = Root => Range(DoneAbove(p, S)) = {}
           /\ p # Root => Range(DoneAbove(p, S)) =
                 {DoneState(a) : a \in DoneParallels(p, S)}
                 \cup (IF m.type[p] = "parallel" THEN {} ELSE {DoneState(p)})
<1>1. \A x \in Nodes : DoneState(x) \in Event
  BY NodesAreNumbers DEF DoneState, Event
<1>2. CASE p = Root
  <2>1. DoneAbove(p, S) = <<>>
    BY <1>2 DEF DoneAbove
  <2>2. <<>> \in Seq(Event) /\ DOMAIN <<>> = {}
    OBVIOUS
  <2> QED
    BY <1>2, <2>1, <2>2 DEF Range
<1>3. CASE p # Root
  <2> DEFINE I == DoneParallels(p, S)
             order == Reverse(Sorted(I))
             n == Cardinality(I)
             own == IF m.type[p] = "parallel" THEN <<>> ELSE <<DoneState(p)>>
             above == DoneSeq(order)
  <2>1. I \in SUBSET Nodes
    BY Ancestors DEF DoneParallels
  <2>2. n \in Nat /\ order \in [1 .. n -> I] /\ Range(order) = I
    BY <2>1, NodesInOrder
  <2>3. DoneAbove(p, S) = own \o above
    BY <1>3 DEF DoneAbove
  <2> HIDE DEF order, n
  <2>4. above = [i \in 1 .. n |-> DoneState(order[i])]
    <3>1. DOMAIN order = 1 .. n
      BY <2>2
    <3> QED
      BY <3>1 DEF DoneSeq
  <2> HIDE DEF above
  <2>5. \A i \in 1 .. n : order[i] \in I /\ above[i] = DoneState(order[i])
                          /\ above[i] \in Event
    BY <1>1, <2>1, <2>2, <2>4
  <2>6. above \in Seq(Event)
    <3>1. above \in [1 .. n -> Event]
      BY <2>4, <2>5
    <3> QED
      BY <2>2, <3>1
  <2>7. Range(above) = {DoneState(a) : a \in I}
    <3> HIDE DEF I
    <3>1. \A a \in I : \E i \in 1 .. n : order[i] = a
      BY <2>2 DEF Range
    <3>2. DOMAIN above = 1 .. n
      BY <2>4
    <3>3. \A x \in Range(above) : x \in {DoneState(a) : a \in I}
      BY <2>5, <3>2 DEF Range
    <3>4. \A a \in I : DoneState(a) \in Range(above)
      BY <2>5, <3>1, <3>2 DEF Range
    <3> QED
      BY <3>3, <3>4
  <2>8. own \in Seq(Event) /\ Range(own) = IF m.type[p] = "parallel" THEN {} ELSE {DoneState(p)}
    <3>1. CASE m.type[p] = "parallel"
      <4>1. <<>> \in Seq(Event) /\ DOMAIN <<>> = {}
        OBVIOUS
      <4> QED
        BY <3>1, <4>1 DEF Range
    <3>2. CASE m.type[p] # "parallel"
      <4> DEFINE d == DoneState(p)
      <4>1. d \in Event
        BY <1>1
      <4> HIDE DEF d
      <4>2. <<d>> \in Seq(Event) /\ DOMAIN <<d>> = {1} /\ <<d>>[1] = d
        BY <4>1
      <4>3. Range(<<d>>) = {d}
        BY <4>2 DEF Range
      <4> QED
        BY <3>2, <4>2, <4>3 DEF d
    <3> QED
      BY <3>1, <3>2
  <2> HIDE DEF own, I
  <2>9. own \o above \in Seq(Event) /\ Range(own \o above) = Range(own) \cup Range(above)
    BY <2>6, <2>8, JoinedRange
  <2> QED
    BY <1>3, <2>3, <2>7, <2>8, <2>9 DEF I
<1> QED
  BY <1>2, <1>3

\* The done events of a microstep are those above the final states it entered.
LEMMA DoneEventsAreSeq ==
    ASSUME Chart, NEW entered \in SUBSET Nodes, NEW S
    PROVE  /\ DoneEvents(entered, S) \in Seq(Event)
           /\ Range(DoneEvents(entered, S)) =
                 UNION {Range(DoneAbove(m.parent[f], S)) :
                        f \in {x \in entered \ {Root} : m.type[x] = "final"}}
<1> DEFINE I == {x \in entered \ {Root} : m.type[x] = "final"}
           s == [f \in I |-> DoneAbove(m.parent[f], S)]
<1>1. I \in SUBSET Nodes
  OBVIOUS
<1>2. \A f \in I : s[f] = DoneAbove(m.parent[f], S) /\ s[f] \in Seq(Event)
  <2> SUFFICES ASSUME NEW f \in I PROVE DoneAbove(m.parent[f], S) \in Seq(Event)
    OBVIOUS
  <2>1. m.parent[f] \in Nodes
    BY NodesAreNumbers
  <2> QED
    BY <2>1, DoneAboveIsSeq
<1>3. s \in [I -> Seq(Event)]
  BY <1>2
<1>4. DoneEvents(entered, S) = Distinct(InOrder(s))
  BY DEF DoneEvents
<1> HIDE DEF s
<1>5. {Range(s[f]) : f \in I} = {Range(DoneAbove(m.parent[f], S)) : f \in I}
  BY <1>2
<1> HIDE DEF I
<1>6. InOrder(s) \in Seq(Event) /\ Range(InOrder(s)) = UNION {Range(s[f]) : f \in I}
  BY <1>1, <1>3, InOrderIsSeq
<1>7. Distinct(InOrder(s)) \in Seq(Event) /\ Range(Distinct(InOrder(s))) = Range(InOrder(s))
  BY <1>6, DistinctIsSeq
<1> QED
  BY <1>4, <1>5, <1>6, <1>7 DEF I

\* What is entered are states of the machine.
LEMMA GoalsAreNodes ==
    ASSUME Chart, NEW x \in Nodes, NEW hh \in [History -> SUBSET Nodes]
    PROVE  Goals(x, hh) \subseteq Nodes
<1>1. CASE x \notin History
  BY <1>1 DEF Goals
<1>2. CASE x \in History
  <2>1. m.type[Root] \in {"compound", "parallel"}
    BY DEF Chart, IsChart
  <2>2. x # Root
    BY <1>2, <2>1 DEF History
  <2>3. m.parent[x] \in Nodes
    BY <2>2, NodesAreNumbers
  <2>4. \A n \in Nodes : m.initial[n] = NoNode \/ m.initial[n] \in Nodes
    <3>1. \A n \in Nodes : IF m.type[n] = "compound" THEN m.initial[n] \in Nodes
                           ELSE m.initial[n] = NoNode
      BY DEF Chart, IsChart, Nodes
    <3> QED
      BY <3>1
  <2>5. \A n \in Nodes : m.default[n] = NoNode \/ m.default[n] \in Nodes
    BY DEF Chart, IsChart, Nodes
  <2>6. Resolved(m.initial[m.parent[x]]) \in Nodes \cup {NoNode}
    BY <2>3, <2>4, <2>5 DEF Resolved, History
  <2>7. hh[x] \subseteq Nodes
    BY <1>2
  <2>8. CASE hh[x] # {}
    BY <1>2, <2>7, <2>8 DEF Goals
  <2>9. CASE hh[x] = {} /\ m.default[x] # NoNode
    <3>1. Goals(x, hh) = {m.default[x]}
      BY <1>2, <2>9 DEF Goals
    <3> QED
      BY <2>5, <2>9, <3>1
  <2>10. CASE hh[x] = {} /\ m.default[x] = NoNode
    <3>1. Goals(x, hh) = {Resolved(m.initial[m.parent[x]])} \ {NoNode}
      BY <1>2, <2>10 DEF Goals
    <3> QED
      BY <2>6, <3>1
  <2> QED
    BY <2>8, <2>9, <2>10
<1> QED
  BY <1>1, <1>2

\* So is all that the targets of transitions ask for.
LEMMA EntryIsOfNodes ==
    ASSUME Behaved, NEW sel, NEW n \in Nat, sel \in [1 .. n -> Trans],
           NEW hh \in [History -> SUBSET Nodes]
    PROVE  Targeted(Requests(sel, hh)) \subseteq Nodes
<1>1. Chart
  BY DEF Behaved
<1>2. ASSUME NEW r \in Requests(sel, hh) PROVE r.node \in Nodes
  <2>1. PICK i \in DOMAIN sel : \E x \in Targets(sel[i]) : r.node = x \/ r.node \in Goals(x, hh)
    BY RequestsAreGoals
  <2>2. PICK x \in Targets(sel[i]) : r.node = x \/ r.node \in Goals(x, hh)
    BY <2>1
  <2>3. m.trans[sel[i]].targets \in Seq(Nodes)
    BY ActsOfMachine
  <2>4. x \in Nodes
    <3>1. \E j \in DOMAIN m.trans[sel[i]].targets : x = m.trans[sel[i]].targets[j]
      BY DEF Targets, Range
    <3> QED
      BY <2>3, <3>1
  <2> QED
    BY <1>1, <2>2, <2>4, GoalsAreNodes
<1>3. ASSUME NEW r \in Requests(sel, hh) PROVE Chain(r.stop, m.parent[r.node]) \subseteq Nodes
  <2>1. m.parent[r.node] \in Nodes \cup {NoNode}
    BY <1>1, <1>2, NodesAreNumbers
  <2>2. m.parent[r.node] # NoNode => m.up[m.parent[r.node]] \subseteq Nodes
    BY <1>1, <2>1, Ancestors
  <2> QED
    BY <2>1, <2>2 DEF Chain
<1>4. \A x : Descent(x) \subseteq Nodes
  BY DEF Descent, DescentFrom
<1>5. Expanded(Requests(sel, hh)) \subseteq Requests(sel, hh)
  BY DEF Expanded
<1> QED
  BY <1>3, <1>4, <1>5 DEF Targeted

\* The initial actions of a parent run only on the way to a child.
LEMMA RootIsNoInitial ==
    ASSUME NEW rs, NEW S
    PROVE  /\ Root \notin ViaInitial(rs, S)
           /\ \A x, b : Root \notin InitialsOf(x, b)
<1>1. \A x, b : Root \notin InitialsOf(x, b)
  BY DEF InitialsOf
<1> QED
  BY <1>1 DEF ViaInitial

\* The children that are spawned are of states that are entered.
LEMMA SpawnedIsTyped ==
    ASSUME Chart, NEW kids \in [ChildIds -> Nodes \cup {NoNode}], NEW gone,
           NEW entered \in SUBSET Nodes
    PROVE  Spawned(kids, gone, entered) \in [ChildIds -> Nodes \cup {NoNode}]
<1> SUFFICES ASSUME NEW id \in ChildIds
             PROVE  Spawned(kids, gone, entered)[id] \in Nodes \cup {NoNode}
  BY DEF Spawned
<1> DEFINE by == {n \in entered : id \in m.invokes[n]}
           now == Spawned(kids, gone, entered)[id]
<1>1. now = CASE by # {} -> Max(by)
              [] by = {} /\ (\E n \in gone : id \in m.invokes[n]) -> NoNode
              [] OTHER -> kids[id]
  BY DEF Spawned
<1>2. by \in SUBSET Nodes
  OBVIOUS
<1> HIDE DEF by, now
<1>3. by # {} => Max(by) \in Nodes
  BY <1>2, GreatestNode
<1>4. now \in Nodes \cup {NoNode}
  BY <1>1, <1>3
<1> QED
  BY <1>4 DEF now

\* What a macrostep falls back to has the types of what it changes.
SavedTypeOK ==
    /\ saved.cfg \subseteq Nodes
    /\ saved.hist \in [History -> SUBSET Nodes]
    /\ saved.ctx \in BOOLEAN
    /\ saved.armed \subseteq m.delayed
    /\ saved.children \in [ChildIds -> Nodes \cup {NoNode}]

\* What a microstep reads and what it writes, without the loop around it.
SnapTypeOK ==
    /\ cfg \subseteq Nodes
    /\ hist \in [History -> SUBSET Nodes]
    /\ ctx \in BOOLEAN
    /\ armed \subseteq m.delayed
    /\ children \in [ChildIds -> Nodes \cup {NoNode}]

\* Inductive: the types, and those of what a throw falls back to.
TypeInv == TypeOK /\ SavedTypeOK

\* A machine that runs is one of Charts.
LEMMA MachinesBehave ==
    ASSUME m \in Range(Charts)
    PROVE  Behaved
<1>1. PICK i \in DOMAIN Charts : m = Charts[i]
  BY DEF Range
<1> QED
  BY <1>1, ChartsAssumption, ActsAssumption DEF Behaved, Chart

\* The types of what the types are made of, after a step.
LEMMA SameTypes ==
    ASSUME m' = m
    PROVE  /\ SnapTypeOK' = (/\ cfg' \subseteq Nodes
                             /\ hist' \in [History -> SUBSET Nodes]
                             /\ ctx' \in BOOLEAN
                             /\ armed' \subseteq m.delayed
                             /\ children' \in [ChildIds -> Nodes \cup {NoNode}])
           /\ Nodes' = Nodes /\ History' = History
<1>1. Nodes' = Nodes /\ History' = History
  BY DEF Nodes, History
<1> QED
  BY <1>1 DEF SnapTypeOK

\* A microstep keeps the types.
LEMMA MicrostepTypes ==
    ASSUME Behaved, SnapTypeOK, m' = m, NEW e, NEW rest \in Seq(Event),
           Microstep(Selected(e), rest)
    PROVE  SnapTypeOK' /\ q' \in Seq(Event)
<1> DEFINE sel == Selected(e)
           rs == Requests(sel, Recorded(sel))
           before == Kept(sel) \cup Targeted(rs)
           next == Completion(before)
           entered == next \ Kept(sel)
           done == DoneEvents(entered, next)
<1>1. Chart /\ cfg \subseteq Nodes
  BY DEF Behaved, SnapTypeOK
<1>2. PICK n \in Nat : sel \in [1 .. n -> Trans]
  <2>1. PICK n \in Nat : DOMAIN sel = 1 .. n /\ \A i \in DOMAIN sel : sel[i] \in Trans
    BY <1>1, SelectedAreApart
  <2>2. sel = [i \in DOMAIN sel |-> sel[i]]
    BY DEF Selected, Survivors, Pick
  <2> HIDE DEF sel
  <2> QED
    BY <2>1, <2>2
<1>3. /\ cfg' = next
      /\ hist' = Recorded(sel)
      /\ q' = rest \o ExitRaises(Exited(sel)) \o TransitionRaises(sel)
                \o EntryRaises(entered, ViaInitial(rs, before)) \o done
      /\ armed' = Armed(Exited(sel), entered)
      /\ children' = Spawned(children, Exited(sel), entered)
      /\ ctx' \in IF Writes(sel) THEN BOOLEAN ELSE {ctx}
  BY MicrostepEffects
<1> HIDE DEF sel
<1>4. Recorded(sel) \in [History -> SUBSET Nodes]
  <2>1. \A h \in History : Record(h) \subseteq Nodes
    BY <1>1 DEF Record, Atomic, Children
  <2> QED
    BY <2>1 DEF Recorded, SnapTypeOK
<1>5. Targeted(rs) \subseteq Nodes
  BY <1>2, <1>4, EntryIsOfNodes
<1> HIDE DEF rs
<1>6. before \subseteq Nodes
  BY <1>1, <1>5 DEF Kept
<1> HIDE DEF before
<1>7. next \subseteq Nodes
  BY <1>6 DEF Completion, Descent, DescentFrom
<1> HIDE DEF next
<1>8. entered \subseteq Nodes /\ Exited(sel) \subseteq Nodes
  BY <1>1, <1>7 DEF Exited, ExitSetOf
<1> HIDE DEF entered
<1>9. /\ ExitRaises(Exited(sel)) \in Seq(Event) /\ TransitionRaises(sel) \in Seq(Event)
      /\ EntryRaises(entered, ViaInitial(rs, before)) \in Seq(Event)
  <2>1. Root \notin ViaInitial(rs, before)
    BY RootIsNoInitial
  <2> DEFINE via == ViaInitial(rs, before)
             gone == Exited(sel)
  <2> HIDE DEF via, gone
  <2>2. Root \notin via /\ gone \in SUBSET Nodes /\ entered \in SUBSET Nodes
    BY <1>8, <2>1 DEF via, gone
  <2>3. /\ ExitRaises(gone) \in Seq(Event) /\ TransitionRaises(sel) \in Seq(Event)
        /\ EntryRaises(entered, via) \in Seq(Event)
    BY <1>2, <2>2, RaisesAreEvents
  <2> QED
    BY <2>3 DEF via, gone
<1>10. done \in Seq(Event)
  BY <1>1, <1>8, DoneEventsAreSeq
<1>11. q' \in Seq(Event)
  <2>1. ASSUME NEW a \in Seq(Event), NEW b \in Seq(Event), NEW c \in Seq(Event), NEW d \in Seq(Event)
        PROVE  rest \o a \o b \o c \o d \in Seq(Event)
    OBVIOUS
  <2> HIDE DEF done
  <2> QED
    BY <1>3, <1>9, <1>10, <2>1
<1>12. armed' \subseteq m.delayed
  BY <1>3 DEF Armed, SnapTypeOK
<1>13. children' \in [ChildIds -> Nodes \cup {NoNode}]
  BY <1>1, <1>3, <1>8, SpawnedIsTyped DEF SnapTypeOK
<1>14. ctx' \in BOOLEAN
  BY <1>3 DEF SnapTypeOK
<1> QED
  BY <1>3, <1>4, <1>7, <1>11, <1>12, <1>13, <1>14, SameTypes

\* An event that is handled keeps the types.
LEMMA HandleTypes ==
    ASSUME TypeInv, m' = m, due' \subseteq m.delayed,
           NEW e, Handle(e), phase = "idle", status = "active"
    PROVE  TypeInv'
<1>1. CASE Selected(e) = <<>>
  <2>1. UNCHANGED <<cfg, hist, ctx, status, armed, children, control>>
    BY <1>1 DEF Handle, Answer
  <2>2. Nodes' = Nodes /\ History' = History
    BY SameTypes
  <2> QED
    BY <2>1, <2>2 DEF TypeInv, TypeOK, SavedTypeOK, control
<1>2. CASE Selected(e) # <<>>
  <2>1. Microstep(Selected(e), <<>>) /\ BeginSettling
    BY <1>2 DEF Handle, Answer
  <2>2. Behaved /\ SnapTypeOK /\ <<>> \in Seq(Event)
    BY MachinesBehave DEF TypeInv, TypeOK, SnapTypeOK
  <2>3. SnapTypeOK' /\ q' \in Seq(Event)
    BY <2>1, <2>2, MicrostepTypes
  <2>4. status' \in {"active", "done"}
    BY <2>1, MicrostepStatus
  <2>5. SavedTypeOK'
    <3>1. /\ saved'.cfg = cfg /\ saved'.hist = hist /\ saved'.ctx = ctx
          /\ saved'.armed = armed /\ saved'.children = children
      BY <2>1 DEF BeginSettling, Committed
    <3>2. Nodes' = Nodes /\ History' = History /\ m' = m
      BY SameTypes
    <3> QED
      BY <3>1, <3>2 DEF TypeInv, TypeOK, SavedTypeOK
  <2>6. phase' = "running" /\ always' = TRUE /\ steps' = 0
    BY <2>1 DEF BeginSettling
  <2>7. 0 \in 0 .. StepLimit
    BY StepLimitAssumption
  <2> QED
    BY <2>3, <2>4, <2>5, <2>6, <2>7 DEF TypeInv, TypeOK, SnapTypeOK
<1> QED
  BY <1>1, <1>2

\* So does a round of the loop that settles a machine.
LEMMA SettlingTypes ==
    ASSUME TypeInv, EventlessStep \/ RaisedStep
    PROVE  TypeInv'
<1>1. /\ UNCHANGED <<m, due, phase, saved>> /\ status = "active"
      /\ steps < StepLimit /\ steps' = steps + 1
  BY DEF EventlessStep, RaisedStep, Settling
<1>2. Behaved /\ SnapTypeOK /\ q \in Seq(Event)
  BY MachinesBehave DEF TypeInv, TypeOK, SnapTypeOK
<1>3. /\ SnapTypeOK' /\ q' \in Seq(Event) /\ status' \in {"active", "done"}
      /\ always' \in BOOLEAN
  <2>1. CASE EventlessStep
    <3>1. Microstep(Selected(Eventless), q) /\ always' = Progress(Selected(Eventless))
      BY <2>1 DEF EventlessStep
    <3>2. SnapTypeOK' /\ q' \in Seq(Event)
      BY <1>1, <1>2, <3>1, MicrostepTypes
    <3>3. always' \in BOOLEAN
      BY <3>1 DEF Progress
    <3> QED
      BY <3>1, <3>2, <3>3, MicrostepStatus
  <2>2. CASE RaisedStep
    <3>1. /\ always' = TRUE /\ q # <<>>
          /\ \/ q' = Tail(q) /\ UNCHANGED <<cfg, hist, ctx, status, armed, children>>
             \/ Microstep(Selected(Head(q)), Tail(q))
      BY <2>2 DEF RaisedStep
    <3>2. Tail(q) \in Seq(Event)
      BY <1>2, <3>1
    <3>3. CASE q' = Tail(q) /\ UNCHANGED <<cfg, hist, ctx, status, armed, children>>
      BY <1>1, <1>2, <3>1, <3>2, <3>3, SameTypes DEF SnapTypeOK
    <3>4. CASE Microstep(Selected(Head(q)), Tail(q))
      <4>1. SnapTypeOK' /\ q' \in Seq(Event)
        BY <1>1, <1>2, <3>2, <3>4, MicrostepTypes
      <4> QED
        BY <3>1, <3>4, <4>1, MicrostepStatus
    <3> QED
      BY <3>1, <3>3, <3>4
  <2> QED
    BY <2>1, <2>2
<1>4. steps' \in 0 .. StepLimit
  BY <1>1, StepLimitAssumption DEF TypeInv, TypeOK
<1>5. Nodes' = Nodes /\ History' = History
  BY <1>1, SameTypes
<1> QED
  BY <1>1, <1>3, <1>4, <1>5 DEF TypeInv, TypeOK, SavedTypeOK, SnapTypeOK

\* Every step keeps the types.
LEMMA TypeStep ==
    ASSUME TypeInv, [Next]_vars
    PROVE  TypeInv'
<1>1. m' = m
  BY DEF Next, Start, Receive, ReceiveAfter, EventlessStep, RaisedStep, Settle, Finish,
         UserCodeThrows, TooManySteps, Throw, Stop, Fire, vars
<1>2. /\ Nodes' = Nodes /\ History' = History
      /\ Behaved /\ SnapTypeOK /\ 0 \in 0 .. StepLimit
  BY <1>1, SameTypes, MachinesBehave, StepLimitAssumption DEF TypeInv, TypeOK, SnapTypeOK
<1>3. <<>> \in Seq(Event)
  OBVIOUS
<1>4. ASSUME Rest
      PROVE  SavedTypeOK' /\ phase' = "idle" /\ q' \in Seq(Event) /\ always' = TRUE
             /\ steps' \in 0 .. StepLimit
  <2>1. /\ NotStarted.cfg = {} /\ NotStarted.hist = [h \in History |-> {}]
        /\ NotStarted.ctx = FALSE /\ NotStarted.armed = {}
        /\ NotStarted.children = [id \in ChildIds |-> NoNode]
    BY DEF NotStarted
  <2>2. saved' = NotStarted /\ phase' = "idle" /\ q' = <<>> /\ always' = TRUE /\ steps' = 0
    BY <1>4 DEF Rest
  <2>3. SavedTypeOK'
    BY <1>1, <1>2, <2>1, <2>2 DEF SavedTypeOK
  <2> QED
    BY <1>2, <1>3, <2>2, <2>3
<1>5. CASE Start
  <2> DEFINE entered == Descent(Root)
             done == DoneEvents(entered, entered)
             via == InitialsOf(Root, FALSE)
  <2>1. /\ cfg' = entered /\ UNCHANGED <<m, hist, ctx, due>>
        /\ q' = EntryRaises(entered, via) \o done
        /\ status' \in {"active", "done"}
        /\ armed' = Armed({}, entered)
        /\ children' = Spawned(children, {}, entered)
        /\ BeginSettling
    BY <1>5 DEF Start
  <2>2. Chart
    BY <1>2 DEF Behaved
  <2>3. entered \in SUBSET Nodes
    BY DEF Descent, DescentFrom
  <2> HIDE DEF entered
  <2>4. EntryRaises(entered, via) \in Seq(Event)
    <3>1. Root \notin via
      BY RootIsNoInitial
    <3> HIDE DEF via
    <3> DEFINE none == [i \in 1 .. 0 |-> i]
    <3>2. none \in [1 .. 0 -> Trans] /\ {} \in SUBSET Nodes
      OBVIOUS
    <3> HIDE DEF none
    <3> QED
      BY <1>2, <2>3, <3>1, <3>2, RaisesAreEvents
  <2>5. done \in Seq(Event)
    BY <2>2, <2>3, DoneEventsAreSeq
  <2>6. q' \in Seq(Event)
    <3> HIDE DEF done, via
    <3> QED
      BY <2>1, <2>4, <2>5
  <2>7. children' \in [ChildIds -> Nodes \cup {NoNode}]
    <3>1. children \in [ChildIds -> Nodes \cup {NoNode}]
      BY <1>2 DEF SnapTypeOK
    <3> QED
      BY <2>1, <2>2, <2>3, <3>1, SpawnedIsTyped
  <2>8. armed' \subseteq m.delayed
    BY <1>2, <2>1 DEF Armed, SnapTypeOK
  <2>9. SavedTypeOK'
    <3>1. /\ saved'.cfg = cfg /\ saved'.hist = hist /\ saved'.ctx = ctx
          /\ saved'.armed = armed /\ saved'.children = children
      BY <2>1 DEF BeginSettling, Committed
    <3> QED
      BY <1>1, <1>2, <3>1 DEF SnapTypeOK, SavedTypeOK
  <2>10. phase' = "running" /\ always' = TRUE /\ steps' = 0
    BY <2>1 DEF BeginSettling
  <2> QED
    BY <1>1, <1>2, <2>1, <2>3, <2>6, <2>7, <2>8, <2>9, <2>10 DEF TypeInv, TypeOK, SnapTypeOK
<1>6. CASE Receive
  <2>1. due' \subseteq m.delayed
    BY <1>6 DEF Receive, TypeInv, TypeOK
  <2> QED
    BY <1>1, <1>6, <2>1, HandleTypes DEF Receive
<1>7. CASE ReceiveAfter
  <2>1. PICK n \in due :
          /\ due' = due \ {n}
          /\ IF status = "active" THEN Handle(After(n))
             ELSE UNCHANGED <<cfg, hist, ctx, status, armed, children, control>>
    BY <1>7 DEF ReceiveAfter
  <2>2. CASE status # "active"
    BY <1>1, <1>2, <2>1, <2>2 DEF control, TypeInv, TypeOK, SavedTypeOK
  <2>3. CASE status = "active"
    <3>1. phase = "idle" /\ Handle(After(n))
      BY <1>7, <2>1, <2>3 DEF ReceiveAfter
    <3>2. due' \subseteq m.delayed
      BY <2>1 DEF TypeInv, TypeOK
    <3> QED
      BY <1>1, <2>1, <2>3, <3>1, <3>2, HandleTypes
  <2> QED
    BY <2>2, <2>3
<1>8. CASE EventlessStep \/ RaisedStep
  BY <1>8, SettlingTypes
<1>9. CASE Settle
  BY <1>1, <1>2, <1>4, <1>9 DEF Settle, TypeInv, TypeOK
<1>10. CASE Finish
  <2>1. children' = Spawned(children, cfg, {})
    BY <1>10 DEF Finish
  <2>2. children' \in [ChildIds -> Nodes \cup {NoNode}]
    <3>1. children \in [ChildIds -> Nodes \cup {NoNode}] /\ {} \in SUBSET Nodes /\ Chart
      BY <1>2 DEF SnapTypeOK, Behaved
    <3> QED
      BY <2>1, <3>1, SpawnedIsTyped
  <2> QED
    BY <1>1, <1>2, <1>4, <1>10, <2>2 DEF Finish, TypeInv, TypeOK
<1>11. CASE Throw
  BY <1>1, <1>2, <1>4, <1>11 DEF Throw, TypeInv, TypeOK, SavedTypeOK
<1>12. CASE UserCodeThrows \/ TooManySteps
  <2>1. CASE ~Throw
    BY <1>1, <1>2, <1>12, <2>1 DEF UserCodeThrows, TooManySteps, control, TypeInv, TypeOK, SavedTypeOK
  <2> QED
    BY <1>11, <2>1
<1>13. CASE Fire
  <2>1. PICK n \in armed \ due : armed' = armed \ {n} /\ due' = due \cup {n}
    BY <1>13 DEF Fire
  <2> QED
    BY <1>1, <1>2, <1>13, <2>1 DEF Fire, control, TypeInv, TypeOK, SavedTypeOK
<1>14. CASE Stop
  BY <1>1, <1>2, <1>14 DEF Stop, control, TypeInv, TypeOK, SavedTypeOK
<1>15. CASE UNCHANGED vars
  BY <1>1, <1>2, <1>15 DEF vars, control, TypeInv, TypeOK, SavedTypeOK
<1> QED
  BY <1>5, <1>6, <1>7, <1>8, <1>9, <1>10, <1>12, <1>13, <1>14, <1>15 DEF Next

\* A machine that has not started has them.
LEMMA TypesInit ==
    ASSUME Init
    PROVE  TypeInv
<1>1. 0 \in 0 .. StepLimit /\ <<>> \in Seq(Event)
  BY StepLimitAssumption
<1>2. /\ NotStarted.cfg = {} /\ NotStarted.hist = [h \in History |-> {}]
      /\ NotStarted.ctx = FALSE /\ NotStarted.armed = {}
      /\ NotStarted.children = [id \in ChildIds |-> NoNode]
  BY DEF NotStarted
<1> QED
  BY <1>1, <1>2 DEF Init, TypeInv, TypeOK, SavedTypeOK

\* The types are kept, and with them those of what a throw falls back to.
LEMMA TypesAlways == Spec => []TypeInv
<1>1. TypeInv /\ [Next]_vars => TypeInv'
  BY TypeStep
<1> QED
  BY <1>1, TypesInit, PTL DEF Spec

\* The types hold for all machines, orderly or not: whatever the targets of the
\* transitions taken, what is entered are states of the machine, what is raised
\* are events, timers are of delayed states, and the loop stops at its limit.
THEOREM TypesAreKept == Spec => []TypeOK
<1>1. TypeInv => TypeOK
  BY DEF TypeInv
<1> QED
  BY <1>1, TypesAlways, PTL

-----------------------------------------------------------------------------
(* Coming to rest *)

\* Which transitions a machine waits with does not change while its
\* configuration stays and no guard among them sees the context change.
Unmoved ==
    /\ m' = m /\ cfg' = cfg
    /\ \/ ctx' = ctx
       \/ \A t \in Trans : m.trans[t].event = Eventless =>
                              m.trans[t].guard.kind \notin {"ctx", "unless"}

\* The states answer the eventless event as before ...
LEMMA AnswersStay ==
    ASSUME Behaved, Unmoved, NEW n
    PROVE  Bubble(n, Eventless)' = Bubble(n, Eventless)
<1>1. Trans' = Trans /\ m' = m /\ cfg' = cfg
  BY DEF Unmoved, Trans
<1>2. ASSUME NEW t \in Trans, m.trans[t].event = Eventless
      PROVE  Holds(m.trans[t].guard)' <=> Holds(m.trans[t].guard)
  <2>1. m.trans[t] \in Transition(Nodes)
    BY DEF Behaved, Acts, Trans, Nodes
  <2> DEFINE g == m.trans[t].guard
  <2>2. g.kind \in {"none", "ctx", "unless", "in", "notIn"}
    BY <2>1 DEF Transition
  <2>3. g' = g /\ (ctx' = ctx \/ g.kind \notin {"ctx", "unless"})
    BY <1>1, <1>2 DEF Unmoved
  <2> HIDE DEF g
  <2>4. CASE g.kind \in {"none", "in", "notIn"}
    BY <1>1, <2>3, <2>4 DEF Holds
  <2>5. CASE g.kind \in {"ctx", "unless"}
    <3>1. ctx' = ctx
      BY <2>3, <2>5
    <3>2. CASE g.kind = "ctx"
      <4>1. (Holds(g) <=> ctx) /\ (Holds(g)' <=> ctx')
        BY <2>3, <3>2 DEF Holds
      <4> QED
        BY <2>3, <3>1, <4>1 DEF g
    <3>3. CASE g.kind = "unless"
      <4>1. (Holds(g) <=> ~ctx) /\ (Holds(g)' <=> ~ctx')
        BY <2>3, <3>3 DEF Holds
      <4> QED
        BY <2>3, <3>1, <4>1 DEF g
    <3> QED
      BY <2>5, <3>2, <3>3
  <2> QED
    BY <2>2, <2>4, <2>5 DEF g
<1>3. ASSUME NEW a PROVE SelectForNode(a, Eventless)' = SelectForNode(a, Eventless)
  <2>1. Enabled(a, Eventless)' = Enabled(a, Eventless)
    BY <1>1, <1>2 DEF Enabled
  <2>2. SelectForNode(a, Eventless) = Else(First(Enabled(a, Eventless)), NoTransition)
    BY DEF SelectForNode
  <2>3. SelectForNode(a, Eventless)' = Else(First(Enabled(a, Eventless)'), NoTransition)
    BY DEF SelectForNode, Eventless
  <2> QED
    BY <2>1, <2>2, <2>3
<1>4. Bubble(n, Eventless) = Deepest([a \in m.up[n] |-> SelectForNode(a, Eventless)])
  BY DEF Bubble
<1>5. Bubble(n, Eventless)' = Deepest([a \in m.up[n] |-> SelectForNode(a, Eventless)'])
  BY <1>1 DEF Bubble
<1>6. [a \in m.up[n] |-> SelectForNode(a, Eventless)'] = [a \in m.up[n] |-> SelectForNode(a, Eventless)]
  BY <1>3
<1> QED
  BY <1>4, <1>5, <1>6

\* ... so the same transitions are candidates ...
LEMMA CandidatesStay ==
    ASSUME Behaved, Unmoved
    PROVE  Candidates(Eventless)' = Candidates(Eventless)
<1>1. m' = m /\ cfg' = cfg
  BY DEF Unmoved
<1>2. Atomic' = Atomic
  BY <1>1 DEF Atomic, Children, Nodes
<1> DEFINE leaves == Sorted(Atomic)
           picks == [i \in DOMAIN leaves |-> Bubble(leaves[i], Eventless)]
           Free(s) == {i \in DOMAIN s : s[i] # NoTransition /\ ~m.trans[s[i]].forbidden}
<1>3. leaves' = leaves
  BY <1>2
<1> HIDE DEF leaves
<1>4. picks' = picks
  <2>1. \A i \in DOMAIN leaves : Bubble(leaves[i], Eventless)' = Bubble(leaves[i], Eventless)
    <3> SUFFICES ASSUME NEW i \in DOMAIN leaves
                 PROVE  Bubble(leaves[i], Eventless)' = Bubble(leaves[i], Eventless)
      BY <1>3
    <3>1. ASSUME NEW n PROVE Bubble(n, Eventless)' = Bubble(n, Eventless)
      BY AnswersStay
    <3>2. PICK n : n = leaves[i]
      OBVIOUS
    <3>3. leaves'[i] = n
      BY <1>3, <3>2
    <3> QED
      BY <3>1, <3>2, <3>3
  <2> QED
    BY <1>3, <2>1
<1>5. Candidates(Eventless) = Distinct(Pick(picks, Free(picks)))
  BY DEF Candidates, leaves
<1>6. Candidates(Eventless)' = Distinct(Pick(picks', {i \in DOMAIN picks' :
          picks'[i] # NoTransition /\ ~m.trans[picks'[i]].forbidden}))
  BY <1>1 DEF Candidates, leaves
<1> QED
  BY <1>4, <1>5, <1>6

\* ... and the same are selected.
LEMMA SelectionStays ==
    ASSUME Behaved, Unmoved
    PROVE  Selected(Eventless)' = Selected(Eventless)
<1>1. m' = m /\ cfg' = cfg /\ Nodes' = Nodes
  BY DEF Unmoved, Nodes
<1>2. ASSUME NEW t PROVE TransitionDomain(t)' = TransitionDomain(t)
  BY <1>1 DEF TransitionDomain, Covers, Below
<1>3. ASSUME NEW t PROVE ExitSetOf(t)' = ExitSetOf(t)
  <2>1. TransitionDomain(t)' = TransitionDomain(t)
    BY <1>2
  <2> QED
    BY <1>1, <2>1 DEF ExitSetOf, Below
<1>4. ASSUME NEW t, NEW u
      PROVE  /\ Conflict(t, u)' <=> Conflict(t, u)
             /\ Preempts(t, u)' <=> Preempts(t, u)
  <2>1. ExitSetOf(t)' = ExitSetOf(t) /\ ExitSetOf(u)' = ExitSetOf(u)
    BY <1>3
  <2> QED
    BY <1>1, <2>1 DEF Conflict, Preempts, Below
<1> DEFINE cands == Candidates(Eventless)
           Pairs == (DOMAIN cands) \X (DOMAIN cands)
           clash == {p \in Pairs : Conflict(cands[p[1]], cands[p[2]])}
           wins == {p \in Pairs : Preempts(cands[p[1]], cands[p[2]])}
<1>5. cands' = cands
  BY CandidatesStay
<1> HIDE DEF cands
<1>6. clash' = clash /\ wins' = wins
  <2>1. Pairs' = Pairs
    BY <1>5
  <2> HIDE DEF Pairs
  <2>2. ASSUME NEW p \in Pairs
        PROVE  /\ Conflict(cands[p[1]], cands[p[2]])' <=> Conflict(cands[p[1]], cands[p[2]])
               /\ Preempts(cands[p[1]], cands[p[2]])' <=> Preempts(cands[p[1]], cands[p[2]])
    <3>1. PICK t, u : t = cands[p[1]] /\ u = cands[p[2]]
      OBVIOUS
    <3>2. t = cands'[p[1]] /\ u = cands'[p[2]]
      BY <1>5, <3>1
    <3>3. /\ Conflict(t, u)' <=> Conflict(t, u)
          /\ Preempts(t, u)' <=> Preempts(t, u)
      BY <1>4
    <3> QED
      BY <3>1, <3>2, <3>3
  <2> QED
    BY <2>1, <2>2
<1>7. Selected(Eventless) = Pick(cands, ResolveAll(Len(cands), clash, wins))
  BY DEF Selected, Survivors, cands
<1>8. Selected(Eventless)' = Pick(cands', ResolveAll(Len(cands'), clash', wins'))
  BY DEF Selected, Survivors, cands
<1> HIDE DEF clash, wins
<1> QED
  BY <1>5, <1>6, <1>7, <1>8

\* What is still enabled has no target and assigns nothing.
Quiet == \A t \in Range(Selected(Eventless)) :
            m.trans[t].targets = <<>> /\ m.trans[t].act # "assign"

\* A machine at rest has answered everything; so has the eventless loop of a
\* running one once it has stopped.
RestInv ==
    /\ phase = "idle" => q = <<>>
    /\ status = "active" /\ (phase = "idle" \/ ~always) => Quiet

\* No other event happens, so the machine stays as it is.
LEMMA QuietStays ==
    ASSUME Behaved, Quiet, m' = m, cfg' = cfg, ctx' = ctx
    PROVE  Quiet'
<1>1. Selected(Eventless)' = Selected(Eventless)
  BY SelectionStays DEF Unmoved
<1> QED
  BY <1>1 DEF Quiet

\* A transition with targets leaves a state: that makes progress.
LEMMA TargetsAreProgress ==
    ASSUME Chart, Orderly(m), Legal(cfg), NEW sel, Sound(sel), Exited(sel) = {}
    PROVE  \A i \in DOMAIN sel : m.trans[sel[i]].targets = <<>>
<1> SUFFICES ASSUME NEW i \in DOMAIN sel, m.trans[sel[i]].targets # <<>> PROVE FALSE
  OBVIOUS
<1> DEFINE t == sel[i]
<1>1. t \in Trans /\ m.trans[t].source \in cfg
  BY DEF Sound
<1>2. TransitionDomain(t) # Root \/ Children(TransitionDomain(t)) \ History # {}
        => ExitSetOf(t) # {}
  BY <1>1, Domains
<1>3. ExitSetOf(t) = {}
  BY DEF Exited, Range
<1>4. Children(Root) \ History # {}
  <2>1. PICK c \in Nodes : m.parent[c] = Root
    BY DEF Chart, IsChart, Nodes
  <2>2. m.type[Root] \in {"compound", "parallel"} /\ Root \in Nodes
    BY NodesAreNumbers DEF Chart, IsChart
  <2>3. CASE m.type[Root] = "compound"
    BY <2>2, <2>3, InitialChild
  <2>4. CASE m.type[Root] = "parallel"
    <3>1. c # Root
      BY <2>1, NodesAreNumbers
    <3>2. c \notin History
      <4>1. c \in History => m.type[m.parent[c]] = "compound"
        BY DEF Orderly, History, Nodes
      <4> QED
        BY <2>1, <2>4, <4>1
    <3> QED
      BY <2>1, <3>2 DEF Children
  <2> QED
    BY <2>2, <2>3, <2>4
<1> QED
  BY <1>2, <1>3, <1>4

\* What is selected was a candidate, and answers the event.
LEMMA SelectedAreEventless ==
    Chart /\ Closed(cfg) =>
        \A t \in Range(Selected(Eventless)) : t \in Trans /\ m.trans[t].event = Eventless
<1> SUFFICES ASSUME Chart, Closed(cfg), NEW t \in Range(Selected(Eventless))
             PROVE  t \in Trans /\ m.trans[t].event = Eventless
  OBVIOUS
<1> DEFINE cands == Candidates(Eventless)
<1>1. PICK n \in Nat : \E leaf \in [1 .. n -> cfg] :
         /\ DOMAIN cands = 1 .. n /\ Len(cands) = n
         /\ \A i \in 1 .. n : cands[i] = Bubble(leaf[i], Eventless) /\ cands[i] # NoTransition
  BY CandidatesInOrder
<1>2. PICK leaf \in [1 .. n -> cfg] :
         /\ DOMAIN cands = 1 .. n /\ Len(cands) = n
         /\ \A i \in 1 .. n : cands[i] = Bubble(leaf[i], Eventless) /\ cands[i] # NoTransition
  BY <1>1
<1> HIDE DEF cands
<1>3. \E i \in 1 .. n : t = cands[i]
  <2> DEFINE Pairs == (DOMAIN cands) \X (DOMAIN cands)
             clash == {p \in Pairs : Conflict(cands[p[1]], cands[p[2]])}
             wins == {p \in Pairs : Preempts(cands[p[1]], cands[p[2]])}
             I == ResolveAll(n, clash, wins)
  <2>1. Selected(Eventless) = Pick(cands, I)
    BY <1>2 DEF Selected, Survivors, cands
  <2>2. \A a, b : <<a, b>> \in clash => <<b, a>> \in clash
    <3>1. \A a, b : <<a, b>> \in clash <=> /\ a \in DOMAIN cands /\ b \in DOMAIN cands
                                           /\ Conflict(cands[a], cands[b])
      OBVIOUS
    <3> QED
      BY <3>1 DEF Conflict
  <2> HIDE DEF clash, wins
  <2>3. I \subseteq 1 .. n
    BY <2>2, ResolvingKeepsApart
  <2> HIDE DEF I
  <2>4. I \in SUBSET (0 .. n)
    BY <2>3
  <2>5. \A i \in DOMAIN Pick(cands, I) : Pick(cands, I)[i] = cands[Sorted(I)[i]] /\ Sorted(I)[i] \in I
    BY <2>4, PickIsPart
  <2>6. PICK i \in DOMAIN Pick(cands, I) : t = Pick(cands, I)[i]
    BY <2>1 DEF Range
  <2> QED
    BY <2>3, <2>5, <2>6
<1>4. PICK i \in 1 .. n : t = cands[i]
  BY <1>3
<1>5. leaf[i] \in Nodes /\ t = Bubble(leaf[i], Eventless) /\ t # NoTransition
  BY <1>2, <1>4 DEF Closed
<1>6. t \in Trans /\ t = SelectForNode(m.trans[t].source, Eventless)
  BY <1>5, AnswersAreAbove
<1> DEFINE T == Enabled(m.trans[t].source, Eventless)
<1>7. t = First(T)
  BY <1>5, <1>6 DEF SelectForNode, Else
<1>8. T # {} /\ t = Min(T)
  BY <1>5, <1>7 DEF First
<1>9. t \in T
  <2>1. T \in SUBSET Nat
    <3>1. Trans \subseteq Nat
      <4>1. Trans = 1 .. Len(m.trans)
        BY DEF Chart, IsChart, Trans
      <4>2. \A x \in 1 .. Len(m.trans) : x \in Nat
        OBVIOUS
      <4> QED
        BY <4>1, <4>2
    <3> QED
      BY <3>1 DEF Enabled
  <2> HIDE DEF T
  <2> QED
    BY <1>8, <2>1, Smallest
<1> QED
  BY <1>6, <1>9 DEF Enabled

\* No eventless transition does anything that counts.
Still == \A t \in Trans : m.trans[t].event = Eventless =>
                             m.trans[t].targets = <<>> /\ m.trans[t].act # "assign"

\* Then whatever is selected is quiet.
LEMMA StillIsQuiet == Chart /\ Closed(cfg) /\ Still => Quiet
BY SelectedAreEventless DEF Still, Quiet

\* When the eventless loop stops, what is still enabled is quiet.
LEMMA EventlessQuiet ==
    ASSUME Behaved, Orderly(m), Calm(m), Legal(cfg), Memory(hist), EventlessStep, ~always'
    PROVE  Quiet'
<1> DEFINE sel == Selected(Eventless)
           next == Completion(Kept(sel) \cup Targeted(Requests(sel, Recorded(sel))))
<1>1. Chart /\ m' = m /\ Microstep(sel, q) /\ always' = Progress(sel)
  BY DEF EventlessStep, Behaved
<1>2. Sound(sel) /\ Legal(cfg)'
  BY <1>1, MicrostepIsLegal
<1>3. /\ cfg' = next
      /\ last'.exited = Exited(sel) /\ last'.entered = next \ Kept(sel)
      /\ ctx' \in IF Writes(sel) THEN BOOLEAN ELSE {ctx}
  <2> DEFINE done == DoneEvents(next \ Kept(sel), next)
  <2>1. /\ cfg' = next
        /\ last' = [taken |-> sel, exited |-> Exited(sel), entered |-> next \ Kept(sel),
                    done |-> done]
        /\ ctx' \in IF Writes(sel) THEN BOOLEAN ELSE {ctx}
    BY <1>1, MicrostepEffects
  <2> HIDE DEF sel, next, done
  <2> QED
    BY <2>1
<1>4. Kept(sel) \subseteq next
  BY DEF Completion
<1> HIDE DEF sel, next
<1>5. Exited(sel) = {} /\ next \ Kept(sel) = {} /\ ~Assigns(sel)
  BY <1>1, <1>3 DEF Progress
<1>6. cfg' = cfg
  BY <1>3, <1>4, <1>5 DEF Kept
<1>7. \A t \in Range(sel) : m.trans[t].targets = <<>> /\ m.trans[t].act # "assign"
  <2>1. \A i \in DOMAIN sel : m.trans[sel[i]].targets = <<>>
    BY <1>1, <1>2, <1>5, TargetsAreProgress
  <2> QED
    BY <1>5, <2>1 DEF Assigns, Range
<1>8. Quiet
  BY <1>7 DEF Quiet, sel
<1>9. \A t \in Range(sel) : t \in Trans /\ m.trans[t].event = Eventless
  BY <1>1, SelectedAreEventless DEF sel, Legal, Partial
<1>10. CASE \A t \in Trans : m.trans[t].event = Eventless =>
                (m.trans[t].targets = <<>> => m.trans[t].act # "inline")
  <2>1. \A t \in Range(sel) : m.trans[t].act \in {"none", "inline", "assign"}
    BY <1>9 DEF Behaved, Acts, Transition, Trans
  <2>2. ~Writes(sel)
    BY <1>7, <1>9, <1>10, <2>1 DEF Writes
  <2>3. ctx' = ctx
    BY <1>3, <2>2
  <2> QED
    BY <1>1, <1>6, <1>8, <2>3, QuietStays
<1>11. CASE \A t \in Trans : m.trans[t].event = Eventless =>
                m.trans[t].guard.kind \notin {"ctx", "unless"}
  <2>1. Unmoved
    BY <1>1, <1>6, <1>11 DEF Unmoved
  <2>2. Selected(Eventless)' = Selected(Eventless)
    BY <2>1, SelectionStays
  <2> QED
    BY <1>1, <1>8, <2>2 DEF Quiet
<1>12. CASE Still
  <2>1. Still' /\ Chart' /\ Closed(cfg)'
    <3>1. Still'
      BY <1>1, <1>12 DEF Still, Trans
    <3>2. Chart' = Chart
      BY <1>1, SameMachine
    <3>3. Closed(cfg)'
      BY <1>2 DEF Legal, Partial
    <3> QED
      BY <1>1, <3>1, <3>2, <3>3
  <2>2. (Chart /\ Closed(cfg) /\ Still => Quiet)'
    BY StillIsQuiet, PTL
  <2> QED
    BY <2>1, <2>2
<1> QED
  BY <1>10, <1>11, <1>12 DEF Calm, Still, Trans

\* Of the machines it is assumed that they are calm.
CalmCharts == \A i \in DOMAIN Charts : Calm(Charts[i])

\* An event from the mailbox is not answered, or begins a macrostep.
LEMMA HandleRests ==
    ASSUME Behaved, RestInv, UNCHANGED m, NEW e, Handle(e), phase = "idle", status = "active"
    PROVE  RestInv'
<1>1. CASE Selected(e) = <<>>
  <2>1. UNCHANGED <<m, cfg, ctx, status, phase, q, always>>
    BY <1>1 DEF Handle, Answer, control
  <2>2. Quiet'
    BY <2>1, QuietStays DEF RestInv
  <2> QED
    BY <2>1, <2>2 DEF RestInv
<1>2. CASE Selected(e) # <<>>
  BY <1>2 DEF Handle, Answer, BeginSettling, RestInv
<1> QED
  BY <1>1, <1>2

\* Every step keeps a machine at rest quiet.
LEMMA RestStep ==
    ASSUME OrderlyCharts, CalmCharts, LegalInv, RestInv, [Next]_vars
    PROVE  RestInv'
<1>1. Behaved /\ Chart /\ Orderly(m) /\ Calm(m)
  BY MachinesBehave, MachinesAreCharts DEF LegalInv, CalmCharts, Range
<1>2. ASSUME UNCHANGED <<m, cfg, ctx, status, phase, q, always>> PROVE RestInv'
  BY <1>1, <1>2, QuietStays DEF RestInv
<1>3. CASE Start
  BY <1>3 DEF Start, BeginSettling, RestInv
<1>4. CASE Receive
  BY <1>1, <1>4, HandleRests DEF Receive
<1>5. CASE ReceiveAfter
  <2>1. CASE status = "active"
    BY <1>1, <1>5, <2>1, HandleRests DEF ReceiveAfter
  <2>2. CASE status # "active"
    BY <1>2, <1>5, <2>2 DEF ReceiveAfter, control
  <2> QED
    BY <2>1, <2>2
<1>6. CASE EventlessStep
  <2>1. status = "active" /\ phase' = "running"
    BY <1>6 DEF EventlessStep, Settling
  <2>2. Legal(cfg) /\ Memory(hist)
    BY <2>1 DEF LegalInv
  <2>3. ~always' => Quiet'
    BY <1>1, <1>6, <2>2, EventlessQuiet
  <2> QED
    BY <2>1, <2>3 DEF RestInv
<1>7. CASE RaisedStep
  BY <1>7 DEF RaisedStep, Settling, RestInv
<1>8. CASE Settle
  <2>1. /\ phase' = "idle" /\ q' = <<>> /\ UNCHANGED <<m, cfg, ctx, status>>
        /\ status = "active" /\ ~(always /\ Selected(Eventless) # <<>>)
    BY <1>8 DEF Settle, Settling, Rest
  <2>2. Quiet
    <3>1. CASE always
      <4>1. Range(Selected(Eventless)) = {}
        BY <2>1, <3>1 DEF Range
      <4> QED
        BY <4>1 DEF Quiet
    <3>2. CASE ~always
      BY <2>1, <3>2 DEF RestInv
    <3> QED
      BY <3>1, <3>2
  <2>3. Quiet'
    BY <1>1, <2>1, <2>2, QuietStays
  <2> QED
    BY <2>1, <2>3 DEF RestInv
<1>9. CASE Finish
  BY <1>9 DEF Finish, Rest, RestInv
<1>10. CASE Throw
  BY <1>10 DEF Throw, Rest, RestInv
<1>11. CASE UserCodeThrows \/ TooManySteps
  <2>1. CASE ~Throw
    BY <1>11, <2>1 DEF UserCodeThrows, TooManySteps, control, RestInv
  <2> QED
    BY <1>10, <2>1
<1>12. CASE Stop
  BY <1>12 DEF Stop, control, RestInv
<1>13. CASE Fire \/ UNCHANGED vars
  BY <1>2, <1>13 DEF Fire, vars, control
<1> QED
  BY <1>3, <1>4, <1>5, <1>6, <1>7, <1>8, <1>9, <1>11, <1>12, <1>13 DEF Next

\* For all machines that are orderly and calm: at rest no raised event waits, and
\* what the eventless loop leaves enabled when it stops for want of progress has
\* no target and assigns nothing (stabilize, machine.hpp:743-770).
THEOREM RestsAreStable ==
    ASSUME \A i \in DOMAIN Charts : Orderly(Charts[i]) /\ Calm(Charts[i])
    PROVE  Spec => []RestsStable
<1>1. OrderlyCharts /\ CalmCharts
  BY DEF OrderlyCharts, CalmCharts
<1>2. Init => RestInv
  BY DEF Init, RestInv
<1>3. LegalInv /\ RestInv /\ [Next]_vars => RestInv'
  BY <1>1, RestStep
<1>4. RestInv => RestsStable
  BY DEF RestInv, RestsStable, Quiet
<1>5. Spec => []LegalInv
  BY <1>1, LegalAlways
<1> QED
  BY <1>2, <1>3, <1>4, <1>5, PTL DEF Spec

-----------------------------------------------------------------------------
(* Completion *)

\* A property that a state has when it meets a condition of its own and the
\* states it needs have the property: there is such a set G of states.
Met(G, N, Val, need) == \A n \in N : n \in G <=> n \in Val /\ need[n] \subseteq G

\* There is one, whatever is needed.
LEMMA NeedsAreMet ==
    ASSUME NEW N, NEW Val \in SUBSET N, NEW need
    PROVE  \E G \in SUBSET N : Met(G, N, Val, need)
<1> DEFINE F(X) == {n \in Val : need[n] \subseteq X}
           G == {n \in N : \A X \in SUBSET N : F(X) \subseteq X => n \in X}
<1>1. ASSUME NEW X \in SUBSET N, F(X) \subseteq X PROVE G \subseteq X
  BY <1>1
<1>2. F(G) \subseteq G
  <2> SUFFICES ASSUME NEW n \in F(G) PROVE n \in G
    OBVIOUS
  <2>1. n \in Val /\ need[n] \subseteq G /\ n \in N
    OBVIOUS
  <2>2. ASSUME NEW X \in SUBSET N, F(X) \subseteq X PROVE n \in X
    <3>1. G \subseteq X
      BY <1>1, <2>2
    <3>2. n \in F(X)
      <4> HIDE DEF G
      <4> QED
        BY <2>1, <3>1
    <3> QED
      BY <2>2, <3>2
  <2> QED
    BY <2>1, <2>2
<1>3. G \subseteq F(G)
  <2>1. F(G) \in SUBSET N
    OBVIOUS
  <2>2. F(F(G)) \subseteq F(G)
    <3> HIDE DEF G
    <3> QED
      BY <1>2
  <2> HIDE DEF G
  <2> QED
    BY <1>1, <2>1, <2>2
<1>4. G \in SUBSET N
  OBVIOUS
<1> HIDE DEF G
<1>5. \A n \in N : n \in G <=> n \in Val /\ need[n] \subseteq G
  BY <1>2, <1>3
<1> QED
  BY <1>4, <1>5 DEF Met

\* The regions of a parallel state.
Regions(n) == Children(n) \ History

\* What isInFinal computes: a final state when it is active, a parallel state
\* when all its regions are, any other by its active child.
LEMMA InFinalIs ==
    ASSUME Chart, NEW S, NEW n \in Nodes
    PROVE  /\ m.type[n] = "final" => (InFinal(S)[n] <=> n \in S)
           /\ m.type[n] = "parallel" =>
                 (InFinal(S)[n] <=> /\ Regions(n) # {}
                                    /\ \A r \in Regions(n) : InFinal(S)[r])
           /\ m.type[n] \notin {"final", "parallel"} =>
                 (InFinal(S)[n] <=> /\ Children(n) \cap S # {}
                                    /\ InFinal(S)[Min(Children(n) \cap S)])
<1> DEFINE own(x) == CASE m.type[x] = "final" -> x \in S
                       [] m.type[x] = "parallel" -> Regions(x) # {}
                       [] OTHER -> Children(x) \cap S # {}
           Val == {x \in Nodes : own(x)}
           need == [x \in Nodes |->
                      CASE m.type[x] = "final" -> {}
                        [] m.type[x] = "parallel" -> Regions(x)
                        [] OTHER -> IF Children(x) \cap S = {} THEN {}
                                    ELSE {Min(Children(x) \cap S)}]
           Body(f, x) == CASE m.type[x] = "final" -> x \in S
                           [] m.type[x] = "parallel" ->
                                 Regions(x) # {} /\ \A r \in Regions(x) : f[r]
                           [] OTHER -> /\ Children(x) \cap S # {}
                                       /\ f[Min(Children(x) \cap S)]
           final == CHOOSE f : f = [x \in Nodes |-> Body(f, x)]
<1>1. PICK G \in SUBSET Nodes : \A x \in Nodes : x \in G <=> x \in Val /\ need[x] \subseteq G
  <2>1. Val \in SUBSET Nodes
    OBVIOUS
  <2> HIDE DEF need, Val
  <2>2. \E G \in SUBSET Nodes : Met(G, Nodes, Val, need)
    BY <2>1, NeedsAreMet
  <2> QED
    BY <2>2 DEF Met
<1> DEFINE f == [x \in Nodes |-> x \in G]
<1>2. ASSUME NEW x \in Nodes PROVE Children(x) \cap S # {} => Min(Children(x) \cap S) \in Nodes
  <2> DEFINE T == Children(x) \cap S
  <2>1. T \in SUBSET Nodes /\ Nodes \subseteq Nat
    BY NodesAreNumbers DEF Children
  <2> HIDE DEF T
  <2>2. T # {} => Min(T) \in T
    BY <2>1, Smallest
  <2> QED
    BY <2>1, <2>2 DEF T
<1>3. ASSUME NEW x \in Nodes PROVE (x \in G) = Body(f, x)
  <2>1. CASE m.type[x] = "final"
    <3>1. need[x] = {} /\ (own(x) <=> x \in S) /\ Body(f, x) = (x \in S)
      BY <2>1
    <3> HIDE DEF need, f, Body, own
    <3>2. (x \in G) <=> (x \in S)
      BY <1>1, <3>1
    <3> QED
      BY <3>1, <3>2
  <2>2. CASE m.type[x] = "parallel"
    <3>1. /\ need[x] = Regions(x) /\ (own(x) <=> Regions(x) # {})
          /\ Body(f, x) = (Regions(x) # {} /\ \A r \in Regions(x) : f[r])
      BY <2>2
    <3>2. \A r \in Regions(x) : r \in Nodes
      BY DEF Regions, Children
    <3>3. \A r \in Regions(x) : f[r] <=> r \in G
      BY <3>2
    <3> HIDE DEF need, f, Body
    <3> QED
      BY <1>1, <3>1, <3>3
  <2>3. CASE m.type[x] \notin {"final", "parallel"}
    <3>1. /\ need[x] = IF Children(x) \cap S = {} THEN {} ELSE {Min(Children(x) \cap S)}
          /\ own(x) <=> Children(x) \cap S # {}
          /\ Body(f, x) = (Children(x) \cap S # {} /\ f[Min(Children(x) \cap S)])
      BY <2>3
    <3>2. Children(x) \cap S # {} => (f[Min(Children(x) \cap S)] <=> Min(Children(x) \cap S) \in G)
      BY <1>2
    <3> DEFINE c == Min(Children(x) \cap S)
               none == Children(x) \cap S = {}
    <3> HIDE DEF need, f, Body, own, c, none
    <3>3. (x \in G) <=> (~none /\ c \in G)
      <4>1. need[x] = (IF none THEN {} ELSE {c}) /\ (own(x) <=> ~none)
        BY <3>1 DEF c, none
      <4> QED
        BY <1>1, <4>1
    <3>4. Body(f, x) = (~none /\ f[c]) /\ (~none => (f[c] <=> c \in G))
      BY <3>1, <3>2 DEF c, none
    <3> QED
      BY <3>3, <3>4
  <2> QED
    BY <2>1, <2>2, <2>3
<1>4. f = [x \in Nodes |-> Body(f, x)]
  BY <1>3
<1> HIDE DEF Body
<1>5. final = [x \in Nodes |-> Body(final, x)]
  <2> HIDE DEF f
  <2> QED
    BY <1>4
<1>6. InFinal(S) = final
  BY DEF InFinal, final, Body, Regions
<1> HIDE DEF final
<1>7. InFinal(S)[n] = Body(InFinal(S), n)
  BY <1>5, <1>6
<1> QED
  BY <1>7 DEF Body

\* What completion means for each type of state.
Finishes(C, S) ==
    \A n \in Nodes :
        /\ m.type[n] = "final" => (C[n] <=> n \in S)
        /\ m.type[n] = "compound" =>
              (C[n] <=> \E c \in Children(n) \cap S : m.type[c] = "final")
        /\ m.type[n] = "parallel" =>
              (C[n] <=> Regions(n) # {} /\ \A r \in Regions(n) : C[r])
        /\ m.type[n] \notin {"final", "compound", "parallel"} => ~C[n]

\* That is how the property defines it.
LEMMA CompleteIs == Chart => Finishes(Complete, cfg)
<1> SUFFICES ASSUME Chart PROVE Finishes(Complete, cfg)
  OBVIOUS
<1> DEFINE leaf(x) == \/ m.type[x] = "final" /\ x \in cfg
                      \/ /\ m.type[x] = "compound"
                         /\ \E c \in Children(x) \cap cfg : m.type[c] = "final"
           Val == {x \in Nodes : leaf(x) \/ (m.type[x] = "parallel" /\ Regions(x) # {})}
           need == [x \in Nodes |-> IF m.type[x] = "parallel" THEN Regions(x) ELSE {}]
           Body(f, x) == \/ m.type[x] = "final" /\ x \in cfg
                         \/ /\ m.type[x] = "compound"
                            /\ \E c \in Children(x) \cap cfg : m.type[c] = "final"
                         \/ /\ m.type[x] = "parallel"
                            /\ Regions(x) # {}
                            /\ \A r \in Regions(x) : f[r]
           complete == CHOOSE f : f = [x \in Nodes |-> Body(f, x)]
<1>1. PICK G \in SUBSET Nodes : \A x \in Nodes : x \in G <=> x \in Val /\ need[x] \subseteq G
  <2>1. Val \in SUBSET Nodes
    OBVIOUS
  <2> HIDE DEF need, Val
  <2>2. \E G \in SUBSET Nodes : Met(G, Nodes, Val, need)
    BY <2>1, NeedsAreMet
  <2> QED
    BY <2>2 DEF Met
<1> DEFINE f == [x \in Nodes |-> x \in G]
<1>2. ASSUME NEW x \in Nodes PROVE (x \in G) = Body(f, x)
  <2>1. CASE m.type[x] # "parallel"
    <3>1. need[x] = {} /\ Body(f, x) = leaf(x) /\ ~(m.type[x] = "parallel" /\ Regions(x) # {})
      BY <2>1
    <3>2. leaf(x) \in BOOLEAN /\ (x \in Val <=> leaf(x))
      BY <2>1
    <3> HIDE DEF need, f, Body, leaf, Val
    <3>3. (x \in G) <=> leaf(x)
      BY <1>1, <3>1, <3>2
    <3> QED
      BY <3>1, <3>2, <3>3
  <2>2. CASE m.type[x] = "parallel"
    <3>1. /\ need[x] = Regions(x) /\ ~leaf(x)
          /\ Body(f, x) = (Regions(x) # {} /\ \A r \in Regions(x) : f[r])
      BY <2>2
    <3>2. \A r \in Regions(x) : r \in Nodes
      BY DEF Regions, Children
    <3>3. \A r \in Regions(x) : f[r] <=> r \in G
      BY <3>2
    <3>4. x \in Val <=> Regions(x) # {}
      BY <2>2, <3>1
    <3> HIDE DEF need, f, Body, leaf, Val
    <3> QED
      BY <1>1, <3>1, <3>3, <3>4
  <2> QED
    BY <2>1, <2>2
<1>3. f = [x \in Nodes |-> Body(f, x)]
  BY <1>2
<1> HIDE DEF Body
<1>4. complete = [x \in Nodes |-> Body(complete, x)]
  <2> HIDE DEF f
  <2> QED
    BY <1>3
<1>5. Complete = complete
  BY DEF Complete, complete, Body, Regions
<1> HIDE DEF complete
<1>6. \A n \in Nodes : Complete[n] = Body(Complete, n)
  BY <1>4, <1>5
<1> QED
  BY <1>6 DEF Body, Finishes

\* A state that is in a final state has a final state active below it.
LEMMA FinalBelow ==
    ASSUME Chart, NEW S \in SUBSET Nodes, NEW n \in Nodes, InFinal(S)[n]
    PROVE  \E f \in S : m.type[f] = "final" /\ n \in m.up[f]
<1> DEFINE Bad == {x \in Nodes : /\ InFinal(S)[x]
                                 /\ ~\E f \in S : m.type[f] = "final" /\ x \in m.up[f]}
<1>1. Bad = {}
  <2> SUFFICES ASSUME Bad # {} PROVE FALSE
    OBVIOUS
  <2>1. PICK x \in Bad : \A y \in Bad : y <= x
    <3>1. Bad \in SUBSET Nodes
      OBVIOUS
    <3> HIDE DEF Bad
    <3> QED
      BY <3>1, GreatestNode
  <2>2. x \in Nodes /\ InFinal(S)[x] /\ ~\E f \in S : m.type[f] = "final" /\ x \in m.up[f]
    OBVIOUS
  <2>3. ASSUME NEW c \in Children(x), InFinal(S)[c] PROVE FALSE
    <3>1. c \in Nodes /\ x < c /\ x \in m.up[c]
      BY <2>2, Parents
    <3>2. c \notin Bad
      <4>1. Nodes \subseteq Nat
        BY NodesAreNumbers
      <4>2. ~(c <= x)
        BY <2>2, <3>1, <4>1
      <4> HIDE DEF Bad
      <4> QED
        BY <2>1, <4>2
    <3>3. PICK f \in S : m.type[f] = "final" /\ c \in m.up[f]
      BY <2>3, <3>1, <3>2
    <3>4. x \in m.up[f]
      BY <3>1, <3>3, AncestorsOfAncestors
    <3> QED
      BY <2>2, <3>3, <3>4
  <2>4. CASE m.type[x] = "final"
    BY <2>2, <2>4, InFinalIs, Ancestors
  <2>5. CASE m.type[x] = "parallel"
    BY <2>2, <2>3, <2>5, InFinalIs DEF Regions
  <2>6. CASE m.type[x] \notin {"final", "parallel"}
    <3> DEFINE T == Children(x) \cap S
    <3>1. T # {} /\ InFinal(S)[Min(T)]
      BY <2>2, <2>6, InFinalIs
    <3>2. T \in SUBSET Nat
      BY NodesAreNumbers
    <3>3. Min(T) \in T
      <4> HIDE DEF T
      <4> QED
        BY <3>1, <3>2, Smallest
    <3> QED
      BY <2>3, <3>1, <3>3
  <2> QED
    BY <2>4, <2>5, <2>6
<1> QED
  BY <1>1

\* A parallel state that is in a final state is complete.
LEMMA InFinalIsComplete ==
    ASSUME Chart, ShallowRegions(m), NEW S \in SUBSET Nodes, NEW C, Finishes(C, S),
           NEW n \in Nodes, m.type[n] = "parallel", InFinal(S)[n]
    PROVE  C[n]
<1> DEFINE Bad == {x \in Nodes : m.type[x] = "parallel" /\ InFinal(S)[x] /\ ~C[x]}
<1>1. Bad = {}
  <2> SUFFICES ASSUME Bad # {} PROVE FALSE
    OBVIOUS
  <2>1. PICK x \in Bad : \A y \in Bad : y <= x
    <3>1. Bad \in SUBSET Nodes
      OBVIOUS
    <3> HIDE DEF Bad
    <3> QED
      BY <3>1, GreatestNode
  <2>2. x \in Nodes /\ m.type[x] = "parallel" /\ InFinal(S)[x] /\ ~C[x]
    OBVIOUS
  <2>3. Regions(x) # {} /\ \A r \in Regions(x) : InFinal(S)[r]
    BY <2>2, InFinalIs
  <2>4. ASSUME NEW r \in Regions(x) PROVE C[r]
    <3>1. r \in Children(x) /\ InFinal(S)[r] /\ r \notin History
      BY <2>3 DEF Regions
    <3>2. r \in Nodes \ {Root} /\ m.parent[r] = x /\ x < r
      BY <2>2, <3>1, Parents
    <3>3. CASE m.type[r] = "final"
      BY <3>1, <3>2, <3>3, InFinalIs DEF Finishes
    <3>4. CASE m.type[r] = "parallel"
      <4>1. Nodes \subseteq Nat
        BY NodesAreNumbers
      <4>2. ~(r <= x)
        BY <2>2, <3>2, <4>1
      <4>3. r \notin Bad
        <5> HIDE DEF Bad
        <5> QED
          BY <2>1, <4>2
      <4> QED
        BY <3>1, <3>2, <3>4, <4>3
    <3>5. CASE m.type[r] = "compound"
      <4>1. PICK f \in S : m.type[f] = "final" /\ r \in m.up[f]
        BY <3>1, <3>2, FinalBelow
      <4>2. f # Root
        BY <4>1 DEF Chart, IsChart
      <4>3. m.parent[f] = r
        BY <2>2, <3>2, <3>5, <4>1, <4>2 DEF ShallowRegions, Nodes
      <4>4. f \in Children(r) \cap S
        BY <4>1, <4>3 DEF Children
      <4> QED
        BY <3>2, <3>5, <4>1, <4>4 DEF Finishes
    <3>6. CASE m.type[r] \notin {"final", "parallel", "compound"}
      <4>1. Children(r) # {}
        <5>1. Children(r) \cap S # {}
          BY <3>1, <3>2, <3>6, InFinalIs
        <5> QED
          BY <5>1
      <4> QED
        BY <3>2, <3>6, <4>1, Parents
    <3> QED
      BY <3>3, <3>4, <3>5, <3>6
  <2> QED
    BY <2>2, <2>3, <2>4 DEF Finishes
<1> QED
  BY <1>1

\* In a legal configuration a parallel state that is complete is in a final state.
LEMMA CompleteIsInFinal ==
    ASSUME Chart, NEW S, Legal(S), NEW C, Finishes(C, S),
           NEW n \in Nodes, m.type[n] = "parallel", C[n]
    PROVE  InFinal(S)[n]
<1> DEFINE Bad == {x \in Nodes : m.type[x] = "parallel" /\ C[x] /\ ~InFinal(S)[x]}
<1>1. Bad = {}
  <2> SUFFICES ASSUME Bad # {} PROVE FALSE
    OBVIOUS
  <2>1. PICK x \in Bad : \A y \in Bad : y <= x
    <3>1. Bad \in SUBSET Nodes
      OBVIOUS
    <3> HIDE DEF Bad
    <3> QED
      BY <3>1, GreatestNode
  <2>2. x \in Nodes /\ m.type[x] = "parallel" /\ C[x] /\ ~InFinal(S)[x]
    OBVIOUS
  <2>3. Regions(x) # {} /\ \A r \in Regions(x) : C[r]
    BY <2>2 DEF Finishes
  <2>4. ASSUME NEW r \in Regions(x) PROVE InFinal(S)[r]
    <3>1. r \in Children(x) /\ C[r]
      BY <2>3 DEF Regions
    <3>2. r \in Nodes /\ x < r
      BY <2>2, <3>1, Parents
    <3>3. CASE m.type[r] = "final"
      BY <3>1, <3>2, <3>3, InFinalIs DEF Finishes
    <3>4. CASE m.type[r] = "parallel"
      <4>1. Nodes \subseteq Nat
        BY NodesAreNumbers
      <4>2. ~(r <= x)
        BY <2>2, <3>2, <4>1
      <4>3. r \notin Bad
        <5> HIDE DEF Bad
        <5> QED
          BY <2>1, <4>2
      <4> QED
        BY <3>1, <3>2, <3>4, <4>3
    <3>5. CASE m.type[r] = "compound"
      <4> DEFINE T == Children(r) \cap S
      <4>1. PICK c \in T : m.type[c] = "final"
        BY <3>1, <3>2, <3>5 DEF Finishes
      <4>2. T \in SUBSET Nat
        BY NodesAreNumbers DEF Children
      <4>3. \A d \in T : d = c
        BY <3>2, <3>5, <4>1 DEF Legal, Partial, Single
      <4>4. Min(T) = c
        <5> HIDE DEF T
        <5>1. Min(T) \in T
          BY <4>1, <4>2, Smallest
        <5> QED
          BY <4>3, <5>1
      <4>5. c \in Nodes /\ c \in S
        BY DEF Children
      <4>6. InFinal(S)[c]
        BY <4>1, <4>5, InFinalIs
      <4> QED
        BY <3>2, <3>5, <4>1, <4>4, <4>6, InFinalIs
    <3>6. CASE m.type[r] \notin {"final", "parallel", "compound"}
      BY <3>1, <3>2, <3>6 DEF Finishes
    <3> QED
      BY <3>3, <3>4, <3>5, <3>6
  <2> QED
    BY <2>2, <2>3, <2>4, InFinalIs
<1> QED
  BY <1>1

\* What is complete stays so when more is active.
LEMMA CompleteGrows ==
    ASSUME Chart, NEW S, NEW B, NEW C, NEW D, Finishes(C, S), Finishes(D, B), S \subseteq B,
           NEW n \in Nodes, C[n]
    PROVE  D[n]
<1> DEFINE Bad == {x \in Nodes : C[x] /\ ~D[x]}
<1>1. Bad = {}
  <2> SUFFICES ASSUME Bad # {} PROVE FALSE
    OBVIOUS
  <2>1. PICK x \in Bad : \A y \in Bad : y <= x
    <3>1. Bad \in SUBSET Nodes
      OBVIOUS
    <3> HIDE DEF Bad
    <3> QED
      BY <3>1, GreatestNode
  <2>2. x \in Nodes /\ C[x] /\ ~D[x]
    OBVIOUS
  <2>3. ASSUME NEW r \in Regions(x), C[r] PROVE D[r]
    <3>1. r \in Nodes /\ x < r
      BY <2>2, Parents DEF Regions
    <3>2. ~(r <= x)
      BY <2>2, <3>1, NodesAreNumbers
    <3>3. r \notin Bad
      <4> HIDE DEF Bad
      <4> QED
        BY <2>1, <3>2
    <3> QED
      BY <2>3, <3>1, <3>3
  <2>4. CASE m.type[x] = "final"
    BY <2>2, <2>4 DEF Finishes
  <2>5. CASE m.type[x] = "compound"
    <3>1. PICK c \in Children(x) \cap S : m.type[c] = "final"
      BY <2>2, <2>5 DEF Finishes
    <3> QED
      BY <2>2, <2>5, <3>1 DEF Finishes
  <2>6. CASE m.type[x] = "parallel"
    BY <2>2, <2>3, <2>6 DEF Finishes
  <2>7. CASE m.type[x] \notin {"final", "compound", "parallel"}
    BY <2>2, <2>7 DEF Finishes
  <2> QED
    BY <2>4, <2>5, <2>6, <2>7
<1> QED
  BY <1>1

\* Final states raise done events only of states that are complete, and end the
\* machine only when its root is.
LEMMA AnnouncedAreComplete ==
    ASSUME Chart, ShallowRegions(m), NEW S \in SUBSET Nodes, NEW entered \in SUBSET S,
           NEW C, Finishes(C, S)
    PROVE  /\ \A i \in DOMAIN DoneEvents(entered, S) : C[DoneEvents(entered, S)[i].of]
           /\ ReachesEnd(entered, S) => C[Root]
<1> DEFINE done == DoneEvents(entered, S)
<1>1. \A a : DoneState(a).of = a
  BY DEF DoneState
<1>2. ASSUME NEW d \in Range(done) PROVE C[d.of]
  <2>1. entered \in SUBSET Nodes
    OBVIOUS
  <2>2. PICK f \in {x \in entered \ {Root} : m.type[x] = "final"} :
            d \in Range(DoneAbove(m.parent[f], S))
    BY <1>2, <2>1, DoneEventsAreSeq
  <2>3. f \in Nodes \ {Root} /\ f \in S /\ m.type[f] = "final"
    BY <2>1, <2>2
  <2> DEFINE p == m.parent[f]
  <2>4. p \in Nodes /\ m.type[p] \in {"compound", "parallel"} /\ f \in Children(p)
    BY <2>3, NodesAreNumbers DEF Chart, IsChart, Nodes, Children
  <2> HIDE DEF p, done
  <2>5. d \in {DoneState(a) : a \in DoneParallels(p, S)}
              \cup (IF m.type[p] = "parallel" THEN {} ELSE {DoneState(p)})
    BY <2>2, <2>4, DoneAboveIsSeq DEF p
  <2>6. CASE m.type[p] = "compound" /\ d = DoneState(p)
    BY <1>1, <2>3, <2>4, <2>6 DEF Finishes
  <2>7. ASSUME NEW a \in DoneParallels(p, S), d = DoneState(a) PROVE C[d.of]
    <3>1. a \in m.up[p] /\ m.type[a] = "parallel" /\ InFinal(S)[a]
      BY <2>7 DEF DoneParallels
    <3>2. a \in Nodes
      BY <2>4, <3>1, Ancestors
    <3> QED
      BY <1>1, <2>7, <3>1, <3>2, InFinalIsComplete
  <2> QED
    BY <2>4, <2>5, <2>6, <2>7
<1>3. ASSUME ReachesEnd(entered, S) PROVE C[Root]
  <2>1. Root \in Nodes
    BY NodesAreNumbers
  <2>2. CASE m.type[Root] = "compound"
    <3>1. PICK f \in entered \cap Children(Root) : m.type[f] = "final"
      BY <1>3, <2>2 DEF ReachesEnd
    <3> QED
      BY <2>1, <2>2, <3>1 DEF Finishes
  <2>3. CASE m.type[Root] = "parallel"
    BY <1>3, <2>1, <2>3, InFinalIsComplete DEF ReachesEnd
  <2> QED
    BY <1>3, <2>2, <2>3 DEF ReachesEnd
<1> QED
  BY <1>2, <1>3 DEF Range

\* Final states raise the done events of all states they complete.
LEMMA CompleteAreAnnounced ==
    ASSUME Chart, NoFinalRegions(m), NEW S, Legal(S), NEW entered \in SUBSET S,
           NEW C, Finishes(C, S), NEW f \in entered, m.type[f] = "final",
           NEW a \in m.up[f] \ {f, Root}, C[a], a = m.parent[f] \/ m.type[a] = "parallel"
    PROVE  \E i \in DOMAIN DoneEvents(entered, S) : DoneEvents(entered, S)[i] = DoneState(a)
<1> DEFINE done == DoneEvents(entered, S)
           p == m.parent[f]
<1>1. entered \in SUBSET Nodes
  BY DEF Legal, Partial, Closed
<1>2. f \in Nodes /\ f # Root
  BY <1>1 DEF Chart, IsChart
<1>3. p \in Nodes /\ m.type[p] # "parallel"
  BY <1>2, NodesAreNumbers DEF NoFinalRegions, Nodes
<1>4. m.up[f] = m.up[p] \cup {f}
  BY <1>2 DEF Chart, IsChart, Nodes
<1>5. a \in m.up[p] /\ a # Root /\ a \in Nodes
  BY <1>3, <1>4, Ancestors
<1>6. p # Root
  BY <1>5 DEF Chart, IsChart
<1> HIDE DEF p, done
<1>7. DoneState(a) \in Range(DoneAbove(p, S))
  <2>1. CASE a = p
    BY <1>3, <1>6, <2>1, DoneAboveIsSeq
  <2>2. CASE a # p
    <3>1. m.type[a] = "parallel"
      BY <2>2 DEF p
    <3>2. InFinal(S)[a]
      BY <1>5, <3>1, CompleteIsInFinal
    <3>3. a \in DoneParallels(p, S)
      BY <1>5, <2>2, <3>1, <3>2 DEF DoneParallels
    <3> QED
      BY <1>3, <1>6, <3>3, DoneAboveIsSeq
  <2> QED
    BY <2>1, <2>2
<1>8. DoneState(a) \in Range(done)
  <2>1. f \in {x \in entered \ {Root} : m.type[x] = "final"}
    BY <1>2
  <2> QED
    BY <1>1, <1>7, <2>1, DoneEventsAreSeq DEF p, done
<1> QED
  BY <1>8 DEF Range, done

\* Final states end the machine when they complete its root.
LEMMA RootEnds ==
    ASSUME Chart, NEW S, Legal(S), NEW entered, NEW C, Finishes(C, S), C[Root],
           ~ReachesEnd(entered, S)
    PROVE  \/ entered = {}
           \/ \E f \in Children(Root) \cap (S \ entered) : m.type[f] = "final"
<1>1. Root \in Nodes
  BY NodesAreNumbers
<1>2. CASE m.type[Root] = "compound"
  <2>1. PICK f \in Children(Root) \cap S : m.type[f] = "final"
    BY <1>1, <1>2 DEF Finishes
  <2> QED
    BY <1>2, <2>1 DEF ReachesEnd
<1>3. CASE m.type[Root] = "parallel"
  BY <1>1, <1>3, CompleteIsInFinal DEF ReachesEnd
<1> QED
  BY <1>2, <1>3 DEF Chart, IsChart

\* A step takes a microstep or starts the machine; or it leaves a machine that
\* remains active or done as it is, and the latest microstep too unless it ends
\* the macrostep.
CompletionStep ==
    /\ UNCHANGED m
    /\ \/ status \notin {"active", "done"} /\ Start
       \/ status = "active" /\ \E e, rest : Microstep(Selected(e), rest)
       \/ /\ status' \in {"active", "done"} => UNCHANGED <<cfg, status>>
          /\ last' = NoStep \/ UNCHANGED <<cfg, last>>

\* Every step does one of these.
LEMMA StepsOfCompletion ==
    ASSUME [Next]_vars
    PROVE  CompletionStep
<1>1. ASSUME NEW e, Handle(e), UNCHANGED m, status = "active" PROVE CompletionStep
  <2>1. CASE Selected(e) = <<>>
    BY <1>1, <2>1 DEF Handle, Answer, CompletionStep, control
  <2>2. CASE Selected(e) # <<>>
    <3>1. Microstep(Selected(e), <<>>)
      BY <1>1, <2>2 DEF Handle, Answer
    <3> QED
      BY <1>1, <3>1 DEF CompletionStep
  <2> QED
    BY <2>1, <2>2
<1>2. CASE Start
  <2>1. UNCHANGED m /\ status = "none"
    BY <1>2 DEF Start
  <2> QED
    BY <1>2, <2>1 DEF CompletionStep
<1>3. CASE Receive
  BY <1>1, <1>3 DEF Receive
<1>4. CASE ReceiveAfter
  <2>1. CASE status = "active"
    BY <1>1, <1>4, <2>1 DEF ReceiveAfter
  <2>2. CASE status # "active"
    BY <1>4, <2>2 DEF ReceiveAfter, CompletionStep, control
  <2> QED
    BY <2>1, <2>2
<1>5. CASE EventlessStep
  <2>1. Microstep(Selected(Eventless), q) /\ status = "active" /\ UNCHANGED m
    BY <1>5 DEF EventlessStep, Settling
  <2> QED
    BY <2>1 DEF CompletionStep
<1>6. CASE RaisedStep
  <2>1. /\ status = "active" /\ UNCHANGED m
        /\ \/ UNCHANGED <<cfg, status>> /\ last' = NoStep
           \/ Microstep(Selected(Head(q)), Tail(q))
    BY <1>6 DEF RaisedStep, Settling
  <2> QED
    BY <2>1 DEF CompletionStep
<1>7. CASE Settle \/ Finish
  BY <1>7 DEF Settle, Finish, Rest, CompletionStep
<1>8. CASE Fire \/ Stop \/ UNCHANGED vars
  BY <1>8 DEF Fire, Stop, vars, control, CompletionStep
<1>9. CASE UserCodeThrows \/ TooManySteps
  BY <1>9 DEF UserCodeThrows, TooManySteps, Throw, Rest, control, CompletionStep
<1> QED
  BY <1>2, <1>3, <1>4, <1>5, <1>6, <1>7, <1>8, <1>9 DEF Next

\* What completion means after a step of the same machine.
LEMMA CompleteNext ==
    ASSUME Chart, m' = m
    PROVE  Finishes(Complete', cfg')
<1>1. (Chart => Finishes(Complete, cfg))'
  BY CompleteIs, PTL
<1>2. Chart'
  BY DEF Chart
<1> QED
  BY <1>1, <1>2 DEF Finishes, Nodes, Children, Regions, History

\* What the start of a machine and a microstep announce.
LEMMA AnnouncingStep ==
    ASSUME UNCHANGED m, Start \/ \E e, rest : Microstep(Selected(e), rest)
    PROVE  \E entered \in SUBSET cfg' :
              /\ last'.entered = entered
              /\ last'.done = DoneEvents(entered, cfg')
              /\ status' = IF ReachesEnd(entered, cfg') THEN "done" ELSE "active"
              /\ cfg' \ entered \subseteq IF Start THEN {} ELSE cfg
<1>1. CASE Start
  <2> DEFINE entered == Descent(Root)
  <2>1. /\ cfg' = entered
        /\ last' = [taken |-> <<>>, exited |-> {}, entered |-> entered,
                    done |-> DoneEvents(entered, entered)]
        /\ status' = IF ReachesEnd(entered, entered) THEN "done" ELSE "active"
    BY <1>1 DEF Start
  <2> HIDE DEF entered
  <2>2. last'.entered = entered /\ last'.done = DoneEvents(entered, entered)
    BY <2>1
  <2> QED
    BY <1>1, <2>1, <2>2
<1>2. CASE ~Start
  <2>1. PICK e : \E rest : Microstep(Selected(e), rest)
    BY <1>2
  <2>2. PICK rest : Microstep(Selected(e), rest)
    BY <2>1
  <2> DEFINE sel == Selected(e)
             next == Completion(Kept(sel) \cup Targeted(Requests(sel, Recorded(sel))))
             entered == next \ Kept(sel)
             gone == Exited(sel)
  <2>3. /\ cfg' = next
        /\ last' = [taken |-> sel, exited |-> gone, entered |-> entered,
                    done |-> DoneEvents(entered, next)]
        /\ status' = IF ReachesEnd(entered, next) THEN "done" ELSE "active"
    BY <2>2, MicrostepEffects
  <2>4. entered \subseteq next /\ next \ entered \subseteq cfg
    BY DEF Kept
  <2> HIDE DEF sel, next, entered, gone
  <2>5. last'.entered = entered /\ last'.done = DoneEvents(entered, next)
    BY <2>3
  <2> QED
    BY <1>2, <2>3, <2>4, <2>5
<1> QED
  BY <1>1, <1>2

\* Of the machines it is assumed that the final states below a compound region
\* are its children.
ShallowCharts == \A i \in DOMAIN Charts : ShallowRegions(Charts[i])

\* Of the machines it is assumed that no region is a final state.
OwnFinals == \A i \in DOMAIN Charts : NoFinalRegions(Charts[i])

\* Every step announces only what is complete.
LEMMA DoneStep ==
    ASSUME ShallowCharts, TypeInv, TypeInv', DoneIsComplete, CompletionStep
    PROVE  DoneIsComplete'
<1>2. Chart /\ ShallowRegions(m) /\ m' = m
  BY MachinesBehave DEF Behaved, TypeInv, TypeOK, ShallowCharts, CompletionStep, Range
<1>3. CASE Start \/ \E e, rest : Microstep(Selected(e), rest)
  <2>1. PICK entered \in SUBSET cfg' :
               /\ last'.done = DoneEvents(entered, cfg')
               /\ status' = IF ReachesEnd(entered, cfg') THEN "done" ELSE "active"
    BY <1>2, <1>3, AnnouncingStep
  <2>2. Finishes(Complete', cfg') /\ cfg' \in SUBSET Nodes
    BY <1>2, CompleteNext, SameTypes DEF TypeInv, TypeOK
  <2>3. /\ \A i \in DOMAIN last'.done : Complete'[last'.done[i].of]
        /\ ReachesEnd(entered, cfg') => Complete'[Root]
    BY <1>2, <2>1, <2>2, AnnouncedAreComplete
  <2> QED
    BY <2>1, <2>3 DEF DoneIsComplete
<1>4. CASE /\ status' \in {"active", "done"} => UNCHANGED <<cfg, status>>
           /\ last' = NoStep \/ UNCHANGED <<cfg, last>>
  <2>1. UNCHANGED cfg => Complete' = Complete
    BY <1>2 DEF Complete, Nodes, Children, History
  <2>2. \A i \in DOMAIN last'.done : Complete'[last'.done[i].of]
    <3>1. CASE last' = NoStep
      BY <3>1 DEF NoStep
    <3>2. CASE UNCHANGED <<cfg, last>>
      BY <2>1, <3>2 DEF DoneIsComplete
    <3> QED
      BY <1>4, <3>1, <3>2
  <2>3. status' = "done" => Complete'[Root]
    BY <1>4, <2>1 DEF DoneIsComplete
  <2> QED
    BY <2>2, <2>3 DEF DoneIsComplete
<1> QED
  BY <1>3, <1>4 DEF CompletionStep

\* For all machines whose regions have their final states as children: done events
\* are raised only of states that are complete, and a machine is done only when
\* its root is (processFinals, machine.hpp:681-736).
THEOREM DoneStatesAreComplete ==
    ASSUME \A i \in DOMAIN Charts : ShallowRegions(Charts[i])
    PROVE  Spec => []DoneIsComplete
<1>1. Init => DoneIsComplete
  BY DEF Init, NoStep, DoneIsComplete
<1>2. TypeInv /\ TypeInv' /\ DoneIsComplete /\ [Next]_vars => DoneIsComplete'
  BY DoneStep, StepsOfCompletion DEF ShallowCharts
<1> QED
  BY <1>1, <1>2, TypesAlways, PTL DEF Spec

\* Every step announces what it completes.
LEMMA AnnouncedStep ==
    ASSUME OrderlyCharts, OwnFinals, LegalInv, LegalInv', CompletionAnnounced, CompletionStep
    PROVE  CompletionAnnounced'
<1>2. Chart /\ NoFinalRegions(m) /\ m' = m
  BY MachinesAreCharts DEF LegalInv, OwnFinals, CompletionStep, Range
<1>3. CASE \/ status \notin {"active", "done"} /\ Start
           \/ status = "active" /\ \E e, rest : Microstep(Selected(e), rest)
  <2>1. PICK entered \in SUBSET cfg' :
               /\ last'.entered = entered
               /\ last'.done = DoneEvents(entered, cfg')
               /\ status' = IF ReachesEnd(entered, cfg') THEN "done" ELSE "active"
               /\ cfg' \ entered \subseteq IF Start THEN {} ELSE cfg
    BY <1>2, <1>3, AnnouncingStep
  <2>2. Legal(cfg')
    BY <1>2, <2>1, SameMachine DEF LegalInv
  <2>3. Finishes(Complete', cfg') /\ Finishes(Complete, cfg)
    BY <1>2, CompleteNext, CompleteIs
  <2>4. \A f \in entered : m.type[f] = "final" =>
           \A a \in m.up[f] \ {f, Root} :
              (Complete'[a] /\ (a = m.parent[f] \/ m.type[a] = "parallel"))
              => \E i \in DOMAIN last'.done : last'.done[i] = DoneState(a)
    BY <1>2, <2>1, <2>2, <2>3, CompleteAreAnnounced
  <2>5. ASSUME status' = "active", Complete'[Root] PROVE FALSE
    <3>1. ~ReachesEnd(entered, cfg')
      BY <2>1, <2>5
    <3>2. \/ entered = {}
          \/ \E f \in Children(Root) \cap (cfg' \ entered) : m.type[f] = "final"
      BY <1>2, <2>2, <2>3, <2>5, <3>1, RootEnds
    <3>3. cfg' \ entered # {}
      BY <2>2, <3>2 DEF Legal, Partial
    <3>4. status = "active" /\ cfg' \ entered \subseteq cfg
      BY <1>3, <2>1, <3>3
    <3>5. Root \in Nodes /\ ~Complete[Root]
      BY <3>4, NodesAreNumbers, <1>2 DEF CompletionAnnounced
    <3>6. entered # {}
      <4>1. entered = {} => cfg' \subseteq cfg
        BY <3>4
      <4> QED
        BY <1>2, <2>3, <2>5, <3>5, <4>1, CompleteGrows
    <3>7. PICK f \in Children(Root) \cap cfg : m.type[f] = "final"
      BY <3>2, <3>4, <3>6
    <3>8. m.type[Root] = "compound"
      <4>1. f \in Nodes \ {Root} /\ m.parent[f] = Root
        BY <1>2, <3>7, NodesAreNumbers DEF Children
      <4> QED
        BY <1>2, <3>7, <4>1 DEF NoFinalRegions, Nodes, Chart, IsChart
    <3> QED
      BY <2>3, <3>5, <3>7, <3>8 DEF Finishes
  <2> QED
    BY <1>2, <2>1, <2>4, <2>5 DEF CompletionAnnounced, DoneState
<1>4. CASE /\ status' \in {"active", "done"} => UNCHANGED <<cfg, status>>
           /\ last' = NoStep \/ UNCHANGED <<cfg, last>>
  <2>1. UNCHANGED cfg => Complete' = Complete
    BY <1>2 DEF Complete, Nodes, Children, History
  <2>2. status' = "active" => ~Complete'[Root]
    BY <1>4, <2>1 DEF CompletionAnnounced
  <2>3. CASE last' = NoStep
    BY <2>2, <2>3 DEF NoStep, CompletionAnnounced
  <2>4. CASE UNCHANGED <<cfg, last>>
    BY <1>2, <2>1, <2>2, <2>4 DEF CompletionAnnounced, DoneState
  <2> QED
    BY <1>4, <2>3, <2>4
<1> QED
  BY <1>3, <1>4 DEF CompletionStep

\* For all orderly machines none of whose regions is a final state: a state that
\* a newly entered final state completes announces it, and so does every parallel
\* state above it; an active machine has a root that is not complete.
THEOREM CompletionIsAnnounced ==
    ASSUME \A i \in DOMAIN Charts : Orderly(Charts[i]) /\ NoFinalRegions(Charts[i])
    PROVE  Spec => []CompletionAnnounced
<1>1. OrderlyCharts /\ OwnFinals
  BY DEF OrderlyCharts, OwnFinals
<1>2. Init => CompletionAnnounced
  BY DEF Init, NoStep, CompletionAnnounced
<1>3. LegalInv /\ LegalInv' /\ CompletionAnnounced /\ [Next]_vars => CompletionAnnounced'
  BY <1>1, AnnouncedStep, StepsOfCompletion
<1> QED
  BY <1>1, <1>2, <1>3, LegalAlways, PTL DEF Spec
=============================================================================
