----------------------------- MODULE Statechart -----------------------------
(***************************************************************************)
(* The pure statechart interpreter of include/xstate/machine/machine.hpp:  *)
(* how a machine enters its initial configuration, selects transitions for *)
(* an event, takes a microstep, settles eventless transitions and raised   *)
(* events, and finishes.                                                   *)
(*                                                                         *)
(* A state node is identified with its document index (state_node.hpp:21), *)
(* so document order is < and the deepest of several ancestors is the      *)
(* largest.  A configuration is a set of nodes; the code keeps it as a     *)
(* vector sorted by document index.  The machine itself is data.           *)
(*                                                                         *)
(* One executor task (transition, machine.hpp:199) is a macrostep.  It is  *)
(* modelled as a `Receive' followed by settling steps while phase is       *)
(* "running"; nothing outside the machine can happen in between, and the   *)
(* effects it emits (timers, children) become visible when it ends.        *)
(***************************************************************************)
EXTENDS Integers, FiniteSets, FiniteSetsExt, SequencesExt, MachineShape

CONSTANTS
    Charts,      \* a sequence of machines (MachineShape)
    ChildIds,    \* the ids invoked children are registered under
    StepLimit    \* 1000000 in the code (machine.hpp:748)

VARIABLES
    m,           \* the machine interpreted, one of Charts; it never changes
    cfg,         \* Snap::configuration
    hist,        \* Snap::historyValue; {} when nothing was recorded
    ctx,         \* whether the context satisfies the context guards
    q,           \* the raised events of this macrostep (internalQ)
    status,      \* Snap::status; "none" before the actor starts
    phase,       \* "idle" or "running" (inside a macrostep)
    always,      \* alwaysEnabled of stabilize
    steps,       \* steps of stabilize
    armed,       \* states whose `after' timer is armed at the clock
    due,         \* states whose `after' event waits in the executor
    children,    \* for each child id, the state that invoked it, or NoNode
    saved,       \* what a macrostep falls back to when it throws
    last         \* the microstep just taken in this macrostep (for properties)

control == <<q, phase, always, steps, saved, last>>
vars == <<m, cfg, hist, ctx, status, armed, due, children, control>>

-----------------------------------------------------------------------------
(* The machine as data *)

Nodes == DOMAIN m.parent

Event == [type: {"ext", "after", "done", "always", "any"}, of: Nat]
Eventless == [type |-> "always", of |-> Root]
Wildcard == [type |-> "any", of |-> Root]
After(n) == [type |-> "after", of |-> n]
DoneState(n) == [type |-> "done", of |-> n]

History == {n \in Nodes : m.type[n] \in {"shallow", "deep"}}
Children(n) == {c \in Nodes : m.parent[c] = n}
Below(n, a) == a \in m.up[n]                       \* isDescendantOf, reflexive
Trans == DOMAIN m.trans

ASSUME ChartsAssumption == \A i \in DOMAIN Charts : IsChart(Charts[i], ChildIds)

\* What the states and transitions of a machine do.
Transition(N) ==
    [source : N, event : Event, targets : Seq(N),
     guard : [kind : {"none", "ctx", "unless", "in", "notIn"}, of : N],
     reenter : BOOLEAN, forbidden : BOOLEAN, act : {"none", "inline", "assign"},
     raise : Seq(Event)]
Acts(ch) ==
    LET N == DOMAIN ch.parent IN
    /\ \A i \in DOMAIN ch.trans : ch.trans[i] \in Transition(N)
    /\ \A n \in N : /\ ch.entry[n] \in Seq(Event) /\ ch.exit[n] \in Seq(Event)
                    /\ ch.initActs[n] \in Seq(Event)
    /\ ch.events \subseteq Event

\* Eventless transitions do not wait for what another one without target does
\* to the context: such a step is the last of the loop (RestsStable).
Calm(ch) ==
    LET eventless == {i \in DOMAIN ch.trans : ch.trans[i].event = Eventless} IN
    \/ \A i \in eventless : ch.trans[i].targets = <<>> => ch.trans[i].act # "inline"
    \/ \A i \in eventless : ch.trans[i].guard.kind \notin {"ctx", "unless"}
    \/ \A i \in eventless : ch.trans[i].targets = <<>> /\ ch.trans[i].act # "assign"

ASSUME ActsAssumption == \A i \in DOMAIN Charts : Acts(Charts[i])
ASSUME StepLimitAssumption == StepLimit \in Nat \ {0}

-----------------------------------------------------------------------------
(* Descending through initial states *)

\* addInitial resolves a history state to its default target; an initial
\* descent that ends in a history state without one adds nothing.
Resolved(n) == IF n # NoNode /\ n \in History THEN m.default[n] ELSE n

\* A state that entering its parent p enters too.
EntersWith(c, p) ==
    \/ m.type[p] = "parallel" /\ c \notin History
    \/ m.type[p] = "compound" /\ c = Resolved(m.initial[p])

\* addInitial: what entering n, and nothing else, activates.
DescentFrom(start) ==
    {x \in Nodes : /\ start \in m.up[x]
                   /\ \A y \in m.up[x] \ m.up[start] : EntersWith(y, m.parent[y])}
Descent(n) == IF Resolved(n) = NoNode THEN {} ELSE DescentFrom(Resolved(n))

\* viaInitial: the states of Descent(n) reached by taking the initial
\* transition of their parent; n itself counts when `asInitial' says so.
InitialsOf(n, asInitial) ==
    {c \in Descent(n) \ {Root} :
        /\ m.initial[m.parent[c]] = c
        /\ c = Resolved(n) => asInitial /\ c = n}

-----------------------------------------------------------------------------
(* Transition selection *)

Holds(guard) ==
    CASE guard.kind = "none"  -> TRUE
      [] guard.kind = "ctx"   -> ctx
      [] guard.kind = "unless" -> ~ctx
      [] guard.kind = "in"    -> guard.of \in cfg
      [] guard.kind = "notIn" -> guard.of \notin cfg

Enabled(n, e) ==
    {t \in Trans : /\ m.trans[t].source = n
                   /\ m.trans[t].event = e
                   /\ Holds(m.trans[t].guard)}

\* The transition n answers e with: the first exact one, else the first
\* wildcard (which never matches the eventless event), else none.
NoTransition == 0
First(S) == IF S = {} THEN NoTransition ELSE Min(S)
Else(t, u) == IF t # NoTransition THEN t ELSE u
SelectForNode(n, e) ==
    Else(First(Enabled(n, e)),
         IF e = Eventless THEN NoTransition ELSE First(Enabled(n, Wildcard)))

\* S in document order
Sorted(S) == [i \in 1 .. Cardinality(S) |->
                CHOOSE n \in S : Cardinality({x \in S : x < n}) = i - 1]

Atomic == {n \in cfg : Children(n) \cap cfg = {}}

\* The nearest answer on the way from the atomic state n up to the root.
Deepest(answers) ==
    LET answering == {a \in DOMAIN answers : answers[a] # NoTransition} IN
    IF answering = {} THEN NoTransition ELSE answers[Max(answering)]
Bubble(n, e) == Deepest([a \in m.up[n] |-> SelectForNode(a, e)])

\* The elements of s at the indices I; the first occurrence of every element.
Pick(s, I) == LET order == Sorted(I) IN [k \in DOMAIN order |-> s[order[k]]]
Distinct(s) == Pick(s, {i \in DOMAIN s : \A j \in 1 .. (i - 1) : s[j] # s[i]})

Candidates(e) ==
    LET leaves == Sorted(Atomic)
        picks == [i \in DOMAIN leaves |-> Bubble(leaves[i], e)]
    IN
    Distinct(Pick(picks, {i \in DOMAIN picks : /\ picks[i] # NoTransition
                                              /\ ~m.trans[picks[i]].forbidden}))

\* transitionDomain: the source when nothing leaves it, else its nearest
\* non-parallel ancestor above every target.
Covers(a, targets) ==
    m.type[a] # "parallel" /\ \A x \in targets : x # a /\ Below(x, a)
TransitionDomain(t) ==
    LET src == m.trans[t].source
        targets == Range(m.trans[t].targets) IN
    IF ~m.trans[t].reenter /\ \A x \in targets : Below(x, src) THEN src
    ELSE Max({Root} \cup {a \in m.up[src] \ {src} : Covers(a, targets)})

ExitSetOf(t) ==
    IF m.trans[t].targets = <<>> THEN {}
    ELSE {n \in cfg \ {TransitionDomain(t)} : Below(n, TransitionDomain(t))}

Conflict(t, u) == ExitSetOf(t) \cap ExitSetOf(u) # {}
Preempts(t, u) ==
    /\ m.trans[t].source # m.trans[u].source
    /\ Below(m.trans[t].source, m.trans[u].source)

\* One round of the conflict filter, on the indices of the candidates: scan
\* the kept ones in order; a conflicting one is erased when candidate i wins
\* over it, and otherwise ends the scan and drops i (erasures made before that
\* stay).
Blockers(kept, i, clash, wins) == {k \in kept : <<i, k>> \in clash \ wins}

\* (mutant: the loser of a conflict and the winner are both dropped)
ResolveDropsBoth(kept, i, clash, wins) ==
    IF \E k \in kept : <<i, k>> \in clash
    THEN {k \in kept : <<i, k>> \notin clash}
    ELSE kept \cup {i}

Resolve(kept, i, clash, wins) ==
    LET blockers == Blockers(kept, i, clash, wins) IN
    {k \in kept : \/ <<i, k>> \notin clash
                 \/ (blockers # {} /\ k >= Min(blockers))}
    \cup IF blockers = {} THEN {i} ELSE {}

ResolveAll(n, clash, wins) ==
    LET kept[i \in 0 .. n] ==
            IF i = 0 THEN {} ELSE Resolve(kept[i - 1], i, clash, wins)
    IN  kept[n]

\* The conflict filter of selectTransitions.
Survivors(cands) ==
    LET Pairs == (DOMAIN cands) \X (DOMAIN cands) IN
    Pick(cands, ResolveAll(Len(cands),
                           {p \in Pairs : Conflict(cands[p[1]], cands[p[2]])},
                           {p \in Pairs : Preempts(cands[p[1]], cands[p[2]])}))

Selected(e) == Survivors(Candidates(e))

-----------------------------------------------------------------------------
(* Exit and entry of a microstep that takes the transitions sel *)

Exited(sel) == UNION {ExitSetOf(t) : t \in Range(sel)}

\* What the history state h records of the configuration being left.
Record(h) ==
    IF m.type[h] = "shallow" THEN Children(m.parent[h]) \cap cfg
    ELSE {a \in Atomic : a # m.parent[h] /\ Below(a, m.parent[h])}

\* (mutant: every microstep starts from an empty record)
RecordedAfresh(sel) ==
    [h \in History |-> IF m.parent[h] \in Exited(sel) THEN Record(h) ELSE {}]

\* Newly exited parents overwrite what their history states hold, from the
\* configuration before the exit.
Recorded(sel) ==
    [h \in History |-> IF m.parent[h] \in Exited(sel) THEN Record(h) ELSE hist[h]]

\* pushChain: n and its ancestors up to stop, stop excluded.
Chain(stop, n) ==
    CASE n = NoNode -> {}
      [] n # NoNode /\ stop \in m.up[n] -> m.up[n] \ m.up[stop]
      [] OTHER -> m.up[n]

\* (mutant: history always goes to its default target)
GoalsWithoutRecord(target, h) ==
    IF target \notin History THEN {target}
    ELSE IF m.default[target] # NoNode THEN {m.default[target]}
    ELSE {Resolved(m.initial[m.parent[target]])} \ {NoNode}

\* What computeEntrySet enters for one target: the chain to each node from
\* `stop', and the node's own descent unless it is a history state.
Goals(target, h) ==
    LET p == m.parent[target] IN
    CASE target \notin History -> {target}
      [] target \in History /\ h[target] # {} -> h[target]
      [] target \in History /\ h[target] = {} /\ m.default[target] # NoNode ->
            {m.default[target]}
      [] OTHER -> {Resolved(m.initial[p])} \ {NoNode}

\* For a target that is a history state, the chain to the state itself too.
RequestsFor(at, target, domain, h) ==
    {[at |-> at, node |-> g,
      stop |-> IF target \in History /\ h[target] # {}
               THEN m.parent[target] ELSE domain] : g \in Goals(target, h)}
    \cup {[at |-> at, node |-> g, stop |-> domain] : g \in {target} \cap History}

Requests(sel, h) ==
    UNION {UNION {RequestsFor(<<i, j>>, m.trans[sel[i]].targets[j],
                              TransitionDomain(sel[i]), h)
                  : j \in DOMAIN m.trans[sel[i]].targets} : i \in DOMAIN sel}

Earlier(r, s) == \/ r.at[1] < s.at[1]
                 \/ r.at[1] = s.at[1] /\ r.at[2] < s.at[2]

\* A target already entered on the chain to an earlier one is not expanded.
Expanded(rs) ==
    {r \in rs : /\ r.node \notin History
                /\ \A s \in rs : Earlier(s, r) =>
                      r.node \notin Chain(s.stop, m.parent[s.node])}

Targeted(rs) == (UNION {Chain(r.stop, m.parent[r.node]) : r \in rs})
                \cup UNION {Descent(r.node) : r \in Expanded(rs)}

\* completeConfiguration: the regions missing from active parallel states and
\* the initial states of active compounds without an active child.
Missing(S) ==
    {c \in Nodes \ S :
        /\ m.parent[c] \in S
        /\ \/ m.type[m.parent[c]] = "parallel"
           \/ /\ c = m.initial[m.parent[c]]
              /\ Children(m.parent[c]) \cap S = {}}

\* (mutant: only compounds are completed, not parallels)
CompletionOfCompounds(S) ==
    S \cup UNION {Descent(c) : c \in {x \in Missing(S) : m.type[m.parent[x]] = "compound"}}

Completion(S) == S \cup UNION {Descent(c) : c \in Missing(S)}

\* The states whose parent's initial actions run when rs are entered and
\* `before' is completed.
ViaInitial(rs, before) ==
    (UNION {InitialsOf(r.node, FALSE) : r \in Expanded(rs)})
    \cup UNION {InitialsOf(c, TRUE) : c \in Missing(before)}

-----------------------------------------------------------------------------
(* Raised events: queues are concatenated in the order the actions run *)

\* seqs, a function from some nodes to sequences, in document order
InOrder(seqs) ==
    LET order == Sorted(DOMAIN seqs) IN FlattenSeq([i \in DOMAIN order |-> seqs[order[i]]])

ExitRaises(exited) == FlattenSeq([i \in 1 .. Cardinality(exited) |->
                                    m.exit[Reverse(Sorted(exited))[i]]])
EntryRaises(entered, via) ==
    InOrder([n \in entered |->
        (IF n \in via THEN m.initActs[m.parent[n]] ELSE <<>>) \o m.entry[n]])
TransitionRaises(sel) ==
    FlattenSeq([i \in DOMAIN sel |-> m.trans[sel[i]].raise])

\* (mutant: one final region is enough)
InFinalAnyRegion(S) ==
    LET final[n \in Nodes] ==
            CASE m.type[n] = "final" -> n \in S
              [] m.type[n] = "parallel" -> \E r \in Children(n) : final[r]
              [] OTHER -> \E c \in Children(n) \cap S : final[c]
    IN  final

\* isInFinal: a compound state asks its active child, however deep.
InFinal(S) ==
    LET final[n \in Nodes] ==
            LET regions == Children(n) \ History IN
            CASE m.type[n] = "final" -> n \in S
              [] m.type[n] = "parallel" ->
                    regions # {} /\ \A r \in regions : final[r]
              [] OTHER -> /\ Children(n) \cap S # {}
                          /\ final[Min(Children(n) \cap S)]
    IN  final

\* (mutant: completed parallel ancestors are forgotten)
DoneEventsOfParents(entered, S) ==
    LET finals == {f \in entered \ {Root} : m.type[f] = "final"} IN
    InOrder([f \in finals |-> IF m.parent[f] = Root THEN <<>>
                              ELSE <<DoneState(m.parent[f])>>])

\* processFinals: the done events the newly entered final states raise, each
\* once per microstep: that of the parent, and those of the parallel states
\* above it that are now complete, nearest first.
DoneParallels(p, S) ==
    {a \in m.up[p] \ {p, Root} : m.type[a] = "parallel" /\ InFinal(S)[a]}
DoneSeq(nodes) == [i \in DOMAIN nodes |-> DoneState(nodes[i])]
DoneAbove(p, S) ==
    IF p = Root THEN <<>>
    ELSE (IF m.type[p] = "parallel" THEN <<>> ELSE <<DoneState(p)>>)
         \o DoneSeq(Reverse(Sorted(DoneParallels(p, S))))
DoneEvents(entered, S) ==
    Distinct(InOrder([f \in {x \in entered \ {Root} : m.type[x] = "final"} |->
                         DoneAbove(m.parent[f], S)]))

\* Whether the machine is done.
ReachesEnd(entered, S) ==
    \/ m.type[Root] = "compound" /\ \E f \in entered \cap Children(Root) :
            m.type[f] = "final"
    \/ m.type[Root] = "parallel" /\ entered # {} /\ InFinal(S)[Root]

-----------------------------------------------------------------------------
(* The effects on timers and invoked children *)

\* (mutant: children of exited states are stopped after the new ones spawn)
SpawnedThenStopped(kids, exited, entered) ==
    [id \in ChildIds |->
        LET by == {n \in entered : id \in m.invokes[n]} IN
        IF \E n \in exited : id \in m.invokes[n] THEN NoNode
        ELSE IF by # {} THEN Max(by) ELSE kids[id]]

\* emitInvokeEffects: children of exited states stop, then those of entered
\* states spawn; a later spawn under the same id takes the id over.
Spawned(kids, exited, entered) ==
    [id \in ChildIds |->
        LET by == {n \in entered : id \in m.invokes[n]} IN
        CASE by # {} -> Max(by)
          [] by = {} /\ (\E n \in exited : id \in m.invokes[n]) -> NoNode
          [] OTHER -> kids[id]]

\* (mutant: timers of exited states keep running)
ArmedWithoutCancel(gone, entered) == armed \cup (entered \cap m.delayed)

\* (mutant: every state that is entered sets a timer)
ArmedForAll(gone, entered) == (armed \ gone) \cup entered

\* emitDelayEffects
Armed(gone, entered) == (armed \ gone) \cup (entered \cap m.delayed)

Assigns(sel) == \E t \in Range(sel) : m.trans[t].act = "assign"
Writes(sel) == \E t \in Range(sel) : m.trans[t].act # "none"

-----------------------------------------------------------------------------
(* Steps *)

NotStarted ==
    [cfg |-> {}, hist |-> [h \in History |-> {}], ctx |-> FALSE,
     status |-> "none", armed |-> {}, children |-> [id \in ChildIds |-> NoNode]]
NoStep == [taken |-> <<>>, exited |-> {}, entered |-> {}, done |-> <<>>]

Init ==
    /\ m \in Range(Charts)
    /\ cfg = {}
    /\ hist = [h \in History |-> {}]
    /\ ctx = FALSE
    /\ q = <<>>
    /\ status = "none"
    /\ phase = "idle"
    /\ always = TRUE
    /\ steps = 0
    /\ armed = {}
    /\ due = {}
    /\ children = [id \in ChildIds |-> NoNode]
    /\ saved = NotStarted
    /\ last = NoStep

Committed == [cfg |-> cfg, hist |-> hist, ctx |-> ctx, status |-> status,
              armed |-> armed, children |-> children]

\* Entering `stabilize' with a fresh loop.
BeginSettling == /\ phase' = "running"
                 /\ always' = TRUE
                 /\ steps' = 0
                 /\ saved' = Committed

\* The macrostep ends and its local variables with it.
Rest == /\ phase' = "idle"
        /\ q' = <<>>
        /\ always' = TRUE
        /\ steps' = 0
        /\ saved' = NotStarted
        /\ last' = NoStep

\* getInitialSnapshot
Start ==
    LET entered == Descent(Root)
        done == DoneEvents(entered, entered)
    IN
    /\ phase = "idle" /\ status = "none"
    /\ cfg' = entered
    /\ q' = EntryRaises(entered, InitialsOf(Root, FALSE)) \o done
    /\ last' = [taken |-> <<>>, exited |-> {}, entered |-> entered, done |-> done]
    /\ status' = IF ReachesEnd(entered, entered) THEN "done" ELSE "active"
    /\ armed' = Armed({}, entered)
    /\ children' = Spawned(children, {}, entered)
    /\ BeginSettling
    /\ UNCHANGED <<m, hist, ctx, due>>

\* microstep: takes the transitions sel; `rest' is the queue they append to.
\* (`\E x \in {v}' binds x to v, evaluated once.)
Microstep(sel, rest) ==
    \E gone \in {Exited(sel)}, recorded \in {Recorded(sel)} :
    \E rs \in {Requests(sel, recorded)} :
    \E before \in {(cfg \ gone) \cup Targeted(rs)} :
    \E next \in {Completion(before)} :
    \E entered \in {next \ (cfg \ gone)} :
    \E done \in {DoneEvents(entered, next)} :
        /\ cfg' = next
        /\ hist' = recorded
        /\ q' = rest \o ExitRaises(gone) \o TransitionRaises(sel)
                  \o EntryRaises(entered, ViaInitial(rs, before)) \o done
        /\ last' = [taken |-> sel, exited |-> gone, entered |-> entered, done |-> done]
        /\ status' = IF ReachesEnd(entered, next) THEN "done" ELSE "active"
        /\ armed' = Armed(gone, entered)
        /\ children' = Spawned(children, gone, entered)
        /\ ctx' \in IF Writes(sel) THEN BOOLEAN ELSE {ctx}

\* Whether the microstep just taken changed anything but by inline actions.
Progress(sel) == last'.exited # {} \/ last'.entered # {} \/ Assigns(sel)

\* transition: an event from the mailbox, answered by sel; unhandled ones
\* change nothing.
Answer(sel) ==
    IF sel = <<>> THEN UNCHANGED <<cfg, hist, ctx, status, armed, children, control>>
    ELSE Microstep(sel, <<>>) /\ BeginSettling
Handle(e) == Answer(Selected(e))

\* (mutant: the status is not checked)
ReceiveInAnyStatus ==
    /\ phase = "idle" /\ status # "none"
    /\ \E e \in m.events : Handle(e)
    /\ UNCHANGED <<m, due>>

Receive ==
    /\ phase = "idle" /\ status = "active"
    /\ \E e \in m.events : Handle(e)
    /\ UNCHANGED <<m, due>>

\* The clock fires a timer: its event is posted to the executor (bounded to
\* one waiting event per state).
Fire ==
    /\ phase = "idle"
    /\ \E n \in armed \ due :
          /\ armed' = armed \ {n}
          /\ due' = due \cup {n}
    /\ UNCHANGED <<m, cfg, hist, ctx, status, children, control>>

\* The executor delivers it; an actor that is not active drops it.
ReceiveAfter ==
    /\ phase = "idle"
    /\ \E n \in due :
          /\ due' = due \ {n}
          /\ IF status = "active" THEN Handle(After(n))
             ELSE UNCHANGED <<cfg, hist, ctx, status, armed, children, control>>
    /\ UNCHANGED m

Settling == /\ phase = "running"
            /\ status = "active"
            /\ steps < StepLimit

\* (mutants: the eventless loop goes on without progress; steps not counted)
EventlessForever ==
    /\ Settling /\ always
    /\ \E sel \in {Selected(Eventless)} : sel # <<>> /\ Microstep(sel, q)
    /\ always' = TRUE
    /\ steps' = steps + 1
    /\ UNCHANGED <<m, due, phase, saved>>
EventlessUncounted ==
    /\ Settling /\ always
    /\ \E sel \in {Selected(Eventless)} : /\ sel # <<>>
                                        /\ Microstep(sel, q)
                                        /\ always' = Progress(sel)
    /\ UNCHANGED <<m, due, phase, saved, steps>>

EventlessStep ==
    /\ Settling /\ always
    /\ \E sel \in {Selected(Eventless)} : /\ sel # <<>>
                                        /\ Microstep(sel, q)
                                        /\ always' = Progress(sel)
    /\ steps' = steps + 1
    /\ UNCHANGED <<m, due, phase, saved>>

RaisedStep ==
    /\ Settling
    /\ q # <<>>
    /\ ~(always /\ Selected(Eventless) # <<>>)
    /\ \E sel \in {Selected(Head(q))} :
          IF sel = <<>>
          THEN /\ q' = Tail(q)
               /\ last' = NoStep
               /\ UNCHANGED <<cfg, hist, ctx, status, armed, children>>
          ELSE Microstep(sel, Tail(q))
    /\ always' = TRUE
    /\ steps' = steps + 1
    /\ UNCHANGED <<m, due, phase, saved>>

\* (mutant: an empty queue is enough to come to rest)
SettleEarly ==
    /\ Settling
    /\ q = <<>>
    /\ Rest
    /\ UNCHANGED <<m, cfg, hist, ctx, status, armed, due, children>>

\* Nothing left to do: the snapshot is stable and the macrostep ends.
Settle ==
    /\ Settling
    /\ ~(always /\ Selected(Eventless) # <<>>)
    /\ q = <<>>
    /\ Rest
    /\ UNCHANGED <<m, cfg, hist, ctx, status, armed, due, children>>

\* finishIfDone: exit actions run (what they raise is discarded), timers of
\* active states are cancelled and their invoked children stopped.
Finish ==
    /\ phase = "running" /\ status = "done"
    /\ Rest
    /\ armed' = armed \ cfg
    /\ children' = Spawned(children, cfg, {})
    /\ UNCHANGED <<m, cfg, hist, ctx, status, due>>

\* User code throws inside the macrostep, or the step limit is reached.  The
\* new snapshot and the collected effects are lost; Actor::becomeError keeps
\* the old snapshot with status Error and touches neither timers nor children.
Throw ==
    /\ phase = "running"
    /\ Rest
    /\ status' = "error"
    /\ cfg' = saved.cfg /\ hist' = saved.hist /\ ctx' = saved.ctx
    /\ armed' = saved.armed /\ children' = saved.children
    /\ UNCHANGED <<m, due>>

UserCodeThrows ==
    \/ Throw
    \/ /\ phase = "idle" /\ status = "active"
       /\ status' = "error"
       /\ UNCHANGED <<m, cfg, hist, ctx, armed, due, children, control>>

TooManySteps == status = "active" /\ steps = StepLimit /\ Throw

\* Actor::doStop around onStop: exit actions run, every timer is cleared and
\* every child stopped.
Stop ==
    /\ phase = "idle" /\ status # "stopped"
    /\ status' = "stopped"
    /\ armed' = {}
    /\ children' = [id \in ChildIds |-> NoNode]
    /\ UNCHANGED <<m, cfg, hist, ctx, due, control>>

Next == \/ Start \/ Receive \/ Fire \/ ReceiveAfter
        \/ EventlessStep \/ RaisedStep \/ Settle \/ Finish
        \/ UserCodeThrows \/ TooManySteps \/ Stop

\* The executor runs a macrostep to completion: it is one task.  (This is
\* WF_vars(MacroStep), written out: MacroStep is enabled iff phase = "running".)
MacroStep == EventlessStep \/ RaisedStep \/ Settle \/ Finish \/ TooManySteps
Fairness == []<>(phase # "running") \/ []<><<MacroStep>>_vars

Spec == Init /\ [][Next]_vars /\ Fairness

-----------------------------------------------------------------------------
(* Properties *)

\* Every variable has its type.
TypeOK ==
    /\ m \in Range(Charts)
    /\ cfg \subseteq Nodes
    /\ hist \in [History -> SUBSET Nodes]
    /\ ctx \in BOOLEAN
    /\ q \in Seq(Event)
    /\ status \in {"none", "active", "done", "error", "stopped"}
    /\ phase \in {"idle", "running"}
    /\ always \in BOOLEAN
    /\ steps \in 0 .. StepLimit
    /\ armed \subseteq m.delayed
    /\ due \subseteq m.delayed
    /\ children \in [ChildIds -> Nodes \cup {NoNode}]

\* The configuration is a legal one after every microstep: it holds the root
\* and, with each state, its parent; a compound state has exactly one active
\* child and a parallel state all its regions; history states are never in it
\* ("history nodes never join the configuration", machine.hpp:404).
LegalConfiguration ==
    status \in {"active", "done"} =>
        /\ Root \in cfg
        /\ cfg \cap History = {}
        /\ \A n \in cfg \ {Root} : m.parent[n] \in cfg
        /\ \A n \in cfg :
              /\ m.type[n] = "compound" => Cardinality(Children(n) \cap cfg) = 1
              /\ m.type[n] = "parallel" => Children(n) \ History \subseteq cfg

\* Conflict resolution (machine.hpp:516): the transitions selected for any
\* event exit disjoint sets of states, and a candidate is only left out
\* because one that was selected conflicts with it and is not an ancestor's -
\* nothing is lost to a transition that was itself preempted.
ConflictsResolved ==
    status = "active" =>
        \A e \in m.events \cup {Eventless} :
            LET cands == Candidates(e)
                sel == Range(Survivors(cands))
            IN
            /\ \A t, u \in sel : t # u => ~Conflict(t, u)
            /\ \A t \in Range(cands) \ sel :
                  \E u \in sel : Conflict(t, u) /\ ~Preempts(t, u)

\* A default transition into its own source does not re-enter the source
\* ("descendants re-enter, the source does not", machine.hpp:541).
InternalKeepsSource ==
    \A t \in Range(last.taken) :
        (/\ m.trans[t].targets # <<>>
         /\ ~m.trans[t].reenter
         /\ \A x \in Range(m.trans[t].targets) : Below(x, m.trans[t].source))
        => m.trans[t].source \notin last.entered

\* Timers follow the configuration: no timer of a state that is not active is
\* armed, a state just entered has its timer, and none survives completion or
\* a stop.
TimersFollowConfig ==
    /\ status = "active" => armed \subseteq cfg
    /\ status \in {"active", "done"} /\ phase = "running" =>
            last.entered \cap m.delayed \subseteq armed
    /\ status \in {"done", "stopped"} /\ phase = "idle" => armed = {}

\* Invoked children follow the configuration: every active state has its
\* children running and nothing else runs, also when a state hands a child id
\* over to the state entered after it.
ChildrenFollowConfig ==
    /\ status = "active" =>
          \A id \in ChildIds :
             {n \in cfg : id \in m.invokes[n]} = {children[id]} \ {NoNode}
    /\ status \in {"done", "stopped"} /\ phase = "idle" =>
          \A id \in ChildIds : children[id] = NoNode

\* When a state is complete: a compound state whose active child is final, a
\* parallel state all of whose regions are complete (a final region is).
Complete ==
    LET complete[n \in Nodes] ==
            \/ m.type[n] = "final" /\ n \in cfg
            \/ /\ m.type[n] = "compound"
               /\ \E c \in Children(n) \cap cfg : m.type[c] = "final"
            \/ /\ m.type[n] = "parallel"
               /\ Children(n) \ History # {}
               /\ \A r \in Children(n) \ History : complete[r]
    IN  complete

\* A state announces that it is done only when it is, and the machine is done
\* only when its root is ("a parallel root completes when every region is in
\* a final state", machine.hpp:728).
DoneIsComplete ==
    /\ \A i \in DOMAIN last.done : Complete[last.done[i].of]
    /\ status = "done" => Complete[Root]

\* The converse: a state that a newly entered final state completes, and every
\* parallel ancestor it thereby completes (machine.hpp:698), announces it, and
\* a machine whose root is complete is not active.
CompletionAnnounced ==
    /\ \A f \in last.entered : m.type[f] = "final" =>
          \A a \in m.up[f] \ {f, Root} :
             (/\ Complete[a]
              /\ a = m.parent[f] \/ m.type[a] = "parallel")
             => \E i \in DOMAIN last.done : last.done[i] = DoneState(a)
    /\ status = "active" => ~Complete[Root]

\* A machine only comes to rest when it has nothing left to do: no raised
\* event waits, and an eventless transition that is still enabled has no
\* target and assigns nothing (machine.hpp:738).
RestsStable ==
    phase = "idle" /\ status = "active" =>
        /\ q = <<>>
        /\ \A t \in Range(Selected(Eventless)) :
              m.trans[t].targets = <<>> /\ m.trans[t].act # "assign"

\* The step limit is a backstop for machines that loop: one that raises
\* nothing, and whose eventless transitions have no targets and assign nothing,
\* is never stopped by it ("run once per event, not forever", machine.hpp:739).
MayLoop ==
    \/ \E t \in Trans :
          \/ m.trans[t].raise # <<>>
          \/ /\ m.trans[t].event = Eventless
             /\ m.trans[t].targets # <<>> \/ m.trans[t].act = "assign"
    \/ \E n \in Nodes : m.entry[n] \o m.exit[n] \o m.initActs[n] # <<>>
OnlyLoopsHitTheLimit == [][TooManySteps => MayLoop]_vars

\* Every macrostep ends: the executor thread is never lost to a machine.
MacrostepEnds == phase = "running" ~> phase = "idle"

\* What an observer of the actor sees: the status of the latest snapshot
\* stored, never that of an unfinished macrostep.
VisibleStatus == IF phase = "running" THEN saved.status ELSE status
Actor == INSTANCE Lifecycle WITH status <- VisibleStatus

\* The machine goes through the statuses every actor may go through: a
\* macrostep that throws is seen as one step to "error" from where it began.
ImplementsLifecycle == Actor!Spec
=============================================================================
