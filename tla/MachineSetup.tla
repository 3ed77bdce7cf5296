---------------------------- MODULE MachineSetup ----------------------------
(***************************************************************************)
(* createMachine (machine.hpp:934-1160): a configuration is flattened into *)
(* a table of state nodes, in document order, and then wired: targets are  *)
(* resolved and the names it refers to are looked up.                      *)
(*                                                                         *)
(* A node is its place in that table.  A failed check throws a ConfigError *)
(* and there is no machine.                                                *)
(***************************************************************************)
EXTENDS MachineJson, FiniteSets, FiniteSetsExt, MachineShape

CONSTANTS
    GuardNames, ActionNames, ActorNames, DelayNames,  \* bound by MachineOptions
    Numbers                                           \* the `after' keys that are digits

\* Keys are joined by dots in a path, and split at dots in a target.
Joined(keys) == FlattenSeq([i \in DOMAIN keys |->
                              (IF i = 1 THEN <<>> ELSE <<".">>) \o keys[i]])
RECURSIVE SplitDots(_)
SplitDots(s) ==
    LET dot == SelectInSeq(s, LAMBDA piece : piece = ".") IN
    IF dot = 0 THEN <<s>>
    ELSE <<SubSeq(s, 1, dot - 1)>> \o SplitDots(SubSeq(s, dot + 1, Len(s)))

-----------------------------------------------------------------------------
(* Pass 1: the table of nodes, each with its keys from the root and its     *)
(* configuration                                                            *)

RECURSIVE Flatten(_, _)
Flatten(keys, sc) ==
    <<[keys |-> keys, sc |-> sc]>> \o
    FlattenSeq([i \in DOMAIN sc.states |-> Flatten(Append(keys, sc.states[i][1]),
                                                   sc.states[i][2])])

IsRoot(node) == node.keys = <<>>
Childless(node) == node.sc.states = <<>>
TypeIn(node) ==
    CASE IsRoot(node) /\ node.sc.type # "parallel" ->
            IF Childless(node) THEN "atomic" ELSE "compound"
      [] ~IsRoot(node) /\ node.sc.type = "atomic" /\ ~Childless(node) -> "compound"
      [] OTHER -> node.sc.type
IdIn(node, config) ==
    IF IsRoot(node) THEN config.id
    ELSE IF node.sc.id # <<>> THEN node.sc.id
    ELSE config.id \o <<".">> \o Joined(node.keys)

BuildNode(node, config) ==
    [keys |-> node.keys, sc |-> node.sc, type |-> TypeIn(node), id |-> IdIn(node, config)]
BuildTree(config) ==
    LET nodes == Flatten(<<>>, config) IN
    [n \in 0 .. (Len(nodes) - 1) |-> BuildNode(nodes[n + 1], config)]

\* registerId and the two checks on shapes
Buildable(tree) ==
    /\ \A i, j \in DOMAIN tree : tree[i].id = tree[j].id => i = j
    /\ \A n \in DOMAIN tree : tree[n].type = "final" => Childless(tree[n])
    /\ tree[Root].type = "parallel" => ~Childless(tree[Root])

-----------------------------------------------------------------------------
(* Pass 2: targets *)

TheOne(S) == IF S = {} THEN NoNode ELSE Min(S)
NodeAt(tree, keys) == TheOne({n \in DOMAIN tree : tree[n].keys = keys})
NodeById(tree, id) == TheOne({n \in DOMAIN tree : tree[n].id = id})
ChildByKey(tree, n, key) == NodeAt(tree, Append(tree[n].keys, key))
ParentOf(tree, n) == IF n = Root THEN NoNode ELSE NodeAt(tree, Front(tree[n].keys))

WalkDown(tree, from, segs) ==
    IF from = NoNode THEN NoNode ELSE NodeAt(tree, tree[from].keys \o segs)

\* (mutant: the shortest prefix that is an id wins)
ByShortestId(tree, rest) ==
    LET segs == SplitDots(rest)
        cuts == {k \in DOMAIN segs : NodeById(tree, Joined(SubSeq(segs, 1, k))) # NoNode}
        cut == Min(cuts)
    IN  IF cuts = {} THEN NoNode
        ELSE WalkDown(tree, NodeById(tree, Joined(SubSeq(segs, 1, cut))),
                      SubSeq(segs, cut + 1, Len(segs)))

\* "#...": from the longest prefix that is an id, which may be all of it,
\* down by keys.
ById(tree, rest) ==
    LET segs == SplitDots(rest)
        cuts == {k \in DOMAIN segs : NodeById(tree, Joined(SubSeq(segs, 1, k))) # NoNode}
        cut == Max(cuts)
    IN  IF cuts = {} THEN NoNode
        ELSE WalkDown(tree, NodeById(tree, Joined(SubSeq(segs, 1, cut))),
                      SubSeq(segs, cut + 1, Len(segs)))

ResolveTarget(tree, source, raw) ==
    LET scope == IF source = Root THEN Root ELSE ParentOf(tree, source) IN
    CASE raw = <<>> -> NoNode
      [] raw # <<>> /\ raw[1] = "#" -> ById(tree, Tail(raw))
      [] raw # <<>> /\ raw[1] = "." -> WalkDown(tree, source, SplitDots(Tail(raw)))
      [] OTHER -> WalkDown(tree, scope, SplitDots(raw))

-----------------------------------------------------------------------------
(* Pass 2: transitions, in definition order, each with the event it answers *)

DoneStateEvent(id) == <<"xstate", ".", "done", ".", "state", ".">> \o id
ActorEvent(how, id) == <<"xstate", ".", how, ".", "actor", ".">> \o id
AfterEvent(key, id) == <<"xstate", ".", "after", "(">> \o key \o <<")", "#">> \o id
InvokeId(inv) == IF inv.id = <<>> THEN inv.src ELSE inv.id

For(event, list) == [i \in DOMAIN list |-> [event |-> event, tc |-> list[i], forbidden |-> FALSE]]
\* An event with no transitions is selected and does nothing.
Forbid(event) == <<[event |-> event, tc |-> TransitionConfig(<<>>), forbidden |-> TRUE]>>
DeclaredOn(node) ==
    FlattenSeq([i \in DOMAIN node.sc.on |->
                  IF node.sc.on[i][2] = <<>> THEN Forbid(node.sc.on[i][1])
                  ELSE For(node.sc.on[i][1], node.sc.on[i][2])])
DeclaredAfter(node) ==
    FlattenSeq([i \in DOMAIN node.sc.after |->
                  For(AfterEvent(node.sc.after[i][1], node.id), node.sc.after[i][2])])
DeclaredByInvokes(node) ==
    FlattenSeq([i \in DOMAIN node.sc.invoke |->
        LET inv == node.sc.invoke[i] IN
        For(ActorEvent("done", InvokeId(inv)), inv.onDone)
        \o For(ActorEvent("error", InvokeId(inv)), inv.onError)])
Declared(node) ==
    DeclaredOn(node) \o For(<<>>, node.sc.always)
    \o For(DoneStateEvent(node.id), node.sc.onDone)
    \o DeclaredAfter(node) \o DeclaredByInvokes(node)

AddTransition(tree, n, d) ==
    [event |-> d.event, source |-> n,
     targets |-> [i \in DOMAIN d.tc.targets |-> ResolveTarget(tree, n, d.tc.targets[i])],
     guard |-> d.tc.guard, actions |-> d.tc.actions,
     reenter |-> d.tc.reenter, forbidden |-> d.forbidden]

-----------------------------------------------------------------------------
(* Pass 2: checks *)

RECURSIVE ValidGuard(_)
ValidGuard(g) == /\ g.kind = "named" => g.name \in GuardNames
                 /\ AllItems(g.operands, ValidGuard)
ValidAction(a) == /\ a.kind = "named" => a.name \in ActionNames
                  /\ a.kind = "spawnChild" => a.src \in ActorNames
ValidActions(actions) == AllItems(actions, ValidAction)

ValidTransition(t) ==
    /\ AllItems(t.guard, ValidGuard)
    /\ ValidActions(t.actions)
    /\ NoNode \notin Range(t.targets)

InitialOf(tree, n) ==
    IF tree[n].type = "compound" /\ ~Childless(tree[n])
    THEN ChildByKey(tree, n, tree[n].sc.initial) ELSE NoNode

\* (mutant: any key will do for an initial state)
ValidCommonUnchecked(tree, n) ==
    LET sc == tree[n].sc IN
    /\ tree[n].type = "compound" /\ ~Childless(tree[n]) => sc.initial # <<>>
    /\ sc.initialActions # <<>> => ValidActions(sc.initialActions)

\* wireCommon
ValidCommon(tree, n) ==
    LET sc == tree[n].sc IN
    /\ tree[n].type = "compound" /\ ~Childless(tree[n]) =>
          sc.initial # <<>> /\ InitialOf(tree, n) # NoNode
    /\ sc.initialActions # <<>> =>
          InitialOf(tree, n) # NoNode /\ ValidActions(sc.initialActions)

\* (mutant: exit actions are not looked at)
ValidStateEntry(tree, n) ==
    LET sc == tree[n].sc IN
    /\ ValidActions(sc.entry)
    /\ AllItems(sc.invoke, LAMBDA inv : inv.src \in ActorNames)
    /\ \A i \in DOMAIN sc.after : sc.after[i][1] \in Numbers \cup DelayNames

\* wireNode, for all nodes but the root
ValidState(tree, n) ==
    LET sc == tree[n].sc IN
    /\ ValidActions(sc.entry) /\ ValidActions(sc.exit)
    /\ tree[n].type = "history" /\ sc.target # <<>> =>
          ResolveTarget(tree, n, sc.target) # NoNode
    /\ AllItems(sc.invoke, LAMBDA inv : inv.src \in ActorNames)
    /\ \A i \in DOMAIN sc.after : sc.after[i][1] \in Numbers \cup DelayNames

Transitions(tree) ==
    FlattenSeq([i \in 1 .. Cardinality(DOMAIN tree) |->
        LET declared == Declared(tree[i - 1]) IN
        [k \in DOMAIN declared |-> AddTransition(tree, i - 1, declared[k])]])

Wireable(tree) ==
    /\ \A n \in DOMAIN tree : ValidCommon(tree, n)
    /\ \A n \in DOMAIN tree \ {Root} : ValidState(tree, n)
    /\ AllItems(Transitions(tree), ValidTransition)

\* The machine that comes out, for the interpreter.
HistoryDefault(tree, n) ==
    IF tree[n].type = "history" /\ tree[n].sc.target # <<>>
    THEN ResolveTarget(tree, n, tree[n].sc.target) ELSE NoNode
MachineOf(tree) ==
    LET N == DOMAIN tree
        up[n \in N] == {n} \cup IF n = Root THEN {} ELSE up[ParentOf(tree, n)]
    IN
    [parent  |-> [n \in N |-> ParentOf(tree, n)],
     up      |-> [n \in N |-> up[n]],
     type    |-> [n \in N |-> IF tree[n].type = "history" THEN tree[n].sc.history
                              ELSE tree[n].type],
     initial |-> [n \in N |-> InitialOf(tree, n)],
     default |-> [n \in N |-> HistoryDefault(tree, n)],
     trans   |-> Transitions(tree),
     delayed |-> {n \in N : tree[n].sc.after # <<>>},
     invokes |-> [n \in N |-> {InvokeId(tree[n].sc.invoke[i]) : i \in DOMAIN tree[n].sc.invoke}]]
=============================================================================
