-------------------------- MODULE Persistence_proofs --------------------------
(***************************************************************************)
(* For all orderly machines: a state value tells the legal configuration   *)
(* it was made from, in its structured form and as JSON, `matches' asks it *)
(* for exactly the active states, and a restart loses nothing.  A machine  *)
(* that is persisted and restored at any rest keeps all the invariants it  *)
(* has without that, and what its history states hold and bring back is    *)
(* what was active at the last exit.                                       *)
(***************************************************************************)
EXTENDS LastExit, Statechart_proofs

-----------------------------------------------------------------------------
(* State values of legal configurations *)

\* An active child of a compound state is its only one.
LEMMA OnlyChild ==
    ASSUME Chart, NEW S, Legal(S), NEW y \in S \ {Root}, m.type[m.parent[y]] # "parallel"
    PROVE  /\ Active(m.parent[y], S) = {y} /\ Min(Active(m.parent[y], S)) = y
           /\ m.type[m.parent[y]] = "compound"
<1> DEFINE p == m.parent[y]
<1>1. y \in Nodes /\ p \in Nodes /\ m.type[p] = "compound" /\ y \in Children(p)
  BY NodesAreNumbers DEF Legal, Partial, Closed, Children
<1>2. \A c \in Children(p) \cap S : c = y
  BY <1>1 DEF Legal, Partial, Single
<1>3. Active(p, S) = {y}
  BY <1>1, <1>2 DEF Active
<1>4. Min({y}) = y
  <2>1. {y} \in SUBSET Nat
    BY <1>1, NodesAreNumbers
  <2> QED
    BY <2>1, Smallest
<1> QED
  BY <1>1, <1>3, <1>4

\* What a value maps is active.
LEMMA MappedIsActive ==
    ASSUME Chart, Orderly(m), NEW S, Legal(S), NEW y \in Nodes \ {Root},
           m.parent[y] \in S, Mapped(y, S)
    PROVE  y \in S
<1> DEFINE p == m.parent[y]
<1>1. p \in Nodes /\ y \in Children(p)
  BY NodesAreNumbers DEF Children
<1>2. CASE m.type[p] = "parallel"
  <2>1. y \notin History
    BY <1>2 DEF Orderly, History, Nodes
  <2> QED
    BY <1>1, <1>2, <2>1 DEF Legal, Full
<1>3. CASE m.type[p] # "parallel"
  <2>1. Active(p, S) # {} /\ y = Min(Active(p, S))
    BY <1>3 DEF Mapped
  <2>2. Active(p, S) \in SUBSET Nat
    BY NodesAreNumbers DEF Active, Children
  <2>3. y \in Active(p, S)
    BY <2>1, <2>2, Smallest
  <2> QED
    BY <2>3 DEF Active
<1> QED
  BY <1>2, <1>3

\* And so is every path the value reaches, with the leaf there.
LEMMA ValueIsActive ==
    ASSUME Chart, Orderly(m), NEW S, Legal(S), NEW x \in DOMAIN ValueOf(S)
    PROVE  x \in S /\ (ValueOf(S)[x] # NoNode => ValueOf(S)[x] \in Active(x, S))
<1>1. x \in Nodes /\ \A y \in m.up[x] \ {Root} : Mapped(y, S)
  BY DEF ValueOf
<1>2. S \subseteq Nodes /\ Root \in S
  BY DEF Legal, Partial, Closed
<1>3. m.up[x] \subseteq S
  <2> DEFINE Bad == m.up[x] \ S
  <2>1. SUFFICES ASSUME Bad # {} PROVE FALSE
    OBVIOUS
  <2>2. Bad \in SUBSET Nat
    BY <1>1, Ancestors, NodesAreNumbers
  <2>3. PICK y \in Bad : \A z \in Bad : y <= z
    BY <2>1, <2>2, Least
  <2>4. y \in Nodes \ {Root} /\ y \in m.up[x] /\ y \notin S
    BY <1>1, <1>2, Ancestors
  <2>5. m.parent[y] \in Nodes /\ m.parent[y] < y /\ m.parent[y] \in m.up[y]
    BY <2>4, NodesAreNumbers, Ancestors
  <2>6. m.parent[y] \in m.up[x]
    BY <1>1, <2>4, <2>5, AncestorsOfAncestors
  <2>7. m.parent[y] \in S
    BY <2>3, <2>4, <2>5, <2>6, NodesAreNumbers
  <2> QED
    BY <1>1, <2>4, <2>7, MappedIsActive
<1>4. x \in S
  BY <1>1, <1>3, Ancestors
<1>5. ASSUME ValueOf(S)[x] # NoNode PROVE ValueOf(S)[x] \in Active(x, S)
  <2>1. LeafOf(x, S) # NoNode /\ ValueOf(S)[x] = LeafOf(x, S)
    BY <1>5 DEF ValueOf
  <2>2. Active(x, S) # {} /\ LeafOf(x, S) = Min(Active(x, S))
    BY <2>1 DEF LeafOf
  <2>3. Active(x, S) \in SUBSET Nat
    BY NodesAreNumbers DEF Active, Children
  <2> QED
    BY <2>1, <2>2, <2>3, Smallest
<1> QED
  BY <1>4, <1>5

\* Above an active state the value of no state is empty.
LEMMA AboveIsNotBare ==
    ASSUME Chart, NEW S, Legal(S), NEW n \in S, NEW y \in m.up[n], y # n
    PROVE  ~Bare(y, S)
<1>1. n \in Nodes /\ m.up[n] \subseteq S
  BY DEF Legal, Partial, Closed
<1>2. PICK c \in Children(y) : c \in m.up[n]
  BY <1>1, PathToNode
<1> QED
  BY <1>1, <1>2 DEF Bare, Active

\* An active state is mapped unless it is the leaf its parent maps to.
LEMMA ActiveIsMapped ==
    ASSUME Chart, NEW S, Legal(S), NEW y \in S \ {Root}
    PROVE  \/ Mapped(y, S)
           \/ /\ Bare(y, S) /\ m.type[m.parent[y]] = "compound"
              /\ LeafOf(m.parent[y], S) = y
<1>1. CASE m.type[m.parent[y]] = "parallel"
  BY <1>1 DEF Mapped
<1>2. CASE m.type[m.parent[y]] # "parallel"
  <2>1. /\ Active(m.parent[y], S) = {y} /\ Min(Active(m.parent[y], S)) = y
        /\ m.type[m.parent[y]] = "compound"
    BY <1>2, OnlyChild
  <2> QED
    BY <2>1 DEF Mapped, LeafOf
<1> QED
  BY <1>1, <1>2

\* The value reaches every state above an active one.
LEMMA AboveIsReached ==
    ASSUME Chart, NEW S, Legal(S), NEW n \in S, NEW x \in m.up[n], x # n
    PROVE  x \in DOMAIN ValueOf(S)
<1>1. n \in Nodes /\ m.up[n] \subseteq S
  BY DEF Legal, Partial, Closed
<1>2. x \in Nodes /\ m.up[x] \subseteq m.up[n]
  BY <1>1, Ancestors, AncestorsOfAncestors
<1>3. ASSUME NEW y \in m.up[x] \ {Root} PROVE Mapped(y, S)
  <2>1. y \in m.up[n] /\ y \in S
    BY <1>1, <1>2
  <2>2. y # n
    BY <1>1, <1>2, Antisymmetric
  <2>3. ~Bare(y, S)
    BY <2>1, <2>2, AboveIsNotBare
  <2> QED
    BY <2>1, <2>3, ActiveIsMapped
<1> QED
  BY <1>2, <1>3 DEF ValueOf

\* Every active state is on a path of the value, or the leaf at its parent.
LEMMA ActiveIsInValue ==
    ASSUME Chart, NEW S, Legal(S), NEW n \in S \ {Root}
    PROVE  /\ m.parent[n] \in DOMAIN ValueOf(S)
           /\ n \in DOMAIN ValueOf(S) \/ ValueOf(S)[m.parent[n]] = n
<1> DEFINE p == m.parent[n]
<1>1. n \in Nodes \ {Root} /\ m.up[n] \subseteq S
  BY DEF Legal, Partial, Closed
<1>2. p \in Nodes /\ p \in m.up[n] /\ p # n /\ m.up[n] = m.up[p] \cup {n}
  BY <1>1, NodesAreNumbers, Ancestors
<1>3. p \in DOMAIN ValueOf(S)
  BY <1>2, AboveIsReached
<1>4. CASE Mapped(n, S)
  <2>1. \A y \in m.up[n] \ {Root} : Mapped(y, S)
    BY <1>2, <1>3, <1>4 DEF ValueOf
  <2> QED
    BY <1>1, <1>3, <2>1 DEF ValueOf
<1>5. CASE ~Mapped(n, S)
  <2>1. LeafOf(p, S) = n
    BY <1>5, ActiveIsMapped
  <2> QED
    BY <1>3, <2>1 DEF ValueOf
<1> QED
  BY <1>4, <1>5

\* The configuration is restored from the value (restoreConfig after valueOf).
LEMMA ConfigurationIsRestored ==
    ASSUME Chart, Orderly(m), NEW S, Legal(S)
    PROVE  RestoreConfig(ValueOf(S)) = S
<1> DEFINE v == ValueOf(S)
<1>1. S \subseteq Nodes /\ Root \in S
  BY DEF Legal, Partial, Closed
<1>2. ASSUME NEW x \in RestoreConfig(v) PROVE x \in S
  <2>1. CASE x \in DOMAIN v
    BY <2>1, ValueIsActive
  <2>2. ASSUME NEW y \in DOMAIN v, IsLeaf(v, y), x = v[y] PROVE x \in S
    BY <2>2, ValueIsActive DEF IsLeaf, Active
  <2> QED
    BY <1>2, <2>1, <2>2 DEF RestoreConfig
<1>3. ASSUME NEW n \in S PROVE n \in RestoreConfig(v)
  <2>1. CASE n = Root
    <3>1. Root \in DOMAIN v
      BY NodesAreNumbers DEF ValueOf
    <3> QED
      BY <2>1, <3>1 DEF RestoreConfig
  <2>2. CASE n # Root
    <3>1. m.parent[n] \in DOMAIN v /\ (n \in DOMAIN v \/ v[m.parent[n]] = n)
      BY <2>2, ActiveIsInValue
    <3>2. n # NoNode
      BY <1>1, NodesAreNumbers
    <3> HIDE DEF v
    <3> QED
      BY <3>1, <3>2 DEF RestoreConfig, IsLeaf
  <2> QED
    BY <2>1, <2>2
<1> QED
  BY <1>2, <1>3

\* Nothing is lost on the way through JSON (jsonToStateValue after
\* stateValueJson): no leaf, no branch, and no region without a value.
LEMMA ValueComesBack ==
    ASSUME NEW S
    PROVE  JsonToStateValue(StateValueJson(ValueOf(S))) = ValueOf(S)
<1> DEFINE v == ValueOf(S)
           j == StateValueJson(v)
<1>1. v = [x \in DOMAIN v |-> v[x]]
  BY DEF ValueOf
<1>2. DOMAIN j = DOMAIN v
  BY DEF StateValueJson
<1>3. ASSUME NEW x \in DOMAIN v
      PROVE  (IF j[x].kind = "string" THEN j[x].content ELSE NoNode) = v[x]
  <2>1. CASE v[x] = NoNode
    <3>1. j[x] = Json("null", NoNode) \/ j[x] = Json("object", NoNode)
      <4> HIDE DEF v
      <4> QED
        BY <2>1 DEF StateValueJson, IsLeaf, Empty
    <3> HIDE DEF j, v
    <3> QED
      BY <2>1, <3>1 DEF Json
  <2>2. CASE v[x] # NoNode
    <3>1. j[x] = Json("string", v[x])
      <4> HIDE DEF v
      <4> QED
        BY <2>2 DEF StateValueJson, IsLeaf, Empty
    <3> HIDE DEF j, v
    <3> QED
      BY <3>1 DEF Json
  <2> QED
    BY <2>1, <2>2
<1> HIDE DEF j, v
<1>4. JsonToStateValue(j) = v
  BY <1>1, <1>2, <1>3 DEF JsonToStateValue
<1> QED
  BY <1>4 DEF j, v

\* A path is matched exactly when the state it leads to is active.
LEMMA MatchesActive ==
    ASSUME Chart, Orderly(m), NEW S, Legal(S), NEW n \in Nodes \ {Root}
    PROVE  Matches(ValueOf(S), n) <=> n \in S
<1> DEFINE p == m.parent[n]
           o == FromPath(n)
           v == ValueOf(S)
<1>1. /\ p \in Nodes /\ p \in m.up[p] /\ m.up[n] = m.up[p] \cup {n} /\ p < n
      /\ n \in Children(p) /\ n # NoNode /\ n \notin m.up[p]
  BY NodesAreNumbers, Ancestors, Parents DEF Children
<1>2. /\ DOMAIN o = m.up[p] /\ o[p] = n
      /\ \A x \in m.up[p] : x # p => o[x] = NoNode
  BY <1>1 DEF FromPath
<1> HIDE DEF o
<1>3. ASSUME ValueContains(v, o) PROVE n \in S
  <2>1. p \in DOMAIN v
    BY <1>1, <1>2, <1>3 DEF ValueContains
  <2>2. ~Empty(o, p) /\ IsLeaf(o, p)
    BY <1>1, <1>2 DEF Empty, IsLeaf
  <2>3. \/ IsLeaf(v, p) /\ o[p] = v[p]
        \/ o[p] \in Keys(v, p)
    BY <1>1, <1>2, <1>3, <2>2 DEF ValueContains
  <2>4. CASE IsLeaf(v, p) /\ o[p] = v[p]
    <3>1. v[p] = n /\ v[p] # NoNode
      BY <1>2, <2>4 DEF IsLeaf
    <3>2. ValueOf(S)[p] \in Active(p, S)
      BY <2>1, <3>1, ValueIsActive
    <3> QED
      BY <3>1, <3>2 DEF Active
  <2>5. CASE o[p] \in Keys(v, p)
    <3>1. n \in DOMAIN ValueOf(S)
      BY <1>2, <2>5 DEF Keys
    <3> QED
      BY <3>1, ValueIsActive
  <2> QED
    BY <2>3, <2>4, <2>5
<1>4. ASSUME n \in S PROVE ValueContains(v, o)
  <2>1. m.up[n] \subseteq S /\ \A x \in m.up[p] : x # n /\ x \in DOMAIN v
    BY <1>1, <1>4, AboveIsReached DEF Legal, Partial, Closed
  <2>2. ASSUME NEW x \in m.up[p]
        PROVE  \/ Empty(o, x)
               \/ IsLeaf(v, x) /\ o[x] = v[x]
               \/ ~IsLeaf(v, x) /\ IsLeaf(o, x) /\ o[x] \in Keys(v, x)
               \/ ~IsLeaf(v, x) /\ ~IsLeaf(o, x) /\ Keys(o, x) \subseteq Keys(v, x)
    <3>1. CASE x = p
      <4>1. n \in DOMAIN v \/ v[p] = n
        BY <1>4, ActiveIsInValue
      <4>2. IsLeaf(o, p) /\ o[p] = n
        BY <1>1, <1>2 DEF IsLeaf
      <4>3. CASE IsLeaf(v, p)
        <5>1. v[p] \in Active(p, S)
          BY <2>1, <3>1, <4>3, ValueIsActive DEF IsLeaf
        <5>2. LeafOf(p, S) = v[p] /\ m.type[p] # "parallel"
          BY <2>1, <3>1, <4>3 DEF ValueOf, LeafOf, IsLeaf
        <5>3. Active(p, S) = {n}
          BY <1>4, <5>2, OnlyChild
        <5> HIDE DEF v
        <5> QED
          BY <3>1, <4>2, <4>3, <5>1, <5>3
      <4>4. CASE ~IsLeaf(v, p)
        <5>1. n \in Keys(v, p)
          BY <1>1, <4>1, <4>4 DEF Keys, IsLeaf
        <5> HIDE DEF v
        <5> QED
          BY <3>1, <4>2, <4>4, <5>1
      <4> QED
        BY <4>3, <4>4
    <3>2. CASE x # p
      <4>1. ~IsLeaf(o, x)
        BY <1>2, <3>2 DEF IsLeaf
      <4>2. Keys(o, x) \subseteq Keys(v, x)
        BY <1>2, <2>1 DEF Keys
      <4>3. ~IsLeaf(v, x)
        <5> SUFFICES ASSUME v[x] # NoNode PROVE FALSE
          BY DEF IsLeaf
        <5>1. /\ LeafOf(x, S) = v[x] /\ m.type[x] # "parallel"
              /\ Bare(Min(Active(x, S)), S) /\ x \in Nodes
          BY <2>1 DEF ValueOf, LeafOf
        <5>2. PICK c \in Children(x) : c \in m.up[p]
          BY <1>1, <3>2, PathToNode
        <5>3. c \in S \ {Root} /\ m.parent[c] = x /\ c \in m.up[n] /\ c # n
          BY <1>1, <2>1, <5>1, <5>2, Parents
        <5>4. Min(Active(x, S)) = c
          BY <5>1, <5>3, OnlyChild
        <5> HIDE DEF v
        <5> QED
          BY <1>4, <5>1, <5>3, <5>4, AboveIsNotBare
      <4> QED
        BY <4>1, <4>2, <4>3
    <3> QED
      BY <3>1, <3>2
  <2> HIDE DEF v
  <2> QED
    BY <1>2, <2>1, <2>2 DEF ValueContains
<1> QED
  BY <1>3, <1>4 DEF Matches, o

-----------------------------------------------------------------------------
(* Rests *)

\* Of what a machine falls back to when it throws, and is left with then.
Restorable(S) == S = {} \/ Legal(S)
RestorableInv ==
    /\ Restorable(cfg)
    /\ phase = "running" => Restorable(saved.cfg)

\* What a step does to what a throw falls back to.
SnapshotStep ==
    /\ m' = m
    /\ phase' = "running" =>
          \/ phase = "running" /\ saved' = saved
          \/ saved'.cfg = cfg
    /\ \/ status' \in {"active", "done"}
       \/ cfg' = cfg
       \/ phase = "running" /\ cfg' = saved.cfg

\* Every step does this.
LEMMA StepsOfTheSnapshot ==
    ASSUME [Next]_vars
    PROVE  SnapshotStep
<1> USE DEF SnapshotStep
<1>1. ASSUME BeginSettling, UNCHANGED m, status' \in {"active", "done"} PROVE SnapshotStep
  <2>1. phase' = "running" /\ saved'.cfg = cfg
    BY <1>1 DEF BeginSettling, Committed
  <2> QED
    BY <1>1, <2>1
<1>2. ASSUME NEW e, Handle(e), UNCHANGED m PROVE SnapshotStep
  <2>1. CASE Selected(e) = <<>>
    BY <1>2, <2>1 DEF Handle, Answer, control
  <2>2. CASE Selected(e) # <<>>
    <3>1. Microstep(Selected(e), <<>>) /\ BeginSettling
      BY <1>2, <2>2 DEF Handle, Answer
    <3> QED
      BY <1>1, <1>2, <3>1, MicrostepStatus
  <2> QED
    BY <2>1, <2>2
<1>3. CASE Start
  BY <1>1, <1>3 DEF Start
<1>4. CASE Receive
  BY <1>2, <1>4 DEF Receive
<1>5. CASE ReceiveAfter
  <2>1. CASE status = "active"
    BY <1>2, <1>5, <2>1 DEF ReceiveAfter
  <2>2. CASE status # "active"
    BY <1>5, <2>2 DEF ReceiveAfter, control
  <2> QED
    BY <2>1, <2>2
<1>6. CASE EventlessStep \/ RaisedStep
  BY <1>6, SettlingStatus
<1>7. CASE Settle \/ Finish
  BY <1>7 DEF Settle, Finish, Rest
<1>8. CASE UserCodeThrows \/ TooManySteps
  BY <1>8 DEF UserCodeThrows, TooManySteps, Throw, Rest, control
<1>9. CASE Fire \/ Stop \/ UNCHANGED vars
  BY <1>9 DEF Fire, Stop, vars, control
<1> QED
  BY <1>3, <1>4, <1>5, <1>6, <1>7, <1>8, <1>9 DEF Next

\* A machine at rest, whatever became of it, is in no configuration or in a
\* legal one.
LEMMA RestorableStep ==
    ASSUME StatusInv', LegalInv', RestorableInv, [Next]_vars
    PROVE  RestorableInv'
<1>1. SnapshotStep /\ m' = m
  BY StepsOfTheSnapshot DEF SnapshotStep
<1>2. Restorable(cfg') /\ (phase' = "running" => Restorable(saved'.cfg))
  <2>1. CASE status' \in {"active", "done"}
    <3>1. Legal(cfg')
      BY <1>1, <2>1, SameMachine DEF LegalInv
    <3> QED
      BY <1>1, <3>1 DEF SnapshotStep, RestorableInv, Restorable
  <2>2. CASE status' \notin {"active", "done"}
    BY <1>1, <2>2 DEF SnapshotStep, RestorableInv, Restorable, StatusInv
  <2> QED
    BY <2>1, <2>2
<1>3. \A S : Restorable(S)' <=> Restorable(S)
  BY <1>1 DEF Restorable, Legal, Partial, Closed, Single, Full, Nodes, Children, History
<1> QED
  BY <1>2, <1>3 DEF RestorableInv

-----------------------------------------------------------------------------
(* Restarts *)

\* Inductive with and without restarts.
DurableInv == TypeInv /\ StatusInv /\ TimerInv /\ LegalInv /\ RestorableInv

\* What is restored from a persisted snapshot, in either form.
LEMMA FormsAreFaithful ==
    ASSUME Chart, TypeInv, status # "none", NEW p \in Forms(Persisted)
    PROVE  /\ p.status = status /\ p.context = ctx /\ p.value = ValueOf(cfg)
           /\ \A h \in History : hist[h] = IF h \in DOMAIN p.historyValue
                                         THEN p.historyValue[h] ELSE {}
           /\ \A id \in ChildIds : children[id] = IF id \in DOMAIN p.children
                                               THEN p.children[id] ELSE NoNode
<1> DEFINE P == Persisted
           J == ParseSnapshotJson(PersistedToJson(P))
           held == {x \in History : hist[x] # {}}
           live == {id \in ChildIds : children[id] # NoNode}
<1>1. /\ P.status = status /\ P.context = ctx /\ P.value = ValueOf(cfg)
      /\ P.historyValue = [h \in held |-> hist[h]]
      /\ P.children = [id \in live |-> children[id]]
  BY DEF Persisted
<1>2. CASE p = P
  BY <1>1, <1>2
<1>3. CASE p # P
  <2>1. p = J /\ DOMAIN P.children = {}
    BY <1>3 DEF Forms
  <2> HIDE DEF P
  <2>2. /\ J.status = IF P.status \in {"done", "error", "stopped"} THEN P.status ELSE "active"
        /\ J.value = JsonToStateValue(StateValueJson(P.value))
        /\ J.context = P.context
        /\ J.children = <<>>
        /\ J.historyValue = [h \in DOMAIN P.historyValue |-> Range(Sorted(P.historyValue[h]))]
    BY DEF ParseSnapshotJson, PersistedToJson
  <2> HIDE DEF J
  <2>3. J.status = status
    BY <1>1, <2>2 DEF TypeInv, TypeOK
  <2>4. J.value = ValueOf(cfg)
    BY <1>1, <2>2, ValueComesBack
  <2>5. ASSUME NEW h \in History
        PROVE  hist[h] = IF h \in DOMAIN J.historyValue THEN J.historyValue[h] ELSE {}
    <3>1. hist[h] \in SUBSET Nodes
      BY DEF TypeInv, TypeOK
    <3>2. Range(Sorted(hist[h])) = hist[h]
      BY <3>1, NodesInOrder
    <3> QED
      BY <1>1, <2>2, <3>2
  <2>6. ASSUME NEW id \in ChildIds PROVE children[id] = NoNode
    BY <1>1, <2>1
  <2>7. DOMAIN J.children = {}
    BY <2>2
  <2> QED
    BY <1>1, <2>1, <2>2, <2>3, <2>4, <2>5, <2>6, <2>7
<1> QED
  BY <1>2, <1>3

\* A restart gives back what a machine at rest knows; it arms the timers of the
\* active states and starts the children of a machine that is active.
LEMMA RestartGivesBack ==
    ASSUME OrderlyCharts, DurableInv, Restart
    PROVE  /\ UNCHANGED <<m, cfg, hist, ctx, status, control>>
           /\ phase = "idle" /\ status # "none" /\ due' = {}
           /\ armed' = IF status = "active" THEN cfg \cap m.delayed ELSE {}
           /\ children' = IF status = "active" THEN children
                          ELSE [id \in ChildIds |-> NoNode]
<1>1. Chart /\ Orderly(m)
  BY MachinesAreCharts DEF DurableInv, LegalInv
<1>2. /\ UNCHANGED <<m, control>> /\ due' = {} /\ phase = "idle" /\ cfg # {}
  BY DEF Restart
<1>3. Legal(cfg) /\ status # "none"
  BY <1>2 DEF DurableInv, RestorableInv, Restorable, LegalInv
<1>4. PICK p \in Forms(Persisted) : Restore(p)
  BY DEF Restart
<1>5. /\ p.status = status /\ p.context = ctx /\ p.value = ValueOf(cfg)
      /\ \A h \in History : hist[h] = IF h \in DOMAIN p.historyValue
                                    THEN p.historyValue[h] ELSE {}
      /\ \A id \in ChildIds : children[id] = IF id \in DOMAIN p.children
                                          THEN p.children[id] ELSE NoNode
  BY <1>1, <1>3, FormsAreFaithful DEF DurableInv
<1>6. cfg' = cfg
  BY <1>1, <1>3, <1>4, <1>5, ConfigurationIsRestored DEF Restore
<1>7. ctx' = ctx /\ status' = status
  BY <1>4, <1>5 DEF Restore
<1>8. hist' = hist
  <2>1. hist = [h \in History |-> hist[h]]
    BY DEF DurableInv, TypeInv, TypeOK
  <2>2. hist' = [h \in History |-> IF h \in DOMAIN p.historyValue
                                   THEN p.historyValue[h] ELSE {}]
    BY <1>4 DEF Restore
  <2> QED
    BY <1>5, <2>1, <2>2
<1>9. armed' = IF status = "active" THEN cfg \cap m.delayed ELSE {}
  BY <1>4, <1>5, <1>6 DEF Restore
<1>10. children' = IF status = "active" THEN children ELSE [id \in ChildIds |-> NoNode]
  <2>1. children = [id \in ChildIds |-> children[id]]
    BY DEF DurableInv, TypeInv, TypeOK
  <2>2. children' = [id \in ChildIds |->
            IF p.status = "active" /\ id \in DOMAIN p.children THEN p.children[id] ELSE NoNode]
    BY <1>4 DEF Restore
  <2>3. CASE status = "active"
    BY <1>5, <2>1, <2>2, <2>3
  <2>4. CASE status # "active"
    BY <1>5, <2>2, <2>4
  <2> QED
    BY <2>3, <2>4
<1> QED
  BY <1>2, <1>3, <1>6, <1>7, <1>8, <1>9, <1>10

\* To the configuration, its history and the latest microstep it does nothing.
LEMMA RestartIsQuiet ==
    ASSUME OrderlyCharts, DurableInv, Restart
    PROVE  ConfigStep /\ CompletionStep
<1>1. UNCHANGED <<m, cfg, hist, status, last>>
  BY RestartGivesBack DEF control
<1> QED
  BY <1>1 DEF ConfigStep, CompletionStep

\* A restart keeps the invariant.
LEMMA RestartStep ==
    ASSUME OrderlyCharts, DurableInv, Restart
    PROVE  DurableInv'
<1>1. /\ UNCHANGED <<m, cfg, hist, ctx, status, q, phase, always, steps, saved, last>>
      /\ phase = "idle" /\ due' = {} /\ status # "none"
      /\ armed' = IF status = "active" THEN cfg \cap m.delayed ELSE {}
      /\ children' = IF status = "active" THEN children ELSE [id \in ChildIds |-> NoNode]
  BY RestartGivesBack DEF control
<1>2. TypeInv'
  <2>1. children' \in [ChildIds -> Nodes \cup {NoNode}] /\ armed' \subseteq m.delayed
    BY <1>1 DEF DurableInv, TypeInv, TypeOK
  <2> QED
    BY <1>1, <2>1 DEF DurableInv, TypeInv, TypeOK, SavedTypeOK, Nodes, History
<1>3. StatusInv'
  BY <1>1 DEF DurableInv, StatusInv
<1>4. TimerInv'
  BY <1>1 DEF DurableInv, TimerInv
<1>5. LegalInv'
  BY RestartIsQuiet, LegalStep DEF DurableInv
<1>6. RestorableInv'
  BY <1>1 DEF DurableInv, RestorableInv, Restorable, Legal, Partial, Closed, Single, Full,
              Nodes, Children, History
<1> QED
  BY <1>2, <1>3, <1>4, <1>5, <1>6 DEF DurableInv

\* Every step keeps it.
LEMMA DurableStep ==
    ASSUME OrderlyCharts, DurableInv, [DurableNext]_vars
    PROVE  DurableInv'
<1>1. CASE [Next]_vars
  <2>1. TypeInv'
    BY <1>1, TypeStep DEF DurableInv
  <2>2. StatusInv'
    BY <1>1, StatusStep DEF DurableInv
  <2>3. TimerInv'
    BY <1>1, TimersAreKept DEF DurableInv
  <2>4. LegalInv'
    BY <1>1, StepsOfTheConfiguration, LegalStep DEF DurableInv
  <2>5. RestorableInv'
    BY <1>1, <2>2, <2>4, RestorableStep DEF DurableInv
  <2> QED
    BY <2>1, <2>2, <2>3, <2>4, <2>5 DEF DurableInv
<1>2. CASE Restart
  BY <1>2, RestartStep
<1> QED
  BY <1>1, <1>2 DEF DurableNext

\* The invariant of a machine that is restarted again and again.
LEMMA DurableAlways ==
    ASSUME OrderlyCharts
    PROVE  DurableSpec => []DurableInv
<1>1. Init => DurableInv
  <2> SUFFICES ASSUME Init PROVE DurableInv
    OBVIOUS
  <2>1. TypeInv /\ LegalInv
    BY TypesInit, LegalInit
  <2>2. StatusInv /\ TimerInv
    BY DEF Init, StatusInv, Statuses, TimerInv, NoStep
  <2>3. RestorableInv
    BY DEF Init, RestorableInv, Restorable
  <2> QED
    BY <2>1, <2>2, <2>3 DEF DurableInv
<1>2. DurableInv /\ [DurableNext]_vars => DurableInv'
  BY DurableStep
<1> QED
  BY <1>1, <1>2, PTL DEF DurableSpec

-----------------------------------------------------------------------------
(* What a restart preserves *)

\* For all orderly machines: persisting a machine at rest and restoring it,
\* directly or through JSON, loses nothing of its configuration, history,
\* context and status; an active one has the timers and children of its states
\* again (getPersistedSnapshot, restoreSnapshot and the two codecs).
THEOREM RestartsLoseNothing ==
    ASSUME \A i \in DOMAIN Charts : Orderly(Charts[i])
    PROVE  DurableSpec => RestartKeepsState
<1> DEFINE Keeps == UNCHANGED <<cfg, hist, ctx, status>>
                    /\ (status = "active" => /\ armed' = {n \in cfg : n \in m.delayed}
                                             /\ children' = children)
<1>1. OrderlyCharts
  BY DEF OrderlyCharts
<1>2. DurableInv /\ [DurableNext]_vars => [Restart => Keeps]_vars
  BY <1>1, RestartGivesBack
<1> QED
  BY <1>1, <1>2, DurableAlways, PTL DEF DurableSpec, RestartKeepsState

\* For all orderly machines: `matches' says of every state whether it is active,
\* in a machine at work or at rest, and in one that failed or was stopped
\* (MachineSnapshot::matches, StateValue::contains).
THEOREM MatchesTellsActive ==
    ASSUME \A i \in DOMAIN Charts : Orderly(Charts[i])
    PROVE  DurableSpec => []MatchesIsActive
<1>1. OrderlyCharts
  BY DEF OrderlyCharts
<1>2. DurableInv => MatchesIsActive
  <2> SUFFICES ASSUME DurableInv, cfg # {}, NEW n \in Nodes \ {Root}
               PROVE  Matches(ValueOf(cfg), n) <=> n \in cfg
    BY DEF MatchesIsActive
  <2> QED
    BY <1>1, MachinesAreCharts, MatchesActive
    DEF DurableInv, LegalInv, RestorableInv, Restorable
<1> QED
  BY <1>1, <1>2, DurableAlways, PTL

-----------------------------------------------------------------------------
(* What machines that are restarted have in common with others *)

\* With restarts too, the types are kept, configurations are legal, conflicts
\* are resolved and timers are those of the configuration.
THEOREM DurableMachinesAreLegal ==
    ASSUME \A i \in DOMAIN Charts : Orderly(Charts[i])
    PROVE  DurableSpec => [](TypeOK /\ LegalConfiguration /\ ConflictsResolved
                             /\ TimersFollowConfig)
<1>1. OrderlyCharts
  BY DEF OrderlyCharts
<1>2. DurableInv => TypeOK /\ TimersFollowConfig
  BY DEF DurableInv, TypeInv, TimerInv, TimersFollowConfig
<1>3. DurableInv => LegalConfiguration /\ ConflictsResolved
  BY <1>1, LegalIsEnough, LegalResolves DEF DurableInv
<1> QED
  BY <1>1, <1>2, <1>3, DurableAlways, PTL

\* The invoked children of a machine that is restarted are those of its states.
THEOREM DurableChildren ==
    ASSUME \A i \in DOMAIN Charts : Orderly(Charts[i]) /\ Exclusive(Charts[i])
    PROVE  DurableSpec => []ChildrenFollowConfig
<1>1. OrderlyCharts /\ ExclusiveCharts
  BY DEF OrderlyCharts, ExclusiveCharts
<1>2. Init => ChildInv
  BY DEF Init, ChildInv, Hosting
<1>3. ASSUME DurableInv, ChildInv, [DurableNext]_vars PROVE ChildInv'
  <2>1. CASE [Next]_vars
    BY <1>1, <1>3, <2>1, ChildrenAreKept DEF DurableInv
  <2>2. CASE Restart
    <3>1. /\ UNCHANGED <<m, cfg, status, phase>> /\ phase = "idle" /\ status # "none"
          /\ children' = IF status = "active" THEN children
                         ELSE [id \in ChildIds |-> NoNode]
      BY <1>1, <1>3, <2>2, RestartGivesBack DEF control
    <3> QED
      BY <1>3, <3>1 DEF ChildInv, Hosting
  <2> QED
    BY <1>3, <2>1, <2>2 DEF DurableNext
<1>4. ChildInv => ChildrenFollowConfig
  BY DEF ChildInv, ChildrenFollowConfig, Hosting
<1> QED
  BY <1>1, <1>2, <1>3, <1>4, DurableAlways, PTL DEF DurableSpec

\* A machine that was restored is at rest, as the one that was persisted.
THEOREM DurableRests ==
    ASSUME \A i \in DOMAIN Charts : Orderly(Charts[i]) /\ Calm(Charts[i])
    PROVE  DurableSpec => []RestsStable
<1>1. OrderlyCharts /\ CalmCharts
  BY DEF OrderlyCharts, CalmCharts
<1>2. Init => RestInv
  BY DEF Init, RestInv
<1>3. ASSUME DurableInv, RestInv, [DurableNext]_vars PROVE RestInv'
  <2>1. CASE [Next]_vars
    BY <1>1, <1>3, <2>1, RestStep DEF DurableInv
  <2>2. CASE Restart
    <3>1. UNCHANGED <<m, cfg, ctx, status, phase, q, always>>
      BY <1>1, <1>3, <2>2, RestartGivesBack DEF control
    <3>2. Behaved
      BY <1>3, MachinesBehave DEF DurableInv, LegalInv
    <3> QED
      BY <1>3, <3>1, <3>2, QuietStays DEF RestInv
  <2> QED
    BY <1>3, <2>1, <2>2 DEF DurableNext
<1>4. RestInv => RestsStable
  BY DEF RestInv, RestsStable, Quiet
<1> QED
  BY <1>1, <1>2, <1>3, <1>4, DurableAlways, PTL DEF DurableSpec

\* A restart makes no state complete and forgets none: what is announced is
\* complete, and what is complete was announced.
THEOREM DurableCompletion ==
    ASSUME \A i \in DOMAIN Charts : /\ Orderly(Charts[i]) /\ ShallowRegions(Charts[i])
                                    /\ NoFinalRegions(Charts[i])
    PROVE  DurableSpec => [](DoneIsComplete /\ CompletionAnnounced)
<1>1. OrderlyCharts /\ ShallowCharts /\ OwnFinals
  BY DEF OrderlyCharts, ShallowCharts, OwnFinals
<1>2. Init => DoneIsComplete /\ CompletionAnnounced
  BY DEF Init, NoStep, DoneIsComplete, CompletionAnnounced
<1>3. DurableInv /\ [DurableNext]_vars => CompletionStep
  BY <1>1, RestartIsQuiet, StepsOfCompletion DEF DurableNext
<1>4. DurableInv /\ DurableInv' /\ DoneIsComplete /\ [DurableNext]_vars => DoneIsComplete'
  BY <1>1, <1>3, DoneStep DEF DurableInv
<1>5. DurableInv /\ DurableInv' /\ CompletionAnnounced /\ [DurableNext]_vars
        => CompletionAnnounced'
  BY <1>1, <1>3, AnnouncedStep DEF DurableInv
<1> QED
  BY <1>1, <1>2, <1>4, <1>5, DurableAlways, PTL DEF DurableSpec

\* For its observers a machine that is restarted is the same actor.
THEOREM DurableLifecycle ==
    ASSUME \A i \in DOMAIN Charts : Orderly(Charts[i])
    PROVE  DurableSpec => ImplementsLifecycle
<1>1. OrderlyCharts
  BY DEF OrderlyCharts
<1>2. Init => Actor!Init
  BY DEF Init, Actor!Init, VisibleStatus
<1>3. ASSUME DurableInv, [DurableNext]_vars PROVE [Actor!Next]_VisibleStatus
  <2>1. CASE [Next]_vars
    BY <1>3, <2>1, StatusStep DEF DurableInv
  <2>2. CASE Restart
    <3>1. UNCHANGED <<status, phase, saved>>
      BY <1>1, <1>3, <2>2, RestartGivesBack DEF control
    <3> QED
      BY <3>1 DEF VisibleStatus
  <2> QED
    BY <1>3, <2>1, <2>2 DEF DurableNext
<1> QED
  BY <1>1, <1>2, <1>3, DurableAlways, PTL DEF DurableSpec, ImplementsLifecycle, Actor!Spec

-----------------------------------------------------------------------------
(* What a history state holds *)

\* What a step does to the record and to what a throw falls back to.
HistoryStep ==
    /\ m' = m
    /\ \/ Undone /\ phase' = "idle" /\ last' = NoStep /\ hist' = saved.hist
       \/ /\ ~Undone
          /\ \/ phase' = "idle" /\ last' = NoStep
             \/ phase = "running" /\ phase' = "running" /\ saved' = saved
             \/ phase = "idle" /\ phase' = "running" /\ saved'.hist = hist
          /\ \/ UNCHANGED <<cfg, hist>> /\ last'.entered = {}
             \/ cfg = {} /\ UNCHANGED hist
             \/ status = "active" /\ \E e, rest : Microstep(Selected(e), rest)

\* Every step does one of these.
LEMMA StepsOfTheHistory ==
    ASSUME OrderlyCharts, DurableInv, phase = "idle" => last = NoStep, DurableNext
    PROVE  HistoryStep
<1> USE DEF HistoryStep
<1>1. NoStep.entered = {}
  BY DEF NoStep
<1>2. ASSUME UNCHANGED <<m, cfg, hist, control>>, phase = "idle" PROVE HistoryStep
  BY <1>1, <1>2 DEF control, Undone
<1>3. ASSUME NEW e, Handle(e), UNCHANGED m, phase = "idle", status = "active"
      PROVE  HistoryStep
  <2>1. CASE Selected(e) = <<>>
    BY <1>2, <1>3, <2>1 DEF Handle, Answer
  <2>2. CASE Selected(e) # <<>>
    <3>1. Microstep(Selected(e), <<>>) /\ BeginSettling
      BY <1>3, <2>2 DEF Handle, Answer
    <3>2. phase' = "running" /\ saved'.hist = hist
      BY <3>1 DEF BeginSettling, Committed
    <3> QED
      BY <1>3, <3>1, <3>2 DEF Undone
  <2> QED
    BY <2>1, <2>2
<1>4. CASE Start
  <2>1. /\ UNCHANGED <<m, hist>> /\ status = "none" /\ phase = "idle"
        /\ phase' = "running" /\ saved'.hist = hist
    BY <1>4 DEF Start, BeginSettling, Committed
  <2>2. cfg = {}
    BY <2>1 DEF DurableInv, LegalInv
  <2> QED
    BY <2>1, <2>2 DEF Undone
<1>5. CASE Receive
  BY <1>3, <1>5 DEF Receive
<1>6. CASE ReceiveAfter
  <2>1. CASE status = "active"
    BY <1>3, <1>6, <2>1 DEF ReceiveAfter
  <2>2. CASE status # "active"
    BY <1>2, <1>6, <2>2 DEF ReceiveAfter
  <2> QED
    BY <2>1, <2>2
<1>7. CASE EventlessStep \/ RaisedStep
  <2>1. /\ phase = "running" /\ UNCHANGED <<phase, saved, m>> /\ status = "active"
        /\ ~Undone
    BY <1>7, SettlingStatus DEF Undone
  <2>2. \/ \E e, rest : Microstep(Selected(e), rest)
        \/ UNCHANGED <<cfg, hist>> /\ last'.entered = {}
    BY <1>1, <1>7 DEF EventlessStep, RaisedStep
  <2> QED
    BY <2>1, <2>2
<1>8. CASE Settle \/ Finish
  <2>1. /\ UNCHANGED <<m, cfg, hist, status>> /\ status \in {"active", "done"}
        /\ phase' = "idle" /\ last' = NoStep
    BY <1>8 DEF Settle, Settling, Finish, Rest
  <2> QED
    BY <1>1, <2>1 DEF Undone
<1>9. CASE Fire \/ Stop
  BY <1>2, <1>9 DEF Fire, Stop
<1>10. ASSUME Throw PROVE HistoryStep
  BY <1>10 DEF Throw, Rest, Undone
<1>11. CASE UserCodeThrows \/ TooManySteps
  BY <1>2, <1>10, <1>11 DEF UserCodeThrows, TooManySteps
<1>12. CASE Restart
  BY <1>2, <1>12, RestartGivesBack
<1> QED
  BY <1>4, <1>5, <1>6, <1>7, <1>8, <1>9, <1>11, <1>12 DEF DurableNext, Next

\* A microstep records what it leaves, also if it enters it again, and keeps
\* every other record: what it does not exit stays, and what it enters was not
\* active or was exited.
LEMMA MicrostepRecords ==
    ASSUME Chart, Orderly(m), Legal(cfg), Memory(hist), m' = m,
           NEW e, NEW rest, Microstep(Selected(e), rest), NEW h \in History
    PROVE  hist'[h] = IF Leaves(m.parent[h]) THEN ActiveBelow(h) ELSE hist[h]
<1> DEFINE sel == Selected(e)
           p   == m.parent[h]
<1>1. Kept(sel) \subseteq cfg'
  BY MicrostepIsLegal
<1>2. PICK entered : entered = cfg' \ Kept(sel) /\ last'.entered = entered
  <2> DEFINE next == Completion(Kept(sel) \cup Targeted(Requests(sel, Recorded(sel))))
             new  == next \ Kept(sel)
             done == DoneEvents(new, next)
  <2>1. /\ cfg' = next
        /\ last' = [taken |-> sel, exited |-> Exited(sel), entered |-> new, done |-> done]
    BY MicrostepEffects
  <2> HIDE DEF next, done
  <2> QED
    BY <2>1
<1>3. Exited(sel) \subseteq cfg
  BY DEF Exited, ExitSetOf
<1>4. hist'[h] = IF p \in Exited(sel) THEN Record(h) ELSE hist[h]
  BY MicrostepShape DEF Recorded
<1>5. Leaves(p) <=> p \in Exited(sel)
  BY <1>1, <1>2, <1>3 DEF Leaves, Kept
<1>6. ASSUME p \in cfg PROVE Record(h) = ActiveBelow(h)
  <2>1. m.type[p] = "compound"
    BY DEF Orderly, History, Nodes
  <2>2. p \notin Atomic
    BY <1>6, <2>1 DEF Legal, Full, Atomic
  <2> QED
    BY <2>2 DEF Record, ActiveBelow, History
<1> HIDE DEF sel
<1> QED
  BY <1>3, <1>4, <1>5, <1>6

\* The record and the history variable agree, now and after a throw.
HistoryInv ==
    /\ hist = left
    /\ phase = "idle" => leftBefore = left /\ last = NoStep
    /\ phase = "running" => leftBefore = saved.hist

\* Every step changes both in the same way.
LEMMA HistoryKept ==
    ASSUME OrderlyCharts, DurableInv, DurableInv', HistoryInv, [WitnessedNext]_witnessed
    PROVE  HistoryInv'
<1>1. CASE UNCHANGED witnessed
  BY <1>1 DEF witnessed, vars, control, HistoryInv
<1>2. CASE WitnessedNext
  <2>1. HistoryStep /\ Witness /\ m' = m
    BY <1>2, StepsOfTheHistory DEF WitnessedNext, HistoryInv, HistoryStep
  <2>2. /\ hist \in [History -> SUBSET Nodes] /\ hist' \in [History -> SUBSET Nodes]
        /\ phase \in {"idle", "running"} /\ phase' \in {"idle", "running"}
    BY <2>1, SameTypes DEF DurableInv, TypeInv, TypeOK, StatusInv, SnapTypeOK
  <2>3. CASE Undone
    BY <2>1, <2>3 DEF HistoryStep, Witness, HistoryInv, Undone
  <2>4. CASE ~Undone
    <3>1. ASSUME NEW h \in History
          PROVE  hist'[h] = IF Leaves(m.parent[h]) THEN ActiveBelow(h) ELSE left[h]
      <4>1. CASE UNCHANGED <<cfg, hist>> /\ last'.entered = {}
        BY <4>1 DEF Leaves, HistoryInv
      <4>2. CASE cfg = {} /\ UNCHANGED hist
        BY <4>2 DEF Leaves, HistoryInv
      <4>3. CASE status = "active" /\ \E e, rest : Microstep(Selected(e), rest)
        <5>1. Chart /\ Orderly(m) /\ Legal(cfg) /\ Memory(hist)
          BY <4>3, MachinesAreCharts DEF DurableInv, LegalInv
        <5> QED
          BY <2>1, <4>3, <5>1, MicrostepRecords DEF HistoryInv
      <4> QED
        BY <2>1, <2>4, <4>1, <4>2, <4>3 DEF HistoryStep
    <3>2. left' = [h \in History |-> IF Leaves(m.parent[h]) THEN ActiveBelow(h)
                                     ELSE left[h]]
      BY <2>1, <2>4 DEF Witness
    <3>3. hist' = left'
      BY <2>2, <3>1, <3>2
    <3>4. /\ leftBefore' = CASE phase' = "idle" -> left'
                             [] phase = "idle" /\ phase' = "running" -> left
                             [] OTHER -> leftBefore
          /\ \/ phase' = "idle" /\ last' = NoStep
             \/ phase = "running" /\ phase' = "running" /\ saved' = saved
             \/ phase = "idle" /\ phase' = "running" /\ saved'.hist = hist
      BY <2>1, <2>4 DEF Witness, HistoryStep
    <3> QED
      BY <3>3, <3>4 DEF HistoryInv
  <2> QED
    BY <2>3, <2>4
<1> QED
  BY <1>1, <1>2

\* For all orderly machines, restarted or not: what the snapshot holds for a
\* history state is what was active when its parent was last left, however
\* long ago (machine.hpp:789-810, and the snapshot's codecs).
THEOREM HistoryIsOfTheLastExit ==
    ASSUME \A i \in DOMAIN Charts : Orderly(Charts[i])
    PROVE  WitnessedSpec => []HistoryIsLastExit
<1>1. OrderlyCharts
  BY DEF OrderlyCharts
<1>2. WitnessedInit => HistoryInv
  BY DEF WitnessedInit, Init, HistoryInv
<1>3. DurableInv /\ DurableInv' /\ HistoryInv /\ [WitnessedNext]_witnessed => HistoryInv'
  BY <1>1, HistoryKept
<1>4. WitnessedInit => Init
  BY DEF WitnessedInit
<1>5. [WitnessedNext]_witnessed => [DurableNext]_vars
  BY DEF WitnessedNext, witnessed
<1>6. HistoryInv => HistoryIsLastExit
  BY DEF HistoryInv, HistoryIsLastExit
<1> QED
  BY <1>1, <1>2, <1>3, <1>4, <1>5, <1>6, DurableAlways, PTL DEF WitnessedSpec, DurableSpec

\* For all orderly machines, restarted or not: a transition to a history state
\* whose parent was left before brings back what was active when it was last
\* left, and nothing else is active below the parent (machine.hpp:590-632).
THEOREM DurableHistory ==
    ASSUME \A i \in DOMAIN Charts : Orderly(Charts[i])
    PROVE  WitnessedSpec => []HistoryRestored
<1>1. OrderlyCharts
  BY DEF OrderlyCharts
<1>2. DurableInv /\ [DurableNext]_vars => ConfigStep
  BY <1>1, RestartIsQuiet, StepsOfTheConfiguration DEF DurableNext
<1>3. Init => RecordRestored
  BY DEF Init, NoStep, RecordRestored, Range
<1>4. DurableInv /\ RecordRestored /\ [DurableNext]_vars => RecordRestored'
  BY <1>1, <1>2, RestoringStep DEF DurableInv
<1>5. WitnessedInit => Init
  BY DEF WitnessedInit
<1>6. [WitnessedNext]_witnessed => [DurableNext]_vars
  BY DEF WitnessedNext, witnessed
<1>7. RecordRestored /\ HistoryIsLastExit => HistoryRestored
  BY DEF RecordRestored, HistoryIsLastExit, HistoryRestored
<1> QED
  BY <1>1, <1>3, <1>4, <1>5, <1>6, <1>7, DurableAlways, HistoryIsOfTheLastExit, PTL
  DEF WitnessedSpec, DurableSpec
=============================================================================
