------------------------ MODULE Configuration_proofs ------------------------
(***************************************************************************)
(* For all orderly machines (MachineShape): the configuration of a         *)
(* statechart is legal after every microstep, and a transition to a        *)
(* history state brings back what its record names.                        *)
(*                                                                         *)
(* What is left by a microstep is the upper part of a legal configuration  *)
(* (WhatStays), what is entered joins it without a second child of a       *)
(* compound state (EnteredIsPartial), and completion adds what is missing  *)
(* (CompletionIsLegal).  That needs two facts of the state before: the     *)
(* configuration is legal, and every history state holds a part of a legal *)
(* one that can be entered again (Memory).  LegalInv is both.              *)
(***************************************************************************)
EXTENDS Statechart, TLAPS, FiniteSetTheorems, WellFoundedInduction

-----------------------------------------------------------------------------
(* Trees *)

\* What the model assumes of a machine (MachineShape).
Chart == IsChart(m, ChildIds)

\* A set of natural numbers has a least element.
LEMMA Least ==
    ASSUME NEW T \in SUBSET Nat, T # {}
    PROVE  \E x \in T : \A y \in T : x <= y
<1>1. \E x \in T : \A y \in T : <<y, x>> \notin OpToRel(<, Nat)
  BY NatLessThanWellFounded, WFMin
<1>2. PICK x \in T : \A y \in T : <<y, x>> \notin OpToRel(<, Nat)
  BY <1>1
<1>3. ASSUME NEW y \in T PROVE x <= y
  <2>1. x \in Nat /\ y \in Nat
    OBVIOUS
  <2>2. <<y, x>> \notin OpToRel(<, Nat)
    BY <1>2
  <2>3. ~(y < x)
    BY <2>1, <2>2 DEF OpToRel
  <2> QED
    BY <2>1, <2>3
<1> QED
  BY <1>3

\* Nodes are numbers, a node's parent has a smaller one.
LEMMA NodesAreNumbers ==
    ASSUME Chart
    PROVE  /\ Nodes \subseteq Nat /\ Root \in Nodes /\ NoNode \notin Nodes
           /\ m.up[Root] = {Root} /\ m.parent[Root] = NoNode
           /\ \A n \in Nodes \ {Root} :
                 /\ m.parent[n] \in Nodes /\ m.parent[n] < n
                 /\ m.up[n] = m.up[m.parent[n]] \cup {n}
                 /\ m.type[m.parent[n]] \in {"compound", "parallel"}
<1>1. IsFiniteSet(Nodes) /\ Nodes = 0 .. (Cardinality(Nodes) - 1) /\ Nodes # {}
  BY DEF Chart, IsChart, Nodes
<1>2. Cardinality(Nodes) \in Nat
  BY <1>1, FS_CardinalityType
<1>3. PICK k \in Int : Nodes = 0 .. k
  BY <1>1, <1>2
<1>4. Nodes \subseteq Nat /\ Root \in Nodes /\ NoNode \notin Nodes
  BY <1>1, <1>3 DEF Root, NoNode
<1>5. ASSUME NEW n \in Nodes \ {Root}
      PROVE  /\ m.parent[n] \in Nodes /\ m.parent[n] < n
             /\ m.up[n] = m.up[m.parent[n]] \cup {n}
             /\ m.type[m.parent[n]] \in {"compound", "parallel"}
  <2>1. /\ m.parent[n] \in 0 .. n - 1
        /\ m.up[n] = m.up[m.parent[n]] \cup {n}
        /\ m.type[m.parent[n]] \in {"compound", "parallel"}
    BY DEF Chart, IsChart, Nodes
  <2> QED
    BY <1>3, <2>1
<1> QED
  BY <1>4, <1>5 DEF Chart, IsChart

\* The ancestors of a node are nodes before it, among them itself and the root.
LEMMA Ancestors ==
    ASSUME Chart, NEW n \in Nodes
    PROVE  n \in m.up[n] /\ Root \in m.up[n] /\ \A a \in m.up[n] : a \in Nodes /\ a <= n
<1> DEFINE Ok(x) == x \in m.up[x] /\ Root \in m.up[x]
                    /\ \A a \in m.up[x] : a \in Nodes /\ a <= x
           Bad == {x \in Nodes : ~Ok(x)}
<1>1. Bad = {}
  <2> SUFFICES ASSUME Bad # {} PROVE FALSE
    OBVIOUS
  <2>1. PICK x \in Bad : \A y \in Bad : x <= y
    <3>1. Bad \in SUBSET Nat
      BY NodesAreNumbers
    <3> HIDE DEF Bad
    <3> QED
      BY <3>1, Least
  <2>2. x # Root
    BY NodesAreNumbers DEF Root
  <2>3. m.parent[x] \in Nodes /\ m.parent[x] < x /\ x \in Nat /\ m.parent[x] \in Nat
    BY <2>2, NodesAreNumbers
  <2>4. Ok(m.parent[x])
    <3>1. ~(x <= m.parent[x])
      BY <2>3
    <3> QED
      BY <2>1, <2>3, <3>1
  <2>5. m.up[x] = m.up[m.parent[x]] \cup {x}
    BY <2>2, NodesAreNumbers
  <2>6. \A a \in m.up[x] : a \in Nodes /\ a <= x
    <3> TAKE a \in m.up[x]
    <3>1. CASE a = x
      BY <2>3, <3>1
    <3>2. CASE a # x
      <4>1. a \in Nodes /\ a <= m.parent[x]
        BY <2>4, <2>5, <3>2
      <4> QED
        BY <2>3, <4>1, NodesAreNumbers
    <3> QED
      BY <3>1, <3>2
  <2> QED
    BY <2>4, <2>5, <2>6
<1> QED
  BY <1>1

\* Ancestors of ancestors are ancestors.
LEMMA AncestorsOfAncestors ==
    ASSUME Chart, NEW n \in Nodes, NEW a \in m.up[n]
    PROVE  m.up[a] \subseteq m.up[n]
<1> DEFINE Bad == {x \in Nodes : \E b \in m.up[x] : ~(m.up[b] \subseteq m.up[x])}
<1>1. Bad = {}
  <2> SUFFICES ASSUME Bad # {} PROVE FALSE
    OBVIOUS
  <2>1. PICK x \in Bad : \A y \in Bad : x <= y
    <3>1. Bad \in SUBSET Nat
      BY NodesAreNumbers
    <3> HIDE DEF Bad
    <3> QED
      BY <3>1, Least
  <2>2. PICK b \in m.up[x] : ~(m.up[b] \subseteq m.up[x])
    OBVIOUS
  <2>3. x # Root
    BY <2>2, NodesAreNumbers
  <2>4. /\ m.parent[x] \in Nodes /\ ~(x <= m.parent[x])
        /\ m.up[x] = m.up[m.parent[x]] \cup {x}
    BY <2>3, NodesAreNumbers
  <2>5. m.parent[x] \notin Bad
    BY <2>1, <2>4
  <2> QED
    BY <2>2, <2>4, <2>5
<1> QED
  BY <1>1

\* Of two ancestors of a node the one before is an ancestor of the other.
LEMMA AncestorsAreAChain ==
    ASSUME Chart, NEW n \in Nodes, NEW a \in m.up[n], NEW b \in m.up[n], a <= b
    PROVE  a \in m.up[b]
<1> DEFINE Bad == {x \in Nodes : \E c, d \in m.up[x] : c <= d /\ c \notin m.up[d]}
<1>1. Bad = {}
  <2> SUFFICES ASSUME Bad # {} PROVE FALSE
    OBVIOUS
  <2>1. PICK x \in Bad : \A y \in Bad : x <= y
    <3>1. Bad \in SUBSET Nat
      BY NodesAreNumbers
    <3> HIDE DEF Bad
    <3> QED
      BY <3>1, Least
  <2>2. PICK c \in m.up[x], d \in m.up[x] : c <= d /\ c \notin m.up[d]
    OBVIOUS
  <2>3. x # Root
    BY <2>2, NodesAreNumbers
  <2>4. /\ m.parent[x] \in Nodes /\ ~(x <= m.parent[x]) /\ x \in Nat
        /\ m.up[x] = m.up[m.parent[x]] \cup {x}
    BY <2>3, NodesAreNumbers
  <2>5. m.parent[x] \notin Bad
    BY <2>1, <2>4
  <2>6. d # x
    BY <2>2
  <2>7. c # x
    <3>1. d \in Nat /\ d <= x /\ x \in Nat
      BY <2>4, Ancestors, NodesAreNumbers
    <3> QED
      BY <2>2, <2>6, <3>1
  <2> QED
    BY <2>2, <2>4, <2>5, <2>6, <2>7
<1> QED
  BY <1>1

\* Two ancestors of a node are one above the other.
LEMMA Comparable ==
    ASSUME Chart, NEW n \in Nodes, NEW a \in m.up[n], NEW b \in m.up[n]
    PROVE  a \in m.up[b] \/ b \in m.up[a]
<1>1. a \in Nat /\ b \in Nat
  BY Ancestors, NodesAreNumbers
<1>2. a <= b \/ b <= a
  BY <1>1
<1> QED
  BY <1>2, AncestorsAreAChain

\* No two nodes are above each other.
LEMMA Antisymmetric ==
    ASSUME Chart, NEW n \in Nodes, NEW a \in m.up[n], n \in m.up[a]
    PROVE  a = n
<1>1. a \in Nat /\ n \in Nat /\ a <= n /\ n <= a
  BY Ancestors, NodesAreNumbers
<1> QED
  BY <1>1

\* The ancestors of a node but itself are those of its parent, which is below
\* them and above it.
LEMMA Parents ==
    ASSUME Chart, NEW p \in Nodes, NEW c \in Children(p)
    PROVE  /\ c \in Nodes \ {Root} /\ m.parent[c] = p /\ p < c
           /\ p \in m.up[c] /\ c \notin m.up[p] /\ m.up[c] = m.up[p] \cup {c}
           /\ \A a \in m.up[c] : a # c => a \in m.up[p]
           /\ m.type[p] \in {"compound", "parallel"}
<1>1. c \in Nodes /\ m.parent[c] = p /\ c # Root
  BY NodesAreNumbers DEF Children
<1>2. p < c /\ m.up[c] = m.up[p] \cup {c} /\ m.type[p] \in {"compound", "parallel"}
  BY <1>1, NodesAreNumbers
<1>3. p \in m.up[p] /\ \A a \in m.up[p] : a \in Nat /\ a <= p
  BY Ancestors, NodesAreNumbers
<1>4. c \notin m.up[p]
  BY <1>1, <1>2, <1>3, NodesAreNumbers
<1> QED
  BY <1>1, <1>2, <1>3, <1>4

\* From an ancestor the path to a node leads through a child.
LEMMA PathToNode ==
    ASSUME Chart, NEW n \in Nodes, NEW a \in m.up[n], a # n
    PROVE  /\ \E c \in Children(a) : c \in m.up[n]
           /\ m.type[a] \in {"compound", "parallel"}
<1> DEFINE Bad == {x \in Nodes : \E b \in m.up[x] \ {x} :
                                     \A c \in Children(b) : c \notin m.up[x]}
<1>1. Bad = {}
  <2> SUFFICES ASSUME Bad # {} PROVE FALSE
    OBVIOUS
  <2>1. PICK x \in Bad : \A y \in Bad : x <= y
    <3>1. Bad \in SUBSET Nat
      BY NodesAreNumbers
    <3> HIDE DEF Bad
    <3> QED
      BY <3>1, Least
  <2>2. PICK b \in m.up[x] \ {x} : \A c \in Children(b) : c \notin m.up[x]
    OBVIOUS
  <2>3. x # Root
    BY <2>2, NodesAreNumbers
  <2>4. /\ m.parent[x] \in Nodes /\ ~(x <= m.parent[x]) /\ x \in Nat
        /\ m.up[x] = m.up[m.parent[x]] \cup {x}
    BY <2>3, NodesAreNumbers
  <2>5. m.parent[x] \notin Bad
    BY <2>1, <2>4
  <2>6. b # m.parent[x]
    BY <2>2, Ancestors DEF Children
  <2> QED
    BY <2>2, <2>4, <2>5, <2>6
<1>2. PICK c \in Children(a) : c \in m.up[n]
  BY <1>1
<1>3. a \in Nodes
  BY Ancestors
<1> QED
  BY <1>2, <1>3, Parents

\* A node has one ancestor among the children of another.
LEMMA OneWayUp ==
    ASSUME Chart, NEW n \in Nodes, NEW p \in Nodes,
           NEW c \in Children(p) \cap m.up[n], NEW d \in Children(p) \cap m.up[n]
    PROVE  c = d
<1>1. c \in m.up[d] \/ d \in m.up[c]
  BY Comparable
<1> QED
  BY <1>1, Parents

-----------------------------------------------------------------------------
(* Legal configurations *)

\* With each of its states a set holds the ancestors; it holds at most one child
\* of a compound state.  A part of a configuration is both, holds the root and no
\* history state; it is legal when each state has the children it needs.
Closed(S) == S \subseteq Nodes /\ \A x \in S : m.up[x] \subseteq S
Single(S) == \A p \in Nodes : m.type[p] = "compound" =>
                \A c, d \in Children(p) \cap S : c = d
Partial(S) == Root \in S /\ Closed(S) /\ S \cap History = {} /\ Single(S)
Full(S) == \A n \in S : /\ m.type[n] = "compound" => Children(n) \cap S # {}
                        /\ m.type[n] = "parallel" => Children(n) \ History \subseteq S
Legal(S) == Partial(S) /\ Full(S)

\* A legal configuration is one by the property.
LEMMA LegalIsLegal ==
    ASSUME Chart, Legal(cfg)
    PROVE  LegalConfiguration
<1>1. ASSUME NEW n \in cfg, m.type[n] = "compound"
      PROVE  Cardinality(Children(n) \cap cfg) = 1
  <2>1. n \in Nodes /\ Children(n) \cap cfg # {}
    BY <1>1 DEF Legal, Partial, Closed, Full
  <2>2. PICK c \in Children(n) : c \in cfg
    BY <2>1
  <2>3. Children(n) \cap cfg = {c}
    BY <1>1, <2>1, <2>2 DEF Legal, Partial, Single
  <2> QED
    BY <2>3, FS_Singleton
<1>2. ASSUME NEW n \in cfg \ {Root} PROVE m.parent[n] \in cfg
  <2>1. n \in Nodes /\ m.up[n] \subseteq cfg
    BY DEF Legal, Partial, Closed
  <2>2. m.parent[n] \in m.up[n]
    BY <2>1, NodesAreNumbers, Ancestors
  <2> QED
    BY <2>1, <2>2
<1> QED
  BY <1>1, <1>2 DEF LegalConfiguration, Legal, Partial, Full

\* The initial state of a compound state, through a history state's default.
LEMMA InitialChild ==
    ASSUME Chart, Orderly(m), NEW p \in Nodes, m.type[p] = "compound"
    PROVE  /\ m.initial[p] \in Children(p) /\ Resolved(m.initial[p]) # NoNode
           /\ Resolved(m.initial[p]) \in Children(p) \ History
<1>1. m.initial[p] \in Nodes /\ m.parent[m.initial[p]] = p
  BY DEF Chart, IsChart, Nodes
<1>2. m.initial[p] # NoNode
  BY <1>1, NodesAreNumbers
<1>3. CASE m.initial[p] \notin History
  BY <1>1, <1>2, <1>3 DEF Resolved, Children
<1>4. CASE m.initial[p] \in History
  <2>1. Resolved(m.initial[p]) = m.default[m.initial[p]] /\ m.default[m.initial[p]] # NoNode
    BY <1>2, <1>4 DEF Resolved, Orderly, Nodes, History
  <2>2. /\ m.default[m.initial[p]] \in Nodes
        /\ m.type[m.default[m.initial[p]]] \notin {"shallow", "deep"}
        /\ m.parent[m.default[m.initial[p]]] = p
    BY <1>1, <2>1 DEF Chart, IsChart, Nodes
  <2> QED
    BY <1>1, <2>1, <2>2 DEF Children, History
<1> QED
  BY <1>3, <1>4

\* A state that is entered with its parent.
LEMMA EnteredWith ==
    ASSUME Chart, NEW x \in Nodes \ {Root}, EntersWith(x, m.parent[x])
    PROVE  /\ x \notin History
           /\ m.type[m.parent[x]] = "compound" => x = Resolved(m.initial[m.parent[x]])
<1>1. CASE m.type[m.parent[x]] = "parallel"
  BY <1>1 DEF EntersWith
<1>2. CASE x = Resolved(m.initial[m.parent[x]])
  <2>1. x # NoNode
    BY NodesAreNumbers
  <2>2. CASE m.initial[m.parent[x]] \in History
    <3>1. x = m.default[m.initial[m.parent[x]]] \/ x = m.initial[m.parent[x]]
      BY <1>2 DEF Resolved
    <3>2. CASE m.initial[m.parent[x]] = NoNode
      BY <2>2, <3>2, NodesAreNumbers DEF History
    <3>3. CASE m.initial[m.parent[x]] # NoNode
      <4>1. x = m.default[m.initial[m.parent[x]]] /\ m.initial[m.parent[x]] \in Nodes
        BY <1>2, <2>2, <3>3 DEF Resolved, History
      <4>2. m.type[x] \notin {"shallow", "deep"}
        BY <2>1, <4>1 DEF Chart, IsChart, Nodes
      <4> QED
        BY <1>2, <4>2 DEF History
    <3> QED
      BY <3>2, <3>3
  <2>3. CASE m.initial[m.parent[x]] \notin History
    BY <1>2, <2>3 DEF Resolved
  <2> QED
    BY <1>2, <2>2, <2>3
<1> QED
  BY <1>1, <1>2 DEF EntersWith

\* What a descent from s enters: s and states below it, none of them a history
\* state, and with each state those between it and s.
LEMMA Descending ==
    ASSUME Chart, NEW s \in Nodes \ History
    PROVE  /\ s \in DescentFrom(s)
           /\ \A x \in DescentFrom(s) :
                 /\ x \in Nodes \ History /\ s \in m.up[x]
                 /\ \A y \in m.up[x] : s \in m.up[y] => y \in DescentFrom(s)
                 /\ x # s => /\ x \in Nodes \ {Root}
                             /\ EntersWith(x, m.parent[x])
<1>1. s \in DescentFrom(s)
  BY Ancestors DEF DescentFrom
<1>2. ASSUME NEW x \in DescentFrom(s)
      PROVE  /\ x \in Nodes \ History /\ s \in m.up[x]
             /\ \A y \in m.up[x] : s \in m.up[y] => y \in DescentFrom(s)
             /\ x # s => x \in Nodes \ {Root} /\ EntersWith(x, m.parent[x])
  <2>1. /\ x \in Nodes /\ s \in m.up[x]
        /\ \A y \in m.up[x] \ m.up[s] : EntersWith(y, m.parent[y])
    BY DEF DescentFrom
  <2>2. ASSUME NEW y \in m.up[x], s \in m.up[y] PROVE y \in DescentFrom(s)
    BY <2>1, <2>2, Ancestors, AncestorsOfAncestors DEF DescentFrom
  <2>3. ASSUME x # s PROVE x \in Nodes \ {Root} /\ EntersWith(x, m.parent[x])
    <3>1. x \in m.up[x] /\ x \notin m.up[s]
      BY <2>1, <2>3, Ancestors, Antisymmetric
    <3>2. x # Root
      BY <2>1, <3>1, NodesAreNumbers, Ancestors
    <3> QED
      BY <2>1, <3>1, <3>2
  <2>4. x \notin History
    BY <2>3, EnteredWith
  <2> QED
    BY <2>1, <2>2, <2>3, <2>4
<1> QED
  BY <1>1, <1>2

\* It enters one child of every compound state it enters, and all regions of a
\* parallel one.
LEMMA DescentIsLegal ==
    ASSUME Chart, Orderly(m), NEW s \in Nodes \ History
    PROVE  /\ Single(DescentFrom(s)) /\ Full(DescentFrom(s))
           /\ \A p \in DescentFrom(s) : \A c \in Children(p) :
                 c \in DescentFrom(s) /\ m.type[p] = "compound" =>
                    c = Resolved(m.initial[p])
<1>1. ASSUME NEW p \in Nodes, m.type[p] = "compound", NEW c \in Children(p) \cap DescentFrom(s),
             NEW d \in Children(p) \cap DescentFrom(s)
      PROVE  c = d
  <2>1. ASSUME NEW x \in Children(p) \cap DescentFrom(s), x # s
        PROVE  s \in m.up[p] /\ x = Resolved(m.initial[p])
    <3>1. s \in m.up[x] /\ x \in Nodes \ {Root} /\ EntersWith(x, m.parent[x]) /\ m.parent[x] = p
      BY <2>1, Descending, Parents
    <3> QED
      BY <1>1, <2>1, <3>1, Parents, EnteredWith
  <2>2. CASE c = s \/ d = s
    <3>1. ASSUME s \in Children(p) PROVE s \notin m.up[p]
      BY <3>1, Parents
    <3> QED
      BY <2>1, <2>2, <3>1
  <2>3. CASE c # s /\ d # s
    BY <2>1, <2>3
  <2> QED
    BY <2>2, <2>3
<1>2. ASSUME NEW n \in DescentFrom(s), NEW c \in Children(n) \ History, EntersWith(c, n)
      PROVE  c \in DescentFrom(s)
  <2>1. n \in Nodes /\ s \in m.up[n] /\ c \in Nodes /\ m.parent[c] = n
        /\ m.up[c] = m.up[n] \cup {c}
    BY Descending, Parents
  <2>2. \A y \in m.up[n] \ m.up[s] : EntersWith(y, m.parent[y])
    BY DEF DescentFrom
  <2> QED
    BY <1>2, <2>1, <2>2 DEF DescentFrom
<1>3. ASSUME NEW n \in DescentFrom(s), m.type[n] = "compound"
      PROVE  Children(n) \cap DescentFrom(s) # {}
  <2>1. n \in Nodes
    BY Descending
  <2>2. Resolved(m.initial[n]) \in Children(n) \ History
    BY <1>3, <2>1, InitialChild
  <2>3. EntersWith(Resolved(m.initial[n]), n)
    BY <1>3 DEF EntersWith
  <2> QED
    BY <1>2, <2>2, <2>3
<1>4. ASSUME NEW n \in DescentFrom(s), m.type[n] = "parallel"
      PROVE  Children(n) \ History \subseteq DescentFrom(s)
  <2>1. ASSUME NEW c \in Children(n) \ History PROVE c \in DescentFrom(s)
    <3>1. EntersWith(c, n)
      BY <1>4 DEF EntersWith
    <3> QED
      BY <1>2, <3>1
  <2> QED
    BY <2>1
<1>5. ASSUME NEW p \in DescentFrom(s), NEW c \in Children(p), c \in DescentFrom(s),
             m.type[p] = "compound"
      PROVE  c = Resolved(m.initial[p])
  <2>1. p \in Nodes /\ Resolved(m.initial[p]) \in Children(p) \ History
    BY <1>5, Descending, InitialChild
  <2>2. EntersWith(Resolved(m.initial[p]), p)
    BY <1>5 DEF EntersWith
  <2> QED
    BY <1>1, <1>2, <1>5, <2>1, <2>2
<1> QED
  BY <1>1, <1>3, <1>4, <1>5 DEF Single, Full

\* The states whose descents complete S.
Starts(S) ==
    {s \in Nodes \ (S \cup History) :
        /\ s # Root
        /\ m.parent[s] \in S
        /\ \/ m.type[m.parent[s]] = "parallel"
           \/ /\ m.type[m.parent[s]] = "compound"
              /\ s = Resolved(m.initial[m.parent[s]])
              /\ Children(m.parent[s]) \cap S = {}}

\* completeConfiguration adds the descents from those.
LEMMA CompletionFromStarts ==
    ASSUME Chart, Orderly(m), NEW S, Partial(S)
    PROVE  Completion(S) = S \cup UNION {DescentFrom(s) : s \in Starts(S)}
<1>1. ASSUME NEW c \in Missing(S)
      PROVE  \E s \in Starts(S) : Descent(c) = DescentFrom(s)
  <2>1. /\ c \in Nodes \ S /\ m.parent[c] \in S
        /\ \/ m.type[m.parent[c]] = "parallel"
           \/ c = m.initial[m.parent[c]] /\ Children(m.parent[c]) \cap S = {}
    BY DEF Missing
  <2>2. c # Root /\ c # NoNode /\ m.parent[c] \in Nodes
    BY <2>1, NodesAreNumbers DEF Partial
  <2>3. m.type[m.parent[c]] \in {"compound", "parallel"}
    BY <2>1, <2>2, NodesAreNumbers
  <2>4. CASE m.type[m.parent[c]] = "parallel"
    <3>1. c \notin History
      BY <2>4 DEF Orderly, History, Nodes
    <3>2. Resolved(c) = c
      BY <3>1 DEF Resolved
    <3>3. c \in Starts(S) /\ Descent(c) = DescentFrom(c)
      BY <2>1, <2>2, <2>4, <3>1, <3>2 DEF Starts, Descent
    <3> QED
      BY <3>3
  <2>5. CASE m.type[m.parent[c]] = "compound"
    <3>1. c = m.initial[m.parent[c]] /\ Children(m.parent[c]) \cap S = {}
      BY <2>1, <2>5
    <3>2. /\ Resolved(c) # NoNode /\ Resolved(c) \in Children(m.parent[c]) \ History
      BY <2>2, <2>5, <3>1, InitialChild
    <3>3. Resolved(c) \in Nodes \ {Root} /\ m.parent[Resolved(c)] = m.parent[c]
      BY <2>2, <3>2, Parents
    <3>4. Resolved(c) \in Starts(S) /\ Descent(c) = DescentFrom(Resolved(c))
      BY <2>1, <2>5, <3>1, <3>2, <3>3 DEF Starts, Descent
    <3> QED
      BY <3>4
  <2> QED
    BY <2>3, <2>4, <2>5
<1>2. ASSUME NEW s \in Starts(S)
      PROVE  \E c \in Missing(S) : Descent(c) = DescentFrom(s)
  <2>1. /\ s \in Nodes \ (S \cup History) /\ s # Root /\ m.parent[s] \in S
        /\ m.parent[s] \in Nodes /\ s # NoNode
    BY NodesAreNumbers DEF Starts
  <2>2. CASE m.type[m.parent[s]] = "parallel"
    <3>1. s \in Missing(S) /\ Resolved(s) = s
      BY <2>1, <2>2 DEF Missing, Resolved
    <3> QED
      BY <2>1, <3>1 DEF Descent
  <2>3. CASE m.type[m.parent[s]] # "parallel"
    <3> DEFINE c == m.initial[m.parent[s]]
    <3>1. /\ m.type[m.parent[s]] = "compound" /\ s = Resolved(c)
          /\ Children(m.parent[s]) \cap S = {}
      BY <2>3 DEF Starts
    <3>2. c \in Children(m.parent[s])
      BY <2>1, <3>1, InitialChild
    <3>3. c \in Nodes \ S /\ m.parent[c] = m.parent[s]
      BY <3>1, <3>2 DEF Children
    <3>4. c \in Missing(S) /\ Descent(c) = DescentFrom(s)
      BY <2>1, <3>1, <3>3 DEF Missing, Descent
    <3> QED
      BY <3>4
  <2> QED
    BY <2>2, <2>3
<1> QED
  BY <1>1, <1>2 DEF Completion

\* A state whose descent completes S is not in S but its ancestors are; no
\* such state is above another, and what descends from one is not in S.
LEMMA AboutStarts ==
    ASSUME Chart, NEW S, Partial(S), NEW s \in Starts(S)
    PROVE  /\ s \in Nodes \ History /\ s \notin S /\ s # Root
           /\ m.parent[s] \in S /\ m.parent[s] \in Nodes
           /\ \A a \in m.up[s] : a # s => a \in S
           /\ \A r \in Starts(S) : s \in m.up[r] => s = r
           /\ \A x \in DescentFrom(s) : x \notin S
<1>1. /\ s \in Nodes \ History /\ s \notin S /\ s # Root
      /\ m.parent[s] \in S /\ m.parent[s] \in Nodes
  BY NodesAreNumbers DEF Starts
<1>2. Closed(S)
  BY DEF Partial
<1>3. ASSUME NEW a \in m.up[s], a # s PROVE a \in S
  <2>1. a \in m.up[m.parent[s]]
    BY <1>1, <1>3, NodesAreNumbers
  <2> QED
    BY <1>1, <1>2, <2>1 DEF Closed
<1>4. ASSUME NEW r \in Starts(S), s \in m.up[r], s # r PROVE FALSE
  <2>1. r \in Nodes /\ r # Root /\ m.parent[r] \in S
    BY DEF Starts
  <2>2. s \in m.up[m.parent[r]]
    BY <1>4, <2>1, NodesAreNumbers
  <2> QED
    BY <1>1, <1>2, <2>1, <2>2 DEF Closed
<1>5. ASSUME NEW x \in DescentFrom(s), x \in S PROVE FALSE
  <2>1. s \in m.up[x]
    BY DEF DescentFrom
  <2> QED
    BY <1>1, <1>2, <1>5, <2>1 DEF Closed
<1> QED
  BY <1>1, <1>3, <1>4, <1>5

\* Completion: a part of a configuration becomes a whole one.
LEMMA CompletionIsLegal ==
    ASSUME Chart, Orderly(m), NEW S, Partial(S)
    PROVE  Legal(Completion(S)) /\ S \subseteq Completion(S)
<1> DEFINE C == S \cup UNION {DescentFrom(s) : s \in Starts(S)}
<1>1. Completion(S) = C
  BY CompletionFromStarts
<1>2. Root \in S /\ Closed(S) /\ S \cap History = {} /\ Single(S)
  BY DEF Partial
<1>3. Closed(C)
  <2>1. ASSUME NEW s \in Starts(S), NEW x \in DescentFrom(s), NEW a \in m.up[x]
        PROVE  a \in C
    <3>1. s \in Nodes \ History /\ \A b \in m.up[s] : b # s => b \in S
      BY AboutStarts
    <3>2. /\ x \in Nodes /\ s \in m.up[x] /\ s \in DescentFrom(s)
          /\ s \in m.up[a] => a \in DescentFrom(s)
      BY <3>1, Descending
    <3>3. s \in m.up[a] \/ a \in m.up[s]
      BY <3>2, Comparable
    <3>4. a \in S \/ a \in DescentFrom(s)
      BY <3>1, <3>2, <3>3
    <3> QED
      BY <3>4
  <2>2. C \subseteq Nodes
    BY <1>2 DEF Closed, DescentFrom
  <2>3. ASSUME NEW x \in C PROVE m.up[x] \subseteq C
    <3>1. CASE x \in S
      BY <1>2, <3>1 DEF Closed
    <3>2. CASE \E s \in Starts(S) : x \in DescentFrom(s)
      BY <2>1, <3>2
    <3> QED
      BY <3>1, <3>2
  <2> QED
    BY <2>2, <2>3 DEF Closed
<1>4. C \cap History = {}
  <2>1. ASSUME NEW s \in Starts(S), NEW x \in DescentFrom(s) PROVE x \notin History
    BY AboutStarts, Descending
  <2> QED
    BY <1>2, <2>1
<1>5. Single(C)
  <2>1. ASSUME NEW p \in Nodes, m.type[p] = "compound", NEW c \in Children(p) \cap S,
               NEW s \in Starts(S), NEW d \in Children(p) \cap DescentFrom(s)
        PROVE  FALSE
    <3>1. p \in m.up[c] /\ p \in S
      BY <1>2, <2>1, Parents DEF Closed
    <3>2. s \in m.up[d]
      BY DEF DescentFrom
    <3>3. s = d
      <4>1. s # d => s \in m.up[p]
        BY <2>1, <3>2, Parents
      <4> QED
        BY <1>2, <3>1, <4>1, AboutStarts DEF Closed
    <3>4. m.parent[s] = p
      BY <2>1, <3>3, Parents
    <3> QED
      BY <2>1, <3>4 DEF Starts
  <2>2. ASSUME NEW p \in Nodes, m.type[p] = "compound",
               NEW s \in Starts(S), NEW c \in Children(p) \cap DescentFrom(s),
               NEW r \in Starts(S), NEW d \in Children(p) \cap DescentFrom(r)
        PROVE  c = d
    <3>1. s \in m.up[c] /\ r \in m.up[d] /\ s \in Nodes \ History /\ r \in Nodes \ History
      BY AboutStarts DEF DescentFrom
    <3>2. /\ s = c \/ s \in m.up[p]
          /\ r = d \/ r \in m.up[p]
      BY <3>1, Parents
    <3>3. CASE s = c /\ r = d
      <4>1. m.parent[s] = p /\ m.parent[r] = p
        BY <3>3, Parents
      <4> QED
        BY <2>2, <3>3, <4>1 DEF Starts
    <3>4. CASE s = c /\ r \in m.up[p]
      <4>1. m.parent[s] = p /\ p \in S
        BY <3>4, Parents, AboutStarts
      <4> QED
        BY <1>2, <3>4, <4>1, AboutStarts DEF Closed
    <3>5. CASE s \in m.up[p] /\ r = d
      <4>1. m.parent[r] = p /\ p \in S
        BY <3>5, Parents, AboutStarts
      <4> QED
        BY <1>2, <3>5, <4>1, AboutStarts DEF Closed
    <3>6. CASE s \in m.up[p] /\ r \in m.up[p]
      <4>1. s = r
        BY <3>6, Comparable, AboutStarts
      <4>2. Single(DescentFrom(s))
        BY <3>1, DescentIsLegal
      <4> QED
        BY <2>2, <4>1, <4>2 DEF Single
    <3> QED
      BY <3>2, <3>3, <3>4, <3>5, <3>6
  <2>3. ASSUME NEW p \in Nodes, m.type[p] = "compound",
               NEW c \in Children(p) \cap C, NEW d \in Children(p) \cap C
        PROVE  c = d
    <3>1. CASE c \in S /\ d \in S
      BY <1>2, <2>3, <3>1 DEF Single
    <3>2. CASE c \in S /\ d \notin S
      BY <2>1, <2>3, <3>2
    <3>3. CASE c \notin S /\ d \in S
      BY <2>1, <2>3, <3>3
    <3>4. CASE c \notin S /\ d \notin S
      <4>1. PICK s \in Starts(S) : c \in DescentFrom(s)
        BY <3>4
      <4>2. PICK r \in Starts(S) : d \in DescentFrom(r)
        BY <3>4
      <4> QED
        BY <2>2, <2>3, <4>1, <4>2
    <3> QED
      BY <3>1, <3>2, <3>3, <3>4
  <2> QED
    BY <2>3 DEF Single
<1>6. Full(C)
  <2>1. ASSUME NEW s \in Starts(S) PROVE s \in C /\ DescentFrom(s) \subseteq C
    BY AboutStarts, Descending
  <2>2. ASSUME NEW s \in Starts(S), NEW n \in DescentFrom(s)
        PROVE  /\ m.type[n] = "compound" => Children(n) \cap C # {}
               /\ m.type[n] = "parallel" => Children(n) \ History \subseteq C
    BY <2>1, AboutStarts, DescentIsLegal DEF Full
  <2>3. ASSUME NEW n \in S, m.type[n] = "compound" PROVE Children(n) \cap C # {}
    <3>1. CASE Children(n) \cap S # {}
      BY <3>1
    <3>2. CASE Children(n) \cap S = {}
      <4>1. n \in Nodes
        BY <1>2 DEF Closed
      <4> DEFINE c == Resolved(m.initial[n])
      <4>2. c \in Children(n) \ History
        BY <2>3, <4>1, InitialChild
      <4>3. c \in Nodes \ {Root} /\ m.parent[c] = n
        BY <4>1, <4>2, Parents
      <4>4. c \in Starts(S)
        BY <2>3, <3>2, <4>2, <4>3 DEF Starts
      <4> QED
        BY <2>1, <4>2, <4>4
    <3> QED
      BY <3>1, <3>2
  <2>4. ASSUME NEW n \in S, m.type[n] = "parallel", NEW c \in Children(n) \ History
        PROVE  c \in C
    <3>1. CASE c \in S
      BY <3>1
    <3>2. CASE c \notin S
      <4>1. n \in Nodes
        BY <1>2 DEF Closed
      <4>2. c \in Nodes \ {Root} /\ m.parent[c] = n
        BY <4>1, Parents
      <4>3. c \in Starts(S)
        BY <2>4, <3>2, <4>2 DEF Starts
      <4> QED
        BY <2>1, <4>3
    <3> QED
      BY <3>1, <3>2
  <2>5. ASSUME NEW n \in C
        PROVE  /\ m.type[n] = "compound" => Children(n) \cap C # {}
               /\ m.type[n] = "parallel" => Children(n) \ History \subseteq C
    <3>1. CASE n \in S
      BY <2>3, <2>4, <3>1
    <3>2. CASE \E s \in Starts(S) : n \in DescentFrom(s)
      BY <2>2, <3>2
    <3> QED
      BY <3>1, <3>2
  <2> HIDE DEF C
  <2> QED
    BY <2>5 DEF Full
<1> HIDE DEF C
<1>7. Legal(C)
  <2>1. Root \in C
    BY <1>2 DEF C
  <2> QED
    BY <1>3, <1>4, <1>5, <1>6, <2>1 DEF Legal, Partial
<1>8. S \subseteq C
  BY DEF C
<1> QED
  BY <1>1, <1>7, <1>8

\* The initial configuration is legal.
LEMMA InitialIsLegal ==
    ASSUME Chart, Orderly(m)
    PROVE  Legal(Descent(Root))
<1>1. Root \in Nodes /\ Root \notin History /\ Root # NoNode
  BY NodesAreNumbers DEF Chart, IsChart, History, Nodes, Root, NoNode
<1>2. Descent(Root) = DescentFrom(Root)
  BY <1>1 DEF Descent, Resolved
<1>3. Closed(DescentFrom(Root))
  <2>1. ASSUME NEW x \in DescentFrom(Root), NEW a \in m.up[x] PROVE a \in DescentFrom(Root)
    <3>1. x \in Nodes
      BY DEF DescentFrom
    <3>2. Root \in m.up[a]
      BY <3>1, Ancestors
    <3> QED
      BY <1>1, <3>2, Descending
  <2> QED
    BY <2>1 DEF Closed, DescentFrom
<1>4. Root \in DescentFrom(Root) /\ DescentFrom(Root) \cap History = {}
  BY <1>1, Descending
<1> QED
  BY <1>1, <1>2, <1>3, <1>4, DescentIsLegal DEF Legal, Partial

-----------------------------------------------------------------------------
(* Numbers and order *)

\* A bounded set of natural numbers has a greatest element.
LEMMA Greatest ==
    ASSUME NEW k \in Nat, NEW T \in SUBSET (0 .. k), T # {}
    PROVE  Max(T) \in T /\ \A y \in T : y <= Max(T)
<1> DEFINE B == {b \in Nat : \A x \in T : x <= b}
<1>1. PICK b \in B : \A c \in B : b <= c
  <2>1. k \in B
    OBVIOUS
  <2>2. B \in SUBSET Nat /\ B # {}
    BY <2>1
  <2> HIDE DEF B
  <2> QED
    BY <2>2, Least
<1>2. b \in T
  <2> SUFFICES ASSUME b \notin T PROVE FALSE
    OBVIOUS
  <2>1. b \in Nat /\ b # 0
    <3>1. PICK x \in T : TRUE
      OBVIOUS
    <3>2. b \in Nat /\ x \in Nat /\ x <= b /\ x # b
      BY <1>1
    <3> QED
      BY <3>2
  <2>2. b - 1 \in B
    <3>1. \A x \in T : x \in Nat /\ x <= b /\ x # b
      BY <1>1
    <3>2. \A x \in T : x <= b - 1
      BY <2>1, <3>1
    <3> QED
      BY <2>1, <3>2
  <2> HIDE DEF B
  <2> QED
    BY <1>1, <2>1, <2>2
<1>3. \E x \in T : \A y \in T : x >= y
  BY <1>2
<1>4. Max(T) \in T /\ \A y \in T : Max(T) >= y
  BY <1>3 DEF Max
<1> QED
  BY <1>4

\* Any set of natural numbers but the empty one has a minimum.
LEMMA Smallest ==
    ASSUME NEW T \in SUBSET Nat, T # {}
    PROVE  Min(T) \in T /\ \A y \in T : Min(T) <= y
<1>1. \E x \in T : \A y \in T : x <= y
  BY Least
<1> QED
  BY <1>1 DEF Min

\* Nodes are bounded.
LEMMA GreatestNode ==
    ASSUME Chart, NEW T \in SUBSET Nodes, T # {}
    PROVE  Max(T) \in T /\ \A y \in T : y <= Max(T)
<1>1. IsFiniteSet(Nodes) /\ Nodes = 0 .. (Cardinality(Nodes) - 1) /\ Nodes # {}
  BY DEF Chart, IsChart, Nodes
<1>2. Cardinality(Nodes) \in Nat
  BY <1>1, FS_CardinalityType
<1>3. PICK k \in Int : Nodes = 0 .. k
  BY <1>1, <1>2
<1>4. k \in Nat
  BY <1>1, <1>3
<1> QED
  BY <1>3, <1>4, Greatest

\* A set of numbers in order: each of its elements at one place.
LEMMA SortedIsOrder ==
    ASSUME NEW k \in Nat, NEW I \in SUBSET (0 .. k)
    PROVE  /\ IsFiniteSet(I) /\ Cardinality(I) \in Nat
           /\ DOMAIN Sorted(I) = 1 .. Cardinality(I)
           /\ \A i \in DOMAIN Sorted(I) : Sorted(I)[i] \in I
           /\ \A i, j \in DOMAIN Sorted(I) : i < j => Sorted(I)[i] < Sorted(I)[j]
           /\ \A i, j \in DOMAIN Sorted(I) : i # j => Sorted(I)[i] # Sorted(I)[j]
           /\ \A x \in I : \E i \in DOMAIN Sorted(I) : Sorted(I)[i] = x
<1> DEFINE before(n) == {x \in I : x < n}
           R(n) == Cardinality(before(n))
<1>1. IsFiniteSet(I) /\ Cardinality(I) \in Nat
  <2>1. IsFiniteSet(0 .. k)
    BY FS_Interval
  <2> QED
    BY <2>1, FS_Subset, FS_CardinalityType
<1>2. \A n \in I : IsFiniteSet(before(n)) /\ R(n) \in Nat
  BY <1>1, FS_Subset, FS_CardinalityType
<1>3. ASSUME NEW i \in 1 .. Cardinality(I)
      PROVE  \E n \in I : R(n) = i - 1
  <2> SUFFICES ASSUME \A n \in I : R(n) # i - 1 PROVE FALSE
    OBVIOUS
  <2> DEFINE T == {n \in I : R(n) >= i - 1}
  <2>1. i \in Nat /\ i >= 1 /\ i <= Cardinality(I) /\ I # {}
    BY <1>1, FS_EmptySet
  <2>2. T # {}
    <3>1. PICK x \in I : \A y \in I : y <= x
      BY <2>1, Greatest
    <3>2. before(x) = I \ {x}
      <4>1. x \in Nat /\ \A y \in I : y \in Nat /\ y <= x
        BY <3>1
      <4>2. \A y \in I : y < x <=> y # x
        BY <4>1
      <4> QED
        BY <4>2
    <3>3. Cardinality(I \ {x}) = Cardinality(I) - 1
      BY <1>1, <3>1, FS_RemoveElement
    <3>4. R(x) = Cardinality(I) - 1
      BY <3>2, <3>3
    <3>5. R(x) >= i - 1
      <4> HIDE DEF R
      <4> QED
        BY <1>1, <2>1, <3>4
    <3> HIDE DEF R
    <3> QED
      BY <3>1, <3>5
  <2>3. PICK n \in T : \A y \in T : n <= y
    <3>1. T # {}
      BY <2>2
    <3>2. T \in SUBSET Nat
      <4>1. T \subseteq I /\ I \subseteq Nat
        OBVIOUS
      <4> QED
        BY <4>1
    <3> HIDE DEF T
    <3> QED
      BY <3>1, <3>2, Least
  <2>4. n \in I /\ R(n) \in Nat /\ R(n) >= i - 1
    BY <1>2, <2>3
  <2>5. R(n) # i - 1
    BY <2>4
  <2>6. before(n) # {}
    <3>1. R(n) # 0
      BY <2>1, <2>4, <2>5
    <3> QED
      BY <1>2, <2>4, <3>1, FS_EmptySet
  <2>7. PICK p \in before(n) : \A y \in before(n) : y <= p
    <3>1. before(n) \in SUBSET (0 .. k)
      OBVIOUS
    <3> HIDE DEF before
    <3> QED
      BY <2>6, <3>1, Greatest
  <2>8. before(n) = before(p) \cup {p} /\ p \notin before(p) /\ p \in I /\ p < n
    <3>1. p \in I /\ p < n /\ \A y \in I : y < n => y <= p
      BY <2>7
    <3>2. \A x \in I : x < n <=> x < p \/ x = p
      <4>1. n \in Nat /\ p \in Nat
        BY <2>4, <3>1
      <4> TAKE x \in I
      <4>2. x \in Nat
        OBVIOUS
      <4>3. x < n => x <= p
        BY <3>1
      <4> QED
        BY <3>1, <4>1, <4>2, <4>3
    <3>3. before(n) = before(p) \cup {p}
      BY <3>1, <3>2
    <3>4. p \notin before(p)
      <4>1. p \in Nat
        BY <3>1
      <4> QED
        BY <4>1
    <3> QED
      BY <3>1, <3>3, <3>4
  <2>9. R(n) = R(p) + 1
    <3>1. IsFiniteSet(before(p)) /\ R(p) \in Nat
      BY <1>2, <2>8
    <3> HIDE DEF before
    <3> QED
      BY <2>8, <3>1, FS_AddElement
  <2>10. R(p) \in Nat
    BY <1>2, <2>8
  <2>11. R(p) >= i - 1
    <3> HIDE DEF R
    <3> QED
      BY <2>1, <2>4, <2>5, <2>9, <2>10
  <2>12. p \in T
    BY <2>8, <2>11
  <2> HIDE DEF T
  <2> QED
    BY <2>3, <2>4, <2>8, <2>12
<1>4. DOMAIN Sorted(I) = 1 .. Cardinality(I)
  BY DEF Sorted
<1>5. ASSUME NEW i \in 1 .. Cardinality(I)
      PROVE  Sorted(I)[i] \in I /\ R(Sorted(I)[i]) = i - 1
  BY <1>3 DEF Sorted
<1>6. ASSUME NEW i \in 1 .. Cardinality(I), NEW j \in 1 .. Cardinality(I), i # j
      PROVE  Sorted(I)[i] # Sorted(I)[j]
  <2>1. R(Sorted(I)[i]) = i - 1 /\ R(Sorted(I)[j]) = j - 1
    BY <1>5
  <2>2. i - 1 # j - 1
    BY <1>6
  <2> HIDE DEF R
  <2> QED
    BY <2>1, <2>2
<1>7. ASSUME NEW x \in I, NEW y \in I, x < y PROVE R(x) < R(y)
  <2>1. x \in Nat /\ y \in Nat /\ IsFiniteSet(before(x)) /\ IsFiniteSet(before(y))
        /\ R(x) \in Nat /\ R(y) \in Nat
    BY <1>2
  <2>2. \A v \in I : v < x => v < y
    <3> TAKE v \in I
    <3>1. v \in Nat
      OBVIOUS
    <3> QED
      BY <1>7, <2>1, <3>1
  <2>3. before(x) \cup {x} \subseteq before(y) /\ x \notin before(x)
    <3>1. ~(x < x)
      BY <2>1
    <3> QED
      BY <1>7, <2>2, <3>1
  <2>4. Cardinality(before(x) \cup {x}) = R(x) + 1
    <3> HIDE DEF before
    <3> QED
      BY <2>1, <2>3, FS_AddElement
  <2>5. Cardinality(before(x) \cup {x}) <= R(y)
    <3> HIDE DEF before
    <3> QED
      BY <2>1, <2>3, FS_Subset
  <2> HIDE DEF before
  <2> QED
    BY <2>1, <2>4, <2>5
<1>8. ASSUME NEW i \in 1 .. Cardinality(I), NEW j \in 1 .. Cardinality(I), i < j
      PROVE  Sorted(I)[i] < Sorted(I)[j]
  <2> DEFINE x == Sorted(I)[i]
             y == Sorted(I)[j]
  <2>1. x \in I /\ y \in I /\ R(x) = i - 1 /\ R(y) = j - 1
    BY <1>5
  <2> HIDE DEF x, y
  <2>2. x \in Nat /\ y \in Nat
    BY <2>1
  <2>3. ~(y < x)
    <3>1. y < x => R(y) < R(x)
      BY <1>7, <2>1
    <3> HIDE DEF R
    <3> QED
      BY <1>8, <2>1, <3>1
  <2>4. x # y
    <3> HIDE DEF R
    <3> QED
      BY <1>8, <2>1
  <2>5. x < y
    BY <2>2, <2>3, <2>4
  <2> QED
    BY <2>5 DEF x, y
<1>9. ASSUME NEW x \in I PROVE \E i \in 1 .. Cardinality(I) : Sorted(I)[i] = x
  <2>1. before(x) \subseteq I /\ x \in I /\ x \notin before(x) /\ R(x) \in Nat
    <3>1. x \in Nat
      OBVIOUS
    <3> QED
      BY <1>2, <3>1
  <2>2. R(x) < Cardinality(I)
    <3>1. before(x) # I
      BY <2>1
    <3>2. R(x) <= Cardinality(I) /\ (R(x) = Cardinality(I) => before(x) = I)
      <4> HIDE DEF before
      <4> QED
        BY <1>1, <2>1, FS_Subset
    <3> HIDE DEF R
    <3> QED
      BY <1>1, <2>1, <3>1, <3>2 DEF R
  <2> DEFINE i == R(x) + 1
             y == Sorted(I)[i]
  <2>3. i \in 1 .. Cardinality(I) /\ i - 1 = R(x)
    <3> HIDE DEF R
    <3> QED
      BY <1>1, <2>1, <2>2
  <2>4. y \in I /\ R(y) = R(x)
    <3> HIDE DEF i, R
    <3> QED
      BY <1>5, <2>3 DEF R
  <2> HIDE DEF i, y
  <2>5. ~(x < y) /\ ~(y < x)
    <3>1. (x < y => R(x) < R(y)) /\ (y < x => R(y) < R(x))
      BY <1>7, <2>4
    <3> HIDE DEF R
    <3> QED
      BY <2>1, <2>4, <3>1
  <2>6. x \in Nat /\ y \in Nat
    BY <2>4
  <2>7. x = y
    BY <2>5, <2>6
  <2> QED
    BY <2>3, <2>7 DEF y
<1> QED
  BY <1>1, <1>4, <1>5, <1>6, <1>8, <1>9

-----------------------------------------------------------------------------
(* Selection *)

\* The conflict filter keeps indices, and of two that clash at most one.
LEMMA ResolveOne ==
    ASSUME NEW n \in Nat, NEW i \in 1 .. n, NEW clash, NEW wins,
           NEW kept \in SUBSET (1 .. n)
    PROVE  /\ Resolve(kept, i, clash, wins) \subseteq 1 .. n
           /\ (/\ \A a, b : <<a, b>> \in clash => <<b, a>> \in clash
               /\ \A a, b \in kept : a # b => <<a, b>> \notin clash)
              => \A a, b \in Resolve(kept, i, clash, wins) :
                    a # b => <<a, b>> \notin clash
BY DEF Resolve, Blockers

\* The filter takes the candidates one by one: kept[k] is left of the first k.
Filters(kept, n, clash, wins) ==
    /\ kept[0] = {}
    /\ \A k \in 1 .. n : kept[k] = Resolve(kept[k - 1], k, clash, wins)
    /\ ResolveAll(n, clash, wins) = kept[n]

\* The recursion of the filter has a solution.
LEMMA Rounds ==
    ASSUME NEW n \in Nat, NEW clash, NEW wins
    PROVE  \E kept : Filters(kept, n, clash, wins)
<1> DEFINE Step(f, i) == IF i = 0 THEN {} ELSE Resolve(f[i - 1], i, clash, wins)
           Bad == {k \in 0 .. n : ~\E f \in [0 .. k -> SUBSET (1 .. n)] :
                                       \A i \in 0 .. k : f[i] = Step(f, i)}
           kept == CHOOSE f : f = [i \in 0 .. n |-> Step(f, i)]
<1>1. Bad = {}
  <2> SUFFICES ASSUME Bad # {} PROVE FALSE
    OBVIOUS
  <2>1. PICK k \in Bad : \A j \in Bad : k <= j
    <3>1. Bad \in SUBSET Nat
      OBVIOUS
    <3> HIDE DEF Bad
    <3> QED
      BY <3>1, Least
  <2>2. k \in 0 .. n /\ ~\E f \in [0 .. k -> SUBSET (1 .. n)] :
                           \A i \in 0 .. k : f[i] = Step(f, i)
    OBVIOUS
  <2>3. k # 0
    <3> SUFFICES ASSUME k = 0 PROVE FALSE
      OBVIOUS
    <3> DEFINE f == [i \in 0 .. 0 |-> {}]
    <3>1. f \in [0 .. k -> SUBSET (1 .. n)] /\ \A i \in 0 .. k : f[i] = Step(f, i)
      OBVIOUS
    <3> QED
      BY <2>2, <3>1
  <2>4. k - 1 \in 0 .. n /\ k - 1 \notin Bad
    <3>1. k - 1 \in 0 .. n /\ ~(k <= k - 1)
      BY <2>2, <2>3
    <3> HIDE DEF Bad
    <3> QED
      BY <2>1, <3>1
  <2>5. PICK f \in [0 .. k - 1 -> SUBSET (1 .. n)] :
            \A i \in 0 .. k - 1 : f[i] = Step(f, i)
    BY <2>4
  <2> DEFINE g == [i \in 0 .. k |-> IF i = k THEN Resolve(f[k - 1], k, clash, wins) ELSE f[i]]
  <2>6. Resolve(f[k - 1], k, clash, wins) \in SUBSET (1 .. n)
    <3>1. f[k - 1] \in SUBSET (1 .. n) /\ k \in 1 .. n
      BY <2>2, <2>3, <2>5
    <3> QED
      BY <3>1, ResolveOne
  <2>7. g \in [0 .. k -> SUBSET (1 .. n)]
    <3>1. ASSUME NEW i \in 0 .. k, i # k PROVE f[i] \in SUBSET (1 .. n)
      <4>1. i \in 0 .. k - 1
        BY <2>2, <3>1
      <4> QED
        BY <2>5, <4>1
    <3> QED
      BY <2>6, <3>1
  <2>8. ASSUME NEW i \in 0 .. k PROVE g[i] = Step(g, i)
    <3>1. CASE i = k
      <4>1. g[k - 1] = f[k - 1]
        BY <2>2, <2>3
      <4> QED
        BY <2>3, <3>1, <4>1
    <3>2. CASE i # k
      <4>1. i \in 0 .. k - 1 /\ (i # 0 => i - 1 \in 0 .. k /\ i - 1 # k)
        BY <2>2, <3>2
      <4>2. g[i] = f[i] /\ f[i] = Step(f, i) /\ (i # 0 => g[i - 1] = f[i - 1])
        BY <2>5, <3>2, <4>1
      <4> QED
        BY <4>2
    <3> QED
      BY <3>1, <3>2
  <2> HIDE DEF g, Step
  <2> QED
    BY <2>2, <2>7, <2>8
<1>2. \E f : f = [i \in 0 .. n |-> Step(f, i)]
  <2>1. n \in 0 .. n
    OBVIOUS
  <2>2. n \notin Bad
    <3> HIDE DEF Bad
    <3> QED
      BY <1>1
  <2>3. PICK f \in [0 .. n -> SUBSET (1 .. n)] : \A i \in 0 .. n : f[i] = Step(f, i)
    BY <2>1, <2>2
  <2> HIDE DEF Step
  <2>4. f = [i \in 0 .. n |-> Step(f, i)]
    BY <2>3
  <2> QED
    BY <2>4
<1>3. kept = [i \in 0 .. n |-> Step(kept, i)]
  <2> HIDE DEF Step
  <2> QED
    BY <1>2
<1> HIDE DEF kept
<1>4. ResolveAll(n, clash, wins) = kept[n]
  BY DEF ResolveAll, kept
<1>5. kept[0] = {} /\ \A k \in 1 .. n : kept[k] = Resolve(kept[k - 1], k, clash, wins)
  <2>1. 0 \in 0 .. n /\ \A k \in 1 .. n : k \in 0 .. n /\ k # 0
    OBVIOUS
  <2>2. \A k \in 0 .. n : kept[k] = Step(kept, k)
    <3> HIDE DEF Step
    <3> QED
      BY <1>3
  <2> QED
    BY <2>1, <2>2
<1>6. Filters(kept, n, clash, wins)
  BY <1>4, <1>5 DEF Filters
<1> QED
  BY <1>6

\* The conflict filter keeps no two that clash, whatever it gives preference to.
LEMMA ResolvingKeepsApart ==
    ASSUME NEW n \in Nat, NEW clash, NEW wins,
           \A a, b : <<a, b>> \in clash => <<b, a>> \in clash
    PROVE  /\ ResolveAll(n, clash, wins) \subseteq 1 .. n
           /\ \A a, b \in ResolveAll(n, clash, wins) : a # b => <<a, b>> \notin clash
<1>0. PICK kept : Filters(kept, n, clash, wins)
  BY Rounds
<1>1. /\ kept[0] = {}
      /\ \A k \in 1 .. n : kept[k] = Resolve(kept[k - 1], k, clash, wins)
      /\ ResolveAll(n, clash, wins) = kept[n]
  BY <1>0 DEF Filters
<1> DEFINE Ok(k) == /\ kept[k] \subseteq 1 .. n
                    /\ \A a, b \in kept[k] : a # b => <<a, b>> \notin clash
           Wrong == {k \in 0 .. n : ~Ok(k)}
<1>4. Wrong = {}
  <2> SUFFICES ASSUME Wrong # {} PROVE FALSE
    OBVIOUS
  <2>1. PICK k \in Wrong : \A j \in Wrong : k <= j
    <3>1. Wrong \in SUBSET Nat
      OBVIOUS
    <3> HIDE DEF Wrong
    <3> QED
      BY <3>1, Least
  <2>2. k \in 0 .. n /\ ~Ok(k)
    OBVIOUS
  <2>3. k # 0
    BY <1>1, <2>2
  <2>4. k - 1 \in 0 .. n /\ ~(k <= k - 1)
    BY <2>2, <2>3
  <2>5. Ok(k - 1)
    BY <2>1, <2>4
  <2>6. kept[k] = Resolve(kept[k - 1], k, clash, wins)
    BY <1>1, <2>2, <2>3
  <2>7. k \in 1 .. n
    BY <2>2, <2>3
  <2>8. /\ Resolve(kept[k - 1], k, clash, wins) \subseteq 1 .. n
        /\ \A a, b \in Resolve(kept[k - 1], k, clash, wins) : a # b => <<a, b>> \notin clash
    BY <2>5, <2>7, ResolveOne
  <2> QED
    BY <2>2, <2>6, <2>8
<1>5. Ok(n)
  BY <1>4
<1> QED
  BY <1>1, <1>5

\* The transition that answers an event is one of an ancestor of the state, of
\* those that answer the one closest to it.
LEMMA AnswersAreAbove ==
    ASSUME Chart, NEW n \in Nodes, NEW e, Bubble(n, e) # NoTransition
    PROVE  /\ Bubble(n, e) \in Trans /\ m.trans[Bubble(n, e)].source \in m.up[n]
           /\ Bubble(n, e) = SelectForNode(m.trans[Bubble(n, e)].source, e)
           /\ \A a \in m.up[n] : SelectForNode(a, e) # NoTransition =>
                                    a <= m.trans[Bubble(n, e)].source
<1>1. Trans \in SUBSET Nat
  BY DEF Chart, IsChart, Trans
<1>2. ASSUME NEW S \in SUBSET Trans, First(S) # NoTransition PROVE First(S) \in S
  BY <1>1, <1>2, Smallest DEF First
<1>3. ASSUME NEW a, SelectForNode(a, e) # NoTransition
      PROVE  SelectForNode(a, e) \in Trans /\ m.trans[SelectForNode(a, e)].source = a
  <2>1. ASSUME NEW f, First(Enabled(a, f)) # NoTransition
        PROVE  /\ First(Enabled(a, f)) \in Trans
               /\ m.trans[First(Enabled(a, f))].source = a
    <3>1. Enabled(a, f) \in SUBSET Trans
      BY DEF Enabled
    <3>2. First(Enabled(a, f)) \in Enabled(a, f)
      BY <1>2, <2>1, <3>1
    <3> QED
      BY <3>2 DEF Enabled
  <2> QED
    BY <1>3, <2>1 DEF SelectForNode, Else
<1> DEFINE answers == [a \in m.up[n] |-> SelectForNode(a, e)]
           answering == {a \in DOMAIN answers : answers[a] # NoTransition}
<1>4. answering # {} /\ Bubble(n, e) = answers[Max(answering)]
  BY DEF Bubble, Deepest
<1>5. answering \in SUBSET Nodes
  BY Ancestors
<1>6. Max(answering) \in answering /\ \A a \in answering : a <= Max(answering)
  <2> HIDE DEF answering
  <2> QED
    BY <1>4, <1>5, GreatestNode
<1>7. Max(answering) \in m.up[n] /\ SelectForNode(Max(answering), e) # NoTransition
  BY <1>6
<1>8. \A a \in m.up[n] : SelectForNode(a, e) # NoTransition => a <= Max(answering)
  BY <1>6
<1> DEFINE s == Max(answering)
<1>9. Bubble(n, e) = SelectForNode(s, e) /\ s \in m.up[n]
  BY <1>4, <1>7
<1> HIDE DEF answering, answers, s
<1>10. Bubble(n, e) \in Trans /\ m.trans[Bubble(n, e)].source = s
  BY <1>3, <1>9
<1> QED
  BY <1>8, <1>9, <1>10 DEF s

\* Picking from a sequence.
LEMMA PickIsPart ==
    ASSUME NEW s, NEW k \in Nat, NEW I \in SUBSET (0 .. k)
    PROVE  /\ Cardinality(I) \in Nat /\ DOMAIN Pick(s, I) = 1 .. Cardinality(I)
           /\ \A i \in DOMAIN Pick(s, I) : /\ Pick(s, I)[i] = s[Sorted(I)[i]]
                                           /\ Sorted(I)[i] \in I
           /\ \A i, j \in DOMAIN Pick(s, I) : i # j => Sorted(I)[i] # Sorted(I)[j]
<1>1. /\ Cardinality(I) \in Nat
      /\ DOMAIN Sorted(I) = 1 .. Cardinality(I)
      /\ \A i \in DOMAIN Sorted(I) : Sorted(I)[i] \in I
      /\ \A i, j \in DOMAIN Sorted(I) : i # j => Sorted(I)[i] # Sorted(I)[j]
  BY SortedIsOrder
<1> QED
  BY <1>1 DEF Pick

\* What is picked keeps its order, and everything picked is there.
LEMMA PickInOrder ==
    ASSUME NEW s, NEW k \in Nat, NEW I \in SUBSET (0 .. k)
    PROVE  /\ \A i, j \in DOMAIN Pick(s, I) : i < j => Sorted(I)[i] < Sorted(I)[j]
           /\ \A x \in I : \E i \in DOMAIN Pick(s, I) : Sorted(I)[i] = x
<1>1. /\ \A i, j \in DOMAIN Sorted(I) : i < j => Sorted(I)[i] < Sorted(I)[j]
      /\ \A x \in I : \E i \in DOMAIN Sorted(I) : Sorted(I)[i] = x
  BY SortedIsOrder
<1>2. DOMAIN Pick(s, I) = DOMAIN Sorted(I)
  BY DEF Pick
<1> QED
  BY <1>1, <1>2

\* Candidates are transitions of active states.
LEMMA CandidatesAreActive ==
    ASSUME Chart, cfg \subseteq Nodes, NEW e
    PROVE  \E n \in Nat : /\ Candidates(e) \in [1 .. n -> Trans]
                          /\ Closed(cfg) => \A i \in 1 .. n :
                                m.trans[Candidates(e)[i]].source \in cfg
<1> DEFINE leaves == Sorted(Atomic)
           picks == [i \in DOMAIN leaves |-> Bubble(leaves[i], e)]
           I == {i \in DOMAIN picks : /\ picks[i] # NoTransition
                                      /\ ~m.trans[picks[i]].forbidden}
           s == Pick(picks, I)
           J == {i \in DOMAIN s : \A j \in 1 .. (i - 1) : s[j] # s[i]}
<1>1. Candidates(e) = Pick(s, J)
  BY DEF Candidates, Distinct
<1>2. PICK k \in Nat : Atomic \in SUBSET (0 .. k)
  <2>1. IsFiniteSet(Nodes) /\ Nodes = 0 .. (Cardinality(Nodes) - 1) /\ Nodes # {}
    BY DEF Chart, IsChart, Nodes
  <2>2. Cardinality(Nodes) \in Nat /\ Cardinality(Nodes) # 0
    BY <2>1, FS_CardinalityType, FS_EmptySet
  <2>3. Atomic \subseteq Nodes
    BY DEF Atomic
  <2>4. Cardinality(Nodes) - 1 \in Nat
    BY <2>2
  <2> QED
    BY <2>1, <2>3, <2>4
<1>3. /\ Cardinality(Atomic) \in Nat /\ DOMAIN leaves = 1 .. Cardinality(Atomic)
      /\ \A i \in DOMAIN leaves : leaves[i] \in Atomic
  BY <1>2, SortedIsOrder
<1>4. I \in SUBSET (0 .. Cardinality(Atomic))
  BY <1>3
<1>5. /\ Cardinality(I) \in Nat /\ DOMAIN s = 1 .. Cardinality(I)
      /\ \A i \in DOMAIN s : \E j \in I : s[i] = picks[j]
  <2> HIDE DEF I, picks, leaves
  <2>1. /\ Cardinality(I) \in Nat /\ DOMAIN Pick(picks, I) = 1 .. Cardinality(I)
        /\ \A i \in DOMAIN Pick(picks, I) : /\ Pick(picks, I)[i] = picks[Sorted(I)[i]]
                                            /\ Sorted(I)[i] \in I
    BY <1>3, <1>4, PickIsPart
  <2> QED
    BY <2>1
<1>6. ASSUME NEW j \in I
      PROVE  picks[j] \in Trans /\ (Closed(cfg) => m.trans[picks[j]].source \in cfg)
  <2>1. j \in DOMAIN leaves /\ picks[j] = Bubble(leaves[j], e) /\ picks[j] # NoTransition
    OBVIOUS
  <2>2. leaves[j] \in cfg /\ (Closed(cfg) => m.up[leaves[j]] \subseteq cfg)
    BY <1>3, <2>1 DEF Atomic, Closed
  <2> HIDE DEF leaves
  <2> QED
    BY <2>1, <2>2, AnswersAreAbove
<1> HIDE DEF s, I, picks
<1>7. J \in SUBSET (0 .. Cardinality(I))
  BY <1>5
<1>8. /\ Cardinality(J) \in Nat /\ DOMAIN Pick(s, J) = 1 .. Cardinality(J)
      /\ \A i \in DOMAIN Pick(s, J) : \E j \in J : Pick(s, J)[i] = s[j]
  <2> HIDE DEF J
  <2>1. Cardinality(I) \in Nat
    BY <1>5
  <2>2. /\ Cardinality(J) \in Nat /\ DOMAIN Pick(s, J) = 1 .. Cardinality(J)
        /\ \A i \in DOMAIN Pick(s, J) : /\ Pick(s, J)[i] = s[Sorted(J)[i]]
                                        /\ Sorted(J)[i] \in J
    BY <1>7, <2>1, PickIsPart
  <2> QED
    BY <2>2
<1>9. \A i \in DOMAIN Pick(s, J) : \E j \in DOMAIN s : Pick(s, J)[i] = s[j]
  BY <1>8
<1>10. \A i \in DOMAIN Pick(s, J) : \E j \in I : Pick(s, J)[i] = picks[j]
  BY <1>5, <1>9
<1> HIDE DEF J
<1>11. Pick(s, J) = [i \in 1 .. Cardinality(J) |-> Pick(s, J)[i]]
  BY <1>8 DEF Pick
<1> QED
  BY <1>1, <1>6, <1>8, <1>10, <1>11

\* What is selected are transitions of active states, and no two of them leave
\* the same state.
LEMMA SelectedAreApart ==
    ASSUME Chart, cfg \subseteq Nodes, NEW e
    PROVE  /\ \E n \in Nat : DOMAIN Selected(e) = 1 .. n
           /\ \A i \in DOMAIN Selected(e) :
                 /\ Selected(e)[i] \in Trans
                 /\ Closed(cfg) => m.trans[Selected(e)[i]].source \in cfg
           /\ \A i, j \in DOMAIN Selected(e) :
                 i # j => ~Conflict(Selected(e)[i], Selected(e)[j])
<1> DEFINE cands == Candidates(e)
<1>1. PICK n \in Nat : /\ cands \in [1 .. n -> Trans]
                       /\ Closed(cfg) => \A i \in 1 .. n :
                                             m.trans[cands[i]].source \in cfg
  BY CandidatesAreActive
<1> HIDE DEF cands
<1>2. Len(cands) = n /\ DOMAIN cands = 1 .. n
  BY <1>1
<1> DEFINE Pairs == (DOMAIN cands) \X (DOMAIN cands)
           clash == {p \in Pairs : Conflict(cands[p[1]], cands[p[2]])}
           wins == {p \in Pairs : Preempts(cands[p[1]], cands[p[2]])}
           I == ResolveAll(n, clash, wins)
<1>3. \A a, b : <<a, b>> \in clash <=> /\ a \in DOMAIN cands /\ b \in DOMAIN cands
                                       /\ Conflict(cands[a], cands[b])
  OBVIOUS
<1>4. \A a, b : <<a, b>> \in clash => <<b, a>> \in clash
  BY <1>3 DEF Conflict
<1>5. Selected(e) = Pick(cands, I)
  BY <1>2 DEF Selected, Survivors, cands
<1> HIDE DEF clash, wins
<1>6. I \subseteq 1 .. n /\ \A a, b \in I : a # b => <<a, b>> \notin clash
  BY <1>4, ResolvingKeepsApart
<1> HIDE DEF I
<1>7. I \in SUBSET (0 .. n)
  BY <1>6
<1>8. /\ Cardinality(I) \in Nat /\ DOMAIN Pick(cands, I) = 1 .. Cardinality(I)
      /\ \A i \in DOMAIN Pick(cands, I) : /\ Pick(cands, I)[i] = cands[Sorted(I)[i]]
                                          /\ Sorted(I)[i] \in I
      /\ \A i, j \in DOMAIN Pick(cands, I) : i # j => Sorted(I)[i] # Sorted(I)[j]
  BY <1>7, PickIsPart
<1>9. ASSUME NEW i \in DOMAIN Selected(e)
      PROVE  /\ Selected(e)[i] \in Trans
             /\ Closed(cfg) => m.trans[Selected(e)[i]].source \in cfg
  <2>1. Selected(e)[i] = cands[Sorted(I)[i]] /\ Sorted(I)[i] \in 1 .. n
    BY <1>5, <1>6, <1>8
  <2> HIDE DEF I
  <2> QED
    BY <1>1, <2>1
<1>10. ASSUME NEW i \in DOMAIN Selected(e), NEW j \in DOMAIN Selected(e), i # j
       PROVE  ~Conflict(Selected(e)[i], Selected(e)[j])
  <2>1. /\ Sorted(I)[i] \in I /\ Sorted(I)[j] \in I /\ Sorted(I)[i] # Sorted(I)[j]
        /\ Selected(e)[i] = cands[Sorted(I)[i]] /\ Selected(e)[j] = cands[Sorted(I)[j]]
    BY <1>5, <1>8, <1>10
  <2> QED
    BY <1>2, <1>3, <1>6, <2>1
<1> QED
  BY <1>5, <1>8, <1>9, <1>10

-----------------------------------------------------------------------------
(* Domains and exits *)

\* The domain of a transition of an active state: an active ancestor of the
\* source above every target.  Something is left unless it is the root.
LEMMA Domains ==
    ASSUME Chart, Orderly(m), Legal(cfg),
           NEW t \in Trans, m.trans[t].source \in cfg, m.trans[t].targets # <<>>
    PROVE  /\ TransitionDomain(t) \in cfg \cap Nodes
           /\ \A x \in Range(m.trans[t].targets) :
                 /\ x \in Nodes /\ TransitionDomain(t) \in m.up[x]
                 /\ x \in History => TransitionDomain(t) \in m.up[m.parent[x]]
           /\ ExitSetOf(t) = {n \in cfg \ {TransitionDomain(t)} : TransitionDomain(t) \in m.up[n]}
           /\ TransitionDomain(t) # Root \/ Children(TransitionDomain(t)) \ History # {}
                 => ExitSetOf(t) # {}
<1> DEFINE src == m.trans[t].source
           targets == Range(m.trans[t].targets)
           D == TransitionDomain(t)
           inside == ~m.trans[t].reenter /\ \A x \in targets : Below(x, src)
           T == {Root} \cup {a \in m.up[src] \ {src} : Covers(a, targets)}
<1>1. /\ Root \in cfg /\ cfg \subseteq Nodes /\ \A x \in cfg : m.up[x] \subseteq cfg
      /\ cfg \cap History = {}
      /\ src \in Nodes /\ Root \in Nodes
  BY NodesAreNumbers DEF Legal, Partial, Closed
<1>2. targets \subseteq Nodes
  BY DEF Chart, IsChart, Trans, Nodes, Range
<1>3. ExitSetOf(t) = {n \in cfg \ {D} : D \in m.up[n]}
  BY DEF ExitSetOf, Below
<1>4. D = IF inside THEN src ELSE Max(T)
  BY DEF TransitionDomain
<1>5. T \in SUBSET Nodes /\ T # {}
  BY <1>1, Ancestors
<1>6. Max(T) \in T
  <2> HIDE DEF T
  <2> QED
    BY <1>5, GreatestNode
<1>7. D \in m.up[src] /\ \A x \in targets : D \in m.up[x]
  <2>1. CASE inside
    BY <1>1, <1>4, <2>1, Ancestors DEF Below
  <2>2. CASE ~inside /\ Max(T) = Root
    BY <1>1, <1>2, <1>4, <2>2, Ancestors
  <2>3. CASE ~inside /\ Max(T) # Root
    BY <1>4, <1>6, <2>3 DEF Covers, Below
  <2> QED
    BY <2>1, <2>2, <2>3
<1>8. D \in cfg /\ D \in Nodes
  BY <1>1, <1>7
<1>9. ASSUME NEW x \in targets, x \in History PROVE D \in m.up[m.parent[x]]
  <2>1. x # D /\ D \in m.up[x] /\ x \in Nodes
    BY <1>1, <1>2, <1>7, <1>8, <1>9
  <2>2. x # Root
    BY <1>1, <1>9
  <2> QED
    BY <2>1, <2>2, NodesAreNumbers
<1>10. ASSUME D # Root \/ Children(D) \ History # {} PROVE ExitSetOf(t) # {}
  <2>1. \E c \in Nodes : m.parent[c] = D
    <3>1. CASE D = Root
      BY <1>10, <3>1 DEF Children
    <3>2. CASE inside
      BY <1>4, <3>2 DEF Orderly, Below, Trans, Nodes
    <3>3. CASE ~inside /\ D # Root
      <4>1. D \in m.up[src] /\ D # src
        BY <1>4, <1>6, <3>3
      <4> QED
        BY <1>1, <4>1, PathToNode DEF Children
    <3> QED
      BY <3>1, <3>2, <3>3
  <2>2. PICK c \in Children(D) : TRUE
    BY <2>1 DEF Children
  <2>3. m.type[D] \in {"compound", "parallel"}
    BY <1>8, <2>2, Parents
  <2>4. \E x \in cfg : x \in Children(D)
    <3>1. CASE m.type[D] = "compound"
      BY <1>8, <3>1 DEF Legal, Full
    <3>2. CASE m.type[D] = "parallel"
      <4>1. c \notin History
        BY <2>2, <3>2 DEF Orderly, History, Children, Nodes
      <4> QED
        BY <1>8, <2>2, <3>2, <4>1 DEF Legal, Full
    <3> QED
      BY <2>3, <3>1, <3>2
  <2>5. PICK x \in cfg : x \in Children(D)
    BY <2>4
  <2>6. x # D /\ D \in m.up[x]
    BY <1>8, <2>5, Parents
  <2> QED
    BY <1>3, <2>6
<1> HIDE DEF D
<1> QED
  BY <1>2, <1>3, <1>7, <1>8, <1>9, <1>10 DEF D

\* What a microstep can take.
Sound(sel) ==
    /\ \A i \in DOMAIN sel : sel[i] \in Trans /\ m.trans[sel[i]].source \in cfg
    /\ \A i, j \in DOMAIN sel : i # j => ~Conflict(sel[i], sel[j])
\* The targets of a transition; what the transitions sel leave active.
Targets(t) == Range(m.trans[t].targets)
Kept(sel) == cfg \ Exited(sel)

\* What stays is the upper part of the configuration, with all domains.
LEMMA WhatStays ==
    ASSUME Chart, Orderly(m), Legal(cfg), NEW sel, Sound(sel)
    PROVE  /\ Partial(Kept(sel))
           /\ \A i \in DOMAIN sel : m.trans[sel[i]].targets # <<>> =>
                 /\ TransitionDomain(sel[i]) \in Kept(sel)
                 /\ \A x \in Kept(sel) : TransitionDomain(sel[i]) \in m.up[x]
                                            => x = TransitionDomain(sel[i])
<1> DEFINE D(i) == TransitionDomain(sel[i])
           Moving == {i \in DOMAIN sel : m.trans[sel[i]].targets # <<>>}
<1>1. /\ Root \in cfg /\ cfg \subseteq Nodes /\ \A x \in cfg : m.up[x] \subseteq cfg
      /\ cfg \cap History = {} /\ Single(cfg)
      /\ Root \in Nodes /\ m.up[Root] = {Root}
  BY NodesAreNumbers DEF Legal, Partial, Closed
<1>2. ASSUME NEW i \in Moving
      PROVE  /\ D(i) \in cfg \cap Nodes
             /\ ExitSetOf(sel[i]) = {n \in cfg \ {D(i)} : D(i) \in m.up[n]}
             /\ D(i) # Root => ExitSetOf(sel[i]) # {}
  BY Domains DEF Sound
<1>3. \A x : x \in Exited(sel) <=> \E i \in Moving : x \in ExitSetOf(sel[i])
  BY DEF Exited, Range, ExitSetOf
<1>4. ASSUME NEW x \in Kept(sel) PROVE m.up[x] \subseteq Kept(sel)
  <2> SUFFICES ASSUME NEW a \in m.up[x], a \notin Kept(sel) PROVE FALSE
    OBVIOUS
  <2>1. x \in cfg /\ a \in cfg /\ a \in Exited(sel) /\ x \notin Exited(sel) /\ x \in Nodes
    BY <1>1, <1>4 DEF Kept
  <2>2. PICK i \in Moving : a \in ExitSetOf(sel[i])
    BY <1>3, <2>1
  <2>3. a # D(i) /\ D(i) \in m.up[a]
    BY <1>2, <2>2
  <2>4. D(i) \in m.up[x]
    BY <2>1, <2>3, AncestorsOfAncestors
  <2>5. x # D(i)
    BY <2>1, <2>3, Antisymmetric
  <2> QED
    BY <1>2, <1>3, <2>1, <2>4, <2>5
<1>5. Root \in Kept(sel)
  <2>1. ASSUME NEW i \in Moving PROVE Root \notin ExitSetOf(sel[i])
    BY <1>1, <1>2
  <2> QED
    BY <1>1, <1>3, <2>1 DEF Kept
<1>6. Partial(Kept(sel))
  <2>1. Kept(sel) \subseteq cfg
    BY DEF Kept
  <2> QED
    BY <1>1, <1>4, <1>5, <2>1 DEF Partial, Closed, Single
<1>7. ASSUME NEW i \in Moving PROVE D(i) \in Kept(sel)
  <2>1. CASE D(i) = Root
    BY <1>5, <2>1
  <2>2. CASE D(i) # Root
    <3> SUFFICES ASSUME D(i) \in Exited(sel) PROVE FALSE
      BY <1>2 DEF Kept
    <3>1. PICK j \in Moving : D(i) \in ExitSetOf(sel[j])
      BY <1>3
    <3>2. j # i /\ D(j) \in m.up[D(i)] /\ D(i) # D(j)
      BY <1>2, <3>1
    <3>3. PICK x \in ExitSetOf(sel[i]) : TRUE
      BY <1>2, <2>2
    <3>4. x \in cfg /\ x # D(i) /\ D(i) \in m.up[x] /\ x \in Nodes
      BY <1>1, <1>2, <3>3
    <3>5. D(j) \in m.up[x]
      BY <3>2, <3>4, AncestorsOfAncestors
    <3>6. x # D(j)
      BY <1>2, <3>2, <3>4, Antisymmetric
    <3>7. x \in ExitSetOf(sel[j])
      BY <1>2, <3>4, <3>5, <3>6
    <3> QED
      BY <3>2, <3>3, <3>7 DEF Sound, Conflict
  <2> QED
    BY <2>1, <2>2
<1>8. ASSUME NEW i \in Moving, NEW x \in Kept(sel), D(i) \in m.up[x]
      PROVE  x = D(i)
  BY <1>2, <1>3, <1>8 DEF Kept
<1> QED
  BY <1>6, <1>7, <1>8

-----------------------------------------------------------------------------
(* Goals *)

\* States that can be entered together: none above another, and one way down
\* from every compound state.
Together(G) ==
    /\ \A g, f \in G : g \in m.up[f] => g = f
    /\ Single(UNION {m.up[g] : g \in G})

\* What a history state may hold.
Recordable(h, G) ==
    /\ G \subseteq Nodes \ History
    /\ \A g \in G : m.parent[h] \in m.up[g] \ {g}
    /\ Together(G)

\* What the targets of a transition lead to, given the history hh.
AllGoals(t, hh) == UNION {Goals(x, hh) : x \in Targets(t)}

\* Two states in different regions of a parallel state can.
LEMMA AcrossRegions ==
    ASSUME Chart, NEW p \in Nodes, m.type[p] = "parallel",
           NEW c \in Children(p), NEW d \in Children(p), c # d,
           NEW g \in Nodes, NEW f \in Nodes, c \in m.up[g], d \in m.up[f]
    PROVE  /\ g \notin m.up[f]
           /\ \A z \in Nodes : m.type[z] = "compound" =>
                 \A u \in Children(z) \cap m.up[g], v \in Children(z) \cap m.up[f] : u = v
<1>1. c \notin m.up[f] /\ d \notin m.up[g]
  BY OneWayUp
<1>2. g \notin m.up[f]
  BY <1>1, AncestorsOfAncestors
<1>3. ASSUME NEW z \in Nodes, m.type[z] = "compound",
             NEW u \in Children(z) \cap m.up[g], NEW v \in Children(z) \cap m.up[f]
      PROVE  u = v
  <2>1. z \in m.up[f] /\ z \in m.up[g]
    BY <1>3, Parents, AncestorsOfAncestors
  <2>2. c \notin m.up[z] /\ d \notin m.up[z]
    BY <1>1, <2>1, AncestorsOfAncestors
  <2>3. u # c /\ v # d
    BY <1>3, Parents
  <2>4. c \notin m.up[u] /\ d \notin m.up[v]
    BY <2>2, <2>3, Parents
  <2>5. u \in m.up[c] /\ v \in m.up[d]
    BY <2>4, Comparable
  <2>6. u \in m.up[p] /\ v \in m.up[p]
    BY <2>3, <2>5, Parents
  <2> QED
    BY <1>3, <2>6, OneWayUp
<1> QED
  BY <1>2, <1>3

\* A state alone can.
LEMMA AloneTogether ==
    ASSUME Chart, NEW g \in Nodes
    PROVE  Together({g})
<1>1. UNION {m.up[f] : f \in {g}} = m.up[g]
  OBVIOUS
<1>2. Single(m.up[g])
  BY OneWayUp DEF Single
<1> QED
  BY <1>1, <1>2 DEF Together

\* What a target leads to lies at the target or, when that is a history state,
\* below its parent.
LEMMA GoalsOfTarget ==
    ASSUME Chart, Orderly(m), NEW hh, \A h \in History : Recordable(h, hh[h]),
           NEW x \in Nodes
    PROVE  /\ Goals(x, hh) \subseteq Nodes \ History
           /\ x \notin History => \A g \in Goals(x, hh) : g = x
           /\ x \in History => \A g \in Goals(x, hh) : m.parent[x] \in m.up[g] \ {g}
           /\ Goals(x, hh) # {}
           /\ Together(Goals(x, hh))
<1>1. CASE x \notin History
  BY <1>1, AloneTogether DEF Goals
<1>2. CASE x \in History /\ hh[x] # {}
  BY <1>2 DEF Goals, Recordable
<1>3. CASE x \in History /\ hh[x] = {} /\ m.default[x] # NoNode
  <2>1. Goals(x, hh) = {m.default[x]}
    BY <1>3 DEF Goals
  <2>2. /\ m.default[x] \in Nodes \ History
        /\ m.parent[x] \in m.up[m.default[x]] \ {m.default[x]}
    BY <1>3 DEF Chart, IsChart, Nodes, History
  <2>3. Together(Goals(x, hh))
    BY <2>1, <2>2, AloneTogether
  <2> QED
    BY <1>3, <2>1, <2>2, <2>3
<1>4. CASE x \in History /\ hh[x] = {} /\ m.default[x] = NoNode
  <2> DEFINE g == Resolved(m.initial[m.parent[x]])
  <2>1. Goals(x, hh) = {g} \ {NoNode}
    BY <1>4 DEF Goals
  <2>2. m.type[m.parent[x]] = "compound" /\ m.parent[x] \in Nodes
    <3>1. m.type[m.parent[x]] = "compound"
      BY <1>4 DEF Orderly, History, Nodes
    <3>2. x # Root
      BY <1>4 DEF Chart, IsChart, History
    <3> QED
      BY <3>1, <3>2, NodesAreNumbers
  <2>3. g \in Children(m.parent[x]) \ History /\ g # NoNode
    BY <2>2, InitialChild
  <2>4. g \in Nodes /\ m.parent[x] \in m.up[g] /\ g # m.parent[x]
    BY <2>2, <2>3, Parents
  <2>5. Together(Goals(x, hh))
    <3>1. Goals(x, hh) = {g}
      BY <2>1, <2>3
    <3> HIDE DEF g
    <3> QED
      BY <2>4, <3>1, AloneTogether
  <2> QED
    BY <1>4, <2>1, <2>3, <2>4, <2>5
<1> QED
  BY <1>1, <1>2, <1>3, <1>4

\* What a transition leads to can be entered together.
LEMMA GoalsOfTransition ==
    ASSUME Chart, Orderly(m), NEW hh, \A h \in History : Recordable(h, hh[h]),
           NEW t \in Trans
    PROVE  /\ Targets(t) \subseteq Nodes
           /\ AllGoals(t, hh) \subseteq Nodes \ History
           /\ Together(AllGoals(t, hh))
<1> DEFINE x(j) == m.trans[t].targets[j]
           J == DOMAIN m.trans[t].targets
<1>1. Targets(t) \subseteq Nodes /\ \A j \in J : x(j) \in Nodes
  BY DEF Chart, IsChart, Trans, Nodes, Range, Targets
<1>2. \A g : g \in AllGoals(t, hh) <=> \E j \in J : g \in Goals(x(j), hh)
  BY DEF AllGoals, Targets, Range
<1>3. AllGoals(t, hh) \subseteq Nodes \ History
  BY <1>1, <1>2, GoalsOfTarget
<1>4. ASSUME NEW j \in J, NEW c \in Nodes, c \in m.up[x(j)], m.type[m.parent[c]] = "parallel",
             NEW g \in Goals(x(j), hh)
      PROVE  c \in m.up[g]
  <2>1. CASE x(j) \notin History
    BY <1>1, <1>4, <2>1, GoalsOfTarget
  <2>2. CASE x(j) \in History
    <3>1. m.parent[x(j)] \in m.up[g] /\ g \in Nodes
      <4> DEFINE z == x(j)
      <4>1. z \in Nodes /\ z \in History /\ g \in Goals(z, hh)
        BY <1>1, <1>4, <2>2
      <4> HIDE DEF z
      <4>2. /\ Goals(z, hh) \subseteq Nodes \ History
            /\ \A y \in Goals(z, hh) : m.parent[z] \in m.up[y] \ {y}
        BY <4>1, GoalsOfTarget
      <4>3. m.parent[z] \in m.up[g] /\ g \in Nodes
        BY <4>1, <4>2
      <4> QED
        BY <4>3 DEF z
    <3>2. m.type[m.parent[x(j)]] = "compound"
      BY <2>2 DEF Orderly, History, Nodes
    <3>3. x(j) # Root
      BY <2>2 DEF Chart, IsChart, History
    <3>4. c \in m.up[m.parent[x(j)]]
      <4> DEFINE z == x(j)
      <4>1. z \in Nodes /\ z # Root /\ c \in m.up[z] /\ m.type[m.parent[c]] = "parallel"
            /\ m.type[m.parent[z]] = "compound"
        BY <1>1, <1>4, <3>2, <3>3
      <4> HIDE DEF z
      <4>2. c # z /\ m.up[z] = m.up[m.parent[z]] \cup {z}
        BY <4>1, NodesAreNumbers
      <4>3. c \in m.up[m.parent[z]]
        BY <4>1, <4>2
      <4> QED
        BY <4>3 DEF z
    <3> QED
      BY <3>1, <3>4, AncestorsOfAncestors
  <2> QED
    BY <2>1, <2>2
<1> HIDE DEF x
<1>5. ASSUME NEW j \in J, NEW g \in Goals(x(j), hh), NEW k \in J, NEW f \in Goals(x(k), hh)
      PROVE  /\ g \in m.up[f] => g = f
             /\ \A z \in Nodes : m.type[z] = "compound" =>
                   \A u \in Children(z) \cap m.up[g], v \in Children(z) \cap m.up[f] : u = v
  <2>1. CASE j = k
    <3>1. Together(Goals(x(j), hh))
      BY <1>1, GoalsOfTarget
    <3>2. m.up[g] \subseteq UNION {m.up[y] : y \in Goals(x(j), hh)}
      OBVIOUS
    <3>3. m.up[f] \subseteq UNION {m.up[y] : y \in Goals(x(j), hh)}
      BY <2>1
    <3>4. Single(UNION {m.up[y] : y \in Goals(x(j), hh)}) /\ (g \in m.up[f] => g = f)
      BY <2>1, <3>1 DEF Together
    <3> HIDE DEF J
    <3> QED
      BY <3>2, <3>3, <3>4 DEF Single
  <2>2. CASE j # k
    <3>1. PICK p \in Nodes, c \in Nodes, d \in Nodes :
             /\ m.type[p] = "parallel" /\ c # d
             /\ m.parent[c] = p /\ c \in m.up[x(j)]
             /\ m.parent[d] = p /\ d \in m.up[x(k)]
      BY <2>2 DEF Orderly, Fork, Trans, Nodes, x
    <3>2. c \in m.up[g] /\ d \in m.up[f] /\ g \in Nodes /\ f \in Nodes
      BY <1>1, <1>4, <3>1, GoalsOfTarget
    <3>3. c \in Children(p) /\ d \in Children(p)
      BY <3>1 DEF Children
    <3>4. /\ g \notin m.up[f]
          /\ \A z \in Nodes : m.type[z] = "compound" =>
                \A u \in Children(z) \cap m.up[g], v \in Children(z) \cap m.up[f] : u = v
      BY <3>1, <3>2, <3>3, AcrossRegions
    <3> QED
      BY <3>4
  <2> QED
    BY <2>1, <2>2
<1>6. Together(AllGoals(t, hh))
  <2>1. ASSUME NEW g \in AllGoals(t, hh), NEW f \in AllGoals(t, hh), g \in m.up[f]
        PROVE  g = f
    BY <1>2, <1>5, <2>1
  <2>2. ASSUME NEW z \in Nodes, m.type[z] = "compound",
               NEW u \in Children(z) \cap UNION {m.up[g] : g \in AllGoals(t, hh)},
               NEW v \in Children(z) \cap UNION {m.up[g] : g \in AllGoals(t, hh)}
        PROVE  u = v
    <3>1. PICK g \in AllGoals(t, hh) : u \in m.up[g]
      BY <2>2
    <3>2. PICK f \in AllGoals(t, hh) : v \in m.up[f]
      BY <2>2
    <3>3. u \in Children(z) /\ v \in Children(z)
      BY <2>2
    <3>4. PICK j \in J : g \in Goals(x(j), hh)
      BY <1>2
    <3>5. PICK k \in J : f \in Goals(x(k), hh)
      BY <1>2
    <3> QED
      BY <1>5, <2>2, <3>1, <3>2, <3>3, <3>4, <3>5
  <2> QED
    BY <2>1, <2>2 DEF Together, Single
<1> QED
  BY <1>1, <1>3, <1>6

\* The states on the way to some goals and what descends from them.
Entry(G) == UNION {m.up[g] \cup DescentFrom(g) : g \in G}

\* Entering some goals together enters one child of every compound state.
LEMMA EntryIsSingle ==
    ASSUME Chart, Orderly(m), NEW G \in SUBSET (Nodes \ History), Together(G)
    PROVE  Single(Entry(G)) /\ Entry(G) \subseteq Nodes \ History
<1>1. ASSUME NEW g \in G, NEW y \in m.up[g] PROVE y \in Nodes \ History
  <2>1. CASE y = g
    BY <2>1
  <2>2. CASE y # g
    BY <2>2, PathToNode, Ancestors DEF History
  <2> QED
    BY <2>1, <2>2
<1>2. ASSUME NEW g \in G, NEW y \in DescentFrom(g) PROVE y \in Nodes \ History /\ g \in m.up[y]
  BY Descending
<1>3. Entry(G) \subseteq Nodes \ History
  BY <1>1, <1>2 DEF Entry
<1>4. \A y : y \in Entry(G) <=> \E g \in G : y \in m.up[g] \/ y \in DescentFrom(g)
  BY DEF Entry
<1>5. ASSUME NEW z \in Nodes, m.type[z] = "compound", NEW u \in Children(z), NEW v \in Children(z),
             NEW g \in G, u \in DescentFrom(g) \ m.up[g],
             NEW f \in G, v \in m.up[f] \/ v \in DescentFrom(f)
      PROVE  u = v
  <2>1. g \in m.up[u] /\ g # u /\ g \in Nodes /\ f \in Nodes
    BY <1>2, <1>5, Ancestors
  <2>2. g \in m.up[z]
    BY <2>1, Parents
  <2>3. CASE v \in m.up[f]
    <3>1. z \in m.up[f]
      BY <2>1, <2>3, Parents, AncestorsOfAncestors
    <3>2. g \in m.up[f]
      BY <2>1, <2>2, <3>1, AncestorsOfAncestors
    <3>3. g = f
      BY <3>2 DEF Together
    <3>4. z = g
      BY <2>1, <2>2, <3>1, <3>3, Antisymmetric
    <3>5. v = g
      <4>1. g \in m.up[v]
        BY <3>4, Parents
      <4> QED
        BY <2>1, <2>3, <3>3, <4>1, Antisymmetric
    <3> QED
      BY <3>4, <3>5, Parents
  <2>4. CASE v \in DescentFrom(f) /\ v \notin m.up[f]
    <3>1. f \in m.up[v] /\ f # v
      BY <1>2, <2>1, <2>4, Ancestors
    <3>2. f \in m.up[z]
      BY <3>1, Parents
    <3>3. f = g
      BY <2>2, <3>2, Comparable DEF Together
    <3>4. Single(DescentFrom(g))
      BY DescentIsLegal
    <3> QED
      BY <1>5, <2>4, <3>3, <3>4 DEF Single
  <2> QED
    BY <1>5, <2>3, <2>4
<1>6. ASSUME NEW z \in Nodes, m.type[z] = "compound",
             NEW u \in Children(z) \cap Entry(G), NEW v \in Children(z) \cap Entry(G)
      PROVE  u = v
  <2>1. PICK g \in G : u \in m.up[g] \/ u \in DescentFrom(g)
    BY <1>4, <1>6
  <2>2. PICK f \in G : v \in m.up[f] \/ v \in DescentFrom(f)
    BY <1>4, <1>6
  <2>3. CASE u \in m.up[g] /\ v \in m.up[f]
    <3>1. u \in Children(z) /\ v \in Children(z)
      BY <1>6
    <3> QED
      BY <1>6, <2>3, <3>1 DEF Together, Single
  <2>4. CASE u \notin m.up[g]
    BY <1>5, <1>6, <2>1, <2>2, <2>4
  <2>5. CASE v \notin m.up[f]
    BY <1>5, <1>6, <2>1, <2>2, <2>5
  <2> QED
    BY <2>3, <2>4, <2>5
<1> QED
  BY <1>3, <1>6 DEF Single

-----------------------------------------------------------------------------
(* Entry *)

\* What is requested for a target, and how far up it goes.
LEMMA RequestsAreGoals ==
    ASSUME NEW sel, NEW hh, NEW r \in Requests(sel, hh)
    PROVE  \E i \in DOMAIN sel : \E x \in Targets(sel[i]) :
              /\ m.trans[sel[i]].targets # <<>>
              /\ \/ /\ r.node \in Goals(x, hh)
                    /\ r.stop = IF x \in History /\ hh[x] # {} THEN m.parent[x]
                                ELSE TransitionDomain(sel[i])
                 \/ r.node = x /\ x \in History /\ r.stop = TransitionDomain(sel[i])
<1>1. PICK i \in DOMAIN sel : \E j \in DOMAIN m.trans[sel[i]].targets :
         r \in RequestsFor(<<i, j>>, m.trans[sel[i]].targets[j], TransitionDomain(sel[i]), hh)
  BY DEF Requests
<1>2. PICK j \in DOMAIN m.trans[sel[i]].targets :
         r \in RequestsFor(<<i, j>>, m.trans[sel[i]].targets[j], TransitionDomain(sel[i]), hh)
  BY <1>1
<1> DEFINE x == m.trans[sel[i]].targets[j]
<1>3. x \in Targets(sel[i]) /\ m.trans[sel[i]].targets # <<>>
  BY DEF Targets, Range
<1>4. r \in RequestsFor(<<i, j>>, x, TransitionDomain(sel[i]), hh)
  BY <1>2
<1> HIDE DEF x
<1>5. \/ /\ r.node \in Goals(x, hh)
         /\ r.stop = IF x \in History /\ hh[x] # {} THEN m.parent[x]
                     ELSE TransitionDomain(sel[i])
      \/ r.node = x /\ x \in History /\ r.stop = TransitionDomain(sel[i])
  BY <1>4 DEF RequestsFor
<1> QED
  BY <1>3, <1>5

\* A history state that is a target is requested itself.
LEMMA HistoryIsRequested ==
    ASSUME NEW sel, NEW hh, NEW i \in DOMAIN sel, NEW x \in Targets(sel[i]) \cap History
    PROVE  \E r \in Requests(sel, hh) : r.node = x /\ r.stop = TransitionDomain(sel[i])
<1>1. PICK j \in DOMAIN m.trans[sel[i]].targets : x = m.trans[sel[i]].targets[j]
  BY DEF Targets, Range
<1> DEFINE r == [at |-> <<i, j>>, node |-> x, stop |-> TransitionDomain(sel[i])]
<1>2. r \in RequestsFor(<<i, j>>, m.trans[sel[i]].targets[j], TransitionDomain(sel[i]), hh)
  BY <1>1 DEF RequestsFor
<1>3. r \in Requests(sel, hh)
  BY <1>2 DEF Requests
<1> QED
  BY <1>3

\* The domain of a transition is above its goals.
LEMMA DomainAboveGoals ==
    ASSUME Chart, Orderly(m), Legal(cfg), NEW sel, Sound(sel),
           NEW hh, \A h \in History : Recordable(h, hh[h]),
           NEW i \in DOMAIN sel, NEW x \in Targets(sel[i]), NEW g \in Goals(x, hh)
    PROVE  /\ x \in Nodes /\ g \in Nodes \ History
           /\ TransitionDomain(sel[i]) \in m.up[g]
           /\ x \in History => m.parent[x] \in m.up[g]
<1>1. m.trans[sel[i]].targets # <<>>
  BY DEF Targets, Range
<1>2. /\ x \in Nodes /\ TransitionDomain(sel[i]) \in m.up[x]
      /\ x \in History => TransitionDomain(sel[i]) \in m.up[m.parent[x]]
  BY <1>1, Domains DEF Sound, Targets
<1>3. CASE x \notin History
  BY <1>2, <1>3, GoalsOfTarget
<1>4. CASE x \in History
  <2>1. g \in Nodes \ History /\ m.parent[x] \in m.up[g]
    BY <1>2, <1>4, GoalsOfTarget
  <2> QED
    BY <1>2, <1>4, <2>1, AncestorsOfAncestors
<1> QED
  BY <1>3, <1>4, <1>2

\* Entering what was requested leads to a part of a configuration.
LEMMA EnteredIsPartial ==
    ASSUME Chart, Orderly(m), Legal(cfg), NEW sel, Sound(sel),
           NEW hh, \A h \in History : Recordable(h, hh[h])
    PROVE  Partial(Kept(sel) \cup Targeted(Requests(sel, hh)))
<1> DEFINE K == Kept(sel)
           R == Requests(sel, hh)
           S == K \cup Targeted(R)
           D(i) == TransitionDomain(sel[i])
           I == {i \in DOMAIN sel : m.trans[sel[i]].targets # <<>>}
           E(i) == Entry(AllGoals(sel[i], hh))
           Asks(r, i, x) ==
              /\ x \in Nodes
              /\ \/ /\ r.node \in Goals(x, hh)
                    /\ r.stop = IF x \in History /\ hh[x] # {} THEN m.parent[x] ELSE D(i)
                 \/ r.node = x /\ x \in History /\ r.stop = D(i)
<1>1. /\ Partial(K) /\ K \subseteq Nodes /\ \A x \in K : m.up[x] \subseteq K
      /\ \A i \in I : D(i) \in K /\ \A x \in K : D(i) \in m.up[x] => x = D(i)
  BY WhatStays DEF Partial, Closed
<1>2. ASSUME NEW r \in R
      PROVE  \E i \in I : \E x \in Targets(sel[i]) : Asks(r, i, x)
  <2>1. ASSUME NEW i \in DOMAIN sel, NEW x \in Targets(sel[i]) PROVE x \in Nodes
    BY GoalsOfTransition DEF Sound
  <2>2. PICK i \in DOMAIN sel : \E x \in Targets(sel[i]) :
              /\ m.trans[sel[i]].targets # <<>>
              /\ \/ /\ r.node \in Goals(x, hh)
                    /\ r.stop = IF x \in History /\ hh[x] # {} THEN m.parent[x] ELSE D(i)
                 \/ r.node = x /\ x \in History /\ r.stop = D(i)
    BY RequestsAreGoals
  <2> QED
    BY <2>1, <2>2
<1>3. ASSUME NEW r \in R PROVE r.node \in Nodes
  <2>1. PICK x \in Nodes : r.node \in Goals(x, hh) \/ r.node = x
    BY <1>2
  <2>2. Goals(x, hh) \subseteq Nodes
    BY GoalsOfTarget
  <2> QED
    BY <2>1, <2>2
<1>4. ASSUME NEW r \in R PROVE Chain(r.stop, m.parent[r.node]) \subseteq S
  BY DEF Targeted
<1>5. ASSUME NEW r \in R, r.node # Root, m.up[r.stop] \subseteq S
      PROVE  m.up[m.parent[r.node]] \subseteq S
  <2>1. m.parent[r.node] # NoNode
    BY <1>3, <1>5, NodesAreNumbers
  <2>2. m.up[m.parent[r.node]] \ m.up[r.stop] \subseteq Chain(r.stop, m.parent[r.node])
    BY <2>1 DEF Chain
  <2> HIDE DEF S
  <2> QED
    BY <1>4, <1>5, <2>2
<1>6. ASSUME NEW r \in R, r.node # Root PROVE m.up[m.parent[r.node]] \subseteq S
  <2>0. PICK i \in I : \E x \in Targets(sel[i]) : Asks(r, i, x)
    BY <1>2
  <2>1. PICK x \in Targets(sel[i]) : Asks(r, i, x)
    BY <2>0
  <2>2. m.up[D(i)] \subseteq S
    BY <1>1
  <2>3. CASE r.stop = D(i)
    BY <1>5, <1>6, <2>2, <2>3
  <2>4. CASE x \in History /\ r.stop = m.parent[x]
    <3>1. PICK s \in R : s.node = x /\ s.stop = D(i)
      BY <2>4, HistoryIsRequested
    <3>2. x # Root
      BY <2>4 DEF Chart, IsChart, History
    <3>3. m.up[m.parent[x]] \subseteq S
      BY <1>5, <2>2, <3>1, <3>2
    <3> QED
      BY <1>5, <1>6, <2>4, <3>3
  <2> QED
    BY <2>1, <2>3, <2>4
<1>7. ASSUME NEW r \in Expanded(R)
      PROVE  /\ Descent(r.node) = DescentFrom(r.node) /\ r.node \in Nodes \ History
             /\ \E i \in I : r.node \in AllGoals(sel[i], hh)
  <2>1. r \in R /\ r.node \notin History
    BY DEF Expanded
  <2>2. r.node # NoNode
    BY <1>3, <2>1, NodesAreNumbers
  <2>3. \E i \in I : r.node \in AllGoals(sel[i], hh)
    BY <1>2, <2>1 DEF AllGoals
  <2> QED
    BY <1>3, <2>1, <2>2, <2>3 DEF Descent, Resolved
<1>8. ASSUME NEW y \in S
      PROVE  \/ y \in K
             \/ \E r \in R : r.node # Root /\ y \in m.up[m.parent[r.node]]
             \/ \E r \in Expanded(R) : y \in DescentFrom(r.node)
  <2>1. CASE \E r \in R : y \in Chain(r.stop, m.parent[r.node])
    <3>1. PICK r \in R : y \in Chain(r.stop, m.parent[r.node])
      BY <2>1
    <3>2. m.parent[r.node] # NoNode /\ y \in m.up[m.parent[r.node]]
      BY <3>1 DEF Chain
    <3>3. r.node # Root
      BY <3>2, NodesAreNumbers
    <3> QED
      BY <3>2, <3>3
  <2>2. CASE \E r \in Expanded(R) : y \in Descent(r.node)
    BY <1>7, <2>2
  <2>3. y \in K \/ y \in Targeted(R)
    OBVIOUS
  <2>4. y \in Targeted(R) =>
           \/ \E r \in R : y \in Chain(r.stop, m.parent[r.node])
           \/ \E r \in Expanded(R) : y \in Descent(r.node)
    <3> HIDE DEF R
    <3> QED
      BY DEF Targeted
  <2> HIDE DEF R, K, S
  <2> QED
    BY <2>1, <2>2, <2>3, <2>4
<1>9. ASSUME NEW r \in R, r.node # Root
      PROVE  /\ m.parent[r.node] \in Nodes /\ r.node \in Nodes
             /\ m.up[r.node] = m.up[m.parent[r.node]] \cup {r.node}
  BY <1>3, <1>9, NodesAreNumbers
<1>10. ASSUME NEW y \in S PROVE y \in K \/ \E i \in I : y \in E(i)
  <2>1. ASSUME NEW r \in R, r.node # Root, y \in m.up[m.parent[r.node]]
        PROVE  \E i \in I : y \in E(i)
    <3>0. PICK i \in I : \E x \in Targets(sel[i]) : Asks(r, i, x)
      BY <1>2
    <3>1. PICK x \in Targets(sel[i]) : Asks(r, i, x)
      BY <3>0
    <3>2. CASE r.node \in Goals(x, hh)
      <4>1. y \in m.up[r.node]
        BY <1>9, <2>1
      <4> QED
        BY <3>2, <4>1 DEF Entry, AllGoals
    <3>3. CASE r.node = x /\ x \in History
      <4>1. PICK g \in Goals(x, hh) : m.parent[x] \in m.up[g] /\ g \in Nodes
        BY <3>1, <3>3, GoalsOfTarget
      <4>2. y \in m.up[g]
        BY <2>1, <3>3, <4>1, AncestorsOfAncestors
      <4> QED
        BY <4>1, <4>2 DEF Entry, AllGoals
    <3> QED
      BY <3>1, <3>2, <3>3
  <2>2. ASSUME NEW r \in Expanded(R), y \in DescentFrom(r.node)
        PROVE  \E i \in I : y \in E(i)
    BY <1>7, <2>2 DEF Entry
  <2> HIDE DEF S, E
  <2> QED
    BY <1>8, <2>1, <2>2
<1>11. ASSUME NEW i \in I
       PROVE  Single(E(i)) /\ E(i) \subseteq Nodes \ History
  BY GoalsOfTransition, EntryIsSingle DEF Sound
<1>12. S \subseteq Nodes /\ S \cap History = {}
  <2> HIDE DEF S, E, K
  <2> QED
    BY <1>1, <1>10, <1>11 DEF Partial
<1>13. ASSUME NEW y \in S PROVE m.up[y] \subseteq S
  <2>1. CASE y \in K
    BY <1>1, <2>1
  <2>2. ASSUME NEW r \in R, r.node # Root, y \in m.up[m.parent[r.node]]
        PROVE  m.up[y] \subseteq S
    <3>1. m.up[y] \subseteq m.up[m.parent[r.node]]
      BY <1>9, <2>2, AncestorsOfAncestors
    <3> QED
      BY <1>6, <2>2, <3>1
  <2>3. ASSUME NEW r \in Expanded(R), y \in DescentFrom(r.node), NEW a \in m.up[y]
        PROVE  a \in S
    <3>1. /\ r.node \in Nodes \ History /\ Descent(r.node) = DescentFrom(r.node)
          /\ r \in R
      BY <1>7 DEF Expanded
    <3>2. /\ y \in Nodes /\ r.node \in m.up[y] /\ r.node \in DescentFrom(r.node)
          /\ r.node \in m.up[a] => a \in DescentFrom(r.node)
      BY <2>3, <3>1, Descending
    <3>3. DescentFrom(r.node) \subseteq S
      <4> HIDE DEF R, K
      <4> QED
        BY <2>3, <3>1 DEF Targeted
    <3>4. CASE r.node \in m.up[a]
      BY <3>2, <3>3, <3>4
    <3>5. CASE a \in m.up[r.node]
      <4>1. CASE a = r.node
        BY <3>2, <3>3, <4>1
      <4>2. CASE a # r.node
        <5>1. r.node # Root
          BY <3>5, <4>2, NodesAreNumbers
        <5>2. a \in m.up[m.parent[r.node]]
          BY <1>9, <3>1, <3>5, <4>2, <5>1
        <5> QED
          BY <1>6, <3>1, <5>1, <5>2
      <4> QED
        BY <4>1, <4>2
    <3> QED
      BY <3>2, <3>4, <3>5, Comparable
  <2> HIDE DEF S
  <2> QED
    BY <1>8, <2>1, <2>2, <2>3
<1>14. ASSUME NEW i \in I, NEW y \in E(i), y \notin K
       PROVE  D(i) \in m.up[y] /\ y \in Nodes
  <2>1. PICK g \in AllGoals(sel[i], hh) : y \in m.up[g] \/ y \in DescentFrom(g)
    BY <1>14 DEF Entry
  <2>2. PICK x \in Targets(sel[i]) : g \in Goals(x, hh)
    BY <2>1 DEF AllGoals
  <2>3. g \in Nodes \ History /\ D(i) \in m.up[g]
    BY <2>2, DomainAboveGoals
  <2>4. CASE y \in m.up[g]
    <3>1. D(i) \in m.up[y] \/ y \in m.up[D(i)]
      BY <2>3, <2>4, Comparable
    <3>2. y \notin m.up[D(i)]
      BY <1>1, <1>14
    <3> QED
      BY <2>3, <2>4, <3>1, <3>2, Ancestors
  <2>5. CASE y \in DescentFrom(g)
    <3>1. g \in m.up[y] /\ y \in Nodes
      BY <2>3, <2>5, Descending
    <3> QED
      BY <2>3, <3>1, AncestorsOfAncestors
  <2> QED
    BY <2>1, <2>4, <2>5
<1> HIDE DEF S, E, K
<1>15. ASSUME NEW z \in Nodes, NEW y \in Children(z), NEW i \in I, y \in E(i), y \notin K
       PROVE  D(i) \in m.up[z]
  <2>1. D(i) \in m.up[y] /\ D(i) \in K
    BY <1>1, <1>14, <1>15
  <2>2. D(i) # y
    BY <1>15, <2>1
  <2> QED
    BY <2>1, <2>2, Parents
<1>16. ASSUME NEW z \in Nodes, NEW u \in Children(z) \cap K,
              NEW v \in Children(z), NEW i \in I, v \in E(i), v \notin K
       PROVE  FALSE
  <2>1. D(i) \in m.up[z]
    BY <1>15, <1>16
  <2>2. D(i) \in m.up[u] /\ u # D(i)
    BY <2>1, Parents
  <2> QED
    BY <1>1, <2>2
<1>17. ASSUME NEW z \in Nodes, NEW u \in Children(z), NEW i \in I, u \in E(i), u \notin K,
              NEW v \in Children(z), NEW j \in I, v \in E(j), v \notin K
       PROVE  i = j
  <2> SUFFICES ASSUME i # j PROVE FALSE
    OBVIOUS
  <2>1. D(i) \in m.up[z] /\ D(j) \in m.up[z] /\ D(i) \in K /\ D(j) \in K
    BY <1>1, <1>15, <1>17
  <2>2. D(i) = D(j)
    <3>1. D(i) \in m.up[D(j)] \/ D(j) \in m.up[D(i)]
      BY <2>1, Comparable
    <3> QED
      BY <1>1, <2>1, <3>1
  <2>3. Children(D(i)) \ History # {}
    <3>1. u \in Nodes \ History /\ D(i) \in m.up[u] /\ D(i) # u
      BY <1>11, <1>14, <1>17, <2>1
    <3>2. PICK c \in Children(D(i)) : c \in m.up[u]
      BY <3>1, PathToNode
    <3>3. c \notin History
      <4>1. c = u => c \notin History
        BY <3>1
      <4>2. c # u => m.type[c] \in {"compound", "parallel"}
        BY <3>1, <3>2, PathToNode
      <4> QED
        BY <4>1, <4>2 DEF History
    <3> QED
      BY <3>2, <3>3
  <2>4. ASSUME NEW k \in I
        PROVE  /\ ExitSetOf(sel[k]) = {n \in cfg \ {D(k)} : D(k) \in m.up[n]}
               /\ Children(D(k)) \ History # {} => ExitSetOf(sel[k]) # {}
    BY Domains DEF Sound
  <2>5. ExitSetOf(sel[i]) = ExitSetOf(sel[j]) /\ ExitSetOf(sel[i]) # {}
    BY <2>2, <2>3, <2>4
  <2> QED
    BY <2>5 DEF Sound, Conflict
<1>18. Single(S)
  <2>1. ASSUME NEW z \in Nodes, m.type[z] = "compound",
               NEW u \in Children(z) \cap S, NEW v \in Children(z) \cap S
        PROVE  u = v
    <3>1. CASE u \in K /\ v \in K
      BY <1>1, <2>1, <3>1 DEF Partial, Single
    <3>2. CASE u \in K /\ v \notin K
      BY <1>10, <1>16, <2>1, <3>2
    <3>3. CASE u \notin K /\ v \in K
      BY <1>10, <1>16, <2>1, <3>3
    <3>4. CASE u \notin K /\ v \notin K
      <4>1. PICK i \in I : u \in E(i)
        BY <1>10, <2>1, <3>4
      <4>2. PICK j \in I : v \in E(j)
        BY <1>10, <2>1, <3>4
      <4>3. i = j
        BY <1>17, <2>1, <3>4, <4>1, <4>2
      <4> QED
        BY <1>11, <2>1, <4>1, <4>2, <4>3 DEF Single
    <3> QED
      BY <3>1, <3>2, <3>3, <3>4
  <2> QED
    BY <2>1 DEF Single
<1>19. Root \in S
  BY <1>1 DEF Partial, S
<1> QED
  BY <1>12, <1>13, <1>18, <1>19 DEF Partial, Closed, S, K

-----------------------------------------------------------------------------
(* History *)

\* Every active state is an atomic one or has one below it.
LEMMA LeafBelow ==
    ASSUME Chart, Closed(cfg), NEW x \in cfg
    PROVE  \E a \in Atomic : x \in m.up[a]
<1> DEFINE T == {y \in cfg : x \in m.up[y]}
<1>1. T \in SUBSET Nodes /\ x \in T
  BY Ancestors DEF Closed
<1>2. Max(T) \in T /\ \A y \in T : y <= Max(T)
  <2> HIDE DEF T
  <2> QED
    BY <1>1, GreatestNode
<1>3. PICK a \in T : \A y \in T : y <= a
  BY <1>2
<1>4. ASSUME NEW c \in Children(a) \cap cfg PROVE FALSE
  <2>1. a \in Nodes /\ x \in m.up[a]
    BY <1>1, <1>3
  <2>2. a < c /\ m.up[c] = m.up[a] \cup {c} /\ c \in Nodes
    BY <2>1, Parents
  <2>3. c \in T
    BY <1>4, <2>1, <2>2
  <2>4. c <= a /\ a \in Nat /\ c \in Nat
    BY <1>3, <2>1, <2>2, <2>3, NodesAreNumbers
  <2> QED
    BY <2>2, <2>4
<1> QED
  BY <1>3, <1>4 DEF Atomic

\* Of a part of a configuration and its ancestors, the states below p have all
\* the children they need.
Whole(p, G) ==
    LET U == UNION {m.up[g] : g \in G} IN
    \A n \in U : p \in m.up[n] =>
        /\ m.type[n] = "compound" => Children(n) \cap U # {}
        /\ m.type[n] = "parallel" => Children(n) \ History \subseteq U

\* What a history state holds.
Remembered(h, G) ==
    /\ Recordable(h, G)
    /\ m.type[h] = "deep" => Whole(m.parent[h], G)
    /\ m.type[h] # "deep" => G \subseteq Children(m.parent[h])

\* All history states do.
Memory(hh) == \A h \in History : Remembered(h, hh[h])

\* It holds nothing or a part of a configuration that can be entered again.
LEMMA RecordIsRemembered ==
    ASSUME Chart, Orderly(m), Legal(cfg), NEW h \in History, m.parent[h] \in cfg
    PROVE  Remembered(h, Record(h))
<1> DEFINE p == m.parent[h]
           G == Record(h)
<1>1. /\ cfg \subseteq Nodes /\ \A x \in cfg : m.up[x] \subseteq cfg
      /\ Closed(cfg) /\ cfg \cap History = {} /\ Single(cfg) /\ Full(cfg)
  BY DEF Legal, Partial, Closed
<1>2. p \in Nodes /\ m.type[p] = "compound"
  BY <1>1 DEF Orderly, History, Nodes
<1>3. G \subseteq cfg /\ \A g \in G : p \in m.up[g] /\ g # p
  <2>1. ASSUME NEW g \in Children(p) \cap cfg PROVE g \in cfg /\ p \in m.up[g] /\ g # p
    BY <1>2, Parents
  <2>2. CASE m.type[h] = "shallow"
    BY <2>1, <2>2 DEF Record
  <2>3. CASE m.type[h] # "shallow"
    BY <2>3 DEF Record, Atomic, Below
  <2> QED
    BY <2>2, <2>3
<1>4. ASSUME NEW g \in G, NEW f \in G, g \in m.up[f] PROVE g = f
  <2>1. CASE m.type[h] = "shallow"
    <3>1. g \in Children(p) \cap cfg /\ f \in Children(p) \cap cfg
      BY <2>1 DEF Record
    <3> QED
      BY <1>1, <1>2, <3>1 DEF Single
  <2>2. CASE m.type[h] # "shallow"
    <3> SUFFICES ASSUME g # f PROVE FALSE
      OBVIOUS
    <3>1. g \in Atomic /\ f \in cfg /\ f \in Nodes
      BY <1>1, <1>3, <2>2 DEF Record
    <3>2. PICK c \in Children(g) : c \in m.up[f]
      BY <1>4, <3>1, PathToNode
    <3>3. c \in Children(g) \cap cfg
      BY <1>1, <3>1, <3>2
    <3> QED
      BY <3>1, <3>3 DEF Atomic
  <2> QED
    BY <2>1, <2>2
<1>5. UNION {m.up[g] : g \in G} \subseteq cfg
  BY <1>1, <1>3
<1>6. Recordable(h, G)
  <2>1. Single(UNION {m.up[g] : g \in G})
    <3> HIDE DEF G
    <3> QED
      BY <1>1, <1>5 DEF Single
  <2>2. Together(G)
    BY <1>4, <2>1 DEF Together
  <2> HIDE DEF G
  <2> QED
    BY <1>1, <1>3, <2>2 DEF Recordable
<1>7. ASSUME m.type[h] = "deep" PROVE Whole(p, G)
  <2> DEFINE U == UNION {m.up[g] : g \in G}
  <2>1. ASSUME NEW n \in U, p \in m.up[n], NEW c \in Children(n) \cap cfg PROVE c \in U
    <3>1. PICK a \in Atomic : c \in m.up[a]
      BY <1>1, LeafBelow
    <3>2. n \in Nodes /\ a \in Nodes
      BY <1>1, <1>5, <3>1 DEF Atomic
    <3>3. n \in m.up[c] /\ c \notin m.up[n] /\ c \in Nodes
      BY <3>2, Parents
    <3>4. p \in m.up[c]
      BY <2>1, <3>3, AncestorsOfAncestors
    <3>5. p \in m.up[a] /\ a # p
      <4>1. p \in m.up[a]
        BY <3>1, <3>2, <3>4, AncestorsOfAncestors
      <4>2. a # p
        <5> SUFFICES ASSUME a = p PROVE FALSE
          OBVIOUS
        <5>1. c = p
          BY <1>2, <3>1, <3>4, Antisymmetric
        <5> QED
          BY <2>1, <3>3, <5>1
      <4> QED
        BY <4>1, <4>2
    <3>6. a \in G
      BY <1>7, <3>1, <3>5 DEF Record, Below
    <3> QED
      BY <3>1, <3>6
  <2>2. ASSUME NEW n \in U, p \in m.up[n]
        PROVE  /\ m.type[n] = "compound" => Children(n) \cap U # {}
               /\ m.type[n] = "parallel" => Children(n) \ History \subseteq U
    <3>1. n \in cfg
      BY <1>5
    <3>2. m.type[n] = "compound" => \E c \in Children(n) \cap cfg : c \in U
      BY <1>1, <2>1, <2>2, <3>1 DEF Full
    <3>3. m.type[n] = "parallel" => \A c \in Children(n) \ History : c \in U
      BY <1>1, <2>1, <2>2, <3>1 DEF Full
    <3> HIDE DEF U
    <3> QED
      BY <3>2, <3>3
  <2> HIDE DEF G
  <2> QED
    BY <2>2 DEF Whole
<1>8. m.type[h] # "deep" => G \subseteq Children(p)
  BY DEF Record, History
<1> QED
  BY <1>6, <1>7, <1>8 DEF Remembered

\* A microstep leaves the memory as it should be.
LEMMA RecordedIsRemembered ==
    ASSUME Chart, Orderly(m), Legal(cfg), Memory(hist), NEW sel
    PROVE  Memory(Recorded(sel))
<1>1. ASSUME NEW x \in Exited(sel) PROVE x \in cfg
  BY DEF Exited, ExitSetOf
<1>2. ASSUME NEW h \in History PROVE Remembered(h, Recorded(sel)[h])
  <2>1. CASE m.parent[h] \in Exited(sel)
    <3>1. Recorded(sel)[h] = Record(h)
      BY <2>1 DEF Recorded
    <3> QED
      BY <1>1, <2>1, <3>1, RecordIsRemembered
  <2>2. CASE m.parent[h] \notin Exited(sel)
    <3>1. Recorded(sel)[h] = hist[h]
      BY <2>2 DEF Recorded
    <3> QED
      BY <3>1 DEF Memory
  <2> QED
    BY <2>1, <2>2
<1> QED
  BY <1>2 DEF Memory

-----------------------------------------------------------------------------
(* Steps *)

\* A microstep leaves the snapshot active or done.
LEMMA MicrostepStatus ==
    ASSUME NEW sel, NEW rest, Microstep(sel, rest)
    PROVE  status' \in {"active", "done"}
BY DEF Microstep

\* What a microstep changes.
LEMMA MicrostepEffects ==
    ASSUME NEW sel, NEW rest, Microstep(sel, rest)
    PROVE  LET rs == Requests(sel, Recorded(sel))
               before == Kept(sel) \cup Targeted(rs)
               next == Completion(before)
               entered == next \ Kept(sel)
               done == DoneEvents(entered, next)
           IN  /\ cfg' = next
               /\ hist' = Recorded(sel)
               /\ q' = rest \o ExitRaises(Exited(sel)) \o TransitionRaises(sel)
                         \o EntryRaises(entered, ViaInitial(rs, before)) \o done
               /\ last' = [taken |-> sel, exited |-> Exited(sel), entered |-> entered,
                           done |-> done]
               /\ status' = IF ReachesEnd(entered, next) THEN "done" ELSE "active"
               /\ armed' = Armed(Exited(sel), entered)
               /\ children' = Spawned(children, Exited(sel), entered)
               /\ ctx' \in IF Writes(sel) THEN BOOLEAN ELSE {ctx}
<1> DEFINE Takes(gone, recorded, rs, before, next, entered, done) ==
              /\ cfg' = next
              /\ hist' = recorded
              /\ q' = rest \o ExitRaises(gone) \o TransitionRaises(sel)
                        \o EntryRaises(entered, ViaInitial(rs, before)) \o done
              /\ last' = [taken |-> sel, exited |-> gone, entered |-> entered, done |-> done]
              /\ status' = IF ReachesEnd(entered, next) THEN "done" ELSE "active"
              /\ armed' = Armed(gone, entered)
              /\ children' = Spawned(children, gone, entered)
              /\ ctx' \in IF Writes(sel) THEN BOOLEAN ELSE {ctx}
           rs == Requests(sel, Recorded(sel))
           before == Kept(sel) \cup Targeted(rs)
           next == Completion(before)
           entered == next \ Kept(sel)
           done == DoneEvents(entered, next)
<1>1. \E gone \in {Exited(sel)}, recorded \in {Recorded(sel)} :
      \E requests \in {Requests(sel, recorded)} :
      \E joined \in {(cfg \ gone) \cup Targeted(requests)} :
      \E completed \in {Completion(joined)} :
      \E new \in {completed \ (cfg \ gone)} :
      \E events \in {DoneEvents(new, completed)} :
         Takes(gone, recorded, requests, joined, completed, new, events)
  BY DEF Microstep
<1> HIDE DEF Takes
<1>2. Takes(Exited(sel), Recorded(sel), rs, before, next, entered, done)
  BY <1>1 DEF Kept
<1> QED
  BY <1>2 DEF Takes

\* What a microstep does to the configuration, the history and the children.
LEMMA MicrostepShape ==
    ASSUME NEW sel, NEW rest, Microstep(sel, rest)
    PROVE  LET next == Completion(Kept(sel) \cup Targeted(Requests(sel, Recorded(sel))))
               entered == next \ Kept(sel)
           IN  /\ cfg' = next
               /\ hist' = Recorded(sel)
               /\ last'.taken = sel
               /\ children' = Spawned(children, Exited(sel), entered)
<1> DEFINE next    == Completion(Kept(sel) \cup Targeted(Requests(sel, Recorded(sel))))
           entered == next \ Kept(sel)
           done    == DoneEvents(entered, next)
<1>1. /\ cfg' = next
      /\ hist' = Recorded(sel)
      /\ last' = [taken |-> sel, exited |-> Exited(sel), entered |-> entered, done |-> done]
      /\ children' = Spawned(children, Exited(sel), entered)
  BY MicrostepEffects
<1>2. last'.taken = sel
  <2> HIDE DEF next, entered, done
  <2> QED
    BY <1>1
<1> QED
  BY <1>1, <1>2

\* The same machine sees the same things.
LEMMA SameMachine ==
    ASSUME m' = m
    PROVE  /\ Nodes' = Nodes /\ History' = History /\ Chart' = Chart
           /\ Legal(cfg)' = Legal(cfg') /\ Memory(hist)' = Memory(hist')
BY DEF Nodes, History, Chart, Legal, Partial, Closed, Single, Full, Children, Memory,
       Remembered, Recordable, Together, Whole

\* A microstep leads from a legal configuration to a legal one.
LEMMA MicrostepIsLegal ==
    ASSUME Chart, Orderly(m), Legal(cfg), Memory(hist), m' = m,
           NEW e, NEW rest, Microstep(Selected(e), rest)
    PROVE  /\ Sound(Selected(e))
           /\ Legal(cfg)' /\ Memory(hist)'
           /\ Kept(Selected(e)) \cup Targeted(Requests(Selected(e), Recorded(Selected(e))))
                \subseteq cfg'
<1> DEFINE sel == Selected(e)
           S == Kept(sel) \cup Targeted(Requests(sel, Recorded(sel)))
<1>1. Sound(sel)
  BY SelectedAreApart DEF Sound, Legal, Partial, Closed
<1>2. cfg' = Completion(S) /\ hist' = Recorded(sel)
  BY MicrostepShape
<1> HIDE DEF sel
<1>3. Memory(Recorded(sel))
  BY RecordedIsRemembered
<1>4. Partial(S)
  <2>1. \A h \in History : Recordable(h, Recorded(sel)[h])
    BY <1>3 DEF Memory, Remembered
  <2> QED
    BY <1>1, <2>1, EnteredIsPartial
<1>5. Legal(Completion(S)) /\ S \subseteq Completion(S)
  <2> HIDE DEF S
  <2> QED
    BY <1>4, CompletionIsLegal
<1>6. Legal(cfg') /\ Memory(hist')
  BY <1>2, <1>3, <1>5
<1> QED
  BY <1>1, <1>2, <1>5, <1>6, SameMachine DEF sel

\* In a machine that runs the configuration is legal, and the history states
\* hold what can be entered again.
LegalInv ==
    /\ m \in Range(Charts)
    /\ status = "none" => cfg = {}
    /\ status \in {"none", "active", "done"} => Memory(hist)
    /\ status \in {"active", "done"} => Legal(cfg)

\* Of the machines it is assumed that they are orderly.
OrderlyCharts == \A i \in DOMAIN Charts : Orderly(Charts[i])

\* The machine that runs is one of them.
LEMMA MachinesAreCharts ==
    ASSUME m \in Range(Charts), OrderlyCharts
    PROVE  Chart /\ Orderly(m)
BY ChartsAssumption DEF Range, OrderlyCharts, Chart

\* What a step does to the configuration, its history and the latest microstep.
ConfigStep ==
    \/ UNCHANGED <<m, cfg, hist, last>> /\ status' \in {status, "error", "stopped"}
    \/ UNCHANGED m /\ last' = NoStep /\ (status' = "error" \/ UNCHANGED <<cfg, hist, status>>)
    \/ UNCHANGED <<m, hist>> /\ status = "none" /\ cfg' = Descent(Root)
       /\ status' \in {"active", "done"} /\ last'.taken = <<>>
    \/ /\ UNCHANGED m /\ status = "active" /\ status' \in {"active", "done"}
       /\ \E e, rest : Microstep(Selected(e), rest)

\* Every step does one of these: none of the other actions touches them.
LEMMA StepsOfTheConfiguration ==
    ASSUME [Next]_vars
    PROVE  ConfigStep
<1>1. ASSUME NEW e, Handle(e), UNCHANGED m, status = "active" PROVE ConfigStep
  <2>1. CASE Selected(e) = <<>>
    BY <1>1, <2>1 DEF Handle, Answer, ConfigStep, control
  <2>2. CASE Selected(e) # <<>>
    <3>1. Microstep(Selected(e), <<>>)
      BY <1>1, <2>2 DEF Handle, Answer
    <3> QED
      BY <1>1, <3>1, MicrostepStatus DEF ConfigStep
  <2> QED
    BY <2>1, <2>2
<1>2. CASE Start
  <2>1. UNCHANGED <<m, hist>> /\ status = "none" /\ cfg' = Descent(Root)
        /\ status' \in {"active", "done"} /\ last'.taken = <<>>
    BY <1>2 DEF Start
  <2> QED
    BY <2>1 DEF ConfigStep
<1>3. CASE Receive
  BY <1>1, <1>3 DEF Receive
<1>4. CASE ReceiveAfter
  <2>1. CASE status = "active"
    BY <1>1, <1>4, <2>1 DEF ReceiveAfter
  <2>2. CASE status # "active"
    BY <1>4, <2>2 DEF ReceiveAfter, ConfigStep, control
  <2> QED
    BY <2>1, <2>2
<1>5. CASE EventlessStep
  <2>1. Microstep(Selected(Eventless), q) /\ status = "active" /\ UNCHANGED m
    BY <1>5 DEF EventlessStep, Settling
  <2> QED
    BY <2>1, MicrostepStatus DEF ConfigStep
<1>6. CASE RaisedStep
  <2>1. /\ status = "active" /\ UNCHANGED m
        /\ \/ UNCHANGED <<cfg, hist, status>> /\ last' = NoStep
           \/ Microstep(Selected(Head(q)), Tail(q))
    BY <1>6 DEF RaisedStep, Settling
  <2> QED
    BY <2>1, MicrostepStatus DEF ConfigStep
<1>7. CASE Settle \/ Finish
  BY <1>7 DEF Settle, Finish, Rest, ConfigStep
<1>8. CASE Fire \/ Stop \/ UNCHANGED vars
  BY <1>8 DEF Fire, Stop, vars, control, ConfigStep
<1>9. CASE UserCodeThrows \/ TooManySteps
  BY <1>9 DEF UserCodeThrows, TooManySteps, Throw, Rest, control, ConfigStep
<1> QED
  BY <1>2, <1>3, <1>4, <1>5, <1>6, <1>7, <1>8, <1>9 DEF Next

\* Every step keeps the configuration legal.
LEMMA LegalStep ==
    ASSUME OrderlyCharts, LegalInv, ConfigStep
    PROVE  LegalInv'
<1>2. Chart /\ Orderly(m)
  BY MachinesAreCharts DEF LegalInv
<1>3. m' = m /\ m' \in Range(Charts)'
  BY DEF ConfigStep, LegalInv
<1>4. CASE UNCHANGED <<m, cfg, hist, status>>
  BY <1>3, <1>4, SameMachine DEF LegalInv
<1>5. CASE status' \in {"error", "stopped"}
  BY <1>3, <1>5 DEF LegalInv
<1>6. CASE UNCHANGED <<m, hist>> /\ status = "none" /\ cfg' = Descent(Root)
           /\ status' \in {"active", "done"}
  <2>1. Legal(cfg') /\ Memory(hist')
    BY <1>2, <1>6, InitialIsLegal DEF LegalInv
  <2> QED
    BY <1>3, <1>6, <2>1, SameMachine DEF LegalInv
<1>7. CASE /\ UNCHANGED m /\ status = "active" /\ status' \in {"active", "done"}
           /\ \E e, rest : Microstep(Selected(e), rest)
  <2>1. Legal(cfg)' /\ Memory(hist)'
    BY <1>2, <1>7, MicrostepIsLegal DEF LegalInv
  <2> QED
    BY <1>3, <1>7, <2>1 DEF LegalInv
<1> QED
  BY <1>4, <1>5, <1>6, <1>7 DEF ConfigStep

\* A machine that has not started is in no configuration.
LEMMA LegalInit ==
    ASSUME Init
    PROVE  LegalInv
<1>1. \A h \in History : hist[h] = {}
  BY DEF Init
<1>2. ASSUME NEW h \in History PROVE Remembered(h, {})
  BY DEF Remembered, Recordable, Together, Single, Whole
<1>3. Memory(hist)
  BY <1>1, <1>2 DEF Memory
<1> QED
  BY <1>3 DEF Init, LegalInv

\* The configuration is legal in every state.
LEMMA LegalAlways ==
    ASSUME OrderlyCharts
    PROVE  Spec => []LegalInv
BY LegalInit, LegalStep, StepsOfTheConfiguration, PTL DEF Spec

-----------------------------------------------------------------------------
(* What history states restore *)

\* A configuration with the states a history state holds has no others below
\* its parent.
LEMMA Restoring ==
    ASSUME Chart, Orderly(m), NEW C, Legal(C), NEW h \in History,
           NEW G \in SUBSET C, G # {}, Remembered(h, G)
    PROVE  /\ m.type[h] = "shallow" => Children(m.parent[h]) \cap C = G
           /\ m.type[h] = "deep" =>
                 {a \in C : Children(a) \cap C = {} /\ m.parent[h] \in m.up[a]} = G
<1> DEFINE p == m.parent[h]
           U == UNION {m.up[g] : g \in G}
<1>1. /\ C \subseteq Nodes /\ \A x \in C : m.up[x] \subseteq C
      /\ C \cap History = {} /\ Single(C) /\ Full(C)
  BY DEF Legal, Partial, Closed
<1>2. m.type[p] = "compound"
  BY DEF Orderly, History, Nodes
<1>3. /\ \A g \in G : g \in Nodes \ History /\ p \in m.up[g] /\ g # p
      /\ \A g, f \in G : g \in m.up[f] => g = f
  BY DEF Remembered, Recordable, Together
<1>4. p \in Nodes /\ p \in U
  <2>1. PICK g \in G : TRUE
    OBVIOUS
  <2> QED
    BY <1>3, <2>1, Ancestors
<1>5. CASE m.type[h] = "shallow"
  <2>1. G \subseteq Children(p)
    BY <1>5 DEF Remembered
  <2>2. PICK g \in G : g \in Children(p) \cap C
    BY <2>1
  <2>3. \A c \in Children(p) \cap C : c = g
    BY <1>1, <1>2, <1>4, <2>2 DEF Single
  <2> QED
    BY <1>5, <2>1, <2>2, <2>3
<1>6. CASE m.type[h] = "deep"
  <2>1. \A n \in U : p \in m.up[n] =>
          /\ m.type[n] = "compound" => Children(n) \cap U # {}
          /\ m.type[n] = "parallel" => Children(n) \ History \subseteq U
    BY <1>6 DEF Remembered, Whole
  <2>2. U \subseteq C
    BY <1>1
  <2>3. \A u \in U : \E g \in G : u \in m.up[g]
    OBVIOUS
  <2>4. \A g \in G : m.up[g] \subseteq U
    OBVIOUS
  <2> HIDE DEF U
  <2>5. ASSUME NEW g \in G PROVE Children(g) \cap C = {}
    <3> SUFFICES ASSUME NEW c \in Children(g) \cap C PROVE FALSE
      OBVIOUS
    <3>1. g \in Nodes \ History /\ p \in m.up[g] /\ g \in U
      BY <1>3, <2>4, Ancestors
    <3>2. m.type[g] \in {"compound", "parallel"}
      BY <3>1, Parents
    <3>3. PICK d \in Children(g) : d \in U
      <4>1. CASE m.type[g] = "compound"
        BY <2>1, <3>1, <4>1
      <4>2. CASE m.type[g] = "parallel"
        BY <1>1, <2>1, <3>1, <4>2
      <4> QED
        BY <3>2, <4>1, <4>2
    <3>4. PICK f \in G : d \in m.up[f]
      BY <2>3, <3>3
    <3>5. f \in Nodes /\ g \in m.up[d] /\ d \notin m.up[g]
      BY <1>3, <3>1, <3>3, Parents
    <3>6. g \in m.up[f]
      BY <3>4, <3>5, AncestorsOfAncestors
    <3> QED
      BY <1>3, <3>4, <3>5, <3>6
  <2>6. ASSUME NEW x \in C, p \in m.up[x] PROVE x \in U
    <3> DEFINE Bad == {y \in C : p \in m.up[y] /\ y \notin U}
    <3>1. Bad = {}
      <4> SUFFICES ASSUME Bad # {} PROVE FALSE
        OBVIOUS
      <4>1. PICK y \in Bad : \A z \in Bad : y <= z
        <5>1. Bad \in SUBSET Nat
          BY <1>1, NodesAreNumbers
        <5> HIDE DEF Bad
        <5> QED
          BY <5>1, Least
      <4>2. y \in C /\ y \in Nodes /\ p \in m.up[y] /\ y # p
        BY <1>1, <1>4
      <4>3. y # Root
        BY <1>4, <4>2, NodesAreNumbers
      <4> DEFINE z == m.parent[y]
      <4>4. /\ z \in Nodes /\ ~(y <= z) /\ p \in m.up[z] /\ z \in m.up[y]
            /\ y \in Children(z) /\ m.type[z] \in {"compound", "parallel"}
        <5>1. /\ z \in Nodes /\ z < y /\ m.up[y] = m.up[z] \cup {y} /\ y \in Nat /\ z \in Nat
              /\ m.type[z] \in {"compound", "parallel"}
          BY <4>2, <4>3, NodesAreNumbers
        <5> QED
          BY <4>2, <5>1, Ancestors DEF Children
      <4>5. z \in C
        BY <1>1, <4>2, <4>4
      <4>6. z \in U
        BY <4>1, <4>4, <4>5
      <4>7. CASE m.type[z] = "compound"
        <5>1. PICK d \in Children(z) : d \in U
          BY <2>1, <4>4, <4>6, <4>7
        <5>2. d = y
          BY <1>1, <2>2, <4>2, <4>4, <4>7, <5>1 DEF Single
        <5> QED
          BY <5>1, <5>2
      <4>8. CASE m.type[z] = "parallel"
        BY <1>1, <2>1, <4>2, <4>4, <4>6, <4>8
      <4> QED
        BY <4>4, <4>7, <4>8
    <3> QED
      BY <2>6, <3>1
  <2>7. ASSUME NEW a \in C, Children(a) \cap C = {}, p \in m.up[a] PROVE a \in G
    <3>1. PICK g \in G : a \in m.up[g]
      BY <2>3, <2>6, <2>7
    <3>2. CASE a = g
      BY <3>2
    <3>3. CASE a # g
      <4>1. PICK c \in Children(a) : c \in m.up[g]
        BY <1>3, <3>1, <3>3, PathToNode
      <4> QED
        BY <1>1, <2>7, <4>1
    <3> QED
      BY <3>2, <3>3
  <2>8. \A g \in G : g \in C /\ p \in m.up[g]
    BY <1>3
  <2> QED
    BY <1>6, <2>5, <2>7, <2>8
<1> QED
  BY <1>5, <1>6 DEF History

\* What a target leads to is entered.
LEMMA GoalsAreEntered ==
    ASSUME NEW sel, NEW hh, NEW i \in DOMAIN sel, NEW x \in Targets(sel[i]),
           NEW g \in Goals(x, hh), g \in Nodes \ History, Chart
    PROVE  g \in Targeted(Requests(sel, hh))
<1>1. PICK j \in DOMAIN m.trans[sel[i]].targets : x = m.trans[sel[i]].targets[j]
  BY DEF Targets, Range
<1> DEFINE R == Requests(sel, hh)
           D == TransitionDomain(sel[i])
           r == [at |-> <<i, j>>, node |-> g,
                 stop |-> IF x \in History /\ hh[x] # {} THEN m.parent[x] ELSE D]
<1>2. r \in RequestsFor(<<i, j>>, m.trans[sel[i]].targets[j], D, hh)
  BY <1>1 DEF RequestsFor
<1>3. r \in R
  BY <1>2 DEF Requests
<1>4. r.node = g
  OBVIOUS
<1> HIDE DEF r, R
<1>5. CASE r \in Expanded(R)
  <2>1. Descent(g) = DescentFrom(g) /\ g \in DescentFrom(g)
    BY Descending, NodesAreNumbers DEF Descent, Resolved
  <2>2. Descent(r.node) \subseteq Targeted(R)
    BY <1>5 DEF Targeted
  <2> QED
    BY <1>4, <2>1, <2>2 DEF R
<1>6. CASE r \notin Expanded(R)
  <2>1. PICK s \in R : r.node \in Chain(s.stop, m.parent[s.node])
    BY <1>3, <1>4, <1>6 DEF Expanded
  <2>2. Chain(s.stop, m.parent[s.node]) \subseteq Targeted(R)
    BY <2>1 DEF Targeted
  <2> QED
    BY <1>4, <2>1, <2>2 DEF R
<1> QED
  BY <1>5, <1>6

\* The states that a transition to a history state brings back are those its
\* record names.
RecordRestored ==
    \A t \in Range(last.taken) : \A h \in Range(m.trans[t].targets) \cap History :
        hist[h] # {} =>
            CASE m.type[h] = "shallow" -> Children(m.parent[h]) \cap cfg = hist[h]
              [] m.type[h] = "deep" ->
                    {a \in Atomic : Below(a, m.parent[h])} = hist[h]

\* A microstep to a history state leads back to what it holds: the state is
\* requested, what it holds is entered, and nothing else is below its parent.
LEMMA MicrostepRestores ==
    ASSUME Chart, Orderly(m), Legal(cfg), Memory(hist), m' = m,
           NEW e, NEW rest, Microstep(Selected(e), rest)
    PROVE  RecordRestored'
<1> DEFINE sel == Selected(e)
           hh == Recorded(sel)
<1>1. /\ hist' = hh /\ last'.taken = sel
  BY MicrostepShape
<1>2. PICK C : C = cfg'
  OBVIOUS
<1>3. Legal(C) /\ Memory(hh) /\ Targeted(Requests(sel, hh)) \subseteq C
  BY <1>1, <1>2, MicrostepIsLegal, SameMachine
<1> HIDE DEF sel, hh
<1>4. ASSUME NEW t \in Range(sel), NEW h \in Targets(t) \cap History, hh[h] # {}
      PROVE  /\ m.type[h] = "shallow" => Children(m.parent[h]) \cap C = hh[h]
             /\ m.type[h] = "deep" =>
                   {a \in C : Children(a) \cap C = {} /\ m.parent[h] \in m.up[a]} = hh[h]
  <2>1. PICK i \in DOMAIN sel : t = sel[i]
    BY DEF Range
  <2>2. Remembered(h, hh[h]) /\ hh[h] \subseteq Nodes \ History
    BY <1>3 DEF Memory, Remembered, Recordable
  <2>3. Goals(h, hh) = hh[h]
    BY <1>4 DEF Goals
  <2>4. ASSUME NEW g \in hh[h] PROVE g \in C
    <3>1. h \in Targets(sel[i])
      BY <2>1
    <3> QED
      BY <1>3, <2>2, <2>3, <3>1, GoalsAreEntered
  <2>5. hh[h] \in SUBSET C
    BY <2>4
  <2> QED
    BY <1>3, <1>4, <2>2, <2>5, Restoring
<1>5. ASSUME NEW a \in cfg' PROVE Children(a)' = Children(a)
  BY DEF Children, Nodes
<1>6. Atomic' = {a \in C : Children(a) \cap C = {}}
  BY <1>2, <1>5 DEF Atomic
<1>7. \A h : Children(m.parent[h])' = Children(m.parent[h])
  BY DEF Children, Nodes
<1>8. \A a, b : Below(a, b)' = (b \in m.up[a])
  BY DEF Below
<1>9. History' = History
  BY SameMachine
<1>10. \A h \in History : m.type[h] = "shallow" \/ m.type[h] = "deep"
  BY DEF History
<1>11. \A h : {a \in Atomic' : Below(a, m.parent[h])'} =
              {a \in C : Children(a) \cap C = {} /\ m.parent[h] \in m.up[a]}
  BY <1>6, <1>8
<1>12. ASSUME NEW t \in Range(sel), NEW h \in Targets(t) \cap History, hh[h] # {}
       PROVE  CASE m.type[h] = "shallow" -> Children(m.parent[h])' \cap cfg' = hist'[h]
                [] m.type[h] = "deep" ->
                      {a \in Atomic' : Below(a, m.parent[h])'} = hist'[h]
  <2>1. CASE m.type[h] = "shallow"
    BY <1>1, <1>2, <1>4, <1>7, <1>12, <2>1
  <2>2. CASE m.type[h] = "deep"
    BY <1>1, <1>4, <1>11, <1>12, <2>2
  <2> QED
    BY <1>10, <2>1, <2>2
<1>13. \A t \in Range(last'.taken) : \A h \in Range(m'.trans[t].targets) \cap History' :
          hist'[h] # {} =>
             CASE m'.type[h] = "shallow" -> Children(m.parent[h])' \cap cfg' = hist'[h]
               [] m'.type[h] = "deep" ->
                     {a \in Atomic' : Below(a, m.parent[h])'} = hist'[h]
  BY <1>1, <1>9, <1>12 DEF Targets
<1> QED
  BY <1>13 DEF RecordRestored

\* A legal configuration is what the code takes for one.
LEMMA LegalIsEnough ==
    ASSUME OrderlyCharts, LegalInv
    PROVE  LegalConfiguration
<1> SUFFICES ASSUME status \in {"active", "done"} PROVE LegalConfiguration
  BY DEF LegalConfiguration
<1> QED
  BY MachinesAreCharts, LegalIsLegal DEF LegalInv

\* For all orderly machines: after every microstep the configuration is a legal
\* one (computeEntrySet and completeConfiguration, machine.hpp:590 and 869).
THEOREM ConfigurationsAreLegal ==
    ASSUME \A i \in DOMAIN Charts : Orderly(Charts[i])
    PROVE  Spec => []LegalConfiguration
BY LegalIsEnough, LegalAlways, PTL DEF OrderlyCharts

\* Every step leaves what it restored, or takes transitions that restore.
LEMMA RestoringStep ==
    ASSUME OrderlyCharts, LegalInv, RecordRestored, ConfigStep
    PROVE  RecordRestored'
<1>2. CASE UNCHANGED <<m, cfg, hist, last>>
  <2>1. Atomic' = Atomic /\ History' = History
    BY <1>2 DEF Atomic, Children, Nodes, History
  <2>2. \A h : Children(m.parent[h])' = Children(m.parent[h])
    BY <1>2 DEF Children, Nodes
  <2>3. \A a, h : Below(a, m.parent[h])' = Below(a, m.parent[h])
    BY <1>2 DEF Below
  <2>4. ASSUME NEW t \in Range(last'.taken),
               NEW h \in Range(m'.trans[t].targets) \cap History', hist'[h] # {}
        PROVE  CASE m'.type[h] = "shallow" -> Children(m.parent[h])' \cap cfg' = hist'[h]
                 [] m'.type[h] = "deep" ->
                       {a \in Atomic' : Below(a, m.parent[h])'} = hist'[h]
    <3>1. t \in Range(last.taken) /\ h \in Range(m.trans[t].targets) \cap History /\ hist[h] # {}
      BY <1>2, <2>1, <2>4
    <3>2. (CASE m.type[h] = "shallow" -> Children(m.parent[h]) \cap cfg = hist[h]
             [] m.type[h] = "deep" -> {a \in Atomic : Below(a, m.parent[h])} = hist[h])
      BY <3>1 DEF RecordRestored
    <3>3. {a \in Atomic' : Below(a, m.parent[h])'} = {a \in Atomic : Below(a, m.parent[h])}
      BY <2>1, <2>3
    <3>4. Children(m.parent[h])' \cap cfg' = Children(m.parent[h]) \cap cfg
      BY <1>2, <2>2
    <3>5. m'.type[h] = m.type[h] /\ hist'[h] = hist[h]
      BY <1>2
    <3> QED
      BY <3>2, <3>3, <3>4, <3>5
  <2> QED
    BY <2>4 DEF RecordRestored
<1>3. CASE last'.taken = <<>>
  <2>1. Range(last'.taken) = {}
    BY <1>3 DEF Range
  <2> QED
    BY <2>1 DEF RecordRestored
<1>4. CASE last' = NoStep
  BY <1>3, <1>4 DEF NoStep
<1>5. CASE /\ UNCHANGED m /\ status = "active" /\ status' \in {"active", "done"}
           /\ \E e, rest : Microstep(Selected(e), rest)
  <2>1. Chart /\ Orderly(m)
    BY MachinesAreCharts DEF LegalInv
  <2> QED
    BY <1>5, <2>1, MicrostepRestores DEF LegalInv
<1> QED
  BY <1>2, <1>3, <1>4, <1>5 DEF ConfigStep
=============================================================================
