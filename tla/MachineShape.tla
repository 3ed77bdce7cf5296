---------------------------- MODULE MachineShape ----------------------------
(* A machine as the interpreter needs it: a tree of state nodes numbered in *)
(* document order from 0, and its transitions.                              *)
EXTENDS Integers, FiniteSets, SequencesExt

Root == 0
NoNode == -1

\* What createMachine guarantees about a machine, and some assumptions of the
\* model of the interpreter: the root and every compound state have children,
\* a history state has none, and its default is no history state, lies inside
\* the history's parent and, when the history state is an initial state, is a
\* child of that parent.
IsChart(ch, childIds) ==
    LET N == DOMAIN ch.parent IN
    /\ IsFiniteSet(N) /\ N = 0 .. (Cardinality(N) - 1) /\ N # {}
    /\ ch.parent[Root] = NoNode /\ ch.up[Root] = {Root}
    /\ ch.type \in [N -> {"atomic", "compound", "parallel", "final",
                          "shallow", "deep"}]
    /\ ch.type[Root] \in {"compound", "parallel"}
    /\ \E c \in N : ch.parent[c] = Root
    /\ \A n \in N \ {Root} :
          /\ ch.parent[n] \in 0 .. (n - 1) /\ ch.parent[n] \in ch.up[n - 1]
          /\ ch.up[n] = ch.up[ch.parent[n]] \cup {n}
          /\ ch.type[ch.parent[n]] \in {"compound", "parallel"}
    /\ \A n \in N :
          /\ IF ch.type[n] = "compound"
             THEN ch.initial[n] \in N /\ ch.parent[ch.initial[n]] = n
             ELSE ch.initial[n] = NoNode
          /\ ch.default[n] # NoNode =>
                /\ ch.type[n] \in {"shallow", "deep"}
                /\ ch.default[n] \in N
                /\ ch.type[ch.default[n]] \notin {"shallow", "deep"}
                /\ ch.parent[n] \in ch.up[ch.default[n]] \ {ch.default[n]}
                /\ ch.initial[ch.parent[n]] = n =>
                      ch.parent[ch.default[n]] = ch.parent[n]
    /\ DOMAIN ch.trans = 1 .. Len(ch.trans)
    /\ \A t \in DOMAIN ch.trans :
          /\ ch.trans[t].source \in N
          /\ ch.trans[t].targets \in Seq(N)
    /\ ch.delayed \subseteq N
    /\ \A n \in N : ch.invokes[n] \subseteq childIds

\* x and y lie under, or are, two children of one state of the given type.
Fork(ch, type, x, y) ==
    \E p, c, d \in DOMAIN ch.parent :
        /\ ch.type[p] = type /\ c # d
        /\ ch.parent[c] = p /\ c \in ch.up[x]
        /\ ch.parent[d] = p /\ d \in ch.up[y]

\* What an author must keep to, for buildNode refuses none of it:
\* - a history state is a child of a compound state, and one that is the
\*   initial state of its parent has a default;
\* - the targets of a transition lie in different regions of a parallel state;
\* - an internal transition to its source, or to states inside it, starts at a
\*   state that has children.
Orderly(ch) ==
    LET N == DOMAIN ch.parent
        history == {n \in N : ch.type[n] \in {"shallow", "deep"}} IN
    /\ \A h \in history : ch.type[ch.parent[h]] = "compound"
    /\ \A n \in N : ch.type[n] = "compound" /\ ch.initial[n] \in history
                       => ch.default[ch.initial[n]] # NoNode
    /\ \A i \in DOMAIN ch.trans :
          LET t == ch.trans[i] IN
          /\ \A j, k \in DOMAIN t.targets :
                j # k => Fork(ch, "parallel", t.targets[j], t.targets[k])
          /\ (/\ ~t.reenter
              /\ \A x \in Range(t.targets) : t.source \in ch.up[x]
              /\ t.targets # <<>>)
             => \E c \in N : ch.parent[c] = t.source

\* The final states below a compound region of a parallel state are its children.
ShallowRegions(ch) ==
    \A r, f \in DOMAIN ch.parent \ {Root} :
        /\ ch.type[ch.parent[r]] = "parallel" /\ ch.type[r] = "compound"
        /\ ch.type[f] = "final" /\ r \in ch.up[f]
        => ch.parent[f] = r

\* No region of a parallel state is a final state.
NoFinalRegions(ch) ==
    \A f \in DOMAIN ch.parent \ {Root} :
        ch.type[f] = "final" => ch.type[ch.parent[f]] # "parallel"

\* Two states that invoke under one child id are never active together.
Exclusive(ch) ==
    \A x, y \in DOMAIN ch.parent :
        x # y /\ ch.invokes[x] \cap ch.invokes[y] # {} => Fork(ch, "compound", x, y)
=============================================================================
