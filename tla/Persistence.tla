----------------------------- MODULE Persistence -----------------------------
(***************************************************************************)
(* State values, persisted snapshots and crashes on top of Statechart.     *)
(*                                                                         *)
(* A snapshot is persisted between two tasks (actor.getPersistedSnapshot), *)
(* in its structured form or as JSON; the process ends at any later moment *)
(* and a new actor is started from what was persisted.  As everything that *)
(* happened in between is lost, one action `Restart' that persists and     *)
(* restores at once reaches all the states a later crash could lead to.    *)
(*                                                                         *)
(* A key is unique among the children of a node, so it is identified with  *)
(* the child it names.  Invoked children are machines, whose snapshots are *)
(* persisted and restored in the same way.                                 *)
(***************************************************************************)
EXTENDS Statechart

(* State values *)

\* A path of keys from the root is identified with the node it leads to, and a
\* value with the function that gives, for every path it reaches, the leaf
\* found there, or NoNode for a map (or nothing).  What it maps below a path
\* are the children of the path's node that it reaches.
Keys(v, x) == Children(x) \cap DOMAIN v
IsLeaf(v, x) == v[x] # NoNode
Empty(v, x) == Keys(v, x) = {} /\ v[x] = NoNode

\* The value of n is empty: a parallel state lists all its children, active or
\* not, any other state the first active one.
Active(n, S) == Children(n) \cap S
Bare(n, S) == IF m.type[n] = "parallel" THEN Children(n) = {} ELSE Active(n, S) = {}

\* Its parent maps n to a value; the leaf n stands for.
Mapped(n, S) ==
    LET p == m.parent[n] IN
    \/ m.type[p] = "parallel"
    \/ Active(p, S) # {} /\ n = Min(Active(p, S)) /\ ~Bare(n, S)
LeafOf(n, S) ==
    IF m.type[n] = "parallel" \/ Active(n, S) = {} THEN NoNode
    ELSE IF Bare(Min(Active(n, S)), S) THEN Min(Active(n, S)) ELSE NoNode

\* What describes the active descendants of the root in the configuration S.
ValueOf(S) ==
    [n \in {x \in Nodes : \A y \in m.up[x] \ {Root} : Mapped(y, S)} |-> LeafOf(n, S)]

\* (mutant: a leaf must be a leaf on both sides)
ValueContainsWhole(v, other) ==
    \A x \in DOMAIN other :
        /\ x \in DOMAIN v
        /\ \/ Empty(other, x)
           \/ v[x] = other[x] /\ Keys(other, x) \subseteq Keys(v, x)

\* `other', possibly partial, is covered by v: at every path, what `other' has
\* there is nothing, the same leaf, a leaf that v maps, or a map of keys that v
\* maps too.
ValueContains(v, other) ==
    \A x \in DOMAIN other :
        /\ x \in DOMAIN v
        /\ \/ Empty(other, x)
           \/ IsLeaf(v, x) /\ other[x] = v[x]
           \/ ~IsLeaf(v, x) /\ IsLeaf(other, x) /\ other[x] \in Keys(v, x)
           \/ ~IsLeaf(v, x) /\ ~IsLeaf(other, x) /\ Keys(other, x) \subseteq Keys(v, x)

\* The value of the dotted path of n.
FromPath(n) == [x \in m.up[m.parent[n]] |-> IF x = m.parent[n] THEN n ELSE NoNode]

Matches(value, n) == ValueContains(value, FromPath(n))

-----------------------------------------------------------------------------
(* The persisted snapshot and its JSON form *)

Persisted ==
    LET live == {id \in ChildIds : children[id] # NoNode} IN
    [status |-> status, value |-> ValueOf(cfg), context |-> ctx,
     historyValue |-> [h \in {x \in History : hist[x] # {}} |-> hist[h]],
     children |-> [id \in live |-> children[id]]]

\* The JSON value at each path; an object's members are the paths below it.
Json(kind, content) == [kind |-> kind, content |-> content]
StateValueJson(v) ==
    [x \in DOMAIN v |->
        CASE Empty(v, x)  -> Json("null", NoNode)
          [] IsLeaf(v, x) -> Json("string", v[x])
          [] OTHER        -> Json("object", NoNode)]

\* (mutant: a null is skipped)
JsonToPresent(j) ==
    [x \in {y \in DOMAIN j : j[y].kind # "null"} |-> j[x].content]

JsonToStateValue(j) ==
    [x \in DOMAIN j |-> IF j[x].kind = "string" THEN j[x].content ELSE NoNode]

\* persistedToJson; it is refused while the machine has children.
PersistedToJson(p) ==
    [status |-> p.status, value |-> StateValueJson(p.value), context |-> p.context,
     historyValue |-> [h \in DOMAIN p.historyValue |-> Sorted(p.historyValue[h])]]

\* parseSnapshotJson; an unknown status would read as "active".
ParseSnapshotJson(doc) ==
    [status |-> IF doc.status \in {"done", "error", "stopped"} THEN doc.status ELSE "active",
     value |-> JsonToStateValue(doc.value), context |-> doc.context,
     historyValue |-> [h \in DOMAIN doc.historyValue |-> Range(doc.historyValue[h])],
     children |-> <<>>]

Forms(p) ==
    {p} \cup IF DOMAIN p.children = {} THEN {ParseSnapshotJson(PersistedToJson(p))} ELSE {}

-----------------------------------------------------------------------------
(* Restoring *)

\* restoreConfig: every node on a path of the value, and its leaves.
RestoreConfig(v) == DOMAIN v \cup {v[x] : x \in {y \in DOMAIN v : IsLeaf(v, y)}}

\* restoreSnapshot and the start of the restored actor: no state is entered
\* and nothing is settled; an active machine gets the timers of its states
\* from the full delay, and its children.
Restore(p) ==
    /\ cfg' = RestoreConfig(p.value)
    /\ hist' = [h \in History |-> IF h \in DOMAIN p.historyValue THEN p.historyValue[h] ELSE {}]
    /\ ctx' = p.context /\ status' = p.status
    /\ armed' = IF p.status = "active" THEN cfg' \cap m.delayed ELSE {}
    /\ children' = [id \in ChildIds |->
            IF p.status = "active" /\ id \in DOMAIN p.children THEN p.children[id] ELSE NoNode]

\* What waits in the executor is lost with the process.  An actor that never
\* started, or failed or was stopped before it had, has no snapshot of a
\* machine (its cfg is empty) and is refused.
Restart ==
    /\ phase = "idle" /\ cfg # {}
    /\ \E p \in Forms(Persisted) : Restore(p)
    /\ due' = {}
    /\ UNCHANGED <<m, control>>

DurableNext == Next \/ Restart
DurableSpec == Init /\ [][DurableNext]_vars /\ Fairness

-----------------------------------------------------------------------------
(* Properties *)

\* Persisting and restoring loses nothing a machine at rest knows: its
\* configuration, history, context and status, in either form, and while it
\* is active every state with `after' has a timer again and every child is
\* back ("re-arm `after` timers from the full delay", machine.hpp:92).
RestartKeepsState ==
    [][Restart =>
          /\ UNCHANGED <<cfg, hist, ctx, status>>
          /\ status = "active" =>
                /\ armed' = {n \in cfg : n \in m.delayed}
                /\ children' = children]_vars

\* snapshot.matches(path) tells whether the state at that path is active, for
\* every state ("a (possibly partial) path/value that must be covered",
\* state_value.hpp:38).
MatchesIsActive ==
    cfg # {} => LET value == ValueOf(cfg) IN
                \A n \in Nodes \ {Root} : Matches(value, n) <=> n \in cfg
=============================================================================
