--------------------------- MODULE MachineImport ---------------------------
(***************************************************************************)
(* From a JSON text, or a configuration put together in C++, to a machine: *)
(* parseMachineJson (json.hpp:219-266) and createMachine (machine.hpp:     *)
(* 934-1160), one action per pass.  A pass that throws ends the import.    *)
(***************************************************************************)
EXTENDS MachineSetup

CONSTANTS
    Texts,       \* any texts
    Written,     \* JSON values, imported as writeJson writes them
    Exports,     \* <<configuration, JSON value that says it>>, written likewise
    Configs      \* configurations put together in C++

VARIABLES
    stage,       \* "text", "doc", "config", "tree", "machine", or "rejected"
    text,        \* the JSON text, <<>> when there is none
    doc,         \* the JsonValue
    config,      \* the MachineConfig
    tree,        \* the state nodes
    machine,     \* the machine
    error,       \* "none", "JsonError" or "ConfigError"
    origin       \* what the text was written from, if it was (for properties)

vars == <<stage, text, doc, config, tree, machine, error, origin>>

NoTree == [n \in {} |-> n]
\* each a sequence of at most one
From(value, cfg) == [value |-> value, config |-> cfg]
NoOrigin == From(<<>>, <<>>)

Init ==
    /\ doc = Null /\ tree = NoTree /\ machine = NoTree /\ error = "none"
    /\ \/ /\ stage = "text" /\ config = NoMachine
          /\ \/ text \in Texts /\ origin = NoOrigin
             \/ \E v \in Written : text = WriteJson(v) /\ origin = From(<<v>>, <<>>)
             \/ \E e \in Exports : /\ text = WriteJson(e[2])
                                   /\ origin = From(<<e[2]>>, <<e[1]>>)
       \/ /\ stage = "config" /\ config \in Configs
          /\ text = <<>> /\ origin = NoOrigin

Throw(what) ==
    /\ stage' = "rejected" /\ error' = what
    /\ UNCHANGED <<text, doc, config, tree, machine, origin>>

ParseText ==
    LET v == ParseJson(text) IN
    /\ stage = "text"
    /\ IF v.ok THEN /\ stage' = "doc" /\ doc' = v.value
                    /\ UNCHANGED <<text, config, tree, machine, error, origin>>
       ELSE Throw("JsonError")

ImportDoc ==
    /\ stage = "doc"
    /\ IF MachineReadable(doc)
       THEN /\ stage' = "config" /\ config' = JsonToMachine(doc)
            /\ UNCHANGED <<text, doc, tree, machine, error, origin>>
       ELSE Throw("JsonError")

\* buildNode, pass 1
Build ==
    LET t == BuildTree(config) IN
    /\ stage = "config"
    /\ IF Buildable(t)
       THEN /\ stage' = "tree" /\ tree' = t
            /\ UNCHANGED <<text, doc, config, machine, error, origin>>
       ELSE Throw("ConfigError")

\* wireRoot and wireNode, pass 2
Wire ==
    /\ stage = "tree"
    /\ IF Wireable(tree)
       THEN /\ stage' = "machine" /\ machine' = MachineOf(tree)
            /\ UNCHANGED <<text, doc, config, tree, error, origin>>
       ELSE Throw("ConfigError")

Next == ParseText \/ ImportDoc \/ Build \/ Wire
Spec == Init /\ [][Next]_vars

-----------------------------------------------------------------------------
(* Properties *)

Accepted == stage = "machine"

\* The parser neither guesses nor loses: what it reads, written down again, is
\* the text it read, up to how characters are escaped, and it refuses nothing
\* that writeJson writes (parseJson and writeJson are inverse).
Normal(t) == [i \in DOMAIN t |->
    IF t[i].t = "string" THEN Quoted(Escape(Unescape(t[i].raw))) ELSE t[i]]
ReadsWhatIsWritten ==
    /\ stage = "doc" => WriteJson(doc) = Normal(text) /\ origin.value \in {<<>>, <<doc>>}
    /\ error = "JsonError" /\ doc = Null => origin.value = <<>>

\* An exported configuration is imported as it was, in whichever of the
\* shorthands the document is written (parseJson, jsonToState and all it calls
\* lose nothing).
ExportsAreRead ==
    origin.config # <<>> =>
        /\ error # "JsonError"
        /\ stage \in {"config", "tree", "machine"} => <<config>> = origin.config

\* Every machine createMachine accepts is one the interpreter is made for,
\* apart from four shapes it lets through: a root or a `compound' state with no
\* states, a history state with some, and a history default that is itself a
\* history state or lies elsewhere (parse, buildNode and wireNode).
Ordinary ==
    \A n \in DOMAIN tree :
        LET default == HistoryDefault(tree, n) IN
        /\ tree[n].type = "compound" \/ n = Root => ~Childless(tree[n])
        /\ tree[n].type = "history" => Childless(tree[n])
        /\ default # NoNode =>
              /\ tree[default].type # "history"
              /\ ParentOf(tree, n) \in machine.up[default] \ {default}
              /\ machine.initial[ParentOf(tree, n)] = n =>
                    ParentOf(tree, default) = ParentOf(tree, n)
AcceptedIsChart == Accepted /\ Ordinary => IsChart(machine, UNION Range(machine.invokes))

\* What the interpreter will look up with at() in the options, which throws
\* std::out_of_range on a name that is not there (machine.hpp:312, 382, 456,
\* 620, 668).
RECURSIVE NamedGuards(_)
NamedGuards(guards) == UNION {
    LET g == guards[i] IN
    NamedGuards(g.operands) \cup IF g.kind = "named" THEN {<<"guard", g.name>>} ELSE {}
    : i \in DOMAIN guards}
NamedActions(actions) == UNION {
    LET a == actions[i] IN
    CASE a.kind = "named" -> {<<"action", a.name>>}
      [] a.kind = "spawnChild" -> {<<"actor", a.src>>}
      [] OTHER -> {}
    : i \in DOMAIN actions}
LookedUpIn(n) ==
    LET sc == tree[n].sc IN
    NamedActions(sc.entry) \cup NamedActions(sc.exit) \cup NamedActions(sc.initialActions)
    \cup {<<"actor", sc.invoke[i].src>> : i \in DOMAIN sc.invoke}
    \cup {<<"delay", sc.after[i][1]>> : i \in {k \in DOMAIN sc.after : sc.after[k][1] \notin Numbers}}
LookedUpByTransitions == UNION {
    NamedActions(t.actions) \cup NamedGuards(t.guard) : t \in Range(machine.trans)}
Bound == ({"guard"} \X GuardNames) \cup ({"action"} \X ActionNames)
         \cup ({"actor"} \X ActorNames) \cup ({"delay"} \X DelayNames)

\* No name an accepted machine looks up while it runs is missing ("unbound names
\* throw ConfigError there", json.hpp:7).  The entry and exit actions of the root
\* are left out: wireRoot does not check them, wireNode (machine.hpp:1002)
\* checks those of all other states.
NamesAreBound ==
    Accepted => (UNION {LookedUpIn(n) : n \in DOMAIN tree \ {Root}}
                 \cup NamedActions(tree[Root].sc.initialActions)
                 \cup LookedUpByTransitions) \subseteq Bound

\* Every state can be named: by "#" and its id, by "#", the id of an ancestor
\* and the keys from there, by "." and the keys from an ancestor, and by the
\* keys from a sibling (resolveTarget).  An id with dots of its own shadows a
\* path that reads the same.
Keys(a, n) == SubSeq(tree[n].keys, Len(tree[a].keys) + 1, Len(tree[n].keys))
Plain == \A n \in DOMAIN tree :
             /\ \A i \in DOMAIN tree[n].keys : "." \notin Range(tree[n].keys[i])
             /\ "." \notin Range(tree[n].sc.id)
TargetsAddressable ==
    Accepted =>
    \A n \in DOMAIN tree :
        /\ ResolveTarget(tree, Root, <<"#">> \o tree[n].id) = n
        /\ Plain => \A a \in machine.up[n] \ {n} :
              /\ ResolveTarget(tree, Root, <<"#">> \o tree[a].id \o <<".">> \o Joined(Keys(a, n))) = n
              /\ ResolveTarget(tree, a, <<".">> \o Joined(Keys(a, n))) = n
              /\ \A s \in DOMAIN tree \ {Root} : ParentOf(tree, s) = a =>
                    ResolveTarget(tree, s, Joined(Keys(a, n))) = n
=============================================================================
