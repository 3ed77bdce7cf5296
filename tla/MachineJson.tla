----------------------------- MODULE MachineJson -----------------------------
(***************************************************************************)
(* The import of machine configurations from JSON (json.hpp), and the      *)
(* configuration it fills (machine/config.hpp, actions.hpp, guards.hpp).   *)
(*                                                                         *)
(* For each kind of thing there are two operators: whether the code reads  *)
(* it (it throws a JsonError otherwise, and the import is over), and what  *)
(* it reads.  A name that appears twice in one object is not modelled.     *)
(***************************************************************************)
EXTENDS Json

\* OrderedMap and the `after' map: a sequence of pairs.  (A concatenation is
\* stored as a tuple, so that TLC evaluates it once.)
MapValues(map, F(_)) == [i \in DOMAIN map |-> <<map[i][1], F(map[i][2])>>] \o <<>>
AllValues(map, P(_)) == \A i \in DOMAIN map : P(map[i][2])
MapItems(s, F(_)) == [i \in DOMAIN s |-> F(s[i])] \o <<>>
AllItems(s, P(_)) == \A i \in DOMAIN s : P(s[i])

\* One thing, or an array of them.
AsList(v) == IF v.type = "array" THEN v.array ELSE <<v>>

HasString(v, key) == Has(v, key) /\ Get(v, key).type = "string"
StringField(v, key) == IF HasString(v, key) THEN Get(v, key).str ELSE <<>>
StrOf(v) == v.str
BuiltIn(name) == <<"xstate", ".", name>>
BuiltInGuard(name) == <<"xstate", ".", "guard", ".", name>>
Reserved(name) == IsPrefix(<<"xstate", ".">>, name)

-----------------------------------------------------------------------------
(* Events and guards *)

NoEvent == [type |-> <<>>, data |-> <<>>]
EventReadable(v) == v.type = "object" /\ HasString(v, "type")
JsonToEvent(v) ==
    [type |-> Get(v, "type").str, data |-> IF Len(v.object) > 1 THEN WriteJson(v) ELSE <<>>]

GuardRef(kind, name, operands) == [kind |-> kind, name |-> name, operands |-> operands]
Operands(v) == IF Has(v, "guards") THEN Get(v, "guards").array ELSE <<>>

RECURSIVE GuardReadable(_)
GuardReadable(v) ==
    \/ v.type = "string"
    \/ /\ v.type = "object" /\ HasString(v, "type")
       /\ LET t == Get(v, "type").str IN
          CASE t \in {BuiltInGuard("and"), BuiltInGuard("or")} ->
                  AllItems(Operands(v), GuardReadable)
            [] t = BuiltInGuard("not") ->
                  Len(Operands(v)) = 1 /\ AllItems(Operands(v), GuardReadable)
            [] t = BuiltInGuard("stateIn") -> HasString(v, "stateIn")
            [] OTHER -> ~Reserved(t)

RECURSIVE JsonToGuard(_)
JsonToGuard(v) ==
    LET t == IF v.type = "string" THEN v.str ELSE Get(v, "type").str IN
    CASE v.type = "string" -> GuardRef("named", t, <<>>)
      [] t = BuiltInGuard("and") -> GuardRef("and", <<>>, MapItems(Operands(v), JsonToGuard))
      [] t = BuiltInGuard("or")  -> GuardRef("or", <<>>, MapItems(Operands(v), JsonToGuard))
      [] t = BuiltInGuard("not") -> GuardRef("not", <<>>, MapItems(Operands(v), JsonToGuard))
      [] t = BuiltInGuard("stateIn") -> GuardRef("stateIn", Get(v, "stateIn").str, <<>>)
      [] OTHER -> GuardRef("named", t, <<>>)

-----------------------------------------------------------------------------
(* Actions *)

NamedAction(name) ==
    [kind |-> "named", name |-> name, event |-> NoEvent, delayMs |-> 0,
     sendId |-> <<>>, message |-> <<>>, src |-> <<>>]
NoAction == NamedAction(<<>>)
Raise(e, delay, id) ==
    [NoAction EXCEPT !.kind = "raise", !.event = e, !.delayMs = delay, !.sendId = id]
SendTo(target, e, delay, id) == [Raise(e, delay, id) EXCEPT !.kind = "sendTo", !.name = target]
SendParent(e) == [NoAction EXCEPT !.kind = "sendParent", !.event = e]
Emit(e) == [NoAction EXCEPT !.kind = "emit", !.event = e]
Log(message) == [NoAction EXCEPT !.kind = "log", !.message = message]
Cancel(id) == [NoAction EXCEPT !.kind = "cancel", !.name = id]
StopChild(id) == [NoAction EXCEPT !.kind = "stopChild", !.name = id]
SpawnChild(src, id) == [NoAction EXCEPT !.kind = "spawnChild", !.src = src, !.name = id]

WithEvent == {BuiltIn(k) : k \in {"raise", "sendTo", "sendParent", "emit"}}
WithoutEvent == {BuiltIn(k) : k \in {"log", "cancel", "stopChild", "spawnChild"}}

ActionReadable(v) ==
    \/ v.type = "string"
    \/ /\ v.type = "object" /\ HasString(v, "type")
       /\ LET t == Get(v, "type").str IN
          /\ t \in WithEvent => Has(v, "event") /\ EventReadable(Get(v, "event"))
          /\ Reserved(t) => t \in WithEvent \cup WithoutEvent

\* A delay that is no number counts as none.
DelayField(v) == IF Has(v, "delay") THEN Get(v, "delay").number ELSE 0

JsonToAction(v) ==
    LET t == IF v.type = "string" THEN v.str ELSE Get(v, "type").str
        event == JsonToEvent(Get(v, "event"))
        field(key) == StringField(v, key)
    IN
    CASE t = BuiltIn("raise")      -> Raise(event, DelayField(v), field("id"))
      [] t = BuiltIn("sendTo")     -> SendTo(field("to"), event, DelayField(v), field("id"))
      [] t = BuiltIn("sendParent") -> SendParent(event)
      [] t = BuiltIn("emit")       -> Emit(event)
      [] t = BuiltIn("log")        -> Log(field("message"))
      [] t = BuiltIn("cancel")     -> Cancel(field("sendId"))
      [] t = BuiltIn("stopChild")  -> StopChild(field("id"))
      [] t = BuiltIn("spawnChild") -> SpawnChild(field("src"), field("id"))
      [] OTHER -> NamedAction(t)

ActionsReadable(v) == AllItems(AsList(v), ActionReadable)
JsonToActions(v) == MapItems(AsList(v), JsonToAction)

-----------------------------------------------------------------------------
(* Transitions and invocations *)

TransitionConfig(targets) ==
    [targets |-> targets, guard |-> <<>>, actions |-> <<>>, reenter |-> FALSE]

TransitionReadable(v) ==
    \/ v.type = "string"
    \/ /\ v.type = "object"
       /\ Has(v, "target") => Get(v, "target").type \in {"string", "array", "null"}
       /\ Has(v, "guard") => GuardReadable(Get(v, "guard"))
       /\ Has(v, "actions") => ActionsReadable(Get(v, "actions"))

\* (mutant: the second of several targets is dropped)
JsonToFirstTarget(v) ==
    IF v.type = "string" THEN TransitionConfig(<<v.str>>)
    ELSE [targets |-> IF Has(v, "target") /\ Get(v, "target").type # "null"
                      THEN <<AsList(Get(v, "target"))[1].str>> ELSE <<>>,
          guard |-> IF Has(v, "guard") THEN <<JsonToGuard(Get(v, "guard"))>> ELSE <<>>,
          actions |-> IF Has(v, "actions") THEN JsonToActions(Get(v, "actions")) ELSE <<>>,
          reenter |-> Has(v, "reenter") /\ Get(v, "reenter").boolean]

JsonToTransition(v) ==
    IF v.type = "string" THEN TransitionConfig(<<v.str>>)
    ELSE [targets |-> IF Has(v, "target") /\ Get(v, "target").type # "null"
                      THEN MapItems(AsList(Get(v, "target")), StrOf) ELSE <<>>,
          guard |-> IF Has(v, "guard") THEN <<JsonToGuard(Get(v, "guard"))>> ELSE <<>>,
          actions |-> IF Has(v, "actions") THEN JsonToActions(Get(v, "actions")) ELSE <<>>,
          reenter |-> Has(v, "reenter") /\ Get(v, "reenter").boolean]

TransitionsReadable(v) == AllItems(AsList(v), TransitionReadable)
JsonToTransitions(v) == MapItems(AsList(v), JsonToTransition)

InvokeReadable(v) ==
    /\ v.type = "object" /\ StringField(v, "src") # <<>>
    /\ \A key \in {"onDone", "onError"} : Has(v, key) => TransitionsReadable(Get(v, key))
JsonToInvoke(v) ==
    LET transitions(key) == IF Has(v, key) THEN JsonToTransitions(Get(v, key)) ELSE <<>> IN
    [src |-> StringField(v, "src"), id |-> StringField(v, "id"),
     input |-> IF Has(v, "input") THEN WriteJson(Get(v, "input")) ELSE <<>>,
     onDone |-> transitions("onDone"), onError |-> transitions("onError")]

-----------------------------------------------------------------------------
(* States and machines: a machine is a state that has only some of the keys *)

NoState ==
    [type |-> "atomic", history |-> "shallow", id |-> <<>>, initial |-> <<>>,
     initialActions |-> <<>>, target |-> <<>>, entry |-> <<>>, exit |-> <<>>,
     on |-> <<>>, after |-> <<>>, always |-> <<>>, onDone |-> <<>>, invoke |-> <<>>,
     states |-> <<>>, tags |-> <<>>, output |-> <<>>]
NoMachine == [NoState EXCEPT !.type = "compound", !.id = <<"(machine)">>]

StateTypes == {"atomic", "compound", "parallel", "final", "history"}
PlainKeys == {"id", "output", "meta", "description"}
CommonKeys == {"initial", "entry", "exit", "on", "always", "states"}
StateKeys == PlainKeys \cup CommonKeys \cup
             {"type", "history", "target", "after", "onDone", "invoke", "tags"}
MachineKeys == PlainKeys \cup CommonKeys \cup {"version", "types"}

\* Whether every member of v is one of `keys' and can be read; a "context" is
\* refused as there is no codec here.
RECURSIVE MembersReadable(_, _)
StateReadable(v) == v.type = "object" /\ MembersReadable(v, StateKeys)
MembersReadable(v, keys) ==
    \A i \in DOMAIN v.object :
        LET key == v.object[i][1]
            val == v.object[i][2]
        IN
        /\ key \in {<<k>> : k \in keys}
        /\ key = <<"type">> => val.str \in {<<t>> : t \in StateTypes}
        /\ key = <<"history">> => val.str \in {<<"shallow">>, <<"deep">>}
        /\ (key = <<"initial">> /\ Has(val, "actions")) => ActionsReadable(Get(val, "actions"))
        /\ key \in {<<"entry">>, <<"exit">>} => ActionsReadable(val)
        /\ key \in {<<"on">>, <<"after">>} => AllValues(val.object, TransitionsReadable)
        /\ key \in {<<"always">>, <<"onDone">>} => TransitionsReadable(val)
        /\ key = <<"invoke">> => AllItems(AsList(val), InvokeReadable)
        /\ key = <<"states">> => AllValues(val.object, StateReadable)

MachineReadable(doc) == doc.type = "object" /\ MembersReadable(doc, MachineKeys)

\* What the members of v say, over the defaults d.
RECURSIVE Members(_, _)
JsonToState(v) == Members(v, NoState)
Members(v, d) ==
    LET initial == Get(v, "initial")
        from(key, default, F(_)) == IF Has(v, key) THEN F(Get(v, key)) ELSE default
        transitions(val) == MapValues(val.object, JsonToTransitions)
    IN
    [type |-> from("type", d.type, LAMBDA val : val.str[1]),
     history |-> from("history", d.history, LAMBDA val : val.str[1]),
     id |-> from("id", d.id, StrOf),
     initial |-> CASE ~Has(v, "initial") -> d.initial
                   [] Has(v, "initial") /\ initial.type # "object" -> initial.str
                   [] OTHER -> IF Has(initial, "target") THEN Get(initial, "target").str
                               ELSE d.initial,
     initialActions |-> IF Has(v, "initial") /\ Has(initial, "actions")
                        THEN JsonToActions(Get(initial, "actions")) ELSE d.initialActions,
     target |-> from("target", d.target, StrOf),
     entry |-> from("entry", d.entry, JsonToActions),
     exit |-> from("exit", d.exit, JsonToActions),
     on |-> from("on", d.on, transitions),
     after |-> from("after", d.after, transitions),
     always |-> from("always", d.always, JsonToTransitions),
     onDone |-> from("onDone", d.onDone, JsonToTransitions),
     invoke |-> from("invoke", d.invoke, LAMBDA val : MapItems(AsList(val), JsonToInvoke)),
     states |-> from("states", d.states, LAMBDA val : MapValues(val.object, JsonToState)),
     tags |-> from("tags", d.tags, LAMBDA val : MapItems(AsList(val), StrOf)),
     output |-> from("output", d.output, WriteJson)]

JsonToMachine(doc) == Members(doc, NoMachine)
=============================================================================
