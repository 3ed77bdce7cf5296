--------------------------- MODULE MCMachineImport ---------------------------
(* Texts and configurations to import: one machine that uses everything,    *)
(* with one or two things in it changed, as a configuration and as the JSON *)
(* a tool would export; and short texts, right and wrong.                   *)
EXTENDS MachineImport, TLC

S(word) == <<word>>
MCGuards == {S("ok")}
MCActions == {S("act")}
MCActors == {S("svc")}
MCDelays == {S("SLOW")}
MCNumbers == {S("100")}

T(target) == TransitionConfig(<<target>>)
Under(id) == <<"#">> \o id
Dot(a, b) == <<a, ".", b>>
Act(name) == NamedAction(<<name>>)
Named(name) == GuardRef("named", <<name>>, <<>>)
Ev(name) == [type |-> <<name>>, data |-> <<>>]

A1 == [NoState EXCEPT
    !.on = << <<S("NEXT"), <<T(S("a2"))>>>>, <<S("STAY"), <<>>>> >>,
    !.tags = <<S("busy")>>]
A2 == [NoState EXCEPT !.type = "final", !.output = WriteJson(Str(S("done")))]
HA == [NoState EXCEPT !.type = "history", !.history = "deep", !.target = S("a2")]
A == [NoState EXCEPT !.type = "compound",
    !.initial = S("a1"), !.initialActions = <<Act("act")>>,
    !.entry = <<Act("act"), Log(S("in"))>>, !.exit = <<Cancel(S("tick"))>>,
    !.on = << <<S("GO"), <<[T(S("b")) EXCEPT
                              !.guard = <<GuardRef("and", <<>>, <<Named("ok"),
                                  GuardRef("not", <<>>, <<GuardRef("stateIn", S("b"), <<>>)>>)>>)>>,
                              !.actions = <<Raise(Ev("NEXT"), 5, S("tick"))>>],
                           T(S("end"))>>>> >>,
    !.onDone = <<T(S("b"))>>,
    !.states = << <<S("a1"), A1>>, <<S("a2"), A2>>, <<S("h"), HA>> >>]
P == [NoState EXCEPT !.initial = S("p1"),
    !.states = << <<S("p1"), [NoState EXCEPT !.always = <<[T(S("p2")) EXCEPT
                                  !.guard = <<Named("ok")>>]>>]>>,
                  <<S("p2"), NoState>> >>]
Q == [NoState EXCEPT !.exit = <<SpawnChild(S("svc"), S("kid")), StopChild(S("kid"))>>]
B == [NoState EXCEPT !.type = "parallel", !.id = S("bee"),
    !.invoke = << [src |-> S("svc"), id |-> <<>>, input |-> <<>>,
                   onDone |-> <<T(Under(Dot("m", "a")) \o <<".", "h">>)>>,
                   onError |-> <<T(Under(Dot("bee", "p")) \o <<".", "p2">>)>>] >>,
    !.after = << <<S("100"), <<[T(S("a")) EXCEPT !.reenter = TRUE]>>>> >>,
    !.states = << <<S("p"), P>>, <<S("q"), Q>> >>]
End == [NoState EXCEPT !.type = "final"]
Base == [NoMachine EXCEPT
    !.id = S("m"), !.initial = S("a"), !.entry = <<Act("act")>>,
    !.on = << <<S("RESET"), <<[T(<<".", "a">>) EXCEPT
                  !.targets = <<(<<"#", "bee", ".", "p", ".", "p2">>), (<<"#", "bee", ".", "q">>)>>]>>>>,
              <<S("*"), <<[TransitionConfig(<<>>) EXCEPT
                  !.actions = <<SendTo(S("svc"), Ev("X"), 0, <<>>), SendParent(Ev("Y")), Emit(Ev("Z"))>>]>>>> >>,
    !.states = << <<S("a"), A>>, <<S("b"), B>>, <<S("end"), End>> >>]

-----------------------------------------------------------------------------
(* One thing changed *)

EditA(c, a) == [c EXCEPT !.states[1][2] = a]
EditB(c, b) == [c EXCEPT !.states[2][2] = b]
InA(c) == c.states[1][2]
InB(c) == c.states[2][2]
Edits == 0 .. 30
Edit(k, c) ==
    LET a == InA(c)
        b == InB(c)
    IN
    CASE k = 0 -> c
      [] k = 1 -> [c EXCEPT !.initial = <<>>]
      [] k = 2 -> [c EXCEPT !.initial = Dot("a", "a1")]
      [] k = 3 -> [c EXCEPT !.id = S("bee")]
      [] k = 4 -> [c EXCEPT !.entry = <<Act("act"), NamedAction(S("act2"))>>]
      [] k = 5 -> [c EXCEPT !.on[1][2][1].targets = <<(<<".", "b", ".", "q">>), S("end")>>]
      [] k = 6 -> [c EXCEPT !.on[1][2] = <<>>]
      [] k = 7 -> EditA(c, [a EXCEPT !.initial = S("h")])
      [] k = 8 -> EditA(c, [a EXCEPT !.initial = S("zz")])
      [] k = 9 -> EditA(c, [a EXCEPT !.initial = <<>>])
      [] k = 10 -> EditA(c, [a EXCEPT !.type = "final"])
      [] k = 11 -> EditA(c, [a EXCEPT !.type = "parallel"])
      [] k = 12 -> EditA(c, [a EXCEPT !.id = Dot("m", "b")])
      [] k = 13 -> EditA(c, [a EXCEPT !.id = Dot("m", "end")])
      [] k = 14 -> EditA(c, [a EXCEPT !.id = Dot("m", "x")])
      [] k = 15 -> EditA(c, [a EXCEPT !.exit = <<Act("act2")>>])
      [] k = 16 -> EditA(c, [a EXCEPT !.on[1][2][1].guard = <<Named("ok2")>>])
      [] k = 17 -> EditA(c, [a EXCEPT !.onDone[1].actions = <<SpawnChild(S("svc2"), S("kid"))>>])
      [] k = 18 -> EditA(c, [a EXCEPT !.states[3][2].target = <<>>])
      [] k = 19 -> EditA(c, [a EXCEPT !.states[3][2].target = S("h")])
      [] k = 20 -> EditA(c, [a EXCEPT !.states[3][2].target = Under(S("bee"))])
      [] k = 21 -> EditA(c, [a EXCEPT !.states[3][2].states = << <<S("x"), NoState>> >>])
      [] k = 22 -> EditA(c, [a EXCEPT !.states[2][1] = Dot("a1", "x"),
                                     !.states[3][2].target = S("a1")])
      [] k = 23 -> EditB(c, [b EXCEPT !.after[1][1] = S("SLOW")])
      [] k = 24 -> EditB(c, [b EXCEPT !.after[1][1] = S("SLOW2")])
      [] k = 25 -> EditB(c, [b EXCEPT !.invoke[1].src = S("svc2"), !.invoke[1].id = S("kid")])
      [] k = 26 -> EditB(c, [b EXCEPT !.type = "compound", !.states = <<>>])
      [] k = 27 -> EditB(c, [b EXCEPT !.initialActions = <<Act("act")>>])
      [] k = 28 -> EditB(c, [b EXCEPT !.always = <<T(<<>>)>>])
      [] k = 29 -> [c EXCEPT !.states = <<>>]
      [] k = 30 -> [c EXCEPT !.type = "parallel"]

\* Edits 10, 26 and 29 leave some of the others nothing to change.
Pairs == {p \in Edits \X Edits : p[1] <= p[2] /\ p[1] # 29 /\ (p[2] = 29 => p[1] < 7)}
Edited == {Edit(p[2], Edit(p[1], Base)) : p \in Pairs \cup {<<29, 30>>}}

-----------------------------------------------------------------------------
(* The document that says a configuration; shorthand where there is one if   *)
(* `short'                                                                   *)

Field(key, v) == << <<S(key), v>> >>
FieldIf(present, key, v) == IF present THEN Field(key, v) ELSE <<>>
StrField(key, s) == FieldIf(s # <<>>, key, Str(s))
ListOf(docs, short) == IF short /\ Len(docs) = 1 THEN docs[1] ELSE Array(docs)
EventDoc(e) == Object(Field("type", Str(e.type)))

RECURSIVE GuardDoc(_, _)
GuardDoc(g, short) ==
    CASE g.kind = "named" -> IF short THEN Str(g.name) ELSE Object(Field("type", Str(g.name)))
      [] g.kind = "stateIn" ->
            Object(Field("type", Str(BuiltInGuard("stateIn"))) \o Field("stateIn", Str(g.name)))
      [] OTHER ->
            Object(Field("type", Str(BuiltInGuard(g.kind))) \o
                   Field("guards", Array(MapItems(g.operands, LAMBDA o : GuardDoc(o, short)))))

ActionDoc(a, short) ==
    IF a.kind = "named"
    THEN IF short THEN Str(a.name) ELSE Object(Field("type", Str(a.name)))
    ELSE Object(Field("type", Str(BuiltIn(a.kind)))
         \o FieldIf(a.event # NoEvent, "event", EventDoc(a.event))
         \o FieldIf(a.delayMs # 0, "delay", Number(a.delayMs))
         \o StrField("message", a.message) \o StrField("src", a.src)
         \o StrField(CASE a.kind = "sendTo" -> "to" [] a.kind = "cancel" -> "sendId"
                       [] OTHER -> "id",
                     IF a.kind \in {"raise"} THEN a.sendId ELSE a.name)
         \o FieldIf(a.kind = "sendTo" /\ a.sendId # <<>>, "id", Str(a.sendId)))
ActionDocs(actions, short) == ListOf(MapItems(actions, LAMBDA a : ActionDoc(a, short)), short)

TransitionDoc(t, short) ==
    IF short /\ Len(t.targets) = 1 /\ t = TransitionConfig(t.targets) THEN Str(t.targets[1])
    ELSE Object(
        FieldIf(t.targets # <<>> \/ ~short, "target",
                IF t.targets = <<>> THEN Null ELSE ListOf(MapItems(t.targets, Str), short))
        \o FieldIf(t.guard # <<>>, "guard", GuardDoc(t.guard[1], short))
        \o FieldIf(t.actions # <<>>, "actions", ActionDocs(t.actions, short))
        \o FieldIf(t.reenter \/ ~short, "reenter", Bool(t.reenter)))
TransitionDocs(list, short) == ListOf(MapItems(list, LAMBDA t : TransitionDoc(t, short)), short)
MapDoc(map, short) == Object(MapValues(map, LAMBDA list : TransitionDocs(list, short)))
InvokeDoc(inv, short) ==
    Object(Field("src", Str(inv.src)) \o StrField("id", inv.id)
           \o FieldIf(inv.onDone # <<>>, "onDone", TransitionDocs(inv.onDone, short))
           \o FieldIf(inv.onError # <<>>, "onError", TransitionDocs(inv.onError, short)))
InitialDoc(sc, short) ==
    IF sc.initialActions = <<>> /\ short THEN Str(sc.initial)
    ELSE Object(StrField("target", sc.initial)
                \o FieldIf(sc.initialActions # <<>>, "actions", ActionDocs(sc.initialActions, short)))

RECURSIVE StateDoc(_, _)
\* all but the type, which the root does not have
StateFields(sc, short) ==
    FieldIf(sc.type = "history" /\ (sc.history = "deep" \/ ~short), "history", Str(S(sc.history)))
    \o StrField("id", sc.id) \o StrField("target", sc.target)
    \o FieldIf(sc.initial # <<>> \/ sc.initialActions # <<>>, "initial", InitialDoc(sc, short))
    \o FieldIf(sc.entry # <<>>, "entry", ActionDocs(sc.entry, short))
    \o FieldIf(sc.exit # <<>>, "exit", ActionDocs(sc.exit, short))
    \o FieldIf(sc.on # <<>>, "on", MapDoc(sc.on, short))
    \o FieldIf(sc.after # <<>>, "after", MapDoc(sc.after, short))
    \o FieldIf(sc.always # <<>>, "always", TransitionDocs(sc.always, short))
    \o FieldIf(sc.onDone # <<>>, "onDone", TransitionDocs(sc.onDone, short))
    \o FieldIf(sc.invoke # <<>>, "invoke", ListOf(MapItems(sc.invoke, LAMBDA i : InvokeDoc(i, short)), short))
    \o FieldIf(sc.tags # <<>>, "tags", ListOf(MapItems(sc.tags, Str), short))
    \o FieldIf(sc.output # <<>>, "output", ParseJson(sc.output).value)
    \o FieldIf(sc.states # <<>>, "states", Object(MapValues(sc.states, LAMBDA c : StateDoc(c, short))))
StateDoc(sc, short) ==
    Object(FieldIf(sc.type # "atomic" \/ (~short /\ sc.states = <<>>), "type", Str(S(sc.type)))
           \o StateFields(sc, short))
MachineDoc(c, short) == Object(StateFields(c, short))

-----------------------------------------------------------------------------
(* Texts *)

MCExports == {<<c, MachineDoc(c, short)>> :
                 c \in {Edit(k, Base) : k \in Edits \ {30}}, short \in BOOLEAN}

MCWritten == {Str(<<>>), Str(<<"a", "quote", "LF">>), Str(<<"backslash", "n", "backslash">>),
              Array(<<Str(<<"SOH">>), Bool(TRUE), Object(<<>>), Array(<<>>)>>),
              Object(<< <<S("a"), Array(<<Null, Number(7)>>)>>, <<S("quote"), Bool(FALSE)>> >>)}

\* Every text of up to four tokens, and texts of which one token was left out or
\* replaced, or followed by one more.
Tokens == {Punct(p) : p \in {"{", "}", "[", "]", ",", ":"}}
          \cup {Word("null"), Quoted(<<"a">>), NoNumber}
Short == UNION {[1 .. n -> Tokens] : n \in 0 .. 4}
OneOff(t) == UNION {
    {SubSeq(t, 1, i - 1) \o mid \o SubSeq(t, i + 1, Len(t)) :
        mid \in {<<>>} \cup {<<u>> : u \in Tokens} \cup {<<t[i], u>> : u \in Tokens}} : i \in DOMAIN t}
\* What may stand between quotes, right or wrong.
Strings == {<<Quoted(s)>> : s \in UNION {[1 .. n -> {"backslash", "quote", "n", "x", "u", "0001", "SOH"}]
                                         : n \in 0 .. 3}}
\* Documents that are no machines.
Bad(key, v) == WriteJson(Object(Field(key, v)))
State(key, v) == Bad("states", Object(Field("a", Object(Field(key, v)))))
Trans(v) == Bad("always", v)
With(type, more) == Object(Field("type", Str(type)) \o more)
NoMachines == {
    <<Word("null")>>, Bad("context", Object(<<>>)), Bad("after", Object(<<>>)), Bad("type", Str(S("parallel"))),
    Bad("states", Object(Field("a", Null))), State("type", Str(S("odd"))), State("type", Null),
    State("history", Bool(TRUE)), State("version", Null),
    State("invoke", Null), State("invoke", Object(<<>>)), Trans(Null), Trans(Object(Field("target", Bool(TRUE)))),
    Trans(Object(Field("guard", Null))), Trans(Object(Field("guard", Object(<<>>)))),
    Trans(Object(Field("guard", With(BuiltInGuard("not"), <<>>)))),
    Trans(Object(Field("guard", With(BuiltInGuard("stateIn"), <<>>)))),
    Trans(Object(Field("guard", With(BuiltInGuard("nor"), <<>>)))),
    Bad("entry", Null), Bad("entry", With(BuiltIn("assign"), <<>>)), Bad("entry", With(BuiltIn("raise"), <<>>)),
    Bad("exit", With(BuiltIn("emit"), Field("event", Null))),
    Bad("initial", Object(Field("actions", Array(<<Null>>))))}

OneOffs == UNION {OneOff(WriteJson(v)) : v \in MCWritten}

MCTexts == UNION {Short, Strings, OneOffs, NoMachines}
=============================================================================
