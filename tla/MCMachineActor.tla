--------------------------- MODULE MCMachineActor ---------------------------
(* Machines for MachineActor, and the bounds of its runs. *)
EXTENDS MachineActor

Raise(event, delay, id) == [kind |-> "raise", id |-> id, to |-> NoName, event |-> event, delay |-> delay]
SendTo(to, event, delay, id) == [kind |-> "send", id |-> id, to |-> to, event |-> event, delay |-> delay]
Cancel(id) == [kind |-> "cancel", id |-> id, to |-> NoName, event |-> NoName, delay |-> 0]
ForChild(kind, child) == [kind |-> kind, id |-> NoName, to |-> child, event |-> NoName, delay |-> 0]
Way(from, event, target, actions) ==
    [from |-> from, event |-> event, target |-> target, reenter |-> FALSE, actions |-> actions]
Reentering(way) == [way EXCEPT !.reenter = TRUE]

None(states) == [s \in states |-> <<>>]
States == {"a", "b", "c"}
All == {Top} \union States

\* b waits for its child, at most two units: entered again, left and come back
\* to, and b tells the child to finish after one unit.  NUDGE goes to the
\* child at once, PING to nobody when there is no child.
Waiter ==
    [initial |-> "a", final |-> {},
     entry |-> [None(All) EXCEPT !["b"] = <<SendTo("kid", "FINISH", 1, "nudge")>>],
     exit |-> [None(All) EXCEPT !["b"] = <<Cancel("nudge")>>],
     after |-> [None(States) EXCEPT !["b"] = <<2>>, !["c"] = <<1>>],
     invokes |-> [None(States) EXCEPT !["b"] = <<"kid">>],
     trans |-> <<Way("a", External("GO"), "b", <<SendTo("kid", "PING", 0, NoName)>>),
                 Way("b", External("GO"), NoName, <<SendTo("kid", "FINISH", 0, NoName)>>),
                 Way("b", DoneActor("kid"), "c", <<>>),
                 Way("b", AfterEvent("b", 1), "a", <<>>),
                 Way("c", AfterEvent("c", 1), "b", <<Raise("GO", 0, NoName)>>)>>]

\* The same child, stopped and started again by GO whatever it is doing; the
\* machine is done once it hears of it, two steps into a macrostep.
Restarter ==
    [initial |-> "b", final |-> {"c"},
     entry |-> [None(All) EXCEPT !["a"] = <<Raise("NEXT", 0, NoName)>>],
     exit |-> [None(All) EXCEPT !["a"] = <<Raise("GO", 0, NoName)>>,
                                !["c"] = <<ForChild("stopChild", "temp")>>],
     after |-> None(States),
     invokes |-> [None(States) EXCEPT !["b"] = <<"kid">>],
     trans |-> <<Reentering(Way("b", External("GO"), "b", <<>>)),
                 Way("b", DoneActor("kid"), "a", <<ForChild("spawnChild", "temp")>>),
                 Way("a", External("NEXT"), "c", <<>>)>>]

\* Done while what it sent itself is still to come.
Sender ==
    [initial |-> "a", final |-> {"c"},
     entry |-> [None(All) EXCEPT !["b"] = <<Raise("LATER", 2, NoName)>>],
     exit |-> None(All),
     after |-> [None(States) EXCEPT !["b"] = <<1>>],
     invokes |-> [None(States) EXCEPT !["b"] = <<"kid">>],
     trans |-> <<Way("a", External("GO"), "b", <<>>),
                 Way("b", External("GO"), "c", <<>>),
                 Way("b", AfterEvent("b", 1), "a", <<>>),
                 Way(Top, External("LATER"), "c", <<>>)>>]

Patient == {Waiter, Restarter}
Hasty == {Sender}
ASSUME TidyAssumption == \A x \in Patient \union Hasty : Tidy(x)

MCChildIds == {"kid", "temp"}
MCObjects == 1 .. 4
=============================================================================
