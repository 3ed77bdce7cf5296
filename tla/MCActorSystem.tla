--------------------------- MODULE MCActorSystem ---------------------------
(***************************************************************************)
(* A root that supervises a worker "x", which has a helper "y": the        *)
(* behaviours the runs of ActorSystem give them.                           *)
(***************************************************************************)
EXTENDS ActorSystem

Effects(st, es) == [throws |-> FALSE, status |-> st, effects |-> es]
Nothing == Effects("active", <<>>)
Throws == [throws |-> TRUE, status |-> "active", effects |-> <<>>]

Send(to)  == [kind |-> "send", id |-> "x", to |-> to, type |-> "go"]
Delay(to) == [kind |-> "timer", id |-> "t", to |-> to, type |-> "go"]
Cancel    == [kind |-> "cancel", id |-> "t", to |-> "self", type |-> "go"]
Spawn(c)  == [kind |-> "spawn", id |-> c, to |-> "self", type |-> "go"]
StopIt(c) == [kind |-> "stop", id |-> c, to |-> "self", type |-> "go"]
Fail      == [kind |-> "fail", id |-> "x", to |-> "self", type |-> "go"]

\* start, event, completion of a child, stop
Acts(start, go, report, stop) ==
    [s \in {"start", "stop", "done.actor", "error.actor", "go"} |->
        CASE s = "start" -> start [] s = "go" -> go [] s = "stop" -> stop
          [] OTHER -> report]

\* The root starts the worker with a watchdog timer for it, restarts it or
\* cancels on "go", and may drop it or fail once it has reported.  The worker
\* may start a helper, finish, fail half-way through its effects, and delays
\* what it tells its parent.  Parting effects are sends only, and a child id is
\* free again before it is reused.
Tidy ==
    [a \in {"root", "x", "y"} |->
        CASE a = "root" ->
                Acts({Nothing, Effects("active", <<Delay("x"), Spawn("x"), Send("x")>>)},
                     {Nothing, Effects("active", <<Cancel, StopIt("x"), Spawn("x")>>),
                      Effects("active", <<Delay("self"), Fail>>)},
                     {Nothing, Effects("done", <<StopIt("x")>>)},
                     {Nothing, Effects("active", <<Send("x")>>)})
          [] a = "x" ->
                Acts({Nothing, Throws, Effects("active", <<Spawn("y"), Delay("y")>>)},
                     {Nothing, Effects("done", <<Delay("parent")>>)},
                     {Nothing},
                     {Nothing, Effects("active", <<Send("parent")>>)})
          [] OTHER ->
                Acts({Nothing, Effects("done", <<Send("parent")>>)},
                     {Nothing, Throws},
                     {Nothing},
                     {Nothing, Effects("active", <<Fail, Send("parent")>>)})]

\* An observer of the worker throws when it sees it done; one of the root
\* throws at every change and when the root has stopped.
SomeThrow == {<<"x", "done">>, <<"root", "active">>, <<"root", "stopped">>}
\* One of the worker does when it has stopped.
StopThrows == {<<"x", "stopped">>}

\* The logics here part quietly and free the ids they reuse, and the observers of
\* the first set throw at no child that stops.
ASSUME TidyAssumption ==
    /\ PartingIsQuiet /\ IdsAreFreed
    /\ ObserversAreQuiet(SomeThrow) /\ ~ObserversAreQuiet(StopThrows)
=============================================================================
