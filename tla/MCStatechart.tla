---------------------------- MODULE MCStatechart ----------------------------
(* The interpreter over a family of machines: one tree, fixed moves between *)
(* its states, and two more transitions on one event that range over        *)
(* everything the tree allows.                                              *)
EXTENDS LastExit, MCCharts

\*  0 root --+-- 1 W --+-- 2 P (parallel) --+-- 3 A --+-- 4 a1 (initial)
\*           |         |                    |         +-- 5 a2
\*           |         |                    |         +-- 6 shallow history
\*           |         |                    +-- 7 B --+-- 8 b1 (initial)
\*           |         |                    |         +-- 9 b2 (final)
\*           |         |                    +-- 10 R (atomic)
\*           |         +-- 11 deep history
\*           +-- 12 C
\*           +-- 13 end (final)
PairTree == Tree(<<
    <<NN, "compound", 1, NN>>,
    <<0, "compound", 2, NN>>,
    <<1, "parallel", NN, NN>>,
    <<2, "compound", 4, NN>>, <<3, "atomic", NN, NN>>, <<3, "atomic", NN, NN>>,
    <<3, "shallow", NN, NN>>,
    <<2, "compound", 8, NN>>, <<7, "atomic", NN, NN>>, <<7, "final", NN, NN>>,
    <<2, "atomic", NN, NN>>,
    <<1, "deep", NN, NN>>,
    <<0, "atomic", NN, NN>>, <<0, "final", NN, NN>> >>)

Moves == << On(4, Ext(1), <<5>>), On(8, Ext(1), <<9>>),
            On(2, Ext(2), <<12>>), On(12, Ext(2), <<11>>), On(12, Ext(3), <<6, 9>>) >>

\* For each source (a negative one: with reenter) and each target, a
\* transition on Ext(0).  Internal self-transitions of an atomic state are
\* left out: SelfCharts is about them.
SelfOnAtomic(t) == PairTree.type[t.source] = "atomic" /\ t.targets = <<t.source>>
Free(sources, targets) ==
    LET k == Len(targets)
        transition(src, t) == IF src < 0 THEN Reenter(On(-src, Ext(0), <<t>>))
                                         ELSE On(src, Ext(0), <<t>>)
        all == [i \in 1 .. Len(sources) * k |->
                  transition(sources[((i - 1) \div k) + 1],
                             targets[((i - 1) % k) + 1])]
    IN  SelectSeq(all, LAMBDA t : ~SelfOnAtomic(t))

FreeA == Free(<<2, -2, 3, -3, 4, 5>>, <<2, 3, 4, 5, 6, 7, 9, 11, 12, 13>>)
FreeB == Free(<<-7, 8>>, <<2, 5, 7, 11>>)

PairFamily ==
    [i \in 1 .. Len(FreeA) * Len(FreeB) |->
        Machine(PairTree,
                Moves \o <<FreeA[((i - 1) \div Len(FreeB)) + 1],
                           FreeB[((i - 1) % Len(FreeB)) + 1]>>,
                {},
                (4 :> {"x"}) @@ (5 :> {"x"}) @@ (8 :> {"y"}) @@ (2 :> {"z"}))] \o <<>>

-----------------------------------------------------------------------------
(* Machines that settle: eventless transitions, raised and done events,     *)
(* guards, `after' timers, completion.                                      *)

\*  0 root --+-- 1 idle (initial)
\*           +-- 2 work --+-- 3 w1 (initial)
\*           |            +-- 4 w2 --+-- 5 inner (initial)
\*           |            |          +-- 6 (final)
\*           |            +-- 7 (final)
\*           +-- 8 both (parallel) --+-- 9 R --+-- 10 r (initial)
\*           |                       |         +-- 11 (final)
\*           |                       +-- 12 S --+-- 13 s (initial)
\*           |                                  +-- 14 (final)
\*           +-- 15 end (final)
FlowTree == Tree(<<
    <<NN, "compound", 1, NN>>,
    <<0, "atomic", NN, NN>>,
    <<0, "compound", 3, NN>>, <<2, "atomic", NN, NN>>,
    <<2, "compound", 5, NN>>, <<4, "atomic", NN, NN>>, <<4, "final", NN, NN>>,
    <<2, "final", NN, NN>>,
    <<0, "parallel", NN, NN>>,
    <<8, "compound", 10, NN>>, <<9, "atomic", NN, NN>>, <<9, "final", NN, NN>>,
    <<8, "compound", 13, NN>>, <<12, "atomic", NN, NN>>, <<12, "final", NN, NN>>,
    <<0, "final", NN, NN>> >>)

FlowMoves == <<
    On(1, Ext(1), <<2>>), On(1, Ext(2), <<8>>),
    Raise(On(3, Ext(1), <<4>>), <<Ext(2)>>), On(5, Ext(2), <<6>>),
    On(4, DoneEv(4), <<7>>), On(2, DoneEv(2), <<8>>),
    On(10, Ext(1), <<11>>), On(13, AfterEv(13), <<14>>), Forbid(10, Ext(2)),
    If(On(12, Ext(1), <<14>>), Guard("in", 10)),
    On(8, DoneEv(8), <<15>>),
    Do(On(0, Ext(3), <<>>), "assign"), On(2, AnyEv, <<1>>) >>

\* One more transition, eventless.
FreeAlways ==
    LET sources == <<1, 3, 5, 8, 10>>
        targets == <<1, 4, 8, 14, 15>>
        moveIf  == <<NoGuard, Guard("ctx", 0), Guard("in", 13)>>
        stayIf  == <<NoGuard, Guard("unless", 0), Guard("notIn", 3)>>
        acts    == <<"none", "inline", "assign">>
        moving  == [i \in 1 .. 75 |->
                      If(On(sources[((i - 1) \div 15) + 1], Always,
                            <<targets[(((i - 1) \div 3) % 5) + 1]>>),
                         moveIf[((i - 1) % 3) + 1])]
        staying == [i \in 1 .. 45 |->
                      Do(If(On(sources[((i - 1) \div 9) + 1], Always, <<>>),
                            stayIf[(((i - 1) \div 3) % 3) + 1]),
                         acts[((i - 1) % 3) + 1])]
    IN  SelectSeq(moving, LAMBDA t : t.targets # <<t.source>>) \o staying

\* Leaving r raises, and so do entering 14 and S taking its initial transition.
FlowMachine(extra) ==
    [Machine(FlowTree, FlowMoves \o extra, {3, 13}, (2 :> {"x"}) @@ (13 :> {"y"}))
       EXCEPT !.entry[14] = <<Ext(3)>>, !.exit[10] = <<Ext(2)>>,
              !.initActs[12] = <<Ext(3)>>]
FlowFamily ==
    [i \in 1 .. Len(FreeAlways) |-> FlowMachine(<<FreeAlways[i]>>)] \o <<>>

-----------------------------------------------------------------------------
(* Machines that loop, or nearly do *)

LoopFamily == <<
    FlowMachine(<<Do(On(1, Always, <<>>), "assign")>>),
    FlowMachine(<<On(1, Always, <<8>>), On(8, Always, <<1>>)>>),
    FlowMachine(<<Raise(On(0, Ext(4), <<>>), <<Ext(4)>>)>>),
    FlowMachine(<<Raise(On(3, Always, <<>>), <<Ext(5)>>)>>),
    FlowMachine(<<Do(On(5, Always, <<>>), "inline")>>),
    FlowMachine(<<If(On(10, Always, <<11>>), Guard("ctx", 0))>>),
    Machine(FlowTree, <<On(1, Ext(1), <<8>>), On(8, Ext(1), <<1>>), On(8, DoneEv(8), <<1>>),
                        On(10, Ext(2), <<11>>), On(12, Ext(2), <<14>>),
                        Do(On(1, Always, <<>>), "inline"), On(12, Always, <<>>)>>,
            {}, <<>>) >>

-----------------------------------------------------------------------------
(* Single machines *)

\* a1 handles Ext(0) by an internal self-transition while b1 leaves P.
SelfFamily == <<Machine(PairTree, Moves \o <<On(4, Ext(0), <<4>>), On(8, Ext(0), <<12>>)>>,
                        {}, <<>>)>>

\* A region of a parallel state whose active child is compound and done.
NestedTree == Tree(<<
    <<NN, "parallel", NN, NN>>,
    <<0, "compound", 2, NN>>,
    <<1, "compound", 3, NN>>, <<2, "atomic", NN, NN>>, <<2, "final", NN, NN>>,
    <<1, "final", NN, NN>>,
    <<0, "compound", 7, NN>>, <<6, "atomic", NN, NN>>, <<6, "final", NN, NN>> >>)
NestedFamily == <<Machine(NestedTree,
                          <<On(3, Ext(1), <<4>>), On(2, DoneEv(2), <<5>>),
                            On(7, Ext(2), <<8>>)>>, {}, <<>>)>>

-----------------------------------------------------------------------------
(* Values for Charts.  TLC evaluates a definition once, but what a .cfg     *)
(* substitutes at every use: hence the second name.                         *)
AllFamily == PairFamily \o FlowFamily \o LoopFamily
AllCharts == AllFamily
SelfCharts == SelfFamily
NestedCharts == NestedFamily

-----------------------------------------------------------------------------
(* What the theorems of Configuration_proofs and Statechart_proofs ask of a *)
(* machine *)
ASSUME OrderlyAssumption ==
    \A i \in DOMAIN AllFamily :
        LET ch == AllFamily[i] IN
        /\ Orderly(ch) /\ Exclusive(ch) /\ Calm(ch)
        /\ ShallowRegions(ch) /\ NoFinalRegions(ch)

\* The machine of StatechartSelf is not orderly, and there two transitions
\* that belong to one conflict are both taken; in the machine of
\* StatechartNested a final state lies deep below a region.
ASSUME SelfIsNotOrderly == ~Orderly(SelfFamily[1])
ASSUME NestedIsNotShallow == ~ShallowRegions(NestedFamily[1]) /\ Orderly(NestedFamily[1])
=============================================================================
