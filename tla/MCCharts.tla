------------------------------ MODULE MCCharts ------------------------------
(* Builders for the machines the statechart runs interpret. *)
EXTENDS Integers, Sequences, FiniteSets, Functions, TLC

NN == -1

\* The same function, stored as a table: TLC evaluates it once.
Table(f) == f @@ <<>>

\* rows[n + 1] = <<parent, type, initial, history default>> of node n
Tree(rows) ==
    LET N == 0 .. (Len(rows) - 1)
        up[n \in N] == {n} \cup IF n = 0 THEN {} ELSE up[rows[n + 1][1]]
    IN  [parent  |-> Table([n \in N |-> rows[n + 1][1]]),
         type    |-> Table([n \in N |-> rows[n + 1][2]]),
         initial |-> Table([n \in N |-> rows[n + 1][3]]),
         default |-> Table([n \in N |-> rows[n + 1][4]]),
         up      |-> Table([n \in N |-> up[n]])]

Ext(k)     == [type |-> "ext", of |-> k]
AfterEv(n) == [type |-> "after", of |-> n]
DoneEv(n)  == [type |-> "done", of |-> n]
Always     == [type |-> "always", of |-> 0]
AnyEv      == [type |-> "any", of |-> 0]

NoGuard == [kind |-> "none", of |-> 0]
Guard(k, n) == [kind |-> k, of |-> n]

On(source, event, targets) ==
    [source |-> source, event |-> event, targets |-> targets, guard |-> NoGuard,
     reenter |-> FALSE, forbidden |-> FALSE, act |-> "none", raise |-> <<>>]
If(t, guard) == [t EXCEPT !.guard = guard]
Reenter(t)   == [t EXCEPT !.reenter = TRUE]
Do(t, act)   == [t EXCEPT !.act = act]
Raise(t, s)  == [t EXCEPT !.raise = s]
Forbid(source, event) == [On(source, event, <<>>) EXCEPT !.forbidden = TRUE]

\* A machine of the given tree, transitions, delayed states and invocations (a
\* function from some states to sets of child ids).
Machine(tree, trans, delayed, inv) ==
    LET N == DOMAIN tree.parent
        None == Table([n \in N |-> <<>>])
    IN  tree @@ [trans |-> trans, delayed |-> delayed,
                 invokes |-> inv @@ [n \in N |-> {}],
                 entry |-> None, exit |-> None, initActs |-> None,
                 events |-> {e \in {trans[i].event : i \in DOMAIN trans} :
                                e.type = "ext"}]

=============================================================================
