----------------------------- MODULE ActorLogics -----------------------------
(***************************************************************************)
(* An actor around one of the two logics whose work goes on outside of the *)
(* executor: logic/async.hpp (fromAsync) and logic/callback.hpp            *)
(* (fromCallback), under the handlers of system.hpp that call them.  The   *)
(* work holds a handle, a Resolver or a CallbackHandle, that it may use    *)
(* from any thread from the moment its body begins, and for ever after.    *)
(*                                                                         *)
(* The actor's parent is the environment: it starts the actor, sends it    *)
(* events and stops it when it likes; `told' is what it hears.             *)
(***************************************************************************)
EXTENDS Naturals, Sequences

CONSTANTS
    MaxQueue,    \* others post only while the queue is shorter
    MaxAnswers   \* bound on the calls of resolve and reject

ASSUME LogicsAssumption == MaxQueue \in Nat \ {0} /\ MaxAnswers \in Nat

VARIABLES
    kind,      \* which logic
    queue,     \* the executor's tasks for this actor
    started,   \* startRequested_
    status,    \* the status of the snapshot, "none" while there is none
    body,      \* the body: "waiting", "running", "returned" or "threw"
    receive,   \* CallbackLogic: whether receive_ is set
    cleanup,   \* CallbackLogic: cleanup_ is "unset" or "set", or "ran"
    told,      \* the completion reports the parent was sent
    answers,   \* what resolve() and reject() were called with, in order
    called     \* changes with every call of the receive handler

work == <<body, receive, cleanup>>
seen == <<told, answers, called>>
vars == <<kind, queue, started, status, work, seen>>

Kind == {"async", "callback"}
Events == {"resolve", "reject", "other"}
Task == {"start", "stop"} \cup Events

Post(task) == queue' = Append(queue, task)

Init ==
    /\ kind \in Kind
    /\ queue = <<>>
    /\ started = FALSE
    /\ status = "none"
    /\ body = "waiting"
    /\ receive = FALSE
    /\ cleanup = "unset"
    /\ told = <<>>
    /\ answers = <<>>
    /\ called = FALSE

-----------------------------------------------------------------------------
(* Any thread *)

Start ==
    /\ ~started
    /\ started' = TRUE
    /\ Post("start")
    /\ UNCHANGED <<kind, status, work, seen>>

Send ==
    /\ Len(queue) < MaxQueue
    /\ Post("other")
    /\ UNCHANGED <<kind, started, status, work, seen>>

Stop ==
    /\ Len(queue) < MaxQueue
    /\ Post("stop")
    /\ UNCHANGED <<kind, started, status, work, seen>>

\* Resolver::resolve and reject, by the body or by whoever it gave the resolver.
Answer ==
    /\ kind = "async" /\ body # "waiting"
    /\ Len(answers) < MaxAnswers
    /\ \E a \in {"resolve", "reject"} : Post(a) /\ answers' = Append(answers, a)
    /\ UNCHANGED <<kind, started, status, work, told, called>>

-----------------------------------------------------------------------------
(* The executor: one task at a time.  The task that runs the body is not     *)
(* over until the body has returned.                                         *)

HeadIs(tasks) == body # "running" /\ queue # <<>> /\ Head(queue) \in tasks

\* becomeError and reportCompletionToParent: the parent hears of the first
\* completion only.
Reported(st) == IF told = <<>> THEN <<st>> ELSE told
Becomes(st) == status' = st /\ told' = Reported(st)

\* doStart, up to the body.
BeginBody ==
    /\ HeadIs({"start"})
    /\ queue' = Tail(queue)
    /\ IF status = "none" THEN status' = "active" /\ body' = "running"
                          ELSE UNCHANGED <<status, body>>
    /\ UNCHANGED <<kind, started, receive, cleanup, seen>>

\* CallbackHandle::onReceive, called by the body.
OnReceive ==
    /\ kind = "callback" /\ body = "running"
    /\ receive' = TRUE
    /\ UNCHANGED <<kind, queue, started, status, body, cleanup, seen>>

\* A callback body returns a cleanup function, or none.
BodyReturns ==
    /\ body = "running"
    /\ body' = "returned"
    /\ cleanup' \in IF kind = "callback" THEN {"unset", "set"} ELSE {cleanup}
    /\ UNCHANGED <<kind, queue, started, status, receive, seen>>

BodyThrows ==
    /\ body = "running"
    /\ body' = "threw"
    /\ Becomes("error")
    /\ UNCHANGED <<kind, queue, started, receive, cleanup, answers, called>>

\* AsyncLogic::transition of a resolve or reject event, in doReceive.
\* (mutant: the status is not asked for, and every completion is reported)
SettleAgain ==
    /\ kind = "async" /\ HeadIs({"resolve", "reject"})
    /\ queue' = Tail(queue)
    /\ IF status \in {"active", "done", "error"}
       THEN LET st == IF Head(queue) = "resolve" THEN "done" ELSE "error" IN
            status' = st /\ told' = Append(told, st)
       ELSE UNCHANGED <<status, told>>
    /\ UNCHANGED <<kind, started, work, answers, called>>

Settle ==
    /\ kind = "async" /\ HeadIs({"resolve", "reject"})
    /\ queue' = Tail(queue)
    /\ IF status = "active"
       THEN Becomes(IF Head(queue) = "resolve" THEN "done" ELSE "error")
       ELSE UNCHANGED <<status, told>>
    /\ UNCHANGED <<kind, started, work, answers, called>>

\* An event the logic does not act on, or a dead letter.
Ignore ==
    /\ HeadIs({"other"})
    /\ kind = "async" \/ ~receive \/ status # "active"
    /\ queue' = Tail(queue)
    /\ UNCHANGED <<kind, started, status, work, seen>>

\* CallbackLogic::transition calls the handler, which may throw.
\* (mutant: the actor's status is not looked at)
CallHandlerAlways ==
    /\ kind = "callback" /\ HeadIs({"other"}) /\ receive
    /\ queue' = Tail(queue)
    /\ called' = ~called
    /\ \/ UNCHANGED <<status, told>>
       \/ Becomes("error")
    /\ UNCHANGED <<kind, started, work, answers>>

CallHandler ==
    /\ kind = "callback" /\ HeadIs({"other"}) /\ receive
    /\ status = "active"
    /\ queue' = Tail(queue)
    /\ called' = ~called
    /\ \/ UNCHANGED <<status, told>>
       \/ Becomes("error")
    /\ UNCHANGED <<kind, started, work, answers>>

\* doStop calls CallbackLogic::onStop whatever the actor has become; what the
\* cleanup function throws is swallowed.
\* (mutant: only an active actor cleans up)
DoStopActive ==
    /\ HeadIs({"stop"})
    /\ queue' = Tail(queue)
    /\ status' = "stopped"
    /\ cleanup' = IF status = "active" /\ cleanup = "set" THEN "ran" ELSE cleanup
    /\ UNCHANGED <<kind, started, body, receive, seen>>

DoStop ==
    /\ HeadIs({"stop"})
    /\ queue' = Tail(queue)
    /\ status' = "stopped"
    /\ cleanup' = IF status # "stopped" /\ cleanup = "set" THEN "ran" ELSE cleanup
    /\ UNCHANGED <<kind, started, body, receive, seen>>

-----------------------------------------------------------------------------
Others == Start \/ Send \/ Stop \/ Answer
Body == OnReceive \/ BodyReturns \/ BodyThrows
Executor == BeginBody \/ Settle \/ Ignore \/ CallHandler \/ DoStop
Next == Others \/ Body \/ Executor

\* The executor runs what it was given (Scheduler, EventLoop's PostedTasksRun).
\* Nobody else has to do anything: a body may run for ever.
Spec == Init /\ [][Next]_vars /\ WF_vars(Executor)

-----------------------------------------------------------------------------
(* Properties *)

\* Every variable has its type.
TypeOK ==
    /\ kind \in Kind
    /\ queue \in Seq(Task)
    /\ started \in BOOLEAN
    /\ status \in {"none", "active", "done", "error", "stopped"}
    /\ body \in {"waiting", "running", "returned", "threw"}
    /\ receive \in BOOLEAN
    /\ cleanup \in {"unset", "set", "ran"}
    /\ told \in Seq({"done", "error"})
    /\ answers \in Seq({"resolve", "reject"})
    /\ called \in BOOLEAN

\* However often and from wherever a resolver is used, the parent hears of one
\* completion, and it is the first answer's, unless the body threw before that
\* answer was handled ("The first outcome wins; later calls hit a non-Active
\* actor and are dropped", async.hpp:13).
FirstOutcomeWins ==
    kind = "async" /\ told # <<>> =>
       told = <<IF body = "threw" \/ answers[1] = "reject" THEN "error" ELSE "done">>

\* Once the cleanup function of a callback actor ran, its handler is not called
\* any more, whatever is still in the queue.
NoCallAfterCleanup == [][called' # called => cleanup # "ran"]_vars

\* A cleanup function that the body returned is run once the actor is stopped,
\* also when a handler threw in between and the actor is an error.
CleanupHappens ==
    (cleanup = "set" /\ \E i \in DOMAIN queue : queue[i] = "stop") ~> cleanup = "ran"
=============================================================================
