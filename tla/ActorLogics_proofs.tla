-------------------------- MODULE ActorLogics_proofs --------------------------
(***************************************************************************)
(* The wrapped work of an actor, for all bounds on its queue and on the    *)
(* answers: a callback handler is not called after the cleanup, and the    *)
(* first outcome is the one that is told.                                  *)
(***************************************************************************)
EXTENDS ActorLogics, TLAPS

Answers == {"resolve", "reject"}

\* Type correctness.
LEMMA TypeCorrect == Spec => []TypeOK
<1> USE LogicsAssumption DEF TypeOK, Task, Events
<1>1. Init => TypeOK
  <2> SUFFICES ASSUME Init PROVE TypeOK
    OBVIOUS
  <2>1. queue \in Seq(Task) /\ told \in Seq({"done", "error"}) /\ answers \in Seq({"resolve", "reject"})
    BY DEF Init
  <2> QED
    BY <2>1 DEF Init, Kind
<1>2. TypeOK /\ [Next]_vars => TypeOK'
  <2> SUFFICES ASSUME TypeOK, [Next]_vars PROVE TypeOK'
    OBVIOUS
  <2> USE DEF work, seen
  <2>1. ASSUME NEW task \in Task, queue' = Append(queue, task) PROVE queue' \in Seq(Task)
    BY <2>1
  <2>2. ASSUME queue # <<>>, queue' = Tail(queue) PROVE queue' \in Seq(Task)
    BY <2>2
  <2>3. ASSUME NEW st \in {"done", "error"}, Becomes(st)
        PROVE  status' = st /\ told' \in Seq({"done", "error"})
    <3>1. <<st>> \in Seq({"done", "error"})
      OBVIOUS
    <3>2. status' = st /\ told' \in {<<st>>, told}
      BY <2>3 DEF Becomes, Reported
    <3>3. told \in Seq({"done", "error"})
      OBVIOUS
    <3> QED
      BY ONLY <3>1, <3>2, <3>3
  <2>4. CASE Start \/ Send \/ Stop
    <3>1. queue' \in Seq(Task)
      BY <2>1, <2>4 DEF Start, Send, Stop, Post
    <3>2. started' \in BOOLEAN /\ UNCHANGED <<kind, status, work, seen>>
      BY <2>4 DEF Start, Send, Stop
    <3> QED
      BY <3>1, <3>2
  <2>5. CASE Answer
    <3>1. queue' \in Seq(Task)
      BY <2>1, <2>5 DEF Answer, Post
    <3>2. answers' \in Seq({"resolve", "reject"})
      BY <2>5 DEF Answer
    <3> QED
      BY <2>5, <3>1, <3>2 DEF Answer
  <2>6. CASE OnReceive \/ BodyReturns
    BY <2>6 DEF OnReceive, BodyReturns
  <2>7. CASE BodyThrows
    BY <2>3, <2>7 DEF BodyThrows
  <2>8. CASE BeginBody \/ Ignore
    <3>1. queue' \in Seq(Task)
      BY <2>2, <2>8 DEF BeginBody, Ignore, HeadIs
    <3> QED
      BY <2>8, <3>1 DEF BeginBody, Ignore
  <2>9. CASE Settle
    <3>1. queue' \in Seq(Task)
      BY <2>2, <2>9 DEF Settle, HeadIs
    <3>2. \/ UNCHANGED <<status, told>>
          \/ status' \in {"done", "error"} /\ told' \in Seq({"done", "error"})
      BY <2>3, <2>9 DEF Settle
    <3> QED
      BY <2>9, <3>1, <3>2 DEF Settle
  <2>10. CASE CallHandler
    <3>1. queue' \in Seq(Task)
      BY <2>2, <2>10 DEF CallHandler, HeadIs
    <3>2. \/ UNCHANGED <<status, told>>
          \/ status' = "error" /\ told' \in Seq({"done", "error"})
      BY <2>3, <2>10 DEF CallHandler
    <3>3. called' \in BOOLEAN
      BY <2>10 DEF CallHandler
    <3> QED
      BY <2>10, <3>1, <3>2, <3>3 DEF CallHandler
  <2>11. CASE DoStop
    <3>1. queue' \in Seq(Task)
      BY <2>2, <2>11 DEF DoStop, HeadIs
    <3> QED
      BY <2>11, <3>1 DEF DoStop
  <2>12. CASE UNCHANGED vars
    BY <2>12 DEF vars
  <2> QED
    BY <2>4, <2>5, <2>6, <2>7, <2>8, <2>9, <2>10, <2>11, <2>12 DEF Next, Others, Body, Executor
<1> QED
  BY <1>1, <1>2, PTL DEF Spec

-----------------------------------------------------------------------------
\* Only a stopped actor has cleaned up, and while the body runs, which is a part
\* of the actor's first task, nothing else becomes of the actor.
CleanupStops ==
    /\ cleanup = "ran" => status = "stopped"
    /\ body = "running" => status = "active"

LEMMA CleanupIsLast == Spec => []CleanupStops
<1> USE DEF CleanupStops
<1>1. Init => CleanupStops
  BY DEF Init
<1>2. TypeOK /\ CleanupStops /\ [Next]_vars => CleanupStops'
  <2> SUFFICES ASSUME TypeOK, CleanupStops, [Next]_vars PROVE CleanupStops'
    OBVIOUS
  <2> USE DEF HeadIs, Becomes, work, seen
  <2>1. CASE Start \/ Send \/ Stop \/ Answer
    BY <2>1 DEF Start, Send, Stop, Answer
  <2>2. CASE OnReceive \/ BodyThrows
    BY <2>2 DEF OnReceive, BodyThrows
  <2>3. CASE BodyReturns
    <3>1. cleanup # "ran" /\ status' = status /\ body' = "returned"
      BY <2>3 DEF BodyReturns
    <3>2. cleanup' # "ran"
      BY <2>3, <3>1 DEF BodyReturns
    <3> QED
      BY <3>1, <3>2
  <2>4. CASE BeginBody \/ Ignore
    BY <2>4 DEF BeginBody, Ignore
  <2>5. CASE Settle \/ CallHandler
    BY <2>5 DEF Settle, CallHandler
  <2>6. CASE DoStop
    BY <2>6 DEF DoStop
  <2>7. CASE UNCHANGED vars
    BY <2>7 DEF vars
  <2> QED
    BY <2>1, <2>2, <2>3, <2>4, <2>5, <2>6, <2>7 DEF Next, Others, Body, Executor
<1> QED
  BY <1>1, <1>2, TypeCorrect, PTL DEF Spec

\* Once the cleanup function of a callback actor ran, its handler is not called
\* any more: the handler is only called while the actor is active.
THEOREM HandlerIsDone == Spec => NoCallAfterCleanup
<1>1. CleanupStops /\ [Next]_vars => [called' # called => cleanup # "ran"]_vars
  <2> SUFFICES ASSUME CleanupStops, [Next]_vars, called' # called PROVE cleanup # "ran"
    OBVIOUS
  <2>1. CASE CallHandler
    BY <2>1 DEF CallHandler, CleanupStops
  <2>2. CASE Others \/ Body \/ BeginBody \/ Settle \/ Ignore \/ DoStop \/ UNCHANGED vars
    BY <2>2 DEF Others, Start, Send, Stop, Answer, Body, OnReceive, BodyReturns, BodyThrows,
       BeginBody, Settle, Ignore, DoStop, vars, work, seen
  <2> QED
    BY <2>1, <2>2 DEF Next, Executor
<1> QED
  BY <1>1, CleanupIsLast, PTL DEF Spec, NoCallAfterCleanup

-----------------------------------------------------------------------------
\* Until an actor has settled, the first of the answers that wait in its queue is
\* the first that was given; there are answers only once the body has begun.
IsFirstAnswer(i) ==
    /\ queue[i] = answers[1]
    /\ \A j \in DOMAIN queue : j < i => queue[j] \notin Answers
FirstWaits ==
    /\ answers = <<>> => \A i \in DOMAIN queue : queue[i] \notin Answers
    /\ answers # <<>> => \E i \in DOMAIN queue : IsFirstAnswer(i)
Unsettled ==
    /\ status = "none" => body = "waiting"
    /\ status = "active" => body # "threw"
    /\ body = "waiting" => answers = <<>>
    /\ status \in {"none", "active"} => told = <<>> /\ FirstWaits
\* What was told rests on an answer, or on the exception of the body.
Settled == told # <<>> /\ body # "threw" => answers # <<>>
Outcome == kind = "async" => Unsettled /\ Settled /\ FirstOutcomeWins

LEMMA WaitsWithMore ==
    ASSUME TypeOK, FirstWaits, NEW task \in Task,
           queue' = Append(queue, task), answers' = answers, task \notin Answers
    PROVE  FirstWaits'
<1>1. /\ DOMAIN queue' = 1 .. Len(queue) + 1
      /\ DOMAIN queue = 1 .. Len(queue) /\ Len(queue) \in Nat
      /\ \A i \in DOMAIN queue : queue'[i] = queue[i]
      /\ queue'[Len(queue) + 1] = task
  BY DEF TypeOK
<1> QED
  BY <1>1 DEF FirstWaits, IsFirstAnswer

LEMMA WaitsWithAnswer ==
    ASSUME TypeOK, FirstWaits, NEW a \in Answers,
           queue' = Append(queue, a), answers' = Append(answers, a)
    PROVE  FirstWaits'
<1>1. /\ DOMAIN queue' = 1 .. Len(queue) + 1
      /\ DOMAIN queue = 1 .. Len(queue) /\ Len(queue) \in Nat
      /\ \A i \in DOMAIN queue : queue'[i] = queue[i]
      /\ queue'[Len(queue) + 1] = a
  BY DEF TypeOK, Answers, Task, Events
<1>2. answers' # <<>>
  BY DEF TypeOK
<1>3. CASE answers = <<>>
  <2>1. answers' = <<a>>
    BY <1>3
  <2>2. \A j \in DOMAIN queue : queue[j] \notin Answers
    BY <1>3 DEF FirstWaits
  <2>3. \A j \in DOMAIN queue' : j < Len(queue) + 1 => j \in DOMAIN queue
    BY <1>1
  <2>4. \A j \in DOMAIN queue' : j < Len(queue) + 1 => queue'[j] \notin Answers
    BY <1>1, <2>2, <2>3
  <2>5. Len(queue) + 1 \in DOMAIN queue' /\ queue'[Len(queue) + 1] = answers'[1]
    BY <1>1, <2>1
  <2>6. \E i \in DOMAIN queue' : /\ queue'[i] = answers'[1]
                                 /\ \A j \in DOMAIN queue' : j < i => queue'[j] \notin Answers
    BY <2>4, <2>5
  <2> QED
    BY <1>2, <2>6 DEF FirstWaits, IsFirstAnswer
<1>4. CASE answers # <<>>
  <2>1. answers'[1] = answers[1]
    BY <1>4 DEF TypeOK
  <2>2. PICK i \in DOMAIN queue : IsFirstAnswer(i)
    BY <1>4 DEF FirstWaits
  <2>3. IsFirstAnswer(i)' /\ i \in DOMAIN queue'
    BY <1>1, <2>1, <2>2 DEF IsFirstAnswer
  <2> QED
    BY <1>2, <2>3 DEF FirstWaits
<1> QED
  BY <1>3, <1>4

LEMMA WaitsWithout ==
    ASSUME TypeOK, FirstWaits, queue # <<>>, Head(queue) \notin Answers,
           queue' = Tail(queue), answers' = answers
    PROVE  FirstWaits'
<1>1. /\ DOMAIN queue = 1 .. Len(queue) /\ Len(queue) \in Nat \ {0}
      /\ DOMAIN queue' = 1 .. Len(queue) - 1
      /\ \A i \in DOMAIN queue' : queue'[i] = queue[i + 1]
      /\ Head(queue) = queue[1]
  BY DEF TypeOK
<1>2. CASE answers = <<>>
  BY <1>1, <1>2 DEF FirstWaits
<1>3. CASE answers # <<>>
  <2>1. PICK i \in DOMAIN queue : IsFirstAnswer(i)
    BY <1>3 DEF FirstWaits
  <2>2. answers[1] \in Answers
    BY <1>3 DEF TypeOK, Answers
  <2>3. i # 1
    BY <1>1, <2>1, <2>2 DEF IsFirstAnswer
  <2>4. i - 1 \in DOMAIN queue' /\ IsFirstAnswer(i - 1)'
    BY <1>1, <2>1, <2>3 DEF IsFirstAnswer
  <2> QED
    BY <1>3, <2>4 DEF FirstWaits
<1> QED
  BY <1>2, <1>3

LEMMA OutcomeIsStable ==
    ASSUME TypeOK, CleanupStops, Outcome, [Next]_vars
    PROVE  Outcome'
<1> SUFFICES ASSUME kind' = "async" PROVE (Unsettled /\ Settled /\ FirstOutcomeWins)'
  BY DEF Outcome
<1>1. kind = "async" /\ kind' = kind
  BY DEF Next, Others, Body, Executor, Start, Send, Stop, Answer, OnReceive, BodyReturns, BodyThrows,
     BeginBody, Settle, Ignore, CallHandler, DoStop, vars
<1>2. Unsettled /\ Settled /\ FirstOutcomeWins
  BY <1>1 DEF Outcome
<1>3. "start" \in Task \ Answers /\ "stop" \in Task \ Answers /\ "other" \in Task \ Answers
  BY DEF Task, Events, Answers
<1>4. CASE Start \/ Send \/ Stop
  <2>1. PICK task \in Task \ Answers : queue' = Append(queue, task)
    BY <1>3, <1>4 DEF Start, Send, Stop, Post
  <2>2. UNCHANGED <<status, body, told, answers>>
    BY <1>4 DEF Start, Send, Stop, work, seen
  <2>3. FirstWaits => FirstWaits'
    BY <2>1, <2>2, WaitsWithMore
  <2> QED
    BY <1>1, <1>2, <2>2, <2>3 DEF Unsettled, Settled, FirstOutcomeWins
<1>5. CASE Answer
  <2>1. PICK a \in Answers : queue' = Append(queue, a) /\ answers' = Append(answers, a)
    BY <1>5 DEF Answer, Post, Answers
  <2>2. UNCHANGED <<status, body, told>> /\ body # "waiting"
    BY <1>5 DEF Answer, work
  <2>3. FirstWaits => FirstWaits'
    BY <2>1, WaitsWithAnswer
  <2>4. answers' # <<>> /\ (answers # <<>> => answers'[1] = answers[1])
    <3>1. answers \in Seq(Answers)
      BY DEF TypeOK, Answers
    <3>2. Len(answers') = Len(answers) + 1 /\ Len(answers) \in Nat
      BY <2>1, <3>1
    <3>3. answers # <<>> => 1 \in 1 .. Len(answers)
      BY <3>1
    <3>4. \A i \in 1 .. Len(answers) : answers'[i] = answers[i]
      BY <2>1, <3>1
    <3>5. answers' # <<>>
      BY <3>2
    <3> QED
      BY <3>3, <3>4, <3>5
  <2>5. Unsettled'
    BY <1>2, <2>2, <2>3 DEF Unsettled
  <2>6. (Settled /\ FirstOutcomeWins)'
    BY <1>1, <1>2, <2>2, <2>4 DEF Settled, FirstOutcomeWins
  <2> QED
    BY <2>5, <2>6
<1>6. CASE OnReceive \/ CallHandler
  BY <1>1, <1>6 DEF OnReceive, CallHandler
<1>7. CASE BodyReturns
  <2>1. status = "active" /\ told = <<>> /\ body' = "returned" /\ UNCHANGED <<queue, status, told, answers>>
    BY <1>2, <1>7 DEF BodyReturns, CleanupStops, Unsettled, seen
  <2>2. FirstWaits'
    BY <1>2, <2>1 DEF Unsettled, FirstWaits, IsFirstAnswer
  <2> QED
    BY <2>1, <2>2 DEF Unsettled, Settled, FirstOutcomeWins
<1>8. CASE BodyThrows
  <2>1. /\ told = <<>> /\ told' = <<"error">>
        /\ body' = "threw" /\ status' = "error"
    BY <1>2, <1>8 DEF BodyThrows, CleanupStops, Unsettled, Becomes, Reported
  <2> QED
    BY <2>1 DEF Unsettled, Settled, FirstOutcomeWins
<1>9. CASE BeginBody \/ Ignore
  <2>1. /\ queue # <<>> /\ Head(queue) \notin Answers /\ queue' = Tail(queue)
        /\ UNCHANGED <<told, answers>>
    BY <1>9 DEF BeginBody, Ignore, HeadIs, Answers, seen
  <2>2. FirstWaits => FirstWaits'
    BY <2>1, WaitsWithout
  <2>3. \/ UNCHANGED <<status, body>>
        \/ status = "none" /\ status' = "active" /\ body' = "running"
    BY <1>9 DEF BeginBody, Ignore, work
  <2>4. Unsettled'
    BY <1>2, <2>1, <2>2, <2>3 DEF Unsettled
  <2>5. told # <<>> => UNCHANGED body
    BY <1>2, <2>3 DEF Unsettled
  <2>6. (Settled /\ FirstOutcomeWins)'
    BY <1>1, <1>2, <2>1, <2>5 DEF Settled, FirstOutcomeWins
  <2> QED
    BY <2>4, <2>6
<1>10. CASE Settle
  <2>1. /\ queue # <<>> /\ Head(queue) \in Answers
        /\ UNCHANGED <<body, answers>>
    BY <1>10 DEF Settle, HeadIs, Answers, work
  <2>2. 1 \in DOMAIN queue /\ Head(queue) = queue[1] /\ DOMAIN queue = 1 .. Len(queue)
    BY <2>1 DEF TypeOK
  <2>3. FirstWaits => answers # <<>> /\ queue[1] = answers[1]
    <3>1. FirstWaits => answers # <<>>
      BY <2>1, <2>2 DEF FirstWaits
    <3>2. \A i \in DOMAIN queue : IsFirstAnswer(i) => i = 1
      BY <2>1, <2>2 DEF IsFirstAnswer
    <3> QED
      BY <3>1, <3>2 DEF FirstWaits, IsFirstAnswer
  <2>4. status # "none"
    BY <1>2, <2>3 DEF Unsettled
  <2>5. CASE status = "active"
    <3>1. answers # <<>> /\ queue[1] = answers[1] /\ told = <<>> /\ body # "threw"
      BY <1>2, <2>3, <2>5 DEF Unsettled
    <3>2. body # "waiting"
      BY <1>2, <3>1 DEF Unsettled
    <3>3. status' = IF answers[1] = "resolve" THEN "done" ELSE "error"
      BY <1>10, <2>2, <2>5, <3>1 DEF Settle, Becomes
    <3>4. told' = <<status'>>
      BY <1>10, <2>5, <3>1 DEF Settle, Becomes, Reported
    <3>5. answers[1] \in {"resolve", "reject"}
      BY <2>1, <2>2, <3>1 DEF Answers
    <3> QED
      BY <2>1, <3>1, <3>2, <3>3, <3>4, <3>5 DEF Unsettled, Settled, FirstOutcomeWins
  <2>6. CASE status # "active"
    <3>1. UNCHANGED <<status, told>>
      BY <1>10, <2>6 DEF Settle
    <3> QED
      BY <1>1, <1>2, <2>1, <2>4, <2>6, <3>1 DEF Unsettled, Settled, FirstOutcomeWins
  <2> QED
    BY <2>5, <2>6
<1>11. CASE DoStop
  <2>1. UNCHANGED <<body, told, answers>> /\ status' = "stopped"
    BY <1>11 DEF DoStop, seen
  <2> QED
    BY <1>1, <1>2, <2>1 DEF Unsettled, Settled, FirstOutcomeWins
<1>12. CASE UNCHANGED vars
  <2>1. UNCHANGED <<queue, status, body, told, answers>>
    BY <1>12 DEF vars, work, seen
  <2> QED
    BY <1>1, <1>2, <2>1 DEF Unsettled, Settled, FirstOutcomeWins, FirstWaits, IsFirstAnswer
<1> QED
  BY <1>4, <1>5, <1>6, <1>7, <1>8, <1>9, <1>10, <1>11, <1>12 DEF Next, Others, Body, Executor

\* The parent hears of one completion, the first answer's unless the body threw
\* before that answer was handled, however often resolve and reject are called.
THEOREM FirstIsTold == Spec => []FirstOutcomeWins
<1>1. Init => Outcome
  BY DEF Init, Outcome, Unsettled, Settled, FirstOutcomeWins, FirstWaits
<1>2. TypeOK /\ CleanupStops /\ Outcome /\ [Next]_vars => Outcome'
  BY OutcomeIsStable
<1>3. Outcome => FirstOutcomeWins
  BY DEF Outcome, FirstOutcomeWins
<1> QED
  BY <1>1, <1>2, <1>3, TypeCorrect, CleanupIsLast, PTL DEF Spec
=============================================================================
