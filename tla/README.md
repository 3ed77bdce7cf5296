# xstate4cpp in TLA+

A verification project for xstate4cpp, the C++ port of XState v5: TLA+ modules
of its interpreter, its actor runtime, its persistence, its import and its
platform adapters, the TLC configurations that check them, and proofs that TLAPS
checks. Line numbers refer to `src/include/xstate/` at the commit beside this
directory. `PROJECT.json` holds the details: for every definition the lines it
models, for every run its properties, for every property a plausible bug (a
"mutant" of a definition) that breaks it, and the list of hazards the properties
are aimed at.

Check a run with `tlc -config X.cfg M`, a proof module with `tlapm M.tla`.

## The system and its parts

| part | code | state | operations |
|---|---|---|---|
| statechart interpreter | `machine/machine.hpp` | none of its own: it maps a snapshot (configuration, history, context, status) and an event to a snapshot and effects | `getInitialSnapshot`, `transition`, `onStop` |
| machine creation | `machine/config.hpp`, `machine.hpp:934` | the tree of state nodes, fixed after `createMachine` | `createMachine`, target resolution |
| JSON import | `json.hpp`, `detail/json_value.hpp`, `detail/json_writer.hpp` | none | `parseJson`, `writeJson`, `parseMachineJson` |
| actor runtime | `system.hpp`, `actor.hpp` | per actor: snapshot, children, timers, observers, whether its completion was reported | `start`, `send`, `stop`, effects, timers, `becomeError`, reports |
| actor logics | `actor_logic.hpp`, `logic/` | the state of the wrapped work | `fromAsync`, `fromCallback`, `fromTransition`; a machine is a logic, too |
| persistence | `machine.hpp`, `system.hpp`, `snapshot.hpp` | a value that outlives the system | `getPersistedSnapshot`, `restoreSnapshot`, `getPersistedSnapshotJson`, `parseSnapshotJson` |
| state values | `state_value.hpp` | none | `matches`, paths, the way from and to a configuration |
| executor and clock | `interfaces/` | | `post`, `setTimeout`, `clearTimeout` |
| event loops | `adapters/posix`, `adapters/win32` | queue, timers, `stopping_`, `joined_` or `thread_`, a mutex and a condition variable | `post`, `setTimeout`, `clearTimeout`, `stop`, the loop |
| manual adapters | `adapters/manual` | queue; virtual time and timers | `post`, `pump`; `setTimeout`, `clearTimeout`, `advance` |
| inspection | `system.hpp` | | callbacks and their text |

A machine is imported and created once. From then on the parts interact through
the executor. Any thread may call `send`, `start` and `stop` of an actor, which only
post a task. The executor runs one task at a time: it takes the event to the actor's
logic, stores the snapshot that comes back, executes the effects (sends and stops
are posted again; timers are set at the clock; children are created on the spot
and their start is posted), reports a completion to the parent and calls the
observers. The clock calls back on the same thread, between tasks. Stopping an
actor stops its children by a nested call. A system may be persisted between two tasks;
a new one, in another process, starts from what was persisted.

What is hard about it, and hardly reached by the tests:

- transitions of several parallel regions at once, with targets in each other's
  regions, history, completion and re-entry;
- macrosteps that go on by eventless transitions and raised events;
- everything that was posted before something changed: events of timers that
  were cancelled since, reports of children that were replaced, starts of
  actors that were stopped, answers of work nobody waits for any more;
- a crash between any two tasks: what was posted, timed and started is gone and
  has to be made up from the snapshot;
- user code that throws anywhere: in a logic, an effect, an observer, a body;
- the threads around the event loop: wake-ups, timers that are set while it
  sleeps, `stop()` from several threads or from its own;
- timers that race with clearing, and the two readings of the clock;
- a creation in two passes, in which the second relies on what the first checked, and
  a document format with several shorthands for everything.

## Modules

| module | models | |
|---|---|---|
| `Lifecycle` | what an observer of one actor may rely on: the order of its statuses | abstract |
| `Scheduler` | what `interfaces/` promise: tasks in order and one at a time, timers never early, in order and at most once | abstract |
| `MachineShape` | what a machine is for the interpreter (`IsChart`) | shared: what creation guarantees and interpretation assumes |
| `Statechart` | `machine.hpp`: entry, selection, microsteps, settling, finishing | implements `Lifecycle` |
| `Persistence` | state values, persisted snapshots in both forms, restoring | extends `Statechart` |
| `LastExit` | a history variable: what was active at the last exit of every history state's parent | extends `Persistence` |
| `Json` | `detail/json_value.hpp`, `detail/json_writer.hpp` | |
| `MachineJson` | `json.hpp`: what it reads and what it refuses | extends `Json` |
| `MachineSetup` | `createMachine`: the two passes, target resolution, every check | extends `MachineJson`, `MachineShape` |
| `MachineImport` | an import from text to machine | extends `MachineSetup` |
| `MachineActor` | one machine in its actor, with the effects of its macrosteps, timers, children and crashes | |
| `ActorSystem` | `system.hpp`: all actors of a system, the executor's queue, the clock | implements `Lifecycle`, once per actor |
| `ActorLogics` | `logic/async.hpp`, `logic/callback.hpp` with the threads that use their handles | |
| `EventLoop` | `adapters/posix/event_loop.hpp` | implements `Scheduler` |
| `Win32EventLoop` | `adapters/win32/event_loop.hpp`: what differs from the POSIX loop | extends `EventLoop` |
| `ManualAdapters` | `adapters/manual/` | implements `Scheduler` |
| `MCCharts`, `MCStatechart` | operators to write machines with; the families of machines checked | instance |
| `MCMachineImport` | texts, documents and configurations to import | instance |
| `MCMachineActor` | the machines of `MachineActor`'s runs | instance |
| `MCActorSystem` | the logics of the actors checked | instance |
| `MCEventLoop` | both event loops on one instance | instance |
| `Configuration_proofs` | the tree of states, selection, legal configurations, history | proofs about `Statechart` |
| `Statechart_proofs` | types, lifecycle, timers, children, conflicts, rest, completion | extends `Configuration_proofs` |
| `Persistence_proofs` | the way to a persisted value and back; what restarts keep; the properties of the interpreter across restarts | proofs about `Persistence` and `LastExit`, extends `Statechart_proofs` |
| `EventLoop_proofs` | the loops of both platforms | proofs about `EventLoop` and `Win32EventLoop` |
| `ActorSystem_proofs` | the runtime; what actors leave behind when they stop | proofs about `ActorSystem` |
| `MachineActor_proofs` | lists of effects, the actor that executes them, what a macrostep keeps | proofs about `MachineActor` |
| `ActorLogics_proofs`, `ManualAdapters_proofs` | the logics; the manual adapters | proofs about the modules of those names |

`ActorSystem` uses the executor and clock by what `Scheduler` says of them: its
queue is first in first out, and its timers fire between tasks, in any order
(the order of deadlines is the adapters' business, and it does not know delays).
`MachineImport` ends with what `Statechart` begins with: the property
`AcceptedIsChart` of the one is the assumption `ChartsAssumption` of the other.

### Statechart

The machine is data. `Charts` is a sequence of records (tree, types, initial
states, history defaults, transitions, entry, exit and initial raises, delayed
states, invocations); one of them is picked in the initial state, so that one
run goes over a whole family. A node is its document index and a configuration
a set of nodes, where the code keeps a sorted vector. `IsChart` states what
`createMachine` guarantees, and some things it does not, which are assumptions
here: a node is numbered after its parent and all that was built before it, so that the
nodes below a state follow it without a gap (`buildNode` counts as it descends,
machine.hpp:938-981); the root and every compound state have children, a history state has none,
and a history state's default is not itself a history state, lies inside the
history's parent, and when the history state is an initial state is a child of that parent.
(Without the last ones `addInitial`, machine.hpp:397, may recurse for ever or leave a
configuration incomplete.)

One task of the executor is a macrostep: `Start` or `Receive` or `ReceiveAfter`,
then `EventlessStep`s and `RaisedStep`s until `Settle` or `Finish`, with `Throw`
possible before that. Outside of a macrostep an armed timer may fire (`Fire`),
which only posts its event: it is handled later, whatever happened since.
`Microstep` is the whole of `Machine::microstep`: exits, history, entry requests (a transition may have several targets),
completion of the configuration, raised events in order of exits, transitions
and entries, done events, timers and children. Contexts are one bit, which the
guards look at and `assign` flips. Payloads, outputs, tags and emitted events are
left out.

### Persistence

`Restart` persists a machine at rest and restores it at once. Whatever happens between
the two is lost with the process, so every state a later crash could lead to is
reached; that timers, children and messages in flight are lost in between is
`MachineActor`'s subject. The value is built from the configuration and the
configuration from the value, as in the code, and so is the JSON form, which the code
allows only while there are no children. A key is identified with the child it names.
A value is not nested here: it says of every place in the tree whether the value has
an object there (`Mapped`), the name of a state (`LeafOf`), or nothing, and a place is the
node at the end of its path. So what the code does by descending the value
(`configFromStateValue`, `contains`) is a statement about all nodes at once, and needs no
recursion.

`LastExit` adds what the properties of history need and the interpreter does not have: a
variable `left` that says what was active below each history state's parent when the parent
was last left. It follows the configurations before and after each step and never looks at the record
(`hist`, the code's `historyValue`); a state that is active before a step and
entered by it was left, too, and a macrostep that throws takes its exits back. `HistoryIsLastExit`
compares the record with it in every state, so a record that is lost or overwritten anywhere between
exit and use is a violation, and `HistoryRestored` says what a transition to a history state brings
back in terms of `left` alone.

### MachineImport

`ParseText`, `ImportDoc`, `Build` and `Wire` are one action per pass; a pass that throws
ends the import with the exception's type. A text is a sequence of tokens and a string
a sequence of pieces (a special character, or a stretch of text nothing looks into), so
`Joined` and `SplitDots` work on dots for what they are. For everything that
`json.hpp` reads, `MachineJson` has one operator that says whether it is readable and
one that says what is read. Simplifications: the keys of an object are distinct; numbers are
integers; the `after` map is kept in the order it is written in, where the code sorts its
keys; the digits of an `after` key fit; white space and `\u` escapes other than one
control character are left out.

### MachineActor

Here the machine is flat, and all the attention is on the effects of a macrostep: their
order (those of exit actions, cancelled delays, stopped children, transition actions,
spawned children, entry actions, started delays), the send ids of delayed raises and
sends, which count from 0 in each microstep, `cancel`, `spawnChild` and `stopChild`, and
the actor that executes them. Timers have delays and the clock ticks. A child is a machine
that is done once it is told to finish; the object is gone when nobody refers to it any more.
The actor's state that effects change is a record, the shell, and `ExecuteEffects` goes through
a list of effects as a function of how many were executed; `Stabilize` goes through the
raised events in the same way. Two tasks do not run at all, so that no bound cuts one short: one
that needs more child objects than `Objects` has (`room`), and one whose macrostep raises
more than `StepLimit` events (the code's limit is 1 000 000, and it throws there).
`Persist` may be taken between any two tasks and `Crash` at any later moment;
`RestoreMachine` then starts from the snapshot. Left out: delays and invocations of the
root, the order of initial actions relative to entry actions, exceptions of user code (see
`ActorSystem`), `sendParent`, `emit` and `log`.

### ActorSystem

A session is an actor in order of creation. A task is several steps, one for
each effect, so that other threads can post in between; `cur` is the actor whose
handler runs and `pc` where it stands. In a nested stop several actors are at
`stopChildren`, each with the children it has still to visit in `todo`. What a
logic answers is given by the constant `Behaviour`: for an id and a stimulus a set of
outcomes (throw, or a status and a list of effects), of which any may happen.
"fail" is an effect whose execution throws. `ObserversThrow` says whose observers
may throw when they see which status. Not modelled: the receptionist (`systemId`), the destruction of
actors nobody refers to, and a parent that is gone before its children.

### ActorLogics

A single actor whose body has handed out a `Resolver` or a `CallbackHandle`, which
is used from any thread, before the body returns and long after the actor is
stopped. Its parent is the environment.

### EventLoop, Win32EventLoop and ManualAdapters

What a caller of the event loop does under the mutex is one action, enabled while
the mutex is free; the loop keeps the mutex in two of its states, `check` and
`timing`. `timing` lies between the two readings of the clock for a timed wait.
A wait may end spuriously. `stop()` is three steps: signal, look at `joined_`
and join, because `joined_` is not guarded. Tasks may call everything the other
threads may, `stop()` included.

The Win32 loop has the same algorithm over other primitives, so `Win32EventLoop` takes the
steps they share from `EventLoop`, under names of its own, and replaces the rest. A
timed wait is rounded up to milliseconds and cut off to a DWORD (`WaitMs`), whose largest
value means for ever (`Lasting`); `Ms` says how many readings of the clock a
millisecond has. `stop()` waits for the thread's handle: nobody fails to join, but a
task that stops its own loop waits for itself for ever, so `MCEventLoop` leaves that
one call out. A handle that was closed may be given out again; a second waiter that meets
such a handle is left out.

In `ManualAdapters` the owner calls `pump()` and `advance()`, and tasks may post,
set and clear timers and throw; they are taken not to pump or advance themselves.

## Runs

| run | instance | shows |
|---|---|---|
| `statechart_families` | 700 pairs and flows and 7 machines that loop or nearly do, persisted and restored at any rest; 100 739 states | configurations stay legal (`LegalConfiguration`), the transitions taken are those the conflict rule leaves (`ConflictsResolved`), the record of a history state is what was active at the last exit, whatever happened since (`HistoryIsLastExit`), and that is what comes back (`HistoryRestored`), timers and invoked children are those of the configuration, `done.state` events are raised for complete states, once, the machine only rests when nothing is enabled, `matches` tells which states are active, a restart loses nothing, a macrostep ends, the step limit stops only machines that can loop, and the machine is an actor for its observers |
| `statechart_self` | one machine | a disagreement, see below |
| `statechart_nested` | one machine | a disagreement |
| `actor_system` | a root, workers and helpers, 4 sessions, throwing logics and observers; 380 020 states | timers and clock agree, a child's start precedes everything sent to it, no completion is reported twice, completion is told, a stopped actor leaves nothing behind, a stop reaches every actor, every actor has an actor's lifecycle |
| `actor_stop_throws` | three sessions, an observer of a child's stop throws | a disagreement |
| `actor_logics` | either logic, 3 tasks waiting, 3 answers | the first outcome wins, the handler is not called after the cleanup, the cleanup happens |
| `event_loop` | either loop, two threads and the loop's, 2 tasks, 2 timers; 103 611 states | it is a scheduler, loses no wake-up, runs what it was given, and `stop()` returns |
| `event_loop_stop` | two threads that stop | a disagreement |
| `manual_adapters` | 2 tasks, 3 timers, time to 5 | they are a scheduler, and time never passes over a timer |
| `machine_import` | all texts of up to 4 tokens, texts with one mistake, a machine that uses everything as a configuration with up to two edits, and as a document in long and short form; 18 249 states | parser and writer are inverse, an export is read as it was, what is accepted is a machine for the interpreter, its names are bound, its states can be targeted |
| `machine_actor` | two machines, 4 child objects, up to 2 crashes; 20 107 states | completions arrive, children are owned, states with a delay are left |
| `machine_actor_done` | one machine | a disagreement |

Bounds and why they suffice. A conflict is between two transitions, so `PairFamily`
has one tree (a parallel state with two regions, shallow and deep history, an outer
state, a final state) and two transitions on one event that range over
the sources and targets the tree has, beside fixed moves that bring the machine into every
configuration. `FlowFamily` has one tree with nested completion and a parallel
state, and one more eventless transition that ranges over sources, targets,
guards and actions. `StepLimit` is 10 instead of 1 000 000: the longest macrostep
of a machine that does not loop is shorter, and the property says that no other
reaches the limit. In `ActorSystem` four sessions are enough for a parent, a
child and a grandchild and for one that takes the place of another; other threads post
only while fewer than `MaxQueue` tasks wait, and a logic's answers are taken
among those for which there are sessions and timers left
(so that no bound stops an effect half-way). The event loops' clock
runs to twice the last deadline; on Win32 a millisecond is 2 readings of it, so that timers are due
within one, and `Infinite` is 3, just more than any wait (`WaitsAreFinite`; the real one is 49 days). A check of the import concerns one or two places of a
configuration, and the edits are made in pairs; four tokens reach every branch of the
parser. In `MachineActor` a second crash is one that meets a machine that was
restored; four objects are enough for a child, its successor, one that is being stopped and
one of another id; its macrosteps raise fewer than `StepLimit` = 4 events. Every bound is a constant of its module.

Deadlock is not checked: all of these systems may stop.

### Fairness

- `Statechart`: an executor that has begun a macrostep goes on with it
  (`Fairness`, weak fairness of the settling steps, written out since TLC is
  slow with ENABLED of a microstep). A call of `transition` does return.
- `ActorSystem`, `ActorLogics`, `MachineActor`: weak fairness of the executor's steps
  (`RunsWhatIsPosted`, in `MachineActor`, is weak fairness of `RunTask` written out). The
  adapters justify it: `EventLoop` checks that posted tasks run.
  In the first two a clock may never call back, and nobody has to send anything. In
  `MachineActor` time passes and due timers fire, as `EventLoop`'s property `TimersEnd`
  says, and a crash may put the delays off, but only `MaxCrashes` times.
- `EventLoop`, `Win32EventLoop`: weak fairness of the loop's steps, of the mutex and of the clock;
  a thread that called `stop()` goes on. Tasks end. Callers need not call. The
  posts are finitely many; with posts that never end a timer may never fire
  (event_loop.hpp:124 runs all tasks before any timer).

### Where the code and its own words disagree

1. `statechart_self` (machine.hpp:554): a state's internal self-transition is
   taken together with a transition of another region that leaves the parallel
   state, and then enters its source again although "the source does not" re-enter; the
   configuration is illegal afterwards. `PairFamily` leaves out self-transitions of atomic states
   for this reason.
2. `statechart_nested` (machine.hpp:693): a parallel state counts as done when a
   deeper state of a region is final, although the region is not "in a final
   state". The other runs have no region whose active child is a compound state with a final child.
3. `actor_stop_throws` (system.hpp:265): an observer that throws while a child is being
   stopped leaves the parent and the other children running. The observers of
   `actor_system` therefore throw everywhere but there.
4. `event_loop_stop` (posix/event_loop.hpp:84): of two threads that stop the
   loop, one may return before the loop has exited.
5. `machine_actor_done` (machine.hpp:213): a machine that is done still holds the timer
   of a delayed raise, although "timers are cancelled" (machine.hpp:210-212).

Without a run of its own: the entry and exit actions of the root are not looked up when a
machine is created (`wireRoot`, machine.hpp:983), although "unbound names throw ConfigError
there" (json.hpp:6-7); they throw `std::out_of_range` when the machine starts or stops.
`NamesAreBound` leaves those two lists out.

Noted while modelling, where nothing in the repository says otherwise:

- `parseNumber` takes what `std::stod` reads from the front of a run of number
  characters ("1-2" reads as 1), and strings may hold raw control characters.
- `parseMachineJson` refuses `type`, `after`, `invoke` and `tags` at the root.
- A history child with a default, directly below a parallel state, is taken for a missing region
  (machine.hpp:879), and restoring puts it into the configuration (machine.hpp:289).
- A parallel state below the root whose regions are final states raises no done event
  (machine.hpp:711).
- Anonymous delayed sends count from 0 in each microstep: a later one replaces an earlier
  one (machine.hpp:206).
- Delayed sends, unlike `after` timers, are lost when a machine is restored.
- A completion report carries the child's id and not its session (system.hpp:414); a child whose id is taken
  over is no longer stopped with its parent (system.hpp:347).
- A Win32 wait of 2^32 - 1 ms, or of that many more than a multiple of 2^32, is a wait for ever: the timer fires late, when
  something else wakes the loop (win32/event_loop.hpp:155). A longer wait is cut off, which
  only makes the loop look too often.
- Timers and children are cleared before the parting effects of a stopped actor, which may
  start new ones (system.hpp:256).

## Proofs

All theorems hold for all values of the constants that satisfy the named
assumptions, and TLC evaluates these on every run. Some need more of the machines
or of the logics than the code enforces; these are hypotheses of the theorem, stated
below, and TLC evaluates them for the instances of the runs.

### The interpreter

| theorem | states | of machines that are | argument |
|---|---|---|---|
| `TypesAreKept` | `TypeOK` | any | `TypeInv`: the types, and those of what a macrostep falls back to |
| `HasALifecycle` | `ImplementsLifecycle` | any | `StatusInv`: a macrostep works on a snapshot that is active or done and falls back to one that is not started or active; the steps in between are stutters for an observer |
| `TimersOfTheConfiguration` | `TimersFollowConfig` | any | `TimerInv`: a microstep never drops a state it does not exit (`MicrostepTimers`), so a timer it does not cancel still belongs to an active state. It holds of illegal configurations too |
| `ConfigurationsAreLegal` | `LegalConfiguration` | orderly | `LegalInv`, see below |
| `ConflictsAreResolved` | `ConflictsResolved` | orderly | candidates come in document order and their domains are nested or apart (`CandidatesAreNested`), so between a candidate that is given up and one that blocked it there is nobody who could drop the latter (`RoundLosesNone`) |
| `ChildrenOfTheConfiguration` | `ChildrenFollowConfig` | orderly, exclusive | of two states with one child id one at most is active before and after, so a spawn finds its id free or hands it over |
| `RestsAreStable` | `RestsStable` | orderly, calm | `RestInv`: when the eventless loop stops for want of progress, the same transitions would be selected again, and they have no target |
| `DoneStatesAreComplete` | `DoneIsComplete` | shallow | a region that `isInFinal` accepts is complete, from the deepest parallel state up (`InFinalIsComplete`) |
| `CompletionIsAnnounced` | `CompletionAnnounced` | orderly, without final regions | the converse (`CompleteIsInFinal`) needs that a compound state has one active child; and a root that was not complete is only completed by a state that is entered (`CompleteGrows`) |

`LegalInv` is the configuration's legality together with `Memory`: every history state holds
nothing, or a part of a legal configuration below its parent that can be entered again.
Without the latter a microstep could leave a legal configuration for an illegal one by way
of history. A microstep is three facts: what is not exited is the upper part of a
legal configuration (`WhatStays`), what is entered joins it without giving a compound state
a second child (`EnteredIsPartial`), and completion adds what is missing
(`CompletionIsLegal`). No induction over the tree is needed: the numbers of the nodes are finitely many and
a counterexample has a greatest or a least node. Two recursive definitions are
about the tree all the same, `InFinal` and the property's `Complete`; that a function
that satisfies the equation exists is proved with the least set that is closed under
it (`NeedsAreMet`).

The kinds of machines, each with what goes wrong otherwise:

- *Orderly* (`MachineShape`): history states are children of compound states and, when initial, have
  a default; the targets of one transition lie in different regions; an
  internal transition to the source or inside it starts at a state with children. The code checks none of
  these. The machine of `statechart_self` violates the last one, and its configuration becomes illegal.
- *Exclusive*: two states that invoke under one id are never active together. Otherwise the
  second takes the id over from the first, and one child serves two states.
- *Calm* (`Statechart`): eventless transitions without targets do not write the context
  by inline actions while others guard on it. The loop stops after such a step on purpose
  (machine.hpp:738-742), so that a guard that came true with it is not looked at before the next event.
- *Shallow*: the final states below a compound region are its children. The machine of
  `statechart_nested` is not, and there a region counts as done too early.
- *Without final regions*: no region of a parallel state is a final state itself (see
  "Noted while modelling").

The machines of `statechart_families` are all of these (`OrderlyAssumption`), and those of the two
other runs fail in the way described (`SelfIsNotOrderly`, `NestedIsNotShallow`).

### Persistence

The theorems above are about a machine that is never restarted (`Spec` of `Statechart`). These are
about `DurableSpec`, in which it is persisted and restored at any rest, any number of times, and the
two about history about `WitnessedSpec`, which is `DurableSpec` with the history variable and what
`statechart_families` checks.

| theorem | states | of machines that are | argument |
|---|---|---|---|
| `RestartsLoseNothing` | `RestartKeepsState` | orderly | a legal configuration is that of its value (`ValueComesBack`), and both forms hold the same (`FormsAreFaithful`) |
| `MatchesTellsActive` | `MatchesIsActive` | orderly | the value maps active states only (`MappedIsActive`, `ValueIsActive`) and has a leaf or an object for each |
| `DurableMachinesAreLegal` | `TypeOK`, `LegalConfiguration`, `ConflictsResolved`, `TimersFollowConfig` | orderly | `DurableInv`: the invariants of the interpreter and `RestorableInv` |
| `HistoryIsOfTheLastExit` | `HistoryIsLastExit` | orderly | `HistoryInv`: a microstep exits what is active before it and is not active, or is entered, in it (`MicrostepRecords`), for what it does not exit is never dropped; a throw falls back to the record that goes with what `left` was when the macrostep began; a restart exits nothing and changes no record |
| `DurableHistory` | `HistoryRestored` | orderly | what the record names is entered (`GoalsAreEntered`), nothing else can be below the parent in a legal configuration (`RestoringStep`), and the record is that of the last exit |
| `DurableLifecycle` | `ImplementsLifecycle` | orderly | a restart is a stutter for an observer |
| `DurableChildren` | `ChildrenFollowConfig` | orderly, exclusive | what is restored are the children of the value's own states |
| `DurableRests` | `RestsStable` | orderly, calm | the machine is restored at the rest it was persisted at |
| `DurableCompletion` | `DoneIsComplete`, `CompletionAnnounced` | orderly, shallow, without final regions | a restart completes no state |

`RestorableInv` is new compared with the interpreter alone, and has to be: a machine that
failed or was stopped is persisted, too, and its configuration is not one that `LegalInv` speaks of.
It says that whatever the machine may be left with, the snapshot that a throw falls back to
included, is empty or legal. The value of an empty configuration is null and is restored as such.

### The runtime, the logics and the adapters

| theorem | states | argument |
|---|---|---|
| `ActorSystem_proofs!TypeCorrect` | `TypeOK` | inductive by itself: what tasks and effects name are sessions, ids and stimuli, because `Behaviour` only answers with effects (`BehaviourAssumption`) |
| `ActorSystem_proofs!TimersMatch` | `ClockMatchesTimers` | needs that platform timers are distinct (`TimersAreDistinct`), which needs that their ids only grow (`TimersAreGiven`): otherwise replacing one timer could clear another's (`OneSendId`) |
| `ActorSystem_proofs!ActorsHaveALifecycle` | `ImplementsLifecycle` | `InHandler`: between effects and observers an actor has a snapshot and is not stopped, so that an error there is no step back |
| `ActorSystem_proofs!ChildrenStartFirst` | `StartComesFirst` | `NamesExist`: nothing in the queue, the clock or an actor names an actor before it is created, so its start is the first task about it; taking and posting tasks keeps that (`AheadTail`, `AheadAppend`) |
| `ActorSystem_proofs!CompletionsAreTold` | `CompletionIsTold` | `Told` for each actor: nothing while it is unfinished or still executes effects, what it is afterwards. Needs that one handler runs at a time (`HandlerIsOne`), that an actor but the root has a parent to tell (`Known`), and `InHandler` |
| `ActorSystem_proofs!CompletionsAreReportedOnce` | `ReportedOnce` | `OnceTold`: for each parent and child id no more reports wait in the queue than children of that id have told; a step that posts one is by a child that had told nothing |
| `ActorSystem_proofs!NothingIsTakenOver` | | `Freed`: in the effects that are left, a child's id is stopped before each spawn of it that would meet one |
| `ActorSystem_proofs!StoppedActorsLeaveNothing` | `StoppedLeavesNothing` | `AllOwned`: whoever was created is registered with its parent until it is stopped, is being stopped or has its stop posted. The actors in `doStop` are a path in the tree of actors (`Nesting`); whoever is registered with one of them is still to be visited (`Held`), and nothing takes its id over (`NothingIsTakenOver`) |
| `MachineActor_proofs!ActorIsSound` | | `ActorInv`: timers, tasks and children are what they are declared to be, every child is registered under its own id, no two ids have one child, and what nobody refers to is gone. Each effect keeps that, and so does every list of effects (`ListKeeps`), whatever the machine lists |
| `MachineActor_proofs!ReportsArrive` | `CompletionArrives` | `ToldInv`: a registered child that is done was heard of or has its report in the mailbox. A report leaves the mailbox only by being heard; an id's child is replaced and its report forgotten in one effect; restored, a child that was done reports again |
| `MachineActor_proofs!NoneIsLeftBehind` | `ChildrenAreOwned` | `OwnedInv`: a child that is not registered has its stop posted, and those registered are the ones its state invokes and those `Tidy` allows there (`Manned`). `After` says who is registered after a list of effects, `Clean` that no spawn in it meets a registered child; a macrostep is a list that is clean (`StabilizeKeeps`). What was persisted is manned as well, because a restored machine spawns from it |
| `ActorLogics_proofs!HandlerIsDone` | `NoCallAfterCleanup` | `CleanupStops`: only an actor that is stopped has been cleaned up, and a body that runs is an active actor's |
| `ActorLogics_proofs!FirstIsTold` | `FirstOutcomeWins` | `Outcome`: until the actor has settled, the first answer that waits in the queue is the first that was ever given; later ones find it settled |
| `EventLoop_proofs!TypeCorrect` | `TypeOK` | inductive by itself; a computed wait is never negative, because a timer that is due is run first |
| `EventLoop_proofs!NoWakeupIsLost` | `NoLostWakeup` | inductive with the types: the loop decides to wait under the mutex, and who changes something signals |
| `EventLoop_proofs!IsScheduler` | `ImplementsScheduler` | step simulation; needs unique timer ids, so that clearing one is one step of the abstract scheduler |
| `EventLoop_proofs!WinIsScheduler` | `ImplementsScheduler` | only two steps are not steps of the POSIX loop (`StepsAreShared`), and a caller sees neither: a wait that is cut off never makes a timer early |
| `EventLoop_proofs!WinNoWakeupIsLost` | `NoLostWakeup` | assumes that no deadline is as far away as `Infinite` milliseconds; then no timed wait is for ever (`WaitEnds`) |
| `EventLoop_proofs!WinStopWaits` | `StopWaits` | `Closed`: `thread_` is null only after the loop has exited. The run `event_loop_stop` refutes the property for POSIX |
| `ManualAdapters_proofs!TypeCorrect` | `TypeOK` | inductive by itself |
| `ManualAdapters_proofs!NothingIsOverdue` | `NothingOverdue` | time moves to the earliest deadline or, beyond it, to the end of `advance` |
| `ManualAdapters_proofs!IsScheduler` | `ImplementsScheduler` | as for the event loop, with `NothingOverdue` and that time goes forward |

`NothingIsTakenOver` and `StoppedActorsLeaveNothing` are about logics that part without timers and children
(`PartingIsQuiet`) and stop a child before they reuse its id (`IdsAreFreed`); the code lets them do
otherwise, with the effects noted above (system.hpp:256 and 347). The second one
also needs observers that do not throw at a child's stop: that they may is the run
`actor_stop_throws`. The logics and observers of `actor_system` are such (`TidyAssumption`), those of
`actor_stop_throws` are not.

The type invariants of `ActorSystem`, `ActorLogics`, `EventLoop` and `ManualAdapters` are
proved and not run as well; that of `Statechart` is run.

`NoneIsLeftBehind` is about machines whose actions spawn no child under an id that may still be
registered, and neither spawn nor stop the children of invocations (`Tidy`). The code does not check that, and
otherwise a second child takes the id of the first, which is no longer stopped with its
parent (system.hpp:347). "May be registered" is a plan: for every state the ids that actions may have
spawned before it is entered and not stopped since. The two theorems before it need nothing of the machine. The
machines of `machine_actor` and `machine_actor_done` are tidy (`TidyAssumption`).

### Only model-checked

- `OnlyLoopsHitTheLimit` of `Statechart`: it is a statement about the step limit chosen. With a
  limit of 10 it holds for the machines of the run; a machine without loops may have longer macrosteps.
- Everything of `MachineImport`. Parser, writer and creation descend texts and documents of any depth by
  recursive operators, and induction over such data is out of the prover's reach.
- `StopReachesAll`, `MacrostepEnds`, `DelayedStatesAreLeft` and all other liveness properties: liveness
  under fairness and ENABLED are out of the prover's reach, too.

## Not modelled

- Inspection and its text; the wording of errors.
- `fromTransition`: a function of state and event with no control of its own.
- The receptionist (`systemId`), subscriptions being added and removed, and the destruction
  of actors in `ActorSystem`.
- Of JSON: white space, fractions and exponents, other `\u` escapes, doubled keys,
  context codecs, which are user code.
- Overflow of `delay * 1000000` (posix/event_loop.hpp:56, win32/event_loop.hpp:63) and of an `after` key's digits
  (machine.hpp:1014).

## Plan

Done: the interpreter with `Lifecycle`, the runtime with arbitrary logics, the scheduler and
its three implementations, the logics, persistence, the import, a machine in its actor, and
the proofs listed above. Left, in this order:

1. The receptionist and actors that are destroyed, as part of `ActorSystem`.
2. Charts with history states directly below a parallel state and with final states as
   regions, once the repository says what they should do.
