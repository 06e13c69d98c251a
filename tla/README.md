# Mercator: TLA+ models and proofs

Mercator is one Go process with a SQLite database. It takes containerised work
("Runs"), decides where each may execute, launches it on an enrolled node, a machine
it builds first or a provider's one-shot execution, watches it and cleans up after
it. Everything it knows about a Run is a stream of events; everything it does is an
external effect followed by an append at the version it read.

This directory holds models of the parts of that process in which order matters, the
TLC instances that explore them and TLAPS proofs about some of them. Paths below are
relative to `src/internal/`.

## The system and its parts

| part | state | operations that change it | in the models |
| --- | --- | --- | --- |
| Event log (`eventlog/`) | events, command rows, sink offsets, subscriptions | append with joined mutation, ack, subscribe, wake | `EventLog`, `Sinks`, `ConsoleStream` |
| Rental Schedule (`domain/rental_schedule.go`) | a Rental's queue of Bookings and their projections | reserve, start, complete | `RentalSchedule`, `RentalTimeline` |
| Run lifecycle (`orchestrator/`) | the reduced Run streams, the schedules, plans in flight | create, cancel, report, and every transition of `step` | `RunState`, `RunLifecycle` |
| Capacity provisioning (`orchestrator/capacity.go`) | machines asked for, their stages, the enrolment deadline | allocate, adopt, watch, reclaim | `RunLifecycle` |
| Admission (`orchestrator/admission.go`) | the replayed queue, the families' counts | defer, refuse, admit | `Admission` |
| Sinks (`sinks/`) | the cursor, passes in progress | deliver, acknowledge, replay | `Sinks` |
| Console feed (`httpapi/console_events.go`) | a connection, its replay and its subscription | connect, replay, subscribe, deliver, break | `ConsoleStream` |
| Daemon (`daemon/`) | the reconcile loop | sweep | the fairness of `RunLifecycle` |
| Broker and adapters (`broker/`, `adapter/`) | what runs elsewhere | launch, observe, release | the outside world of `RunLifecycle` |
| Node registry and sessions (`node/`, `nodeapi/`, `storage/sqlite/node.go`) | the identity's row, invitations, fencing tokens, leases, the session table | invite, enrol, authenticate, open, close, expire, retire, drain | `NodeRegistry` |
| Node commands and the agent (`node/`, `nodeagent/`) | the command log, the session's stream, the agent's state file, containers, node reports | dispatch, deliver, apply, report, settle, flush, restart | `NodeAgent`, `NodeCommands` |
| Prewarm (`orchestrator/prewarm.go`, `broker/nodes.go`) | what is wanted, what was asked, the pacing clock | plan, ask, remember, withdraw, begin | `Prewarm` |
| Janitor (`janitor/`) | objects at the providers, the orphan record | list, decide, record, reclaim | `Janitor` |
| Scheduler (`scheduler/`) | none: a ranking over offers and schedules | | `Placement` |

The rest (HTTP decoding, authentication, credentials, image resolution, the command
line, the web console, the conformance and lab harnesses) has no lifecycle state of its
own or is out of a model checker's reach. `PROJECT.json` lists every part with the
reason.

How they interact: the orchestrator is the only writer of Run streams and, in the same
transaction, of Rental Schedules. A Run's transitions are taken by whoever holds that
Run's lock (a sweep, an HTTP refresh, a cancel after its append); placement also holds
the deployment's admission lock. The event log is the meeting point: its versions
decide between racing writers, its command keys make repeated requests harmless, and
sinks and consoles follow it. A node is reached over one session per identity, which
carries durable commands down; results and observations come back as requests of their
own. The janitor and the prewarm pass read the same Run streams and act on capacity
beside the orchestrator, with no lock in common.

### What is hard here

- A cancel takes no lock and may land between an effect and its commit.
- The process may stop between an effect at a provider and the append that records it.
- A provider's answer may be lost with the effect done.
- Two Runs give back and take places on one Rental from the same schedule version.
- A Booking is promoted by another Run's commit and nobody is told.
- A family's width spans streams, and no version guards it.
- Two reductions of the same log have to agree about who waits, and since when.
- Overlapping delivery passes acknowledge out of order.
- An append wakes subscribers after it commits, over a channel that may be full.
- A node performs a command, and the process that did so dies before it says so.
- A session is superseded while its handler is still between two of its own steps.
- A sweep acts on a listing that Runs have left behind.
- Two drivers prepare the same fleet from the same memory.
- Silence from a machine must count as a cost and never as a refusal.

`PROJECT.json` lists each with its line and with the properties that would catch it.

## Modules

### RentalSchedule, RentalTimeline

`RentalSchedule` is the pure arithmetic of `domain/rental_schedule.go`: a schedule is
a version and a sequence of Bookings, the head of which holds the Rental. Operators
keep the source's names (`Reserve`, `Started`, `Complete`, `startBounds`,
`reproject`). Times are natural numbers of seconds. The loop that adds up what the
Bookings ahead have left is `Total`, a recursive function.

`RentalTimeline` runs one schedule over a clock: any valid reservation, a start
observed at any moment up to now, the completion of any Booking. Versions are capped
by `MaxVersion` and the clock by `MaxNow`.

### RunState, RunLifecycle

`RunState` is the reduction of `run_event.go` and the predicates of `step`. The stream
itself is not kept; a version stands for it. `RunLifecycle` is the orchestrator: a
worker's step is an effect, which leaves the append it is about to make in
`worker[r]`, and then `Commit`, `Conflict` or a `Crash`. `CancelRun` reads and appends
in two steps without the Run's lock. Schedules are committed with the events, both
against the versions that were read, with the operators of `RentalSchedule`.

The outside world is what the adapter and capacity interfaces let the orchestrator
see: `object[key]` is what exists for a launch key, `twins` are the keys a second object
was made under, `machine[key]` is a machine being built. A workload may start (in any
order with the record of its launch), end or never end; an agent may enrol or not; calls
fail and answers are lost up to `MaxFaults` times. A launch that timed out has created
its object, never will, or does so later (`LaunchLands`), also after its Run was
released. A launch is repeated under its key when the record of the first call was lost.
Most providers then find the first object; those in `Blind` create another (RunPod's
adapter does, `adapter/runpod/runpod.go:82-119`), and so does any provider whose first
object does not show yet. A launch that fails for any other reason (`launch_failed`,
rejected) may have created something, or an earlier call may have.

Assumed about the outside, from how the code uses it: an answer that proves no side
effect (`SideEffectNone`) covers the launch key and not one call; listing and observing
see the same truth; `Provision` repeated under one key adopts the machine that exists.

Artifacts a Run reads reach the object store at any moment (`PublishInputs`), and a Run
is neither placed nor queued before. Left out: non-terminal reports, the published Run
record, bootstrap material, and time (an enrolment deadline passes when it passes). That a machine stays allocated
after its Run closed, and that a fatal answer to `Provision` is asked again for ever,
are open issues of the project (numbers 206 and 236 in the code's comments) and no
property here is about them.

### Admission

The door each Run passes to get a machine. `run` holds what a Run's own stream says
about waiting, `queue` what the replay of five kinds of event over all streams says;
both are moved by every append (`Record`). The lock's holder reads and decides in one
step, which leaves its append in `door`, and appends in another; launches fail,
machines are reclaimed, Runs are cancelled and closed in between.

The class table has the code's numbers: time passes in units of five minutes, in which
every bound is whole, and priorities are in twenty-fourths, in which every aging rate
is. Placement is left open: the fleet takes the Run or gives one of its three answers,
with or without a projected wait. A fleet whose verdict changes without its answer
changing is recorded again by the code; that append moves nothing the model keeps. A Run
whose inputs are not durable yet is one whose next step has not come to the door.

### EventLog

Append as one transaction over the events table and the command table, with the
caller's mutation joined: replay of a recorded command, refusal on a wrong version, a
reused identifier or a failing mutation, and the store itself. Writers append at
versions they read earlier, repeat requests whose answer they lost, and may reuse
keys with a different body.

### Sinks

Delivery passes over one cursor. Nothing in the code keeps two passes apart, so any
number overlap; a pass may end anywhere. `Ack` never moves the cursor back.

### ConsoleStream

The seam between replay and subscription, the wake channel of capacity one, the
bounded delivery channel, the retry after a failed read, and a console that reconnects
with the last position it saw. `entries` is the log, of which the feed reads only which
events are public. A page is the set of its positions and is worked off from the least.

### Placement

The scheduler over one Rental that goes on as in `RentalTimeline`. The collection of
offers is an input (`Fleets`, sets of `Offers`), and so is what a Run asks for (`Asks`).
What is assumed of them (`OffersAreValid`, `AsksAreValid`, `DurationsAssumption`) is what
the code's types and validation give: amounts and weights are not negative, an offer's own
refusals (`bars`) are not those of a queue, and a bound on the start that is not positive
is none (`exceedsStartSLO`). Every candidate
gets its estimates (wait, machine, content, container), its refusals
(`feasibilityViolations`), its cost and its score; `Selected` is the best feasible one
and `Place` reserves it. Content is an image and a set of inputs, each hot, cold or
unknown (an image also pulled and not unpacked). An estimate is its expected value and
its p90, in units in which both are whole, and dollars are counted in the millionths a
score is rounded to. An offer that is not feasible scores 0 and is never compared. A
machine offered for sale is barred while a standing offer on the same machine holds it.

### NodeCommands, NodeAgent

`NodeCommands` is what a command is to its caller: recorded, taking effect at most once
and only while outstanding, settled once. `NodeAgent` is how that is done: operation
rows stamped with a fencing token, a session's stream with a bounded buffer,
redelivery of what is pending when a session opens, one worker that marks a command
applied only after performing it, a result that may be lost, a state file that survives
a crash, and a daemon that answers by the container's name. Reports go out one by one,
are spooled when they cannot be sent, and are flushed before the next session. The
heartbeat is there for what it does to the spool. The state file may be lost with the
machine's enrolment (`StateLost`), and the machine's clock may be set back
(`ClockSetBack`): a report is stamped by it, and the store keeps the later stamp.

`Effects` in `NodeAgent` is the refinement mapping: a command's row, and for a launch
the number of times its container started, for a preparation whether its content is
there.

### NodeRegistry

One identity. A handler is split where the code gives up the transaction or the
registry's lock: enrolling and closing the superseded session, authenticating and
registering, reading the row to invite it again and writing what was minted
(`Reinvite`, `WriteInvitation`), retiring the row and closing its session. The lease sweep and the
shutdown run in between. The expiry of an invitation stands for its token, since one
derives the other. An identity is invited with a deadline by provisioning and without
one by an operator (`wait`); only provisioning invites again.

### Prewarm

Two drivers of one pass: read the desire, ask for what is missing, remember what was
asked, record that something began. `booking` is what the pass reads of each Run.
`command[i]` is the durable operation on a node, `memory` what the process remembers,
`begun` the durable clock. Ages are capped at `MinInterval`. A machine may leave the
catalog and come back. What `Broker.Prepare` answers for a connection that cannot be
prepared (`broker/nodes.go:123-126`) is left out: a Booking queues on a node only.

### Janitor

One sweep: list every connection, decide for each object, record the decision, reclaim.
The Runs beside it are cut to what the sweep reads: a Run launches, is placed again,
ends before a launch, during one or after it, is asked to release and closes. A launch may land after its Run closed (`Lands`), and
a connection may stop answering as a whole or for one object (`Fails`).

## What the runs check

Every property is defined, with a comment that states it, at the end of the module it
is about. Each passing run's properties have a mutant in `PROJECT.json`: a small change
to one definition that TLC must find to violate the property.

| run | instance | what it shows |
| --- | --- | --- |
| `placement` | three Bookings, a queue of two, twelve kinds of Run, some thirty fleets, clock to 3, six versions | the queue is one chain in order with one holder and nobody overtakes; what is selected can be reserved; silence is priced and not refused; a wait that is quoted ends |
| `run_lifecycle` | two Runs, one node, one fault, fair sweeps | schedules and streams agree about every Booking; one workload per Rental; a Run with a terminal fact closes; a promoted Booking is dispatched |
| `run_provisioning` | one Run over a node, a machine to build and two one-shot offers, one of which creates again, three faults | objects of one attempt per Run across lost answers, late landings, enrolment deadlines and replaced launches; a closed Run left nothing running or on its way, unless its launch was recorded as rejected; no machine is forgotten; launches stay within their bound; the first terminal fact decides, once |
| `admission` | a family of two interactive Runs, one wide, and an opportunistic Run, clock to 15 minutes | the family stays within its width; both reductions agree about waiting; a wait's parts add up; a class is served in order; aging holds against arrivals |
| `event_log` | two writers, two streams, two keys, batches that share an event, a log of three | streams are gapless; a command stores all of its events once or none; an answer points at the writer's own events; mutations commit exactly with their commands |
| `sinks` | two passes, pages of two, a log of four | the cursor never passes an undelivered public event and never moves back |
| `console_stream` | pages of two, a channel of one, a log of four, two broken connections, one failed read | a console receives the public log in order, once, and all of it |
| `node_agent` | one Run, one image, a buffer of two, two faults, of which one lost state file and one clock set back, a fair agent | the protocol implements `NodeCommands`; what the agent believes it reported is recorded; an exit is recorded in the end |
| `node_registry` | two machines, two connections, two enrolments, clock to 5 | the session the registry finds is the only one open; a drained registry holds none; a machine's unspent invitation stays redeemable until its window closes |
| `prewarm` | two Runs, both drivers, two faults: a restart, a failed transfer, a machine that leaves and may return | what is remembered was asked of a machine; the last desire is stated, withdrawals included |
| `janitor` | one Run of up to two launches, one stranger's object, one sweeper, one crash, one failure | live work is spared; what is gone is on record under the launch's own rule; capacity nobody holds is given back |
| `run_rejected` | one Run, one node, one fault | a disagreement, below |

### Why the bounds are enough

Every bound is a constant in a guard and named at its declaration. Two Runs on one
Rental are the least that queue, promote and race; a third adds only longer queues,
and those are `placement`'s (whose six properties are also proved for every length). One
fault per behaviour covers each point at which a step can break off; where a retry can
break off too (`run_provisioning`, `node_agent`) there are more. In `placement` three
units of time outlast the longest Booking, so that a holder overruns; the fleets
contain every locality, measured and not, each with and without a window, beside the
same machine for sale, another one, or a machine nobody priced. In `admission` fifteen
minutes pass the interactive class's bound and deadline. A log of three holds two
batches that collide; a log of four needs two full pages. In `node_agent` one Run
already has a launch and a stop that overtake each other; two faults let a report be
lost and its repetition be lost again. In `node_registry` a lease of one, an
invitation of two and a deadline at four expire at different moments, and an enrolment
replaces another while a handler of the first is still between its steps. In `prewarm`
two Runs on two machines share room for one transfer, so that one desire displaces the other.
`janitor` has the one sweep the daemon runs; that two may overlap is left to the proof.

`MCRunLifecycle` (for `run_provisioning`) and `MCAdmission` identify states that differ
only in what no later step reads; their `VIEW`s say what. Symmetry is over names that
nothing orders, and is not used where a temporal property is checked that needs fair
behaviours. Deadlock is not checked where the system may stop: all Runs closed, the
clock or the versions at their bound, faults used up.

### Fairness

- `run_lifecycle`: every open Run is advanced again and again
  (`WF(Advance(r))`: the daemon's reconcile loop calls `AdvanceOpenRuns` on every tick,
  and a failed Run does not stop the sweep), and an agent told to stop a container
  stops it. Nothing is assumed of workloads, of machines, of agents that have not
  enrolled, or of clients.
- `console_stream`: goroutines that are ready run (`wakeSubscribers`, the handler, the
  subscription, the retry timer) and a console reconnects.
- `node_agent`: the agent's loop and worker go on (`Run` retries `serve` for ever, a
  request is answered or fails, the container daemon answers). A container is under no
  obligation to exit.
- `prewarm`: the minute's ticker and the subscription run, time passes, transfers end.
- `janitor`: the daemon sweeps, the calls of a sweep return, and a provider that stopped
  answering answers again.

Faults are bounded, so a call that fails for ever is not counted against the code.

## Where code and words disagree

One disagreement is a run, `run_rejected`. The comment of `recordTerminalLaunchFailure`
(`orchestrator/launch_failure.go:143-145`) says that the provider of a rejected launch
created no object, so that no cleanup is required. A launch whose record a crash lost is
repeated, and the repetition may fail for a reason of its own (the node's lease lapsed):
the Run closes, its Booking goes to the next Run, and what the first call started stays.
`RentalExclusive` and `ClosedMeansReleased` except such an attempt, and nothing else. At a
provider the janitor gives the object back; on a node nothing does.

The others each have a configuration, to be run with the module the passing run of its
family names in `PROJECT.json` (`tlc -config MCNodeApplied.cfg NodeAgent`); TLC prints
the behaviour. The left column
is what a comment says, as a property.

| property, configuration | the words | what the code does |
| --- | --- | --- |
| `EndedRunCloses`, `MCRunReclaimed` | `orchestrator/orchestrator.go:798`: runs converge to closed with no client involved | a Run whose machine was reclaimed has given its Booking back; cancelled before it is placed again, it cleans up, and the cleanup fails for ever on the Booking that is gone (line 1253) |
| `LaunchKeyIsOneObject`, `MCRunDuplicated` | `capability/ephemeral.go:52-54`, `adapter/runpod/runpod.go:347-348`: repeated launches are answered by the launch key | the adapter creates without looking, so a launch repeated after a crash makes a second object (`runpod.go:82`) |
| `FamilyCountIsCapacity`, `MCAdmissionReclaimed` | `orchestrator/admission.go:152`: the count is of Runs that have not given capacity back | the replay does not look at `capacity_reclaimed` (line 105), so such a Run keeps its family's place |
| `StarvedIsNotPassed`, `MCAdmissionStarved` | `domain/serviceclass.go:246`: nothing is admitted past a starved Run | a Run its own family held ages all the same, and `ahead` skips a starved Run of a lower class before it asks whether it is starved (`admission.go:367`) |
| `AppliedLaunchRan`, `MCNodeApplied` | `node/node.go:312`: a duplicate had already been applied | a launch that failed is remembered too, so when its refusal is lost the redelivery is answered as applied (`nodeagent/agent.go:328-349`) |
| `RefusedLaunchLeftNothing`, `MCNodeRefused` | `node/node.go:309`: false only when the node refused outright | an error after the container started is a refusal too (`agent.go:353`) |
| `NothingStartsAfterStop`, `MCNodeReordered` | `node/session.go:12-13`: a full buffer costs a redelivery | the redelivery of a launch may come after its stop was performed (`session.go:67`) |
| `StoppedRunIsGone`, `MCNodeStopped` | `broker/nodes.go:230`: the release removes the container | a stop that failed is settled and is not asked again (`node/node.go:302`) |
| `ExitSurvivesStateLoss`, `MCNodeStateLost` | `agent.go:409-412`: a restart on either side converges | event numbers start again with the state file, and the reports that repeat a number are dropped as seen (`nodeagent/state.go:185`) |
| `AnsweredExitIsRecorded`, `MCNodeClock` | the same words, and `storage/sqlite/node.go:649`: a stamp sorts | an exit seen after the clock was set back is stamped before what the store holds, which keeps the later one (line 361); the agent is answered and does not repeat it. Stamps of one second also sort wrongly where one has no fraction, which the model leaves out |
| `RetiredHoldsNoSession`, `MCNodeRetired` | `session.go:52`: a retired machine gets no session | the row is read before the session is registered (`session.go:58`) |
| `SessionIsOfNewestEnrolment`, `MCNodeSuperseded` | `node/registry.go:295`: an enrolment supersedes any open session | a handler that authenticated before the enrolment registers after it |
| `RetiredIsTerminal`, `MCNodeTerminal` | `node/node.go:86`: retired is the only terminal state | the lease sweep marks lost what it read as ready, whatever was written since (`storage/sqlite/node.go:530`) |
| `BeginningsAreSpaced`, `MCPrewarmOverlap` | `orchestrator/prewarm.go:37-38`: the shortest gap between two beginnings | two passes read the clock before either writes it (line 288), and a restart between asking and writing does the same to one (line 274) |
| `InFlightWithinBound`, `MCPrewarmDepth` | `prewarm.go:33-34`: how much may arrive at once | what a sooner Run displaced and is still arriving is not counted (line 319) |
| `RestartIsQuiet`, `MCPrewarmRestart` | `prewarm.go:131-133`: a restarted process states nothing until the rate bound allows it | inside the bound its first desire is cut to nothing, and wanting nothing is stated at once (line 254) |
| `WantedArrives`, `MCPrewarmArrives` | `broker/nodes.go:145-147`: content whose pull failed and is asked for again reaches the machine | what is remembered as asked is not asked again (`prewarm.go:149`) |
| `ReachableCapacityGoes`, `MCJanitorBlocked` | `janitor/janitor.go:102-103`: every piece of capacity converges | one connection that does not answer ends the sweep of all (line 119, `broker/broker.go:370-372`) |

Seen on the way, with no configuration:

- The comment at `orchestrator/admission.go:146` says that nothing today defers a Run
  that was placed before. A Run whose launch failed and that is then held by its family
  or outranked is deferred again; `admission` reaches such states, and both reductions
  agree in them.
- `scheduler/scheduler.go:439-442` says that silence must not become a hard constraint.
  The start bound and the disk keep to that; the window a machine is sold for and a
  budget are held against the predicted start and so against what silence was charged.
  `SilenceIsPriced` excepts these two.
- A machine that is busy for longer than a Run's start bound or its own window counts
  as one that never holds the Run, since only two refusals are ended by waiting;
  `WaitsEnd` is about those that are.

## What is proved

The theorems hold for every value of the constants, under the named assumptions of
the modules; the bounds on clocks, versions, faults and log lengths are constants too.
Every safety property and every action property of the passing runs is a theorem.

### Runs and their Bookings

`RunLifecycleCommit`, `RunLifecycleMoves` and `RunLifecycleProofs` are one proof in three
modules, each extending the one before.

What makes the invariants hard is that a worker's plan is made at one moment and
committed at another, and that the effect it stands for (a launch, a machine, a release)
happened in between. None of them is inductive by itself: what keeps a Rental from
carrying two workloads is something about plans nobody has committed yet. `IInv`
therefore says of every plan in flight whose stream is still at the version it read that
it is one of eight moves (`Move`): a note that changes nothing a placement decided, an
end that asks for a cleanup, a closing without a Booking, a release, a replaced attempt,
a placement, a place in a queue, a dispatch. Each move says what it does to the Run's
record, what it does to one schedule provided that is at the version it read, and what
was already true outside when it was planned. Around the plans, `IInv` says

- of a Run's record (`RunOK`), how its Booking, its attempts, its launch intent and its
  cleanup go together, and that every attempt but the last struck out an offer of its
  own (`Spent`), which is why attempts never run out of numbers;
- of the outside (`ObjectsOK`, `MachinesOK`), that no attempt but the last has anything
  that could be running, is on its way or landed late, or a machine, and what the last
  may have at each stage, the one recorded as rejected excepted;
- of the schedules (`SchedulesOK`), that every entry has its Run and every Run that
  holds a Booking its entry, at the head unless it is queued.

The proof shows that committing a move keeps this (`RunLifecycleCommit`), that what each
transition of `step` plans is a move (`RunLifecycleMoves`, `RunLifecycleProofs`), and
that no step of another Run, of a caller, of a provider or of a node spoils a move that
is still current. Results: `BookingsHeld`, `RentalsExclusive`, `OneObject`,
`ClosedIsReleased`, `MachinesKept`, `LaunchesBounded`, and the action property
`OutcomesFinal`. Assumed of the constants (`NamesAssumption`): a fleet is finite, no
Rental has the empty name, and a machine's minted identity is no node's.

### Admission

`AdmissionProofs`. `FamilyWithinWidth` counts Runs by their own records and the door
counts the replay, so the invariant has to say that the two agree: `Agrees` for every
Run, and that every Run of a family with capacity is among those the replay counts
(`Holding`; not the other way round, since a reclaimed machine is still counted). The
door decides and appends in two steps, so what it is about to append must still fit when
it lands (`DoorOK`, `Answered`): the Run has changed in nothing but a cancel, and the
family still has room, because only the door's holder takes any. The parts of a wait are
dated by `Dated`. The two action properties are about the moment of the decision and
follow from the agreement of the two reductions with the arithmetic of aging, over the
code's class table. Results: `FamiliesFit`, `ReductionsAgree`, `OwnPartOfWait`,
`ServedInOrder`, `AgingOutranks`.

The same module has what is prepared for the Runs that wait. `RememberedWasAsked` is about
a memory written at the end of a pass whose commands went out one by one, and of which
there are two at a time. `PrewarmIInv` adds that what a pass no longer has to send has a
command (`CrossedWasAsked`); a command's state changes but never goes back to none, so the
other pass, a failure or a restart takes nothing away. Result: `WhatIsRememberedWasAsked`.

### The event log and its readers

`LogProofs`. `StreamsAreGapless` says what a stream's versions are locally (each has its
predecessor before it). The append compares with a maximum, so `IInv` adds `Contiguous`
(a stream's versions are 1..n) and a lemma that the maximum is then n. For commands it
adds that rows lie in the log (`RowsInLog`, `RowsStartInLog`) and that answers are rows.
Results: `StreamsStayGapless`, `CommandsStayAtomic`, `MutationsStayWithCommands`,
`AnswersStayStored`, `TypeCorrect`.

A sink's cursor is behind delivery because of what each pass knows: an acknowledgement
raises it to where the pass is, so `PassesAreInOrder` says that everything before a
pass's place was delivered, by it or before it read the cursor. Results:
`CursorStaysBehind`, `CursorIsMonotone`, `PrivateNeverLeaves`, `SinkTypeCorrect`.

For the console, `ConsoleIInv` says where each position between what the console saw last
and what was read of the log is at that moment. While a connection replays, its cursor is
what was seen last and its page leaves no public event out (`Replaying`, `Pages`). While it
is live, the channel lists exactly the public positions after what was seen and up to where
the subscription is, and the page goes on from there (`Live`, `Lists`). A page is cut by a
count, so that a read leaves nothing out below its last position is a fact about
cardinalities (`ReadIsPage`); the pages have at least one entry (`PageAssumption`), or a
subscription that reads nothing would park behind the log. `ParkedIsUpToDate` is then
inductive: only a read that finds nothing parks the goroutine, and whatever makes it fall
behind owes a signal. Results: `ConsoleSeesTheLog`, `NoWakeupIsLost`.

### Schedules, placement and nodes

`FleetProofs`. For a Rental's schedule, `IInv` is its types, `QueueWellFormed` and
`OnlyHolderStarted`. `QueueWellFormed` is inductive once the types are known, since the
end of a chain that is in order is where a reservation links and a completion relinks the
rest; `OnlyHolderStarted` goes with it, because a completion moves Bookings and their
starts together. That no step lets a Booking overtake another follows from what each does
to the places in the queue (`ReserveOutcome`, `StartedOutcome`, `CompleteOutcome`) and from
the identities being distinct. Results: `ScheduleStaysWellFormed`, `StartsAreTheHolders`,
`NobodyOvertakes`.

A projected start is a sum over the queue. What the sum is, for a queue of any length, is
shown by induction: the library's theorem that the naturals are well founded gives a least
counterexample (`Least`, `Induct`), partial sums exist and are what `Total` computes
(`TotalIs`), a sum of naturals is one, it grows with its summands and does not grow as one
is left out (`TotalNat`, `TotalMonotone`, `TotalWithout`). So every field keeps its type
(`ScheduleIsTyped`), and no Booking is expected to start after its latest start
(`ProjectionsStayWithinBounds`, whose invariant `Declared` also says that a Booking's
expected runtime is positive and within its bound).

A `Place` step is a `ReserveBooking` step of `RentalTimeline` with a runtime the timeline
admits, so the schedule's theorems carry over (`PlacementKeepsTheSchedule`). A feasible
offer on the Rental has neither a full queue nor an exhausted one, which is what a
reservation checks, given that the queue is well formed (`SelectionReserves`).

`SilenceIsPriced` compares an offer with the same offer found to hold everything. Nothing
is established of a silence, so the two are established to start alike and the start bound
tells them apart no more than the disk does (`SilenceEstablishesNothing`,
`SilenceRefusesNothing`); predicted is the dearest case, which the weights can only make
dearer (`SilenceIsCharged`, `SilenceScoresNoBetter`). `WaitsEnd` rests on the sums: as a
Booking leaves, wherever in the queue, the wait in front of a newcomer does not grow
(`LeavingShortensTheWait`, from `TotalWithout`), a promoted Booking owes its whole runtime,
which is positive, so the schedule does not become exhausted (`LeavingExhaustsNothing`),
and therefore nothing but the queue is ever held against a machine that could hold the Run
(`NothingElseIsHeldAgainstIt`). Results: `SilenceIsNeverARefusal`, `QuotedWaitsEnd`.

In the node registry the session table is right by itself; the invitation needs that the
record names a token only with the expiry that derives it, and that while one deadline
governs an identity it is the only expiry minted, written or about to be (`Invitations`).
Two attempts may read a spent invitation and both mint; since both mint the same, neither
shuts out the other's machine. Results:
`RegisteredIsTheOpenOne`, `DrainIsFinal`, `InvitationsStayRedeemable`.

### Node commands

`NodeAgentProofs`. The refinement of `NodeCommands`, one lemma per group of actions. A
launch must not start twice and must not start after it was settled. `IInv` therefore
says that whatever may have left an effect is settled only when the agent would refuse to
perform it again, because it remembers it or holds a newer fencing token
(`SettledIsGuarded`); that copies in flight carry the token of their row (`InFlight`);
and that the worker's command is still pending while it is performed (`WorkerIsBacked`).
What the agent told is recorded for another reason, which `RInv` states: while the state
file survives and the clock goes forward, a fresh identity is not in the store, a container only moves on, and so
the events of a Run, in the spool or in its row, say as much in the order they are dated;
a spooled event that is written late, or twice, never takes a row back. Results:
`Invariance`, `ImplementsNodeCommands`, `ToldStaysRecorded`.

### Janitor

`JanitorProofs`. A sweep acts on a listing that is old when it is used, so the argument
is about what does not change: a Run that is over stays over, the launches of a stream
are only added to (`Grows`), and an object carries the identities of the launch that made
it and of no other (`Attributed`). `IInv` says that a decision in hand, on record or
carried out is `Due`: the Run that made the object is over, and the outcome is the one
its launch asked for. It holds for any number of overlapping sweeps, of which the daemon
runs one. Results: `LiveWorkStaysSpared`, `RemovalStaysRecorded`.

### Only model-checked

Liveness, which the prover cannot do: `EndedRunCloses`, `PromotedRunDispatched`,
`EventsArrive`, `ExitIsRecorded`, `DesireIsStated`, `OverCapacityGoes`. Of the pure
algorithms, what the replayed queue of `Admission` and the reduction of `RunState` compute
is used in the proofs step by step, and no theorem is stated about them for sequences of
any length.

## Not modelled

- Rental leases and generations (`domain/rental.go`, `rental/`): no loop, handler or
  orchestrator drives the store yet, only its own contract suite, so there is no
  protocol to check.
- Predictions from measured launches (`prediction/`), caches and reliability: numbers
  that enter the estimates or the record and decide no transition by themselves.
- What a provider's adapter does: remote calls, present in `RunLifecycle` and `Janitor`
  as answers that are given, refused or lost.
- HTTP decoding and routing, authentication, credentials, image resolution, the command
  line and the web console: no lifecycle state of their own.
- The lab, its scenarios and the conformance suites, which are most of the repository's
  lines: they drive the parts above in simulated worlds and add no behaviour to them.
