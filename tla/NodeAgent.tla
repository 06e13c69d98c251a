------------------------------ MODULE NodeAgent ------------------------------
(***************************************************************************)
(* One enrolled machine and the control plane it answers: the registry's   *)
(* durable operations, the session that carries commands down to the agent *)
(* (node/registry.go, node/session.go), the store (storage/sqlite/node.go),*)
(* the agent's serve loop and its one worker (nodeagent/agent.go), its     *)
(* state file (nodeagent/state.go), the container daemon as                *)
(* nodeagent/docker.go drives it, and the reports that flow back.          *)
(*                                                                         *)
(* Faults: the agent crashes at any point, a session drops, a request or   *)
(* its answer is lost, the daemon fails, the machine's clock is set back,  *)
(* the machine comes back without its state file and enrolls again.  Each  *)
(* fault spends one of MaxFaults.                                          *)
(***************************************************************************)
EXTENDS Naturals, Sequences, FiniteSets

CONSTANTS Runs,            \* Runs launched on this machine
          Images,          \* content it may be asked to prepare
          SessionBuffer,   \* commands a session holds (64 in the code)
          MaxFaults,       \* faults in one behaviour
          MaxStateLosses,  \* of which: restarts without the state file
          MaxSetbacks      \* and: setbacks of the machine's clock

ASSUME NodeAgentConstants ==
    /\ SessionBuffer \in Nat \ {0}
    /\ MaxFaults \in Nat /\ MaxStateLosses \in Nat /\ MaxSetbacks \in Nat
    /\ "none" \notin Runs   \* an event about no Run says so

Launches == [kind : {"launch"}, of : Runs]
Stops == [kind : {"stop"}, of : Runs]
Preparations == [kind : {"prepare"}, of : Images]
Op == Launches \cup Stops \cup Preparations

VARIABLES
    ops,         \* node_operations: state and stamped fencing of each command
    issued,      \* operations in the order their rows were inserted
    fencing,     \* nodes.fencing_token
    recorded,    \* node_events: event identities already recorded
    workload,    \* node_workloads: the latest observation of each Run
    session,     \* the registry's session of this node
    stream,      \* commands travelling down it, the agent's queues included
    room,        \* what the session's channel holds
    delivering,  \* dispatch calls between AppendOperation and deliver
    phase,       \* where Agent.serve is
    worker,      \* what Agent.work is doing
    flushed,     \* events of the spool the registry has recorded so far
    mem,         \* the agent's state file
    container,   \* the daemon's container of each Run
    starts,      \* containers the daemon ever ran for each Run
    content,     \* images the daemon holds
    now,         \* the machine's clock, by the order in which its stamps sort
    faults, losses, setbacks

store == <<ops, issued, fencing, recorded, workload>>
link == <<session, stream, room, delivering>>
daemon == <<container, starts, content>>
vars == <<store, link, phase, worker, flushed, mem, daemon, now, faults, losses, setbacks>>

NoOp == [kind |-> "none", of |-> "none"]
Idle == [stage |-> "idle", op |-> NoOp, ok |-> FALSE]
StateFile(token) == [fencing |-> token, applied |-> {}, spool |-> <<>>, seq |-> 0,
                     reported |-> [r \in Runs |-> "absent"]]

Init ==
    /\ ops = [o \in Op |-> [state |-> "none", fencing |-> 0]]
    /\ issued = <<>> /\ fencing = 1 /\ recorded = {}
    /\ workload = [r \in Runs |-> [phase |-> "absent", at |-> 0]]
    /\ session = "none" /\ stream = <<>> /\ room = 0 /\ delivering = {}
    /\ phase = "down" /\ worker = Idle /\ flushed = 0
    /\ mem = StateFile(1)
    /\ container = [r \in Runs |-> "absent"] /\ starts = [r \in Runs |-> 0]
    /\ content = {} /\ now = 1 /\ faults = 0 /\ losses = 0 /\ setbacks = 0

Fault == faults < MaxFaults /\ faults' = faults + 1

-----------------------------------------------------------------------------
(* The registry's side of a command. *)

MayLeaveEffectOnFailure(o) == o.kind \in {"launch", "stop"}

Reissuable(o) == ops[o].state = "refused" /\ ~MayLeaveEffectOnFailure(o)

(* dispatch up to the row being durable.  A Run is stopped after the call that
   launched it returned: the orchestrator holds the Run's lock across each. *)
Dispatch(o) ==
    /\ o \in Stops => /\ ops[[kind |-> "launch", of |-> o.of]].state # "none"
                      /\ [kind |-> "launch", of |-> o.of] \notin delivering
    /\ ops[o].state = "none" \/ Reissuable(o)
    /\ ops' = [ops EXCEPT ![o] = [state |-> "pending", fencing |-> fencing]]
    /\ issued' = IF ops[o].state = "none" THEN Append(issued, o) ELSE issued
    /\ delivering' = delivering \cup {o}
    /\ UNCHANGED <<fencing, recorded, workload, session, stream, room, phase, worker,
                   flushed, mem, daemon, now, faults, losses, setbacks>>

CommandFrom(o) == [op |-> o, fencing |-> ops[o].fencing]

(* deliver: best effort into the session open now, dropped when there is none
   or its channel is full. *)
Deliver(o) ==
    /\ o \in delivering
    /\ delivering' = delivering \ {o}
    /\ stream' = IF session = "open" /\ Len(stream) < room
                 THEN Append(stream, CommandFrom(o)) ELSE stream
    /\ UNCHANGED <<store, session, room, phase, worker, flushed, mem, daemon,
                   now, faults, losses, setbacks>>

(* The pending rows, listed in the order they were inserted. *)
PendingOperations ==
    LET pending == {i \in DOMAIN issued : ops[issued[i]].state = "pending"} IN
    {listing \in [1..Cardinality(pending) -> pending] :
        \A i, j \in DOMAIN listing : i < j => listing[i] < listing[j]}

(* OpenSession reads the pending commands, fills the channel with them, and only
   then takes the lock that makes the session the one deliver finds. *)
ReadPending ==
    /\ phase = "opening" /\ session = "none"
    /\ \E listing \in PendingOperations :
          /\ stream' = [i \in DOMAIN listing |-> CommandFrom(issued[listing[i]])]
          /\ room' = IF Len(listing) > SessionBuffer THEN Len(listing) ELSE SessionBuffer
    /\ session' = "opening"
    /\ UNCHANGED <<store, delivering, phase, worker, flushed, mem, daemon, now, faults, losses, setbacks>>

RegisterSession ==
    /\ session = "opening"
    /\ session' = "open" /\ phase' = "serving"
    /\ UNCHANGED <<store, stream, room, delivering, worker, flushed, mem, daemon,
                   now, faults, losses, setbacks>>

(* SettleOperation writes only a row that is still pending. *)
SettleOperation(o, applied) ==
    ops' = IF ops[o].state = "pending"
           THEN [ops EXCEPT ![o].state = IF applied THEN "applied" ELSE "refused"]
           ELSE ops

(* Mutant: the upsert without its observed_at comparison. *)
RecordEventUnordered(e) ==
    /\ recorded' = recorded \cup {e.id}
    /\ workload' = IF e.id \notin recorded /\ e.run \in Runs
                   THEN [workload EXCEPT ![e.run] = [phase |-> e.phase, at |-> e.at]]
                   ELSE workload

(* RecordEvent: an identity already recorded changes nothing, a heartbeat writes
   no workload, and an observation older than the one held is not written over it. *)
RecordEvent(e) ==
    /\ recorded' = recorded \cup {e.id}
    /\ workload' = IF e.id \notin recorded /\ e.run \in Runs /\ e.at >= workload[e.run].at
                   THEN [workload EXCEPT ![e.run] = [phase |-> e.phase, at |-> e.at]]
                   ELSE workload

-----------------------------------------------------------------------------
(* Agent.serve: report what the machine holds, flush the spool, open a session,
   serve it.  A failed send on the way ends the pass; Run starts another. *)

Start ==
    /\ phase = "down"
    /\ phase' = "reporting"
    /\ UNCHANGED <<store, link, worker, flushed, mem, daemon, now, faults, losses, setbacks>>

(* Mutant: a workload already mentioned is not mentioned again. *)
UnreportedEver(r) == container[r] # "absent" /\ mem.reported[r] = "absent"

Unreported(r) == container[r] # "absent" /\ mem.reported[r] # container[r]

(* The event reportObservations sends about r: the next identity of this agent's
   sequence, dated by the machine. *)
Observation(r) == [id |-> mem.seq + 1, run |-> r, phase |-> container[r], at |-> now + 1]

PassFails == IF phase = "serving" THEN "serving" ELSE "down"

Told(r) ==
    /\ phase \in {"reporting", "serving"} /\ Unreported(r)
    /\ RecordEvent(Observation(r))
    /\ mem' = [mem EXCEPT !.seq = @ + 1, !.reported[r] = container[r]]
    /\ now' = now + 1
    /\ UNCHANGED <<ops, issued, fencing, link, phase, worker, flushed, daemon, faults, losses, setbacks>>

(* The send fails: the event is spooled and not remembered as told.  The request
   may have reached the registry before the answer was lost. *)
Spooled(r, arrived) ==
    /\ phase \in {"reporting", "serving"} /\ Unreported(r)
    /\ Fault
    /\ IF arrived THEN RecordEvent(Observation(r)) ELSE UNCHANGED <<recorded, workload>>
    /\ mem' = [mem EXCEPT !.seq = @ + 1, !.spool = Append(@, Observation(r))]
    /\ now' = now + 1
    /\ phase' = PassFails
    /\ UNCHANGED <<ops, issued, fencing, link, worker, flushed, daemon, losses, setbacks>>

(* A heartbeat that cannot be sent is spooled as an observation is; the first of
   a session, which goes out before a command is taken, ends it.  One that
   arrives changes nothing modelled here and is left out. *)
Heartbeat == [id |-> mem.seq + 1, run |-> "none", phase |-> "absent", at |-> now + 1]

HeartbeatSpooled(first, arrived) ==
    /\ phase = "serving"
    /\ first => worker = Idle
    /\ Fault
    /\ IF arrived THEN RecordEvent(Heartbeat) ELSE UNCHANGED <<recorded, workload>>
    /\ mem' = [mem EXCEPT !.seq = @ + 1, !.spool = Append(@, Heartbeat)]
    /\ now' = now + 1
    /\ IF first THEN phase' = "ending" /\ session' = "none" ELSE UNCHANGED <<phase, session>>
    /\ UNCHANGED <<ops, issued, fencing, stream, room, delivering, worker, flushed, daemon, losses, setbacks>>

Reported ==
    /\ phase = "reporting" /\ \A r \in Runs : ~Unreported(r)
    /\ phase' = "flushing" /\ flushed' = 0
    /\ UNCHANGED <<store, link, worker, mem, daemon, now, faults, losses, setbacks>>

(* The registry records a flushed batch one event, one transaction at a time. *)
FlushEvent ==
    /\ phase = "flushing" /\ flushed < Len(mem.spool)
    /\ RecordEvent(mem.spool[flushed + 1])
    /\ flushed' = flushed + 1
    /\ UNCHANGED <<ops, issued, fencing, link, phase, worker, mem, daemon, now, faults, losses, setbacks>>

FlushFails ==
    /\ phase = "flushing" /\ mem.spool # <<>>
    /\ Fault
    /\ phase' = "down"
    /\ UNCHANGED <<store, link, worker, flushed, mem, daemon, now, losses, setbacks>>

ClearSpool ==
    /\ phase = "flushing" /\ flushed = Len(mem.spool)
    /\ mem' = [mem EXCEPT !.spool = <<>>]
    /\ phase' = "opening"
    /\ UNCHANGED <<store, link, worker, flushed, daemon, now, faults, losses, setbacks>>

(* The connection drops.  serve returns once the worker has stopped, and the
   commands it had not performed go with it. *)
SessionDrops ==
    /\ phase = "serving" /\ Fault
    /\ phase' = "ending" /\ session' = "none"
    /\ UNCHANGED <<store, stream, room, delivering, worker, flushed, mem, daemon, now, losses, setbacks>>

ServeReturns ==
    /\ phase = "ending" /\ worker = Idle
    /\ phase' = "down" /\ stream' = <<>>
    /\ UNCHANGED <<store, session, room, delivering, worker, flushed, mem, daemon,
                   now, faults, losses, setbacks>>

-----------------------------------------------------------------------------
(* Agent.apply, one command at a time. *)

TakeCommand ==
    /\ phase \in {"serving", "ending"} /\ worker = Idle /\ stream # <<>>
    /\ LET command == Head(stream) IN
       worker' = [op |-> command.op,
                  stage |-> IF command.fencing < mem.fencing \/ command.op \in mem.applied
                            THEN "report" ELSE "perform",
                  ok |-> command.fencing >= mem.fencing]
    /\ stream' = Tail(stream)
    /\ UNCHANGED <<store, session, room, delivering, phase, flushed, mem, daemon,
                   now, faults, losses, setbacks>>

(* A command whose context is cancelled fails; so does one the daemon fails. *)
Failing == IF phase = "ending" THEN UNCHANGED faults ELSE Fault

(* Mutant: a container whose name is not the Run's, so that a second one starts. *)
LaunchUnnamed(r, left, ok) ==
    /\ UNCHANGED content
    /\ container' = [container EXCEPT ![r] = left]
    /\ starts' = IF left = "running" THEN [starts EXCEPT ![r] = @ + 1] ELSE starts
    /\ IF ok THEN left = "running" /\ phase = "serving" /\ UNCHANGED faults
             ELSE left \in {"absent", "created", "running"} /\ Failing

(* docker run --name: the daemon refuses a name it already has.  A run that
   errors may have left no container, one that never ran, or one that runs. *)
LaunchWorkload(r, left, ok) ==
    /\ UNCHANGED content
    /\ IF container[r] # "absent"
       THEN ~ok /\ left = container[r] /\ UNCHANGED <<container, starts, faults>>
       ELSE /\ container' = [container EXCEPT ![r] = left]
            /\ starts' = IF left = "running" THEN [starts EXCEPT ![r] = @ + 1] ELSE starts
            /\ IF ok THEN left = "running" /\ phase = "serving" /\ UNCHANGED faults
                     ELSE left \in {"absent", "created", "running"} /\ Failing

(* docker stop by the Run's label; there is nothing to stop before a launch. *)
StopWorkload(r, left, ok) ==
    /\ UNCHANGED <<content, starts>>
    /\ container' = [container EXCEPT ![r] = left]
    /\ IF container[r] = "absent" THEN ~ok /\ left = "absent" /\ UNCHANGED faults
       ELSE /\ \/ left = (IF container[r] = "running" THEN "exited" ELSE container[r])
               \/ ~ok /\ left = container[r]
            /\ IF ok THEN phase = "serving" /\ UNCHANGED faults ELSE Failing

PrepareImage(i, ok) ==
    /\ UNCHANGED <<container, starts>>
    /\ content' = IF ok THEN content \cup {i} ELSE content
    /\ IF ok THEN phase = "serving" /\ UNCHANGED faults ELSE Failing

Perform(left, ok) ==
    /\ worker.stage = "perform"
    /\ CASE worker.op.kind = "launch" -> LaunchWorkload(worker.op.of, left, ok)
         [] worker.op.kind = "stop" -> StopWorkload(worker.op.of, left, ok)
         [] OTHER -> left = "absent" /\ PrepareImage(worker.op.of, ok)
    /\ worker' = [worker EXCEPT !.stage = "performed", !.ok = ok]
    /\ UNCHANGED <<store, link, phase, flushed, mem, now, losses, setbacks>>

(* A failure is remembered only when the command may have left something. *)
MarkApplied ==
    /\ worker.stage = "performed"
    /\ mem' = IF worker.ok \/ MayLeaveEffectOnFailure(worker.op)
              THEN [mem EXCEPT !.applied = @ \cup {worker.op}] ELSE mem
    /\ worker' = [worker EXCEPT !.stage = "report"]
    /\ UNCHANGED <<store, link, phase, flushed, daemon, now, faults, losses, setbacks>>

ReportResult ==
    /\ worker.stage = "report" /\ phase = "serving"
    /\ SettleOperation(worker.op, worker.ok)
    /\ worker' = Idle
    /\ UNCHANGED <<issued, fencing, recorded, workload, link, phase, flushed, mem, daemon,
                   now, faults, losses, setbacks>>

(* A result that could not be sent is dropped; a later session redelivers. *)
ResultLost ==
    /\ worker.stage = "report" /\ Failing
    /\ worker' = Idle
    /\ UNCHANGED <<store, link, phase, flushed, mem, daemon, now, losses, setbacks>>

-----------------------------------------------------------------------------
(* What happens to the machine whatever the agent does. *)

WorkloadExits(r) ==
    /\ container[r] = "running"
    /\ container' = [container EXCEPT ![r] = "exited"]
    /\ UNCHANGED <<store, link, phase, worker, flushed, mem, starts, content, now, faults, losses, setbacks>>

Crash ==
    /\ phase # "down" /\ Fault
    /\ phase' = "down" /\ worker' = Idle /\ session' = "none" /\ stream' = <<>>
    /\ UNCHANGED <<store, room, delivering, flushed, mem, daemon, now, losses, setbacks>>

(* The machine comes back without its state file and enrolls on a fresh
   invitation: a new fencing token, and no memory of what it applied or sent. *)
StateLost ==
    /\ phase = "down" /\ worker = Idle /\ losses < MaxStateLosses /\ Fault
    /\ losses' = losses + 1
    /\ fencing' = fencing + 1
    /\ mem' = StateFile(fencing')
    /\ UNCHANGED <<ops, issued, recorded, workload, link, phase, worker, flushed, daemon, now, setbacks>>

(* The clock an observation is dated by is the machine's own and may be set back.
   A stamp drops its trailing zeros, so one of a moment later may also sort before
   an earlier one that ends sooner. *)
ClockSetBack(at) ==
    /\ setbacks < MaxSetbacks /\ Fault
    /\ at < now /\ now' = at
    /\ setbacks' = setbacks + 1
    /\ UNCHANGED <<store, link, phase, worker, flushed, mem, daemon, losses>>

Next ==
    \/ \E o \in Op : Dispatch(o) \/ Deliver(o)
    \/ ReadPending \/ RegisterSession
    \/ Start \/ Reported \/ FlushEvent \/ FlushFails \/ ClearSpool
    \/ \E first, arrived \in BOOLEAN : HeartbeatSpooled(first, arrived)
    \/ SessionDrops \/ ServeReturns
    \/ \E r \in Runs : Told(r) \/ WorkloadExits(r) \/ \E arrived \in BOOLEAN : Spooled(r, arrived)
    \/ TakeCommand \/ MarkApplied \/ ReportResult \/ ResultLost
    \/ \E left \in {"absent", "created", "running", "exited"}, ok \in BOOLEAN : Perform(left, ok)
    \/ Crash \/ StateLost \/ \E at \in 0..now : ClockSetBack(at)

(* The agent's loop, its worker and the daemon keep going: Run retries serve
   forever, a request is answered or fails, docker answers. *)
AgentRuns ==
    \/ Start \/ Reported \/ FlushEvent \/ ClearSpool \/ ReadPending \/ RegisterSession
    \/ \E r \in Runs : Told(r)
    \/ ServeReturns \/ TakeCommand \/ MarkApplied \/ ReportResult
    \/ phase = "ending" /\ ResultLost
    \/ \E left \in {"absent", "created", "running", "exited"}, ok \in BOOLEAN : Perform(left, ok)

Spec == Init /\ [][Next]_vars
FairSpec == Spec /\ WF_vars(AgentRuns)

-----------------------------------------------------------------------------
(* Properties. *)

Effects == INSTANCE NodeCommands WITH
    command <- [o \in Op |-> ops[o].state],
    took <- [o \in Launches \cup Preparations |->
                IF o.kind = "launch" THEN starts[o.of]
                ELSE IF o.of \in content THEN 1 ELSE 0]

(* The node protocol keeps the promise of NodeCommands through crashes, dropped
   sessions, lost results and lost state files: a redelivered launch never starts
   a second container, nothing takes effect before it was recorded or after it
   was settled, a settled command stays settled, and a preparation the node
   acknowledged is really there (agent.go:316-318, node.go:241-243). *)
CommandsTakeEffectOnce == Effects!CSpec

(* As long as its state file survives and its clock goes forward, what the agent
   remembers having told the control plane is in the control plane's record, or
   something later is: an exit is never believed reported and missing from
   node_workloads (agent.go reportObservations, state.go Reported). *)
ToldIsRecorded ==
    losses = 0 /\ setbacks = 0 => \A r \in Runs :
        /\ mem.reported[r] = "exited" => workload[r].phase = "exited"
        /\ mem.reported[r] = "running" => workload[r].phase \in {"running", "exited"}

(* An exit reaches the control plane whatever the application said and however
   the reports were lost (agent.go:409-412), unless the state file is or the clock
   was set back. *)
ExitIsRecorded ==
    \A r \in Runs : (container[r] = "exited")
        ~> (workload[r].phase = "exited" \/ losses > 0 \/ setbacks > 0)

(* "It is how an exit reaches Mercator whatever the application did or did not
   report, and how a restart on either side converges without guessing"
   (agent.go:409-412): that holds of a restart without the state file too. *)
ExitSurvivesStateLoss ==
    \A r \in Runs : (container[r] = "exited") ~> (workload[r].phase = "exited")

(* The same of a clock that was set back: the report whose stamp sorts before the
   one held (storage/sqlite/node.go:361) is answered like any other. *)
AnsweredExitIsRecorded ==
    losses = 0 => \A r \in Runs : mem.reported[r] = "exited" => workload[r].phase = "exited"

(* "Duplicate reports that the node had already applied this operation"
   (node.go:312): a launch recorded as applied ran. *)
AppliedLaunchRan ==
    \A o \in Launches : ops[o].state = "applied" => starts[o.of] = 1

(* "Applied is false only when the node refused the command outright"
   (node.go:309): a launch recorded as refused left no running container. *)
RefusedLaunchLeftNothing ==
    \A o \in Launches : ops[o].state = "refused" => starts[o.of] = 0

(* "a full buffer costs a redelivery on reconnect rather than the work"
   (session.go:12): a command delivered late is only late, so no container of a
   Run starts after the stop of that Run was performed and settled. *)
NothingStartsAfterStop ==
    [][\A o \in Stops : ops[o].state \in {"applied", "refused"}
                           => starts'[o.of] = starts[o.of]]_vars

(* "releaseOnNode removes Mercator's container from a machine it keeps"
   (broker/nodes.go:230): once a Run's stop is settled, nothing of it runs. *)
StoppedRunIsGone ==
    \A o \in Stops : ops[o].state \in {"applied", "refused"} => container[o.of] # "running"
=============================================================================
