---------------------------- MODULE RunLifecycle ----------------------------
(***************************************************************************)
(* The Run lifecycle (internal/orchestrator): every Run is an event stream *)
(* that one worker at a time advances, a transition being one external     *)
(* effect followed by one append at the version that was read.  A          *)
(* transition that takes or gives back a Booking commits the Rental's      *)
(* schedule in the same transaction, against the schedule version it read. *)
(*                                                                         *)
(* A worker's step is two actions: the effect, which leaves in worker[r]   *)
(* the append it is about to make, and the commit.  The read of the stream *)
(* is joined to the effect: CancelRun is the only append that can fall     *)
(* between the two, and since the effect reads only the snapshot and the   *)
(* outside world it is the same as that append falling after the effect.   *)
(*                                                                         *)
(* Providers, nodes and machines are outside the orchestrator and are      *)
(* modelled by what its adapter and capacity interfaces let it see.  Time  *)
(* is not modelled: schedules are reserved and completed at moment 0, and  *)
(* an enrolment deadline passes when it passes.                            *)
(***************************************************************************)
EXTENDS RunState, RentalSchedule

CONSTANTS
    Runs,
    NoRental,
    MaxPreStartAttempts,  \* the workload's bound on launches that fail early
    Blind,                \* one-shot offers whose adapter creates without looking first
    ExitOutcomes,         \* how a workload's process may end
    ReportOutcomes,       \* what a workload may report of itself
    MaxDeferrals,         \* bound: admission answers recorded about one Run
    MaxFaults             \* bound: crashes, lost responses and failed calls

ASSUME BoundsAssumption ==
    /\ MaxPreStartAttempts \in Nat \ {0}
    /\ Blind \subseteq OneShot
    /\ ExitOutcomes \subseteq Ended
    /\ ReportOutcomes \subseteq {"succeeded", "failed"}
    /\ MaxDeferrals \in Nat /\ MaxFaults \in Nat

\* Each attempt after the first excludes the offer of the one before.
Attempts == 1..Cardinality(Offers)
LaunchKeys == Runs \X Attempts
Rentals == Standing \cup LaunchKeys

\* A fleet is finite, and the identity minted for a Booking's Rental is no node's.
ASSUME NamesAssumption ==
    /\ IsFiniteSet(Offers)
    /\ NoRental \notin Rentals /\ Standing \cap LaunchKeys = {}

VARIABLES
    run,        \* [Runs -> the reduced stream]
    schedule,   \* [Rentals -> the committed Rental Schedule]
    object,     \* [LaunchKeys -> what the provider or node holds for the launch]
    twins,      \* the launch keys a second object was made under
    machine,    \* [LaunchKeys -> the machine built for a provisioned Rental]
    worker,     \* [Runs -> the append the Run's worker is about to make]
    canceller,  \* [Runs -> the version CancelRun read, 0 when nobody cancels]
    published,  \* the Runs whose declared Artifacts are all in the object store
    faults      \* faults still to come

vars == <<run, schedule, object, twins, machine, worker, canceller, published, faults>>

NoPlan == [version |-> 0, events |-> <<>>, rental |-> NoRental,
           base |-> 0, next |-> NewRentalSchedule, admits |-> FALSE]
NoMachine == [state |-> "none", enrolled |-> FALSE, expired |-> FALSE]

Init ==
    /\ run = [r \in Runs |-> EmptyRun]
    /\ schedule = [q \in Rentals |-> NewRentalSchedule]
    /\ object = [k \in LaunchKeys |-> "none"]
    /\ twins = {}
    /\ machine = [k \in LaunchKeys |-> NoMachine]
    /\ worker = [r \in Runs |-> NoPlan]
    /\ canceller = [r \in Runs |-> 0]
    /\ published \in SUBSET Runs
    /\ faults = MaxFaults

(***************************************************************************)
(* Names.                                                                  *)
(***************************************************************************)
BookingID(r, s) == <<r, s.booking>>
RentalOf(r, s) == IF s.offer \in Standing THEN s.offer ELSE <<r, s.booking>>
LaunchKey(r) == <<r, run[r].intent>>
OnNode(r) == run[r].intentOffer \notin OneShot

\* A Booking some open Run has taken and not given back.
holdsBooking(s) ==
    /\ s.booking # 0 /\ ~ s.closed
    /\ bookingQueued(s) \/ ~ replacementEligible(s)

(***************************************************************************)
(* The appends a step ends in: on the Run's stream alone, or with the      *)
(* schedule of the Rental whose Booking changes.                           *)
(***************************************************************************)
appendEvents(r, events) ==
    [NoPlan EXCEPT !.version = run[r].version, !.events = events]

commitSchedule(r, events, rental, next) ==
    [appendEvents(r, events) EXCEPT
        !.rental = rental, !.base = schedule[rental].version, !.next = next]

CanCompleteBooking(r) ==
    /\ run[r].booking # 0
    /\ Holds(schedule[RentalOf(r, run[r])], BookingID(r, run[r]))

completeBookingAndAppend(r, events) ==
    LET q == RentalOf(r, run[r])
    IN  commitSchedule(r, events, q, Complete(schedule[q], BookingID(r, run[r]), 0))

Plan(r, plan) == worker' = [worker EXCEPT ![r] = plan]

\* The Run's worker is free and the next transition of the Run is the named one.
Steps(r, name) ==
    /\ worker[r] = NoPlan
    /\ run[r].requested
    /\ step(run[r]) = name

Fault == faults > 0 /\ faults' = faults - 1

(***************************************************************************)
(* Commands.                                                               *)
(***************************************************************************)
CreateRun(r) ==
    /\ ~ run[r].requested
    /\ run' = [run EXCEPT ![r] = AppendEvents(@, <<[type |-> "run_requested"]>>)]
    /\ UNCHANGED <<schedule, object, twins, machine, worker, canceller, published, faults>>

\* CancelRun does not take the Run's lock: it reads, then appends at the
\* version it read, and fails when a worker appended in between.
CancelRun(r) ==
    /\ run[r].requested /\ ~ run[r].closed /\ ~ run[r].cancelled
    /\ canceller[r] = 0
    /\ canceller' = [canceller EXCEPT ![r] = run[r].version]
    /\ UNCHANGED <<run, schedule, object, twins, machine, worker, published, faults>>

CancelAppend(r) ==
    /\ canceller[r] # 0
    /\ canceller' = [canceller EXCEPT ![r] = 0]
    /\ run' = IF canceller[r] = run[r].version
              THEN [run EXCEPT ![r] = AppendEvents(@, <<[type |-> "cancel_requested"]>>)]
              ELSE run
    /\ UNCHANGED <<schedule, object, twins, machine, worker, published, faults>>

\* A workload that got to run reports its exit.  The terminal report is one
\* command, so a second one is a replay or a conflict; a closed Run still
\* accepts it.  RecordReport holds the Run's lock.
RecordReport(r, outcome) ==
    /\ worker[r] = NoPlan
    /\ run[r].intent # 0
    /\ \/ object[LaunchKey(r)] \in Ended \cup {"running", "stopping", "orphaned"}
       \/ LaunchKey(r) \in twins
    /\ run[r].reported = "none"
    /\ run' = [run EXCEPT ![r] =
                  AppendEvents(@, <<[type |-> "run_reported", outcome |-> outcome]>>)]
    /\ UNCHANGED <<schedule, object, twins, machine, worker, canceller, published, faults>>

\* The last Artifact a Run declared reading reaches the object store.
PublishInputs(r) ==
    /\ r \notin published
    /\ published' = published \cup {r}
    /\ UNCHANGED <<run, schedule, object, twins, machine, worker, canceller, faults>>

(***************************************************************************)
(* Closing.  recordTerminalTransition turns the first terminal fact into   *)
(* the outcome; releaseAndCloseScheduled stops what was launched, gives    *)
(* the Booking back and closes.                                            *)
(***************************************************************************)
outcomeRecorded(o) == [type |-> "outcome_recorded", outcome |-> o]
runClosed == [type |-> "run_closed"]

\* Mutant: a Run cancelled in the queue closes and leaves its Booking behind.
recordTerminalTransitionKeeps(r) ==
    /\ Steps(r, "terminal")
    /\ LET outcome == outcomeRecorded(run[r].terminal)
       IN  IF externalObjectPossible(run[r])
           THEN Plan(r, appendEvents(r, <<outcome, [type |-> "cleanup_requested"]>>))
           ELSE Plan(r, appendEvents(r, <<outcome, runClosed>>))
    /\ UNCHANGED <<run, schedule, object, twins, machine, canceller, published, faults>>

recordTerminalTransition(r) ==
    /\ Steps(r, "terminal")
    /\ LET outcome == outcomeRecorded(run[r].terminal)
       IN  IF externalObjectPossible(run[r])
           THEN Plan(r, appendEvents(r, <<outcome, [type |-> "cleanup_requested"]>>))
           ELSE IF bookingQueued(run[r])
           THEN /\ CanCompleteBooking(r)
                /\ Plan(r, completeBookingAndAppend(r, <<outcome, runClosed>>))
           ELSE Plan(r, appendEvents(r, <<outcome, runClosed>>))
    /\ UNCHANGED <<run, schedule, object, twins, machine, canceller, published, faults>>

\* Mutant: a node is not asked to stop what has not started.
cleanupStarted(r) ==
    /\ object' = [object EXCEPT ![LaunchKey(r)] =
                     IF OnNode(r) /\ @ = "running" THEN "stopping"
                     ELSE IF @ \in {"queued", "stopping"} THEN @ ELSE "released"]
    /\ UNCHANGED twins

\* Release on a node is a durable Stop its agent applies later; a one-shot
\* execution is gone when the provider answers.  A provider releases the one
\* object it finds: nothing while the launch is still on its way, and a second
\* object only when it is asked again after the first is gone.
cleanup(r) ==
    /\ object' = [object EXCEPT ![LaunchKey(r)] =
                     IF OnNode(r) /\ @ \in {"queued", "running"} THEN "stopping"
                     ELSE IF @ = "stopping" THEN @
                     ELSE IF @ \in {"landing", "missed"} THEN "missed" ELSE "released"]
    /\ twins' = IF object[LaunchKey(r)] = "released" THEN twins \ {LaunchKey(r)} ELSE twins

\* Mutant: a cleanup that failed is not tried again.
releaseAndCloseOnce(r) ==
    /\ Steps(r, "cleanup") /\ ~ run[r].cleanupFailed
    /\ cleanup(r)
    /\ CanCompleteBooking(r)
    /\ Plan(r, completeBookingAndAppend(r, <<[type |-> "cleanup_confirmed"], runClosed>>))
    /\ UNCHANGED <<run, schedule, machine, canceller, published, faults>>

\* The effect is repeated, and nothing appended, while the Booking to give
\* back cannot be found.
releaseAndCloseScheduled(r) ==
    /\ Steps(r, "cleanup")
    /\ cleanup(r)
    /\ IF CanCompleteBooking(r)
       THEN Plan(r, completeBookingAndAppend(r, <<[type |-> "cleanup_confirmed"], runClosed>>))
       ELSE UNCHANGED worker
    /\ UNCHANGED <<run, schedule, machine, canceller, published, faults>>

recordCleanupFailure(r) ==
    /\ Steps(r, "cleanup")
    /\ Fault
    /\ Plan(r, appendEvents(r, <<[type |-> "cleanup_failed"]>>))
    /\ UNCHANGED <<run, schedule, object, twins, machine, canceller, published>>

(***************************************************************************)
(* Admission and placement.  Which Runs are held behind which, and which   *)
(* offers the fleet publishes, is left open here: any Run may be told to   *)
(* wait, refused or placed.  stepAdmit holds one deployment-wide lock from *)
(* before it reads the queue until its append is made.                     *)
(***************************************************************************)
decided(offer, booking, state) ==
    [type |-> "booking_decided", offer |-> offer, booking |-> booking, state |-> state]
selectedNothing == decided(NoOffer, 0, "none")

\* A wait for capacity carries the decision it was read off; a wait behind
\* other Runs carries none.
evidence(reason) == IF reason = "capacity" THEN <<selectedNothing>> ELSE <<>>

PlanAdmission(r, plan) == Plan(r, [plan EXCEPT !.admits = TRUE])

\* A Run is not admitted, nor queued, before all it reads is in the object store.
inputsAreDurable(r) == r \in published

Admits(r) ==
    /\ Steps(r, "admit")
    /\ inputsAreDurable(r)
    /\ \A other \in Runs : ~ worker[other].admits

recordDeferral(r, reason) ==
    /\ Admits(r)
    /\ reason = "capacity" => ~ replacementEligible(run[r])
    /\ run[r].deferral # reason
    /\ run[r].deferrals < MaxDeferrals
    /\ PlanAdmission(r, appendEvents(r, evidence(reason) \o
           <<[type |-> "admission_deferred", reason |-> reason]>>))
    /\ UNCHANGED <<run, schedule, object, twins, machine, canceller, published, faults>>

recordRefusal(r, reason) ==
    /\ Admits(r)
    /\ reason = "capacity" => ~ replacementEligible(run[r])
    /\ PlanAdmission(r, appendEvents(r, evidence(reason) \o
           <<[type |-> "admission_refused", reason |-> reason],
             outcomeRecorded("failed"), runClosed>>))
    /\ UNCHANGED <<run, schedule, object, twins, machine, canceller, published, faults>>

closeRetryExhausted(r) ==
    /\ Admits(r)
    /\ replacementEligible(run[r])
    /\ PlanAdmission(r, appendEvents(r, <<selectedNothing, outcomeRecorded("failed"), runClosed>>))
    /\ UNCHANGED <<run, schedule, object, twins, machine, canceller, published, faults>>

attemptEvents(offer) ==
    <<[type |-> "attempt_created"], [type |-> "launch_intent_recorded", offer |-> offer]>>

bookingRequest(r, booking) ==
    [id |-> <<r, booking>>, run |-> r, expected |-> 1, max |-> 1, reservedAt |-> 0]

\* The decision, the attempt and the launch intent are one append with the
\* reserved schedule, and no adapter is called before it is durable.  A Booking
\* that has to wait records only the decision.
stepPlace(r, offer) ==
    /\ Admits(r)
    /\ offer \notin run[r].excluded
    /\ LET booking == run[r].attempts + 1
           rental  == IF offer \in Standing THEN offer ELSE <<r, booking>>
           request == bookingRequest(r, booking)
           state   == bookingFor(schedule[rental], request).state
           events  == <<decided(offer, booking, state)>> \o
                      (IF state = "queued" THEN <<>> ELSE attemptEvents(offer)) \o
                      (IF offer \in Provisioned THEN <<[type |-> "capacity_requested"]>> ELSE <<>>)
       IN  /\ validBookingRequest(schedule[rental], request)
           /\ PlanAdmission(r, commitSchedule(r, events, rental, Reserve(schedule[rental], request)))
    /\ UNCHANGED <<run, schedule, object, twins, machine, canceller, published, faults>>

\* Mutant: a queued Booking is dispatched without waiting for its turn.
dispatchAnyBooking(r) ==
    /\ Steps(r, "dispatch")
    /\ Plan(r, appendEvents(r, <<[type |-> "booking_dispatched"]>> \o attemptEvents(run[r].offer)))
    /\ UNCHANGED <<run, schedule, object, twins, machine, canceller, published, faults>>

\* A queued Booking that reached the head of its Rental becomes an attempt.
dispatchQueuedBooking(r) ==
    /\ Steps(r, "dispatch")
    /\ LET q == schedule[RentalOf(r, run[r])]
           id == BookingID(r, run[r])
       IN  /\ Holds(q, id)
           /\ q.bookings[bookingIndex(q, id)].state = "running"
    /\ Plan(r, appendEvents(r, <<[type |-> "booking_dispatched"]>> \o attemptEvents(run[r].offer)))
    /\ UNCHANGED <<run, schedule, object, twins, machine, canceller, published, faults>>

(***************************************************************************)
(* Building the machine a provisioned Rental runs on.                      *)
(***************************************************************************)
\* A machine the provider already holds for this Rental is adopted; otherwise
\* one is asked for, and the answer may be lost on its way back.
allocateCapacity(r) ==
    /\ Steps(r, "capacity")
    /\ ~ run[r].capacityAccepted
    /\ machine' = [machine EXCEPT ![LaunchKey(r)].state =
                      IF @ \in {"starting", "active"} THEN @ ELSE "starting"]
    /\ \/ Plan(r, appendEvents(r, <<[type |-> "capacity_accepted"]>>)) /\ UNCHANGED faults
       \/ Fault /\ UNCHANGED worker
    /\ UNCHANGED <<run, schedule, object, twins, canceller, published>>

provisioningStagesFinished(m) ==
    (CASE m.state = "starting" -> {"acquisition"}
       [] m.state = "active" -> {"acquisition", "boot"}
       [] OTHER -> {})
    \cup (IF m.enrolled THEN {"agent_ready"} ELSE {})

capacityStageEvents(r) ==
    provisioningStagesFinished(machine[LaunchKey(r)]) \ run[r].stages

watchCapacityArrive(r) ==
    /\ Steps(r, "capacity")
    /\ run[r].capacityAccepted
    /\ capacityStageEvents(r) # {}
    /\ Plan(r, appendEvents(r,
           <<[type |-> "capacity_stage_observed", stages |-> capacityStageEvents(r)]>>))
    /\ UNCHANGED <<run, schedule, object, twins, machine, canceller, published, faults>>

\* Mutant: the machine is given up in the record and left running.
reclaimLeavesMachine(r) ==
    /\ Steps(r, "capacity")
    /\ run[r].capacityAccepted
    /\ capacityStageEvents(r) = {}
    /\ machine[LaunchKey(r)].expired
    /\ CanCompleteBooking(r)
    /\ Plan(r, completeBookingAndAppend(r, <<[type |-> "capacity_reclaimed"]>>))
    /\ UNCHANGED <<run, schedule, object, twins, machine, canceller, published, faults>>

\* A machine nobody enrolled on by the deadline is terminated, and the Booking
\* given back with the record of it.
reclaimCapacity(r) ==
    /\ Steps(r, "capacity")
    /\ run[r].capacityAccepted
    /\ capacityStageEvents(r) = {}
    /\ machine[LaunchKey(r)].expired
    /\ CanCompleteBooking(r)
    /\ machine' = [machine EXCEPT ![LaunchKey(r)].state = "gone"]
    /\ Plan(r, completeBookingAndAppend(r, <<[type |-> "capacity_reclaimed"]>>))
    /\ UNCHANGED <<run, schedule, object, twins, canceller, published, faults>>

(***************************************************************************)
(* Launching.  A node's registry and most providers answer a repeated      *)
(* launch key with the object the first call created.  A Blind one creates *)
(* again, and so does any provider whose first object does not show yet.   *)
(***************************************************************************)
Exists(state) == state \notin {"none", "refused"}

\* What a listing of the provider's objects by launch key returns.
Shows(state) == Exists(state) /\ state # "landing"

\* A call that got as far as creating, or found what is there.  Of two objects
\* under one key, object is the one the provider lists first, whichever it is.
CreateObject(r, created) ==
    LET key   == LaunchKey(r)
        state == object[key]
    IN  IF Shows(state) /\ run[r].intentOffer \notin Blind
        THEN UNCHANGED <<object, twins>>
        ELSE /\ \E new \in IF Shows(state) THEN {state, "queued"} ELSE created :
                   object' = [object EXCEPT ![key] = new]
             /\ twins' = IF Exists(state) THEN twins \cup {key} ELSE twins

launchAccepted(r) ==
    /\ Steps(r, "launch")
    /\ CreateObject(r, {"queued"})
    /\ Plan(r, appendEvents(r, <<[type |-> "launch_accepted"]>>))
    /\ UNCHANGED <<run, schedule, machine, canceller, published, faults>>

launchFailed(failure) == [type |-> "launch_failed", failure |-> failure]

\* Only a provider's one-shot launch can time out.  Whether it created the
\* object, will yet, or never does is unknown, and the Run goes on to observe.
recordIndeterminateLaunch(r) ==
    /\ Steps(r, "launch")
    /\ ~ OnNode(r)
    /\ Fault
    /\ CreateObject(r, {"queued", "landing"}) \/ UNCHANGED <<object, twins>>
    /\ Plan(r, appendEvents(r, <<launchFailed("indeterminate")>>))
    /\ UNCHANGED <<run, schedule, machine, canceller, published>>

\* Mutant: one launch too many.
exhaustedLate(r) == run[r].attempts > MaxPreStartAttempts

exhausted(r) == run[r].attempts >= MaxPreStartAttempts

\* The provider proves it created nothing for want of capacity (SideEffectNone):
\* the Booking is given back and the Run is placed again, until its attempts are
\* spent.  The proof covers the key, not one call: the only providers that answer
\* so look it up first (internal/lab/world.go:1469).
recordReplaceableLaunchFailure(r) ==
    /\ Steps(r, "launch")
    /\ ~ OnNode(r)
    /\ ~ Exists(object[LaunchKey(r)])
    /\ CanCompleteBooking(r)
    /\ object' = [object EXCEPT ![LaunchKey(r)] = "refused"]
    /\ Plan(r, completeBookingAndAppend(r, <<launchFailed("replaceable")>> \o
           (IF exhausted(r) THEN <<outcomeRecorded("failed"), runClosed>> ELSE <<>>)))
    /\ UNCHANGED <<run, schedule, twins, machine, canceller, published, faults>>

\* Any error the adapter does not classify closes the Run, and nothing is cleaned
\* up: not what an earlier call whose record was lost created (a node that went
\* away keeps its pending launch), nor what the failing call itself may have
\* created at a provider before its answer was lost.
recordTerminalLaunchFailure(r) ==
    /\ Steps(r, "launch")
    /\ CanCompleteBooking(r)
    /\ \/ /\ object' = [object EXCEPT ![LaunchKey(r)] = IF Exists(@) THEN @ ELSE "refused"]
          /\ UNCHANGED twins
       \/ ~ OnNode(r) /\ CreateObject(r, {"queued", "landing"})
    /\ Plan(r, completeBookingAndAppend(r,
           <<launchFailed("rejected"), outcomeRecorded("failed"), runClosed>>))
    /\ UNCHANGED <<run, schedule, machine, canceller, published, faults>>

(***************************************************************************)
(* Observing.  A provider that holds nothing under the launch key says     *)
(* released; a node that never mentioned the workload says queued.         *)
(***************************************************************************)
observeLaunch(r) ==
    LET state == object[LaunchKey(r)]
    IN  IF state \in Ended \cup {"running"} THEN state
        ELSE IF OnNode(r) \/ state = "queued" THEN "queued"
        ELSE "released"

\* The first sight of the running workload dates the Booking that holds the
\* Rental.
recordObservation(r) ==
    /\ Steps(r, "observe")
    /\ LET phase   == observeLaunch(r)
           started == ~ run[r].started /\ phase \in Exited \cup {"running"}
           q       == RentalOf(r, run[r])
           events  == <<[type |-> "external_state_observed", phase |-> phase]>> \o
                      (IF started THEN <<[type |-> "execution_started"]>> ELSE <<>>)
       IN  /\ phase \in TerminalPhases \/ phase # run[r].phase \/ started
           /\ Plan(r, IF /\ phase = "running"
                         /\ CanStart(schedule[q], BookingID(r, run[r]))
                      THEN commitSchedule(r, events, q, Started(schedule[q], 0))
                      ELSE appendEvents(r, events))
    /\ UNCHANGED <<run, schedule, object, twins, machine, canceller, published, faults>>

(***************************************************************************)
(* The commit: one transaction checks both versions.                       *)
(***************************************************************************)
VersionsMatch(r) ==
    /\ worker[r].version = run[r].version
    /\ worker[r].rental # NoRental => schedule[worker[r].rental].version = worker[r].base

Commit(r) ==
    /\ worker[r] # NoPlan
    /\ VersionsMatch(r)
    /\ run' = [run EXCEPT ![r] = AppendEvents(@, worker[r].events)]
    /\ schedule' = IF worker[r].rental = NoRental THEN schedule
                   ELSE [schedule EXCEPT ![worker[r].rental] = worker[r].next]
    /\ worker' = [worker EXCEPT ![r] = NoPlan]
    /\ UNCHANGED <<object, twins, machine, canceller, published, faults>>

\* A conflict ends the pass; the next sweep reads the stream again.
Conflict(r) ==
    /\ worker[r] # NoPlan
    /\ ~ VersionsMatch(r)
    /\ worker' = [worker EXCEPT ![r] = NoPlan]
    /\ UNCHANGED <<run, schedule, object, twins, machine, canceller, published, faults>>

\* Plans and pending cancels are in memory; everything else is durable.  A
\* crash that loses neither changes nothing.
Crash ==
    /\ \E r \in Runs : worker[r] # NoPlan \/ canceller[r] # 0
    /\ Fault
    /\ worker' = [r \in Runs |-> NoPlan]
    /\ canceller' = [r \in Runs |-> 0]
    /\ UNCHANGED <<run, schedule, object, twins, machine, published>>

(***************************************************************************)
(* The outside world.                                                      *)
(***************************************************************************)
\* A workload starts when the provider or the agent gets to it, in no order with
\* the Stops issued before it: a session does not keep the order of its commands.
WorkloadStarts(key) ==
    /\ object[key] = "queued"
    /\ object' = [object EXCEPT ![key] = "running"]
    /\ UNCHANGED <<run, schedule, twins, machine, worker, canceller, published, faults>>

\* A launch still on its way when its call ended reaches the provider, after a
\* release that found nothing to release perhaps.
LaunchLands(key) ==
    /\ object[key] \in {"landing", "missed"}
    /\ object' = [object EXCEPT ![key] = IF @ = "landing" THEN "queued" ELSE "orphaned"]
    /\ UNCHANGED <<run, schedule, twins, machine, worker, canceller, published, faults>>

WorkloadExits(key, outcome) ==
    /\ object[key] = "running"
    /\ object' = [object EXCEPT ![key] = outcome]
    /\ UNCHANGED <<run, schedule, twins, machine, worker, canceller, published, faults>>

AgentStops(key) ==
    /\ object[key] = "stopping"
    /\ object' = [object EXCEPT ![key] = "released"]
    /\ UNCHANGED <<run, schedule, twins, machine, worker, canceller, published, faults>>

MachineBoots(key) ==
    /\ machine[key].state = "starting"
    /\ machine' = [machine EXCEPT ![key].state = "active"]
    /\ UNCHANGED <<run, schedule, object, twins, worker, canceller, published, faults>>

\* The invitation a machine enrols with is redeemable until the deadline.
AgentEnrols(key) ==
    /\ machine[key].state \in {"starting", "active"}
    /\ ~ machine[key].enrolled /\ ~ machine[key].expired
    /\ machine' = [machine EXCEPT ![key].enrolled = TRUE]
    /\ UNCHANGED <<run, schedule, object, twins, worker, canceller, published, faults>>

DeadlinePasses(key) ==
    /\ run[key[1]].intent = key[2] /\ run[key[1]].capacity
    /\ ~ machine[key].expired
    /\ machine' = [machine EXCEPT ![key].expired = TRUE]
    /\ UNCHANGED <<run, schedule, object, twins, worker, canceller, published, faults>>

(***************************************************************************)
(* The specification.  The daemon's reconcile loop sweeps every open Run   *)
(* for ever, which is the fairness of Advance; an agent applies the        *)
(* commands it was sent.  Nobody has to cancel, report, exit or publish.   *)
(***************************************************************************)
Reasons == {"ordering", "capacity"}

Advance(r) ==
    \/ recordTerminalTransition(r) \/ releaseAndCloseScheduled(r) \/ recordCleanupFailure(r)
    \/ \E reason \in Reasons : recordDeferral(r, reason) \/ recordRefusal(r, reason)
    \/ closeRetryExhausted(r)
    \/ \E offer \in Offers : stepPlace(r, offer)
    \/ dispatchQueuedBooking(r)
    \/ allocateCapacity(r) \/ watchCapacityArrive(r) \/ reclaimCapacity(r)
    \/ launchAccepted(r) \/ recordIndeterminateLaunch(r)
    \/ recordReplaceableLaunchFailure(r) \/ recordTerminalLaunchFailure(r)
    \/ recordObservation(r)
    \/ Commit(r) \/ Conflict(r)

World(key) ==
    \/ WorkloadStarts(key) \/ LaunchLands(key) \/ AgentStops(key)
    \/ \E outcome \in ExitOutcomes : WorkloadExits(key, outcome)
    \/ MachineBoots(key) \/ AgentEnrols(key) \/ DeadlinePasses(key)

Next ==
    \/ \E r \in Runs :
          \/ CreateRun(r) \/ CancelRun(r) \/ CancelAppend(r) \/ PublishInputs(r)
          \/ \E outcome \in ReportOutcomes : RecordReport(r, outcome)
          \/ Advance(r)
    \/ \E key \in LaunchKeys : World(key)
    \/ Crash

Spec == Init /\ [][Next]_vars

FairSpec ==
    /\ Spec
    /\ \A r \in Runs : WF_vars(Advance(r))
    /\ \A key \in LaunchKeys : WF_vars(AgentStops(key))

(***************************************************************************)
(* Properties.                                                             *)
(***************************************************************************)
ObjectStates ==
    {"none", "refused", "landing", "queued", "running", "succeeded", "failed", "cancelled",
     "stopping", "released", "missed", "orphaned"}

\* A launched object nobody has asked to stop or removed.
Outstanding == Ended \cup {"queued", "running"}

\* The same, or one on its way.
Pending == Outstanding \cup {"landing"}

TypeOK ==
    /\ \A r \in Runs :
          /\ run[r].offer \in Offers \cup {NoOffer}
          /\ run[r].booking \in {0} \cup Attempts
          /\ run[r].attempts \in {0} \cup Attempts
          /\ run[r].intent \in {0, run[r].attempts}
          /\ run[r].excluded \subseteq Offers
          /\ worker[r].rental \in Rentals \cup {NoRental}
    /\ \A q \in Rentals : Len(schedule[q].bookings) <= QueueCapacity + 1
    /\ object \in [LaunchKeys -> ObjectStates]
    /\ twins \subseteq LaunchKeys
    /\ published \subseteq Runs
    /\ faults \in 0..MaxFaults

\* The schedule a Rental commits and the Runs' own streams never disagree: the
\* Bookings on a Rental are exactly those of the open Runs that took one there
\* and have not given it back.  No phantom entry is left behind by a cancel, a
\* refusal, a failed launch or a reclaim (recordTerminalTransition's comment), and
\* no placed Run loses its place.
BookingsAreHeld ==
    \A q \in Rentals :
        {schedule[q].bookings[i].id : i \in DOMAIN schedule[q].bookings} =
        {BookingID(r, run[r]) : r \in {x \in Runs : holdsBooking(run[x]) /\ RentalOf(x, run[x]) = q}}

\* At most one workload nobody has asked to stop is on a standing Rental,
\* whichever Runs are queued, cancelled or crashed there: a Run's launch is on the
\* node only while its Booking is at the head of the schedule.  A launch recorded
\* as rejected is outside it, since nothing stops what an earlier call left behind
\* (RejectedLaunchLeavesNothing).
RentalExclusive ==
    \A k1, k2 \in LaunchKeys :
        (/\ object[k1] \in Outstanding /\ object[k2] \in Outstanding
         /\ run[k1[1]].failure # "rejected" /\ run[k2[1]].failure # "rejected"
         /\ RentalOf(k1[1], run[k1[1]]) = RentalOf(k2[1], run[k2[1]])) => k1 = k2

\* A Run never has objects of two of its attempts at once, there, on their way or
\* landed too late, however often its launch was placed again or interrupted by a
\* crash: an attempt is replaced only when nothing of it exists or ever will.
OneObjectPerRun ==
    LET Live == Pending \cup {"missed", "orphaned"}
    IN  \A r \in Runs : \A i, j \in Attempts :
            (object[<<r, i>>] \in Live /\ object[<<r, j>>] \in Live) => i = j

\* A closed Run has left nothing running or on its way that nobody was asked to
\* stop: a Run closes only after its cleanup is confirmed, whether its launch was
\* answered, timed out or lost in a crash, or when nothing was created.  The
\* attempt whose launch was recorded as rejected is outside it
\* (RejectedLaunchLeavesNothing), and so is an object that landed after a release
\* found nothing.
ClosedMeansReleased ==
    \A r \in Runs : run[r].closed =>
        \A i \in Attempts : object[<<r, i>>] \in Pending =>
            i = run[r].attempts /\ run[r].failure = "rejected"

\* "A definitive launch rejection closes the run terminally. The provider did not
\* create an object, so cleanup is not required" (the comment of
\* recordTerminalLaunchFailure): a Run closed by a rejection has nothing outside.
RejectedLaunchLeavesNothing ==
    \A r \in Runs : run[r].closed /\ run[r].failure = "rejected" =>
        object[<<r, run[r].attempts>>] \notin Pending

\* A repeated launch under one key finds the first object: "IdempotentLaunch names
\* the mechanism the provider honors for repeated launch commands" (EphemeralSupport),
\* which every one-shot adapter states to be the launch key.
LaunchKeyIsOneObject == twins = {}

\* A machine that was built and not given back belongs to the attempt its Run is
\* on: no lost response, crash or conflict makes a Run move on and forget one.
NoAbandonedMachine ==
    \A key \in LaunchKeys :
        machine[key].state \in {"starting", "active"} => run[key[1]].intent = key[2]

\* The workload's bound counts the launches handed to a provider, across
\* replacements, reclaimed machines and crashes.
LaunchesWithinBound ==
    \A r \in Runs :
        Cardinality({i \in Attempts : object[<<r, i>>] # "none"}) <= MaxPreStartAttempts

\* An outcome is recorded once, and a closed Run stays closed: late reports and
\* late cancels change neither.
OutcomeFinal ==
    [][\A r \in Runs :
          /\ run[r].outcome # "none" => run'[r].outcome = run[r].outcome
          /\ run[r].closed => run'[r].closed]_vars

\* A Run with a terminal fact converges to closed with no client involved
\* (AdvanceOpenRuns), whatever crashes, conflicts or fails to clean up on the way
\* a bounded number of times.
EndedRunCloses ==
    \A r \in Runs : run[r].terminal # "none" ~> run[r].closed

\* A queued Booking promoted to the head of its Rental, by another Run's commit,
\* becomes an attempt of its Run or the Run closes: no Rental is left held by a
\* Run nobody dispatches.
PromotedRunDispatched ==
    \A r \in Runs :
        (bookingQueued(run[r]) /\ CanStart(schedule[RentalOf(r, run[r])], BookingID(r, run[r])))
            ~> (run[r].closed \/ ~ bookingQueued(run[r]))

=============================================================================
