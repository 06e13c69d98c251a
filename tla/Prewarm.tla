------------------------------- MODULE Prewarm -------------------------------
(***************************************************************************)
(* Preparing content on the machines queued Runs will start on             *)
(* (orchestrator/prewarm.go), driven by the minute's reconciliation and by *)
(* the events that change what is wanted (daemon/runtime.go), carried by   *)
(* the Broker's node lane (broker/nodes.go) and paced by a durable clock   *)
(* (storage/sqlite/preparation.go).  Passes of the two drivers overlap; the*)
(* control plane restarts; nodes fail transfers and leave the catalog.     *)
(*                                                                         *)
(* Time is kept as ages, capped at MinInterval: only whether the rate      *)
(* bound holds matters.                                                    *)
(***************************************************************************)
EXTENDS Naturals, Sequences, FiniteSets

CONSTANTS RunIDs,          \* numbers: their order is the order of Run IDs
          Machine,         \* the machine each Run is booked on
          Content,         \* what each Run's container reads: image, then Artifacts
          Starts,          \* projected starts a Booking may have
          Drivers,         \* goroutines that call Prewarm
          MaxConcurrent, MinInterval,
          MaxRestarts, MaxFailures, MaxDepartures, MaxFaults   \* in one behaviour

ASSUME PrewarmConstants ==
    /\ RunIDs \subseteq Nat /\ Starts \subseteq Nat
    /\ MaxConcurrent \in Nat \ {0} /\ MinInterval \in Nat
    /\ MaxRestarts \in Nat /\ MaxFailures \in Nat /\ MaxDepartures \in Nat /\ MaxFaults \in Nat

VARIABLES
    booking,   \* each Run: its stage, and its Booking's projected start
    listed,    \* machines in the offer catalog
    held,      \* content machines have reported holding
    command,   \* each preparation command in the node registry
    memory,    \* prewarmMemory: what was last asked for, or NothingAsked
    age,       \* now minus the durable clock's moment
    pass,      \* each driver's pass through Prewarm
    begun,     \* when asking last began: how long ago; turn flips each time
    faults     \* restarts, failed transfers and departures so far
prewarmVars == <<booking, listed, held, command, memory, age, pass, begun, faults>>

BookedMachines == {Machine[r] : r \in RunIDs}
(* prewarmItemKey: one piece of content on one machine. *)
Items ==
    UNION {{[on |-> Machine[r], what |-> Content[r][k]] : k \in DOMAIN Content[r]} : r \in RunIDs}

(* The memory of a process that has asked for nothing, which is not having asked
   for the empty set: its key is "" and that of the empty desire is "prewarm:". *)
NothingAsked == [stated |-> FALSE, sent |-> {}]
Asked(items) == [stated |-> TRUE, sent |-> items]

IdlePass == [stage |-> "idle", wanted |-> {}, unsent |-> {}, began |-> FALSE]

PrewarmInit ==
    /\ booking = [r \in RunIDs |-> [stage |-> "none", start |-> 0]]
    /\ listed = BookedMachines /\ held = {}
    /\ command = [i \in Items |-> "none"]
    /\ memory = NothingAsked /\ age = MinInterval
    /\ pass = [d \in Drivers |-> IdlePass]
    /\ begun = [ago |-> MinInterval, turn |-> FALSE]
    /\ faults = [restarts |-> 0, failures |-> 0, departures |-> 0]

-----------------------------------------------------------------------------
(* The desired set. *)

preparing == {Machine[r] : r \in {q \in RunIDs : booking[q].stage = "admitted"}}

queuedPlacements == {r \in RunIDs : /\ booking[r].stage = "queued"
                                    /\ Machine[r] \in listed \ preparing}

Wants(i) ==
    UNION {{<<r, k>> : k \in {n \in DOMAIN Content[r] : i = [on |-> Machine[r], what |-> Content[r][n]]}}
           : r \in queuedPlacements}

deploymentDesire == {i \in Items : Wants(i) # {} /\ i \notin held}

Sooner(w, v) ==
    \/ booking[w[1]].start < booking[v[1]].start
    \/ booking[w[1]].start = booking[v[1]].start /\ w[1] < v[1]
    \/ w[1] = v[1] /\ w[2] < v[2]

(* An item is wanted from the soonest of the placements that want it. *)
soonestFirst(i, j) == \E w \in Wants(i) : \A v \in Wants(j) : Sooner(w, v)

prewarmDesire ==
    {i \in deploymentDesire :
        Cardinality({j \in deploymentDesire : soonestFirst(j, i)}) < MaxConcurrent}

-----------------------------------------------------------------------------
(* Prewarm. *)

rateBoundHolds == age < MinInterval

withoutAdditions(wanted) == wanted \cap memory.sent

(* Mutant: a desire that only drops content is taken for unchanged. *)
unchangedWithin(wanted) == memory.stated /\ wanted \subseteq memory.sent

unchanged(wanted) == memory = Asked(wanted)

Prewarm(d) ==
    /\ pass[d].stage = "idle"
    /\ pass' = [pass EXCEPT ![d] = [IdlePass EXCEPT !.stage = "desired", !.wanted = prewarmDesire]]
    /\ UNCHANGED <<booking, listed, held, command, memory, age, begun, faults>>

stateDesire(d) ==
    /\ pass[d].stage = "desired"
    /\ LET wanted == IF rateBoundHolds THEN withoutAdditions(pass[d].wanted) ELSE pass[d].wanted IN
       pass' = [pass EXCEPT ![d] = IF unchanged(wanted) THEN IdlePass
                ELSE [stage |-> "stating", wanted |-> wanted, unsent |-> wanted, began |-> FALSE]]
    /\ UNCHANGED <<booking, listed, held, command, memory, age, begun, faults>>

(* One item of Broker.Prepare: a command of its own, recorded unless the node has
   it outstanding or applied already.  A Booking queues on a node and on nothing
   else, so no item is on a connection whose content Prepare cannot place. *)
prepareOnNode(d, i) ==
    /\ pass[d].stage = "stating" /\ i \in pass[d].unsent /\ i.on \in listed
    /\ LET fresh == command[i] \in {"none", "refused"} IN
       /\ command' = IF fresh THEN [command EXCEPT ![i] = "pending"] ELSE command
       /\ begun' = IF fresh /\ ~pass[d].began
                   THEN [ago |-> 0, turn |-> ~begun.turn] ELSE begun
       /\ pass' = [pass EXCEPT ![d].unsent = @ \ {i}, ![d].began = @ \/ fresh]
    /\ UNCHANGED <<booking, listed, held, memory, age, faults>>

(* A machine that left refuses its address, and the pass ends there. *)
PrepareFails(d) ==
    /\ pass[d].stage = "stating" /\ \E i \in pass[d].unsent : i.on \notin listed
    /\ pass' = [pass EXCEPT ![d] = IdlePass]
    /\ UNCHANGED <<booking, listed, held, command, memory, age, begun, faults>>

(* Mutant: what was asked for is remembered as soon as the asking starts. *)
rememberEarly(d) ==
    /\ pass[d].stage = "stating"
    /\ pass' = [pass EXCEPT ![d].stage = IF pass[d].wanted \subseteq memory.sent THEN "idle" ELSE "began"]
    /\ memory' = Asked(pass[d].wanted)
    /\ UNCHANGED <<booking, listed, held, command, age, begun, faults>>

(* remember: the node lane's receipt refuses nothing. *)
remember(d) ==
    /\ pass[d].stage = "stating" /\ pass[d].unsent = {}
    /\ pass' = [pass EXCEPT ![d] = IF pass[d].wanted \subseteq memory.sent THEN IdlePass
                                   ELSE [IdlePass EXCEPT !.stage = "began"]]
    /\ memory' = Asked(pass[d].wanted)
    /\ UNCHANGED <<booking, listed, held, command, age, begun, faults>>

(* Mutant: the moment is kept in the process and never stamped. *)
RecordNothing(d) ==
    /\ pass[d].stage = "began"
    /\ pass' = [pass EXCEPT ![d] = IdlePass]
    /\ UNCHANGED <<booking, listed, held, command, memory, age, begun, faults>>

RecordBegan(d) ==
    /\ pass[d].stage = "began"
    /\ pass' = [pass EXCEPT ![d] = IdlePass] /\ age' = 0
    /\ UNCHANGED <<booking, listed, held, command, memory, begun, faults>>

-----------------------------------------------------------------------------
(* What happens around it. *)

Move(r, from, to) ==
    /\ booking[r].stage \in from
    /\ booking' = [booking EXCEPT ![r].stage = to]
    /\ UNCHANGED <<listed, held, command, memory, age, pass, begun, faults>>

Booked(r, start) ==
    /\ booking[r].stage = "none"
    /\ booking' = [booking EXCEPT ![r] = [stage |-> "queued", start |-> start]]
    /\ UNCHANGED <<listed, held, command, memory, age, pass, begun, faults>>

LaunchAccepted(r) == Move(r, {"queued"}, "admitted")
PreparationEnds(r) == Move(r, {"admitted"}, "running")
Withdrawn(r) == Move(r, {"queued"}, "closed")

Fault == faults.restarts + faults.failures + faults.departures < MaxFaults

(* The node's worker, as the registry and the next heartbeat record it. *)
TransferEnds(i, ok) ==
    /\ command[i] = "pending"
    /\ command' = [command EXCEPT ![i] = IF ok THEN "applied" ELSE "refused"]
    /\ held' = IF ok THEN held \cup {i} ELSE held
    /\ ok \/ (Fault /\ faults.failures < MaxFailures)
    /\ faults' = IF ok THEN faults ELSE [faults EXCEPT !.failures = @ + 1]
    /\ UNCHANGED <<booking, listed, memory, age, pass, begun>>

MachineLeaves(m) ==
    /\ m \in listed /\ Fault /\ faults.departures < MaxDepartures
    /\ listed' = listed \ {m}
    /\ faults' = [faults EXCEPT !.departures = @ + 1]
    /\ UNCHANGED <<booking, held, command, memory, age, pass, begun>>

(* A node whose lease expired is offered again by its next heartbeat. *)
MachineReturns(m) ==
    /\ m \notin listed /\ listed' = listed \cup {m}
    /\ UNCHANGED <<booking, held, command, memory, age, pass, begun, faults>>

Restart ==
    /\ Fault /\ faults.restarts < MaxRestarts
    /\ faults' = [faults EXCEPT !.restarts = @ + 1]
    /\ memory' = NothingAsked /\ pass' = [d \in Drivers |-> IdlePass]
    /\ UNCHANGED <<booking, listed, held, command, age, begun>>

Capped(n) == IF n < MinInterval THEN n + 1 ELSE n

PrewarmTick ==
    /\ age < MinInterval \/ begun.ago < MinInterval
    /\ age' = Capped(age) /\ begun' = [begun EXCEPT !.ago = Capped(@)]
    /\ UNCHANGED <<booking, listed, held, command, memory, pass, faults>>

PrewarmNext ==
    \/ \E d \in Drivers : \/ Prewarm(d) \/ stateDesire(d) \/ PrepareFails(d)
                          \/ remember(d) \/ RecordBegan(d)
                          \/ \E i \in Items : prepareOnNode(d, i)
    \/ \E r \in RunIDs : LaunchAccepted(r) \/ PreparationEnds(r) \/ Withdrawn(r)
                       \/ \E start \in Starts : Booked(r, start)
    \/ \E i \in Items, ok \in BOOLEAN : TransferEnds(i, ok)
    \/ \E m \in BookedMachines : MachineLeaves(m) \/ MachineReturns(m)
    \/ Restart \/ PrewarmTick

Step(d) == \/ Prewarm(d) \/ stateDesire(d) \/ PrepareFails(d) \/ remember(d) \/ RecordBegan(d)
           \/ \E i \in Items : prepareOnNode(d, i)

PrewarmSpec == PrewarmInit /\ [][PrewarmNext]_prewarmVars
(* The minute's ticker and the subscription run for the life of the process, time
   passes, and a transfer on a machine that is there ends. *)
FairSpec == /\ PrewarmSpec /\ WF_prewarmVars(PrewarmTick)
            /\ \A d \in Drivers : WF_prewarmVars(Step(d))
            /\ \A i \in Items : WF_prewarmVars(TransferEnds(i, TRUE))

-----------------------------------------------------------------------------
(* Properties. *)

(* What Mercator remembers asking for was really asked of a machine, whatever
   passes overlapped, failed half way or were restarted: remember runs only after
   the whole desire crossed (prewarm.go:264-276). *)
RememberedWasAsked == \A i \in memory.sent : command[i] # "none"

(* The deployment is told its last desire: once Bookings, machines and restarts
   settle, what was last asked for is what is wanted now, withdrawals included and
   the restarted process that wants nothing included (prewarm.go:131-148). *)
DesireIsStated == <>[](memory = Asked(prewarmDesire))

(* "MinInterval is the shortest gap between two moments Mercator may begin
   preparing" (prewarm.go:37). *)
BeginningsAreSpaced ==
    [][begun'.turn # begun.turn => begun.ago >= MinInterval]_prewarmVars

(* "how many pieces of content may be arriving speculatively at once, across the
   deployment" (prewarm.go:33). *)
InFlightWithinBound == Cardinality({i \in Items : command[i] = "pending"}) <= MaxConcurrent

(* "so it states nothing at all until the rate bound allows a beginning"
   (prewarm.go:132-133), said of a restarted Mercator. *)
RestartIsQuiet ==
    [][(~memory.stated /\ age < MinInterval) => ~memory'.stated]_prewarmVars

(* "a pull that failed left nothing on the machine, so the same content asked for
   again reaches the runtime" (broker/nodes.go:145-147): content a queued Run goes
   on waiting for arrives in the end, though a transfer failed once. *)
WantedArrives == \A i \in Items : [](i \in prewarmDesire => <>(i \notin prewarmDesire))
=============================================================================
