------------------------------ MODULE Admission ------------------------------
(***************************************************************************)
(* Admission (internal/orchestrator/admission.go, internal/domain/         *)
(* admission.go, serviceclass.go, rungroup.go): which Run that needs a     *)
(* machine may have one now, which has to wait, and which is refused.      *)
(*                                                                         *)
(* Two reductions of the same log meet here.  The door asks about one Run  *)
(* with the state its own stream reduces to (run), and orders it against   *)
(* the others with a replay of five kinds of event over all streams        *)
(* (queue).  The door holds the deployment's admission lock from its read  *)
(* of the log to its append; launches fail, machines are reclaimed and     *)
(* Runs are cancelled and closed by others meanwhile.                      *)
(*                                                                         *)
(* Time passes in units of five minutes, in which every bound of the class *)
(* table is a whole number.  Placement itself is left open: the fleet      *)
(* takes the Run or gives one of the answers it can give.                  *)
(***************************************************************************)
EXTENDS Integers, Sequences, FiniteSets

CONSTANTS
    Runs,
    ClassOf,       \* [Runs -> ServiceClasses]
    GroupOf,       \* [Runs -> the family the Run declares, or None]
    MaxParallel,   \* the width every member declares
    None,          \* no family, and no Run
    Provisioning,  \* whether placements may build machines, which may be reclaimed
    Fleet,         \* bound: the answers the fleet gives about a Run it does not take
    Waits,         \* the waits a schedule may project for a Run no machine takes
    Durations,     \* bound: how much time may pass at once
    MaxNow         \* bound: the clock

ASSUME WidthAssumption == MaxParallel \in Nat \ {0}
ASSUME FleetAssumption == Fleet \subseteq {"could_hold", "unstated", "nothing"}
ASSUME RunsAssumption == IsFiniteSet(Runs) /\ None \notin Runs /\ Durations \subseteq Nat

VARIABLES
    now,
    run,     \* [Runs -> what the Run's own stream reduces to]
    queue,   \* what admissionQueue's replay reduces the log to
    door     \* the append the admission lock's holder is about to make, or Free

vars == <<now, run, queue, door>>

-----------------------------------------------------------------------------
(***************************************************************************)
(* The class table.                                                        *)
(***************************************************************************)
TopClassPriority == 100

Policy(priority, maxQueueDelay, deadline, backfill) ==
    [priority |-> priority, maxQueueDelay |-> maxQueueDelay, deadline |-> deadline,
     backfill |-> backfill]

ServiceClasses == {"interactive", "experimental", "standard", "batch", "opportunistic"}

ASSUME ClassAssumption == ClassOf \in [Runs -> ServiceClasses]

ClassPolicy ==
    [class \in ServiceClasses |->
        CASE class = "interactive"   -> Policy(TopClassPriority, 1, 2, FALSE)
          [] class = "experimental"  -> Policy(70, 3, 12, FALSE)
          [] class = "standard"      -> Policy(50, 6, 48, FALSE)
          [] class = "batch"         -> Policy(20, 12, 288, FALSE)
          [] class = "opportunistic" -> Policy(0, 24, 0, TRUE)]

AdmissionOf(r) == ClassPolicy[ClassOf[r]]

\* Priorities are in twenty-fourths, so that every aging rate is a whole number.
Scale == 24

Aging(p) == 2 * (TopClassPriority + 1 - p.priority) * (Scale \div p.maxQueueDelay)

EffectivePriority(p, queued) ==
    Scale * p.priority + (IF queued <= 0 THEN 0 ELSE Aging(p) * queued)

Starved(p, queued) == p.maxQueueDelay > 0 /\ queued > p.maxQueueDelay

DeadlinePassed(p, queued) == p.deadline > 0 /\ queued >= p.deadline

\* wait is what was projected, or -1 when nothing was.
DeadlineUnreachable(p, queued, wait) ==
    \/ DeadlinePassed(p, queued)
    \/ p.deadline > 0 /\ wait >= 0 /\ queued + wait > p.deadline

BoundAlreadyBroken(p, seconds, selfImposed) ==
    Starved(p, seconds - selfImposed) \/ DeadlinePassed(p, seconds)

-----------------------------------------------------------------------------
(***************************************************************************)
(* Answers.                                                                *)
(***************************************************************************)
FleetAnswers == {"could_hold", "unstated", "nothing"}

NoDeferral == [reason |-> "none", behind |-> {}]
Deferral(reason, behind) == [reason |-> reason, behind |-> behind]

SelfImposed(d) == d.reason = "group_at_parallelism"

\* The fleet's answer is the reason of a wait Placement caused.
HoldsNoQueue(d) == SelfImposed(d) \/ d.reason = "nothing"

-----------------------------------------------------------------------------
(***************************************************************************)
(* A Run's own stream.                                                     *)
(***************************************************************************)
Never == -1

NewRun ==
    [state |-> "none", cancelled |-> FALSE, holds |-> FALSE, replaceable |-> FALSE,
     reclaimed |-> FALSE, deferral |-> NoDeferral, deferredAt |-> Never,
     queuedSince |-> Never, selfImposedWait |-> 0]

\* Mutant: a wait goes on counting from where its first interval began.
selfImposedSinceFirst(s, at) == IF SelfImposed(s.deferral) THEN at - s.queuedSince ELSE 0

selfImposedSince(s, at) == IF SelfImposed(s.deferral) THEN at - s.deferredAt ELSE 0

WaitSeconds(s, at) == IF s.queuedSince = Never THEN 0 ELSE at - s.queuedSince
SelfImposedSeconds(s, at) ==
    IF s.queuedSince = Never THEN 0 ELSE s.selfImposedWait + selfImposedSince(s, at)

\* A failed launch, a reclaim and the end of the Run give the Booking back in the
\* same commit.
applyStoredEvent(s, e) ==
    CASE e.type = "booking_decided" /\ e.selected ->
            [s EXCEPT !.selfImposedWait = @ + selfImposedSince(s, e.at), !.deferral = NoDeferral,
                      !.holds = TRUE, !.replaceable = FALSE, !.reclaimed = FALSE]
      [] e.type = "booking_decided" /\ ~ e.selected -> s
      [] e.type = "admission_deferred" ->
            [s EXCEPT !.selfImposedWait = @ + selfImposedSince(s, e.at), !.deferral = e.deferral,
                      !.deferredAt = e.at,
                      !.queuedSince = IF @ = Never THEN e.at ELSE @]
      [] e.type = "admission_refused" -> [s EXCEPT !.deferral = e.deferral]
      [] e.type = "launch_failed" -> [s EXCEPT !.holds = FALSE, !.replaceable = TRUE]
      [] e.type = "capacity_reclaimed" ->
            [s EXCEPT !.holds = FALSE, !.replaceable = TRUE, !.reclaimed = TRUE]
      [] e.type = "cancel_requested" -> [s EXCEPT !.cancelled = TRUE]
      [] e.type = "closed" -> [s EXCEPT !.state = "closed", !.holds = FALSE]

-----------------------------------------------------------------------------
(***************************************************************************)
(* The replay.                                                             *)
(***************************************************************************)
NotWaiting == [since |-> Never, holdsNoQueue |-> FALSE]

EmptyQueue ==
    [waiting |-> [r \in Runs |-> NotWaiting], began |-> [r \in Runs |-> Never], holding |-> {}]

\* Mutant: a wait is dated by the latest answer.
BeganAtLatest(q, r, e) == e.at

\* The moment a wait began outlives the placements in it.
BeganAt(q, r, e) == IF q.began[r] = Never THEN e.at ELSE q.began[r]

\* Mutant: a failed launch keeps its family's place.
GivesBackAtEnd(e) == e.type \in {"admission_refused", "closed"}

GivesBack(e) == e.type \in {"launch_failed", "admission_refused", "closed"}

\* An event the filter of admissionQueue does not name changes nothing.
apply(q, r, e) ==
    LET left == IF GivesBack(e) THEN [q EXCEPT !.holding = @ \ {r}] ELSE q
        since == BeganAt(q, r, e)
    IN  CASE e.type = "admission_deferred" ->
                [left EXCEPT !.began[r] = since,
                             !.waiting[r] = [since |-> since,
                                             holdsNoQueue |-> HoldsNoQueue(e.deferral)]]
          [] e.type \in {"admission_refused", "closed"} ->
                [left EXCEPT !.waiting[r] = NotWaiting, !.began[r] = Never]
          [] e.type = "booking_decided" /\ e.selected ->
                [left EXCEPT !.waiting[r] = NotWaiting,
                             !.holding = IF GroupOf[r] = None THEN @ ELSE @ \cup {r}]
          [] OTHER -> left

Waiting(r) == queue.waiting[r] # NotWaiting

\* The members of the Run's family that hold capacity, when they are as many as
\* the family may be wide.
familyHolding(r) ==
    LET members == {m \in queue.holding \ {r} : GroupOf[m] = GroupOf[r]}
    IN  IF GroupOf[r] # None /\ Cardinality(members) >= MaxParallel THEN members ELSE {}

Priority(r) == EffectivePriority(AdmissionOf(r), WaitSeconds(run[r], now))

QueuedPriority(r) == EffectivePriority(AdmissionOf(r), now - queue.waiting[r].since)

\* Mutant: a Run that may backfill goes past whatever is waiting.
aheadBackfill(r) ==
    {o \in Runs \ {r} :
        /\ Waiting(o) /\ ~ queue.waiting[o].holdsNoQueue
        /\ QueuedPriority(o) > Priority(r)
        /\ ~ AdmissionOf(r).backfill}

\* The waiting Runs this one may not be admitted past.
ahead(r) ==
    {o \in Runs \ {r} :
        /\ Waiting(o) /\ ~ queue.waiting[o].holdsNoQueue
        /\ QueuedPriority(o) > Priority(r)
        /\ AdmissionOf(r).backfill => Starved(AdmissionOf(o), now - queue.waiting[o].since)}

-----------------------------------------------------------------------------
(***************************************************************************)
(* The door.                                                               *)
(***************************************************************************)
Free == [run |-> None, events |-> <<>>]

mustEvent(type, selected, d) ==
    [type |-> type, at |-> now, selected |-> selected, deferral |-> d]

Event(type) == mustEvent(type, FALSE, NoDeferral)
Decided(selected) == mustEvent("booking_decided", selected, NoDeferral)
Deferred(d) == mustEvent("admission_deferred", FALSE, d)

recordRefusal(d) == <<mustEvent("admission_refused", FALSE, d), Event("closed")>>

\* An answer that is already on record is not recorded again.
recordDeferral(r, d) == IF run[r].deferral = d THEN <<>> ELSE <<Deferred(d)>>

deferOrRefuse(r, d, wait) ==
    LET p == AdmissionOf(r)
        seconds == WaitSeconds(run[r], now)
    IN  IF \/ BoundAlreadyBroken(p, seconds, SelfImposedSeconds(run[r], now))
           \/ DeadlineUnreachable(p, seconds, wait)
        THEN recordRefusal([d EXCEPT !.reason = "bound_already_broken"]) ELSE recordDeferral(r, d)

\* The Run's next step is admission: it has no attempt, or one that can be replaced.
\* Inputs that are not durable yet (inputsAreDurable) only put the step off.
NeedsAdmission(r) ==
    /\ run[r].state = "open" /\ ~ run[r].cancelled /\ ~ run[r].holds

Answer(r, events) == door' = [run |-> r, events |-> events] /\ UNCHANGED <<now, run, queue>>

\* stepAdmit up to Placement.
AdmitHeldBack(r) ==
    /\ NeedsAdmission(r) /\ door = Free
    /\ \/ /\ familyHolding(r) # {}
          /\ Answer(r, deferOrRefuse(r, Deferral("group_at_parallelism", familyHolding(r)), -1))
       \/ /\ familyHolding(r) = {} /\ ahead(r) # {}
          /\ Answer(r, deferOrRefuse(r, Deferral("behind_higher_priority", ahead(r)), -1))
       \/ /\ familyHolding(r) = {} /\ ahead(r) = {}
          /\ DeadlinePassed(AdmissionOf(r), WaitSeconds(run[r], now))
          /\ Answer(r, recordRefusal(Deferral("bound_already_broken", {})))

ReachesPlacement(r) ==
    /\ NeedsAdmission(r)
    /\ familyHolding(r) = {} /\ ahead(r) = {}
    /\ ~ DeadlinePassed(AdmissionOf(r), WaitSeconds(run[r], now))

\* stepPlace, with a machine that takes the Run.
stepPlace(r) ==
    /\ door = Free
    /\ ReachesPlacement(r)
    /\ Answer(r, <<Decided(TRUE)>>)

\* stepPlace, with none: a replacement closes the Run, any other waits.
stepPlaceNowhere(r, fleet, wait) ==
    /\ door = Free
    /\ ReachesPlacement(r)
    /\ fleet # "could_hold" => wait = -1
    /\ Answer(r, IF run[r].replaceable THEN <<Decided(FALSE), Event("closed")>>
                 ELSE deferOrRefuse(r, Deferral(fleet, {}), wait))

\* No append here is of more than two events.
appendedTo(s, events) ==
    IF Len(events) = 0 THEN s
    ELSE IF Len(events) = 1 THEN applyStoredEvent(s, events[1])
    ELSE applyStoredEvent(applyStoredEvent(s, events[1]), events[2])

replayed(q, r, events) ==
    IF Len(events) = 0 THEN q
    ELSE IF Len(events) = 1 THEN apply(q, r, events[1])
    ELSE apply(apply(q, r, events[1]), r, events[2])

\* Any append moves both reductions.
Record(r, events) ==
    /\ run' = [run EXCEPT ![r] = appendedTo(@, events)]
    /\ queue' = replayed(queue, r, events)

\* Mutant: the lock is given up before the append.
CommitUnlocked ==
    /\ door # Free
    /\ ~ run[door.run].cancelled
    /\ Record(door.run, door.events)
    /\ \/ door' = Free
       \/ \E r \in Runs : ReachesPlacement(r) /\ door' = [run |-> r, events |-> <<Decided(TRUE)>>]
    /\ UNCHANGED now

\* The append is at the version that was read; only a cancel can have come between,
\* since every other append to the stream holds the Run's lock.
Commit ==
    /\ door # Free
    /\ ~ run[door.run].cancelled
    /\ Record(door.run, door.events)
    /\ door' = Free
    /\ UNCHANGED now

\* A conflict, an error or a crash between the read and the append.
Abandon ==
    /\ door # Free
    /\ door' = Free
    /\ UNCHANGED <<now, run, queue>>

-----------------------------------------------------------------------------
(***************************************************************************)
(* What happens to Runs elsewhere.                                         *)
(***************************************************************************)
CreateRun(r) ==
    /\ run[r].state = "none"
    /\ run' = [run EXCEPT ![r].state = "open"]
    /\ UNCHANGED <<now, queue, door>>

CancelRun(r) ==
    /\ run[r].state = "open" /\ ~ run[r].cancelled
    /\ Record(r, <<Event("cancel_requested")>>)
    /\ UNCHANGED <<now, door>>

\* A launch that is refused, to be placed again or to end the Run.
LaunchFails(r) ==
    /\ run[r].state = "open" /\ ~ run[r].cancelled /\ run[r].holds
    /\ \/ Record(r, <<Event("launch_failed")>>)
       \/ Record(r, <<Event("launch_failed"), Event("closed")>>)
    /\ UNCHANGED <<now, door>>

reclaimCapacity(r) ==
    /\ Provisioning
    /\ run[r].state = "open" /\ ~ run[r].cancelled /\ run[r].holds
    /\ Record(r, <<Event("capacity_reclaimed")>>)
    /\ UNCHANGED <<now, door>>

\* A Run that ended or was cancelled closes.  One cancelled after its machine was
\* reclaimed does not: its cleanup fails on the Booking that is gone.
CloseRun(r) ==
    /\ run[r].state = "open"
    /\ door.run # r
    /\ run[r].holds \/ (run[r].cancelled /\ ~ run[r].reclaimed)
    /\ Record(r, <<Event("closed")>>)
    /\ UNCHANGED <<now, door>>

Tick(d) ==
    /\ now + d <= MaxNow
    /\ now' = now + d
    /\ UNCHANGED <<run, queue, door>>

Init ==
    /\ now = 0
    /\ run = [r \in Runs |-> NewRun]
    /\ queue = EmptyQueue
    /\ door = Free

Next ==
    \/ \E r \in Runs :
          \/ AdmitHeldBack(r) \/ stepPlace(r)
          \/ \E fleet \in Fleet, wait \in Waits \cup {-1} : stepPlaceNowhere(r, fleet, wait)
          \/ CreateRun(r) \/ CancelRun(r) \/ LaunchFails(r) \/ reclaimCapacity(r) \/ CloseRun(r)
    \/ Commit \/ Abandon
    \/ \E d \in Durations : Tick(d)

Spec == Init /\ [][Next]_vars

-----------------------------------------------------------------------------
(***************************************************************************)
(* Properties.                                                             *)
(***************************************************************************)
Deferrals == [reason : FleetAnswers \cup {"none", "group_at_parallelism", "behind_higher_priority",
                                          "bound_already_broken"},
              behind : SUBSET Runs]

Moments == 0..MaxNow
MomentOrNever == Moments \cup {Never}

\* The shape of both reductions.  Nothing of the queue is dated later than the
\* clock, and whoever is at the door is an open Run without capacity.
TypeOK ==
    /\ now \in Moments
    /\ run \in [Runs -> [state : {"none", "open", "closed"}, cancelled : BOOLEAN,
                         holds : BOOLEAN, replaceable : BOOLEAN, reclaimed : BOOLEAN,
                         deferral : Deferrals, deferredAt : MomentOrNever,
                         queuedSince : MomentOrNever, selfImposedWait : Moments]]
    /\ queue \in [waiting : [Runs -> [since : MomentOrNever, holdsNoQueue : BOOLEAN]],
                   began : [Runs -> MomentOrNever], holding : SUBSET Runs]
    /\ \A r \in Runs : queue.began[r] <= now
    /\ door # Free => run[door.run].state = "open" /\ ~ run[door.run].holds

\* No family ever has more members with capacity than it declared may run at once,
\* though every member is decided on from a replay of the whole log and written to
\* a stream of its own (stepAdmit, familyHolding).
FamilyWithinWidth ==
    \A r \in Runs : GroupOf[r] # None =>
        Cardinality({m \in Runs : GroupOf[m] = GroupOf[r] /\ run[m].holds}) <= MaxParallel

\* What the replay counts for the families is exactly the Runs that have taken
\* capacity and not given it back (queueReplay.holding).
FamilyCountIsCapacity == queue.holding = {r \in Runs : GroupOf[r] # None /\ run[r].holds}

\* The two reductions of the log agree about waiting: a Run is in the queue exactly
\* while its own record has an answer standing, since the moment that record gives,
\* and it holds the queue exactly when its latest answer says so (queueReplay.apply
\* and applyStoredEvent).
QueueAgreesWithRuns ==
    \A r \in Runs :
        LET told == run[r].state = "open" /\ run[r].deferral # NoDeferral
        IN  /\ Waiting(r) <=> told
            /\ told => queue.waiting[r] = [since |-> run[r].queuedSince,
                                          holdsNoQueue |-> HoldsNoQueue(run[r].deferral)]

\* The part of a wait its caller's own family held is never longer than the wait, so
\* that the part Mercator answers for is never negative, however the answers and
\* placements in between followed each other (runState.wait, selfImposedSince).
SelfImposedWithinWait ==
    \A r \in Runs : SelfImposedSeconds(run[r], now) <= WaitSeconds(run[r], now)

\* The step in which the door gives r a machine, and the Runs that by their own
\* record are waiting for one that r could have.
Decides(r) == door = Free /\ door'.run = r /\ door'.events = <<Decided(TRUE)>>

HoldsQueue(o) ==
    /\ run[o].state = "open"
    /\ run[o].deferral # NoDeferral /\ ~ HoldsNoQueue(run[o].deferral)

\* Within a class, whoever has waited longer is served first: no Run of a class that
\* may not backfill gets a machine past a Run of its own class that has waited
\* longer and holds the queue, whatever placements and failed launches either has
\* behind it (ahead, EffectivePriority, queueReplay.began).
SameClassInOrder ==
    [][\A r \in Runs, o \in Runs :
          Decides(r) /\ HoldsQueue(o) /\ ClassOf[o] = ClassOf[r] /\ ~ AdmissionOf(r).backfill
          => WaitSeconds(run[o], now) <= WaitSeconds(run[r], now)]_vars

\* Aging keeps its promise against arrivals: a Run that never waited is not given a
\* machine past one that has waited half its maximum queue delay, whatever the
\* classes of the two; one that may backfill, not past one that is starved
\* (AgingPerSecond, ahead).
AgedOutranksArrivals ==
    [][\A r \in Runs, o \in Runs :
          Decides(r) /\ run[r].queuedSince = Never /\ HoldsQueue(o) =>
              IF AdmissionOf(r).backfill
              THEN ~ Starved(AdmissionOf(o), WaitSeconds(run[o], now))
              ELSE 2 * WaitSeconds(run[o], now) < AdmissionOf(o).maxQueueDelay]_vars

\* "Nothing may be admitted past a Run in that state, backfill included"
\* (serviceclass.go, Starved): nobody whose own wait for capacity is within its bound
\* gets a machine while a starved Run holds the queue.
StarvedIsNotPassed ==
    [][\A r \in Runs, o \in Runs :
          /\ Decides(r) /\ o # r /\ HoldsQueue(o)
          /\ ~ Starved(AdmissionOf(r), WaitSeconds(run[r], now) - SelfImposedSeconds(run[r], now))
          => ~ Starved(AdmissionOf(o), WaitSeconds(run[o], now))]_vars

=============================================================================
