----------------------------- MODULE Placement -----------------------------
(***************************************************************************)
(* Where a Run may be placed: scheduler/scheduler.go over the offers of a  *)
(* fleet and the schedule of the one Rental that fleet keeps, which goes   *)
(* on reserving, starting and completing as in RentalTimeline.  Offers are *)
(* collected anew for every evaluation, so a fleet is an input and not     *)
(* state.                                                                  *)
(*                                                                         *)
(* An offer's rental says whether it names that Rental.  Its bars are the  *)
(* codes of what the machine is and this Run cannot use (platform,         *)
(* containers, processors, cards, class, expiry): refusals no schedule     *)
(* enters.  Its content is the image and the inputs a Run reads; caches,   *)
(* measured launches, how sure a publisher is of its capacity and, since   *)
(* the placement is a Run's first, offers an earlier attempt struck out    *)
(* are left out.  Durations are natural numbers of a unit in which every   *)
(* quantile is whole, dollars of the millionths a score is rounded to.     *)
(***************************************************************************)
EXTENDS RentalTimeline

CONSTANTS
    Asks,             \* what Runs may ask for
    Fleets,           \* the sets of offers a collection may return
    ContainerStart,   \* the assumed cost of creating a container
    FetchTime, UnpackTime, ReadTime   \* moving the image, assembling it, reading inputs

NoLimit == 0       \* a start bound or a budget nobody set
Unpriced == -1     \* a rate nobody quoted
Unmeasured == -1   \* a disk nobody looked at

\* Mutant: a start bound the machine misses is taken for a wait.
EndedByWaitingLate == {"CAPACITY_UNAVAILABLE", "QUEUE_CAPACITY_EXCEEDED", "LATENCY_SLO_EXCEEDED"}

\* The refusals a Booking that leaves may end.
EndedByWaiting == {"CAPACITY_UNAVAILABLE", "QUEUE_CAPACITY_EXCEEDED"}

Durations == [expected : Nat, p90 : Nat]
Localities == {"hot", "pulled", "cold", "silent"}

Offers ==
    [id : Nat, kind : {"standing", "provisionable"}, lane : {"reusable", "ephemeral"},
     rental : BOOLEAN, bars : SUBSET (STRING \ EndedByWaiting), machine : STRING,
     available : BOOLEAN, queued : Nat, image : Localities, artifact : Localities,
     measured : BOOLEAN, room : Nat \cup {Unmeasured}, boot : Durations,
     rate : Nat \cup {Unpriced}, granularity : Nat, fee : Nat, minimum : Nat,
     committed : Nat \cup {NoTime}, until : Nat \cup {NoTime}]

ASSUME OffersAreValid == \A fleet \in Fleets : fleet \subseteq Offers

ASSUME DurationsAssumption ==
    ContainerStart \in Durations /\ FetchTime \in Nat /\ UnpackTime \in Nat /\ ReadTime \in Nat

-----------------------------------------------------------------------------
(* What a candidate was found holding, and what that leaves it to do. *)

\* KeepsWhatItRuns, and HolderOfMachine.
KeepsWhatItRuns(o) == o.kind = "standing" /\ o.lane = "reusable"
HolderOfMachine(fleet, o) ==
    /\ o.kind = "provisionable" /\ o.machine # ""
    /\ \E p \in fleet : p.kind = "standing" /\ p.machine = o.machine /\ p.rental

runtimeBounds(ask) ==
    [expected |-> IF ask.expected = 0 THEN ask.max ELSE ask.expected, max |-> ask.max]

\* A revision has an enforced runtime by default, and is refused if it expects more.
\* A bound on the start that is not positive is none, and a class's weights are
\* never negative.
ASSUME AsksAreValid ==
    \A ask \in Asks :
        /\ ask.max \in Nat \ {0} /\ ask.expected \in 0..ask.max /\ ask.slo \in Nat
        /\ ask.weights \in [start : Nat, finish : Nat, doubt : Nat]
        /\ <<runtimeBounds(ask).expected, ask.max>> \in Runtimes

\* A host that will not say what it holds owes what an empty one owes.
StartWork(o) ==
    [transfer |-> IF o.image \in {"cold", "silent"} THEN FetchTime ELSE 0,
     unpack   |-> IF o.image = "hot" THEN 0 ELSE UnpackTime]
ArtifactFetchWork(ask, o) == IF ask.reads /\ o.artifact # "hot" THEN ReadTime ELSE 0

Nothing == [expected |-> 0, p90 |-> 0]
Moving(t) == [expected |-> t, p90 |-> t + t \div 2]

\* Mutant: what a silent host was charged counts as established.
establishedOfSilent(t, described, measured) == IF t = 0 \/ measured THEN Moving(t) ELSE Nothing

\* establishedIfDescribed and establishedOverAMeasuredPath: what a bound may be
\* held to, which neither a silence about bytes nor one about a path is.
established(t, described, measured) ==
    IF described /\ (t = 0 \/ measured) THEN Moving(t) ELSE Nothing

imageStage(t, described, measured) ==
    [predicted |-> Moving(t), established |-> established(t, described, measured),
     doubt |-> IF t = 0 \/ (described /\ measured) THEN 0 ELSE 1]

artifactEstimate(ask, o) ==
    LET t == ArtifactFetchWork(ask, o) IN
    [predicted |-> Moving(t), established |-> established(t, o.artifact # "silent", o.measured),
     doubt |-> IF t = 0 \/ o.measured THEN 0 ELSE 1]

\* The stages priced from bytes; nothing measures a host's storage.
contentStages(ask, o) ==
    <<imageStage(StartWork(o).transfer, o.image # "silent", o.measured),
      imageStage(StartWork(o).unpack, o.image # "silent", FALSE),
      artifactEstimate(ask, o)>>

queueEstimate(o) ==
    IF o.rental /\ schedule.version > 0 THEN ExpectedWaitSeconds(schedule, now)
    ELSE o.queued

provisionEstimate(o) == IF o.kind = "provisionable" THEN o.boot ELSE Nothing

\* startEstimate: the wait, the machine, the content and the container, summed.
startEstimate(o, c1, c2, c3) ==
    [q \in {"expected", "p90"} |->
        queueEstimate(o) + provisionEstimate(o)[q] + c1[q] + c2[q] + c3[q] + ContainerStart[q]]

predictedStart(ask, o) ==
    LET c == contentStages(ask, o)
    IN  startEstimate(o, c[1].predicted, c[2].predicted, c[3].predicted)
establishedStart(ask, o) ==
    LET c == contentStages(ask, o)
    IN  startEstimate(o, c[1].established, c[2].established, c[3].established)

\* DiskDemand.RequiredBytes, in pieces of content: the reservation and what
\* somebody established has to land.
RequiredBytes(ask, o) ==
    ask.reserve + (IF o.image = "cold" THEN 1 ELSE 0)
                + (IF ask.reads /\ o.artifact = "cold" THEN 1 ELSE 0)

-----------------------------------------------------------------------------
(* What it costs. *)

\* CommittedSeconds: the part of the occupancy already paid for.
CommittedSeconds(ask, o) ==
    LET outstanding == o.committed - (now + predictedStart(ask, o).expected)
        runtime     == runtimeBounds(ask).expected
    IN  IF o.committed = NoTime \/ outstanding < 0 THEN 0
        ELSE IF outstanding < runtime THEN outstanding ELSE runtime

BilledSeconds(o, s) ==
    IF o.granularity = 0 THEN s
    ELSE ((s + o.granularity - 1) \div o.granularity) * o.granularity

\* costEstimate: a fee and a least charge only where a machine is acquired.
costEstimate(ask, o) ==
    LET committed == CommittedSeconds(ask, o)
        keepAlive == runtimeBounds(ask).expected - committed
        acquired  == o.kind = "provisionable"
        charged   == IF acquired /\ o.minimum > keepAlive THEN o.minimum ELSE keepAlive
    IN  IF o.rate = Unpriced THEN 0
        ELSE (IF acquired THEN o.fee ELSE 0) + o.rate * (committed + BilledSeconds(o, charged))

\* OutlivesWindow, by the runtime that is enforced.
OutlivesWindow(ask, o) ==
    /\ o.until # NoTime
    /\ now + predictedStart(ask, o).expected + runtimeBounds(ask).max > o.until

-----------------------------------------------------------------------------
(* Whether it may be used. *)

queueable(o) ==
    /\ KeepsWhatItRuns(o) /\ o.rental
    /\ Len(schedule.bookings) \in 1..QueueCapacity
    /\ ~ Exhausted(schedule, now)

\* Mutant: only the offer is asked whether the machine is free.
scheduleRefusalsOpen(o) ==
    (IF ~ o.available /\ ~ queueable(o) THEN {"CAPACITY_UNAVAILABLE"} ELSE {})
    \cup (IF o.rental /\ Len(schedule.bookings) >= QueueCapacity + 1
          THEN {"QUEUE_CAPACITY_EXCEEDED"} ELSE {})

scheduleRefusals(o) ==
    (IF ~ o.available /\ ~ queueable(o) THEN {"CAPACITY_UNAVAILABLE"} ELSE {})
    \cup (IF o.rental /\ Len(schedule.bookings) >= QueueCapacity + 1
          THEN {"QUEUE_CAPACITY_EXCEEDED"} ELSE {})
    \cup (IF KeepsWhatItRuns(o) /\ o.rental /\ Exhausted(schedule, now)
          THEN {"RENTAL_SCHEDULE_EXHAUSTED"} ELSE {})

diskRefusals(ask, o) ==
    IF o.room = Unmeasured THEN {"DISK_UNSTATED"}
    ELSE IF RequiredBytes(ask, o) > o.room THEN {"RESOURCE_INSUFFICIENT"} ELSE {}

exceedsStartSLO(ask, o) == ask.slo # NoLimit /\ establishedStart(ask, o).p90 > ask.slo

exceedsBudget(ask, o) ==
    ask.budget # NoLimit /\ (o.rate = Unpriced \/ costEstimate(ask, o) > ask.budget)

feasibilityViolations(fleet, ask, o) ==
    o.bars
    \cup scheduleRefusals(o)
    \cup (IF HolderOfMachine(fleet, o) THEN {"CAPACITY_ALREADY_HELD"} ELSE {})
    \cup diskRefusals(ask, o)
    \cup (IF o.rate = Unpriced /\ ~ ask.unpriced THEN {"PRICE_UNKNOWN"} ELSE {})
    \cup (IF OutlivesWindow(ask, o) THEN {"AVAILABILITY_WINDOW_CLOSES"} ELSE {})
    \cup (IF exceedsStartSLO(ask, o) THEN {"LATENCY_SLO_EXCEEDED"} ELSE {})
    \cup (IF exceedsBudget(ask, o) THEN {"COST_LIMIT_EXCEEDED"} ELSE {})

Feasible(fleet, ask, o) == feasibilityViolations(fleet, ask, o) = {}

-----------------------------------------------------------------------------
(* Which one is taken, and what a Run nothing takes is told. *)

Uncertainty(ask, o) ==
    LET c == contentStages(ask, o) IN c[1].doubt + c[2].doubt + c[3].doubt

Worth(ask, o) ==
    LET start == predictedStart(ask, o).expected IN
    costEstimate(ask, o) + ask.weights.start * start
        + ask.weights.finish * (start + ask.expected) + ask.weights.doubt * Uncertainty(ask, o)

\* "An infeasible candidate scores nothing."
ScoreUSD(fleet, ask, o) == IF Feasible(fleet, ask, o) THEN Worth(ask, o) ELSE 0

Preferred(fleet, ask, o, p) ==
    LET Before(x, y, otherwise) == IF x # y THEN x < y ELSE otherwise IN
    IF (o.rate = Unpriced) # (p.rate = Unpriced) THEN p.rate = Unpriced
    ELSE Before(ScoreUSD(fleet, ask, o), ScoreUSD(fleet, ask, p),
         Before(predictedStart(ask, o).expected, predictedStart(ask, p).expected, o.id < p.id))

\* Evaluate: the best of the feasible candidates, if any.
Selected(fleet, ask) ==
    LET feasible == {o \in fleet : Feasible(fleet, ask, o)}
    IN  {o \in feasible : \A p \in feasible \ {o} : Preferred(fleet, ask, o, p)}

Unstated == {"DISK_UNSTATED", "CARDS_UNSTATED"}

Standing(violations) ==
    IF violations \subseteq EndedByWaiting THEN "could hold"
    ELSE IF violations \subseteq EndedByWaiting \cup Unstated THEN "unstated" ELSE "never holds"

-----------------------------------------------------------------------------
(* A Run is placed on the Rental.  A Run placed elsewhere, or told to wait,
   leaves this schedule alone; so does one whose reservation fails. *)
Place(ask) ==
    /\ ~ \A fleet \in Fleets : \A o \in Selected(fleet, ask) : ~ (KeepsWhatItRuns(o) /\ o.rental)
    /\ LET rt == runtimeBounds(ask) IN
       \E id \in BookingIDs, run \in Runs : ReserveBooking(id, run, <<rt.expected, rt.max>>)

PlacementNext ==
    \/ \E ask \in Asks : Place(ask)
    \/ \E id \in BookingIDs, at \in 0..now : WorkloadStarted(id, at)
    \/ \E id \in BookingIDs : CompleteBooking(id)
    \/ Tick

PlacementSpec == Init /\ [][PlacementNext]_vars

-----------------------------------------------------------------------------
(***************************************************************************)
(* A machine that was selected can be reserved, whatever it says of its    *)
(* own availability and however far the Booking that holds it has run      *)
(* (scheduler.go:353-372): a reservation that fails ends the whole         *)
(* placement and not one candidate.                                        *)
(***************************************************************************)
SelectedReserves ==
    \A ask \in Asks, fleet \in Fleets :
        \A o \in Selected(fleet, ask) :
            KeepsWhatItRuns(o) /\ o.rental =>
                \A id \in BookingIDs, run \in Runs :
                    (\A i \in DOMAIN schedule.bookings :
                        schedule.bookings[i].id # id /\ schedule.bookings[i].run # run)
                    => validBookingRequest(schedule,
                          [id |-> id, run |-> run, expected |-> runtimeBounds(ask).expected,
                           max |-> runtimeBounds(ask).max, reservedAt |-> now])

(***************************************************************************)
(* A silence about content is priced and never a refusal (scheduler.go     *)
(* 439-442, exceedsStartSLO, DiskDemand.Fits): a host that will not say    *)
(* what it holds is refused for nothing that the same host, found to hold  *)
(* everything, would not be, and where both may be used scores no better.  *)
(* Excepted is what hangs on the predicted start itself: the window a      *)
(* machine is sold for, and the price once part of the occupancy is        *)
(* already paid for.                                                       *)
(***************************************************************************)
SilenceIsPriced ==
    \A ask \in Asks, fleet \in Fleets :
        \A o \in {p \in fleet : "silent" \in {p.image, p.artifact}} :
            LET Found(locality) == IF locality = "silent" THEN "hot" ELSE locality
                ready == [o EXCEPT !.image = Found(@), !.artifact = Found(@)]
            IN  /\ feasibilityViolations(fleet, ask, o)
                       \subseteq feasibilityViolations(fleet, ask, ready)
                           \cup {"AVAILABILITY_WINDOW_CLOSES", "COST_LIMIT_EXCEEDED"}
                /\ (/\ o.committed = NoTime
                    /\ Feasible(fleet, ask, o) /\ Feasible(fleet, ask, ready))
                   => ScoreUSD(fleet, ask, o) >= ScoreUSD(fleet, ask, ready)

(***************************************************************************)
(* A wait the fleet quotes is one that ends (domain/placement.go:134-137,  *)
(* domain/admission.go:12-15): as Bookings leave, a machine that could     *)
(* hold a Run goes on being one that could, and when the last has left it  *)
(* takes the Run as soon as it is available again.  Runs with a budget are *)
(* excepted, since an earlier start may be billed differently.             *)
(***************************************************************************)
WaitsEnd ==
    [][Len(schedule'.bookings) < Len(schedule.bookings) =>
         \A ask \in {a \in Asks : a.budget = NoLimit}, fleet \in Fleets :
            \A o \in fleet :
                Standing(feasibilityViolations(fleet, ask, o)) = "could hold" =>
                    /\ (Standing(feasibilityViolations(fleet, ask, o)) = "could hold")'
                    /\ schedule'.bookings = <<>> =>
                          feasibilityViolations(fleet, ask, [o EXCEPT !.available = TRUE])' = {}]_vars
=============================================================================
