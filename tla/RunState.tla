------------------------------ MODULE RunState ------------------------------
(***************************************************************************)
(* A Run's state as the reduction of its event stream                      *)
(* (internal/orchestrator/run_event.go), and the predicates the lifecycle  *)
(* decides its next transition on.  The stream itself is not kept: Apply   *)
(* is the left fold's step, and version counts the appends, which is all   *)
(* that optimistic concurrency compares.                                   *)
(*                                                                         *)
(* An attempt is known by its ordinal; attempt k of a Run names its launch *)
(* key, its Booking and, unless the offer is a standing Rental, the Rental *)
(* minted for that Booking.  0 stands for an absent attempt or Booking.    *)
(***************************************************************************)
EXTENDS Naturals, Sequences, FiniteSets

CONSTANTS
    Standing,     \* enrolled nodes: reusable Rentals that already exist
    Provisioned,  \* offers of reusable capacity that has to be built first
    OneShot,      \* offers of one-shot executions
    NoOffer

Offers == Standing \cup Provisioned \cup OneShot

ASSUME OffersAssumption ==
    /\ NoOffer \notin Offers
    /\ Standing \cap Provisioned = {} /\ Standing \cap OneShot = {}
    /\ Provisioned \cap OneShot = {}

\* The phases in which a process has come to an end, and those of an object that
\* is done for.
Exited == {"succeeded", "failed"}
Ended == Exited \cup {"cancelled"}
TerminalPhases == Ended \cup {"released"}

outcomeForPhase(phase) == IF phase \in Ended THEN phase ELSE "failed"

\* No stream yet.
EmptyRun ==
    [version |-> 0, requested |-> FALSE,
     offer |-> NoOffer, booking |-> 0, bookingState |-> "none",
     attempts |-> 0, intent |-> 0, intentOffer |-> NoOffer,
     accepted |-> FALSE, failure |-> "none", started |-> FALSE,
     deferral |-> "none", deferrals |-> 0, excluded |-> {},
     capacity |-> FALSE, capacityAccepted |-> FALSE, stages |-> {},
     reclaimed |-> FALSE,
     cancelled |-> FALSE, terminal |-> "none", reported |-> "none",
     outcome |-> "none", cleanupRequested |-> FALSE, cleanupFailed |-> FALSE,
     cleanupConfirmed |-> FALSE, closed |-> FALSE, phase |-> "none"]

nodeEnrolled(s) == "agent_ready" \in s.stages

bookingQueued(s) == s.booking # 0 /\ s.bookingState = "queued"

\* Mutant: a launch whose fate is unknown is placed again too.
replacementEligibleUnknown(s) == s.reclaimed \/ s.failure \in {"replaceable", "indeterminate"}

\* A refusal that proves no object exists is the only failure that can be
\* answered by another placement; so can a machine that was given back.
replacementEligible(s) == s.reclaimed \/ s.failure = "replaceable"

\* The provider may hold something under this Run's launch key.
externalObjectPossible(s) == s.intent # 0 /\ s.failure # "replaceable"

\* Whatever the Run's first terminal fact was, it decides the outcome.
FirstTerminal(s, fact) == IF s.terminal = "none" THEN fact ELSE s.terminal

(***************************************************************************)
(* applyStoredEvent: one event folded into the state.                      *)
(***************************************************************************)
launchIntentRecorded(s, offer) == [s EXCEPT !.intent = s.attempts, !.intentOffer = offer]

ApplyPlacement(s, e) ==
    CASE e.type = "booking_decided" ->
            [s EXCEPT !.offer = e.offer, !.booking = e.booking, !.bookingState = e.state,
                      !.deferral = IF e.offer # NoOffer THEN "none" ELSE @]
      [] e.type = "admission_deferred" ->
            [s EXCEPT !.deferral = e.reason, !.deferrals = @ + 1]
      [] e.type = "admission_refused" ->
            [s EXCEPT !.deferral = e.reason, !.deferrals = @ + 1]
      [] e.type = "booking_dispatched" -> [s EXCEPT !.bookingState = "running"]
      [] e.type = "attempt_created" ->
            [s EXCEPT !.attempts = @ + 1, !.intent = 0, !.intentOffer = NoOffer,
                      !.accepted = FALSE, !.started = FALSE, !.failure = "none",
                      !.capacity = FALSE, !.capacityAccepted = FALSE, !.stages = {},
                      !.reclaimed = FALSE]
      [] e.type = "launch_intent_recorded" -> launchIntentRecorded(s, e.offer)

ApplyCapacity(s, e) ==
    CASE e.type = "capacity_requested" -> [s EXCEPT !.capacity = TRUE]
      [] e.type = "capacity_accepted" -> [s EXCEPT !.capacityAccepted = TRUE]
      [] e.type = "capacity_stage_observed" -> [s EXCEPT !.stages = @ \cup e.stages]
      [] e.type = "capacity_reclaimed" ->
            [s EXCEPT !.reclaimed = TRUE, !.excluded = @ \cup {s.intentOffer}]

ApplyExecution(s, e) ==
    CASE e.type = "run_requested" -> [s EXCEPT !.requested = TRUE]
      [] e.type = "launch_accepted" -> [s EXCEPT !.accepted = TRUE]
      [] e.type = "launch_failed" ->
            [s EXCEPT !.failure = e.failure,
                      !.excluded = IF e.failure = "replaceable" THEN @ \cup {s.intentOffer} ELSE @]
      [] e.type = "external_state_observed" ->
            [s EXCEPT !.phase = e.phase,
                      !.terminal = IF e.phase \in TerminalPhases
                                   THEN FirstTerminal(s, outcomeForPhase(e.phase)) ELSE @]
      [] e.type = "execution_started" -> [s EXCEPT !.started = TRUE]
      [] e.type = "run_reported" ->
            [s EXCEPT !.reported = e.outcome, !.terminal = FirstTerminal(s, e.outcome)]
      [] e.type = "cancel_requested" ->
            [s EXCEPT !.cancelled = TRUE, !.terminal = FirstTerminal(s, "cancelled")]

ApplyClosure(s, e) ==
    CASE e.type = "outcome_recorded" -> [s EXCEPT !.outcome = e.outcome]
      [] e.type = "cleanup_requested" -> [s EXCEPT !.cleanupRequested = TRUE]
      [] e.type = "cleanup_failed" -> [s EXCEPT !.cleanupFailed = TRUE]
      [] e.type = "cleanup_confirmed" -> [s EXCEPT !.cleanupConfirmed = TRUE]
      [] e.type = "run_closed" -> [s EXCEPT !.closed = TRUE]

PlacementEvents ==
    {"booking_decided", "admission_deferred", "admission_refused",
     "booking_dispatched", "attempt_created", "launch_intent_recorded"}
CapacityEvents ==
    {"capacity_requested", "capacity_accepted", "capacity_stage_observed", "capacity_reclaimed"}
ClosureEvents ==
    {"outcome_recorded", "cleanup_requested", "cleanup_failed", "cleanup_confirmed", "run_closed"}

Apply(s, e) ==
    IF e.type \in PlacementEvents THEN ApplyPlacement(s, e)
    ELSE IF e.type \in CapacityEvents THEN ApplyCapacity(s, e)
    ELSE IF e.type \in ClosureEvents THEN ApplyClosure(s, e)
    ELSE ApplyExecution(s, e)

ApplyNth(s, events, n) == IF n \in DOMAIN events THEN Apply(s, events[n]) ELSE s

\* One append: its events folded in order.  No transition appends more than four.
AppendEvents(s, events) ==
    LET one   == ApplyNth(s, events, 1)
        two   == ApplyNth(one, events, 2)
        three == ApplyNth(two, events, 3)
        four  == ApplyNth(three, events, 4)
    IN  [four EXCEPT !.version = s.version + 1]

(***************************************************************************)
(* step: the single next transition of a Run, in the order of the code's   *)
(* switch.                                                                 *)
(***************************************************************************)
\* Mutant: a closed Run is stepped like any other.
stepClosed(s) ==
    IF s.cleanupRequested /\ ~ s.cleanupConfirmed THEN "cleanup"
    ELSE IF s.terminal # "none" /\ s.outcome = "none" THEN "terminal"
    ELSE IF bookingQueued(s) THEN "dispatch"
    ELSE IF s.intent = 0 \/ replacementEligible(s) THEN "admit"
    ELSE IF s.capacity /\ ~ nodeEnrolled(s) THEN "capacity"
    ELSE IF ~ s.accepted /\ s.failure = "none" THEN "launch"
    ELSE "observe"

step(s) ==
    IF s.closed THEN "none"
    ELSE IF s.cleanupRequested /\ ~ s.cleanupConfirmed THEN "cleanup"
    ELSE IF s.terminal # "none" /\ s.outcome = "none" THEN "terminal"
    ELSE IF bookingQueued(s) THEN "dispatch"
    ELSE IF s.intent = 0 \/ replacementEligible(s) THEN "admit"
    ELSE IF s.capacity /\ ~ nodeEnrolled(s) THEN "capacity"
    ELSE IF ~ s.accepted /\ s.failure = "none" THEN "launch"
    ELSE "observe"
=============================================================================
