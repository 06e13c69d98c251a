------------------------- MODULE RunLifecycleProofs -------------------------
(***************************************************************************)
(* The remaining steps of a worker, of the callers, of the providers and   *)
(* of the nodes, and the theorems about RunLifecycle.                      *)
(***************************************************************************)
EXTENDS RunLifecycleMoves, FiniteSetTheorems

(* A step that plans to give the Booking back. *)
LEMMA CompletionFields ==
    ASSUME IInv, NEW r \in Runs, CanCompleteBooking(r), run' = run, schedule' = schedule,
           NEW e, NEW w, w = completeBookingAndAppend(r, e), NEW s, s = run[r], ~ s.closed
    PROVE  /\ w.version = s.version /\ w.events = e /\ w.rental \in Rentals /\ w.rental # NoRental
           /\ w.base = schedule[w.rental].version
           /\ holdsBooking(s) /\ Completes(r, s, w)'
<1>1. /\ w.version = s.version /\ w.events = e /\ w.rental = RentalOf(r, s)
      /\ w.base = schedule[w.rental].version
      /\ w.next = Complete(schedule[w.rental], BookingID(r, s), 0)
  <2>1. PICK q : q = RentalOf(r, s)
    BY Zenon
  <2>2. PICK n : n = Complete(schedule[q], BookingID(r, s), 0)
    BY Zenon
  <2>3. w = commitSchedule(r, e, q, n)
    BY Zenon, <2>1, <2>2 DEF completeBookingAndAppend
  <2>4. /\ w.version = run[r].version /\ w.events = e /\ w.rental = q
        /\ w.base = schedule[q].version /\ w.next = n
    BY <2>3, CommitFields
  <2> QED BY <2>1, <2>2, <2>4
<1>2. holdsBooking(s) /\ w.rental \in Rentals /\ w.rental # NoRental
  BY <1>1, CompletableIsHeld
<1>3. Completes(r, s, w)'
  BY <1>1, <1>2 DEF Completes
<1> QED BY <1>1, <1>2, <1>3

(* Its plan keeps the invariant. *)
LEMMA CompletionStep ==
    ASSUME IInv, NEW r \in Runs, CanCompleteBooking(r), run' = run, schedule' = schedule, Confined(r),
           NEW e, NEW w, w = completeBookingAndAppend(r, e), worker' = [worker EXCEPT ![r] = w],
           NEW s, s = run[r], ~ s.closed, NEW t, t = AppendEvents(s, e), Appended(s, t),
           Move(r, s, t, w)'
    PROVE  IInv'
<1>1. /\ w.version = s.version /\ w.events = e /\ w.rental \in Rentals /\ w.rental # NoRental
      /\ w.base = schedule[w.rental].version
  BY CompletionFields
<1>2. PlanOK(r, w)'
  BY <1>1, PlanMade
<1> QED BY Zenon, <1>2, PlanStep

(* A machine that did not arrive in time is given back, and with it the *)
(* Booking.                                                             *)
LEMMA ReclaimCapacity ==
    ASSUME IInv, NEW r \in Runs, reclaimCapacity(r)
    PROVE  IInv'
<1>1. PICK s : s = run[r]
  OBVIOUS
<1>2. /\ run' = run /\ schedule' = schedule /\ object' = object
      /\ RunOK(s) /\ DOMAIN s = RunFields /\ step(s) = "capacity" /\ CanCompleteBooking(r)
      /\ DOMAIN machine = LaunchKeys
      /\ \A x \in LaunchKeys : DOMAIN machine[x] = {"state", "enrolled", "expired"}
  BY <1>1 DEF IInv, Shape, RunOK, reclaimCapacity, Steps
<1>3. /\ s.attempts # 0 /\ s.capacity /\ ~ nodeEnrolled(s) /\ ~ replacementEligible(s) /\ ~ bookingQueued(s)
      /\ ~ s.closed /\ ~ s.cleanupRequested /\ s.outcome = "none"
  BY <1>2, StepFacts
<1>4. PICK k : k = <<r, s.attempts>>
  BY Zenon
<1>5. LaunchKey(r) = k /\ k \in LaunchKeys
  BY <1>1, <1>2, <1>3, <1>4, LaunchKeyOf
<1>6. machine' = [machine EXCEPT ![k].state = "gone"]
  BY Zenon, <1>5 DEF reclaimCapacity
<1>7. Confined(r)
  BY Zenon, <1>1, <1>2, <1>3, <1>4, <1>6, MachineEffect
<1>8. machine'[<<r, s.attempts>>].state \notin Alive
  BY <1>2, <1>4, <1>5, <1>6 DEF Alive
<1> DEFINE e == <<[type |-> "capacity_reclaimed"]>>
<1>9. PICK w : w = completeBookingAndAppend(r, e)
  OBVIOUS
<1>10. worker' = [worker EXCEPT ![r] = w]
  BY <1>9 DEF reclaimCapacity, Plan
<1>11. PICK t : t = AppendEvents(s, e)
  OBVIOUS
<1>12. t = [s EXCEPT !.reclaimed = TRUE, !.excluded = @ \cup {s.intentOffer}, !.version = s.version + 1]
  BY Zenon, <1>11, ReclaimEvents
<1>13. Appended(s, t)
  BY <1>2, <1>12 DEF Appended, RunFields
<1>14. Completes(r, s, w)'
  BY Zenon, <1>1, <1>2, <1>3, <1>9, CompletionFields
<1>15. /\ SameLaunch(s, t) /\ SameBooking(s, t) /\ t.stages = s.stages
       /\ t.excluded = s.excluded \cup {s.intentOffer}
       /\ t.outcome = s.outcome /\ t.cleanupRequested = s.cleanupRequested
       /\ t.cleanupConfirmed = s.cleanupConfirmed /\ t.reclaimed /\ t.failure = s.failure
  BY <1>2, <1>12 DEF RunFields, SameLaunch, SameBooking, bookingQueued
<1>16. Replaces(r, s, t, w)'
  BY Zenon, <1>3, <1>8, <1>14, <1>15 DEF Replaces
<1>17. Move(r, s, t, w)'
  BY <1>16 DEF Move
<1> QED BY Zenon, <1>1, <1>2, <1>3, <1>7, <1>9, <1>10, <1>11, <1>13, <1>17, CompletionStep

(* The provider says nothing was created. *)
LEMMA RefusedEffect ==
    ASSUME IInv, NEW r \in Runs, NEW s, s = run[r], step(s) = "launch",
           object' = [object EXCEPT ![LaunchKey(r)] = "refused"], run' = run, machine' = machine
    PROVE  Confined(r) /\ object'[<<r, s.attempts>>] = "refused"
<1>1. RunOK(s) /\ object \in [LaunchKeys -> ObjectStates]
  BY DEF IInv, Shape
<1>2. /\ s.attempts # 0 /\ ~ s.closed /\ ~ replacementEligible(s)
      /\ ~ (s.capacity /\ ~ nodeEnrolled(s))
  BY <1>1, StepFacts
<1>3. PICK k : k = <<r, s.attempts>>
  BY Zenon
<1>4. LaunchKey(r) = k /\ k \in LaunchKeys
  BY <1>1, <1>2, <1>3, LaunchKeyOf
<1>5. object' = [object EXCEPT ![k] = "refused"]
  BY Zenon, <1>4
<1>6. MayHold(s, "refused")
  BY <1>2 DEF MayHold, ObjectStates
<1>7. Confined(r)
  BY Zenon, <1>3, <1>5, <1>6, ObjectEffect
<1>8. object'[<<r, s.attempts>>] = "refused"
  BY <1>1, <1>3, <1>4, <1>5
<1> QED BY <1>7, <1>8

(* What an earlier call created stays. *)
LEMMA KeptEffect ==
    ASSUME IInv, NEW r \in Runs, NEW s, s = run[r], step(s) = "launch",
           object' = [object EXCEPT ![LaunchKey(r)] = IF Exists(@) THEN @ ELSE "refused"],
           run' = run, machine' = machine
    PROVE  Confined(r)
<1>1. RunOK(s) /\ object \in [LaunchKeys -> ObjectStates]
  BY DEF IInv, Shape
<1>2. s.attempts # 0
  BY <1>1, StepFacts
<1>3. LaunchKey(r) \in LaunchKeys
  BY <1>1, <1>2, LaunchKeyOf
<1>4. CASE Exists(object[LaunchKey(r)])
  <2>1. object' = object
    BY <1>1, <1>3, <1>4
  <2> QED BY Zenon, <2>1, SameStays
<1>5. CASE ~ Exists(object[LaunchKey(r)])
  <2>1. object' = [object EXCEPT ![LaunchKey(r)] = "refused"]
    BY <1>5
  <2> QED BY Zenon, <2>1, RefusedEffect
<1> QED BY <1>4, <1>5

(* A launch that failed for good, whatever it left behind. *)
LEMMA RecordTerminalLaunchFailure ==
    ASSUME IInv, NEW r \in Runs, recordTerminalLaunchFailure(r)
    PROVE  IInv'
<1>1. PICK s : s = run[r]
  OBVIOUS
<1>2. /\ run' = run /\ schedule' = schedule /\ machine' = machine
      /\ RunOK(s) /\ DOMAIN s = RunFields /\ step(s) = "launch" /\ CanCompleteBooking(r)
  BY <1>1 DEF IInv, RunOK, recordTerminalLaunchFailure, Steps
<1>3. /\ ~ s.closed /\ ~ s.cleanupRequested /\ s.outcome = "none" /\ s.failure = "none"
  BY <1>2, StepFacts
<1>4. Confined(r)
  <2>1. {"queued", "landing"} \subseteq ObjectStates
    BY DEF ObjectStates
  <2>2. CASE CreateObject(r, {"queued", "landing"})
    BY Zenon, <1>1, <1>2, <2>1, <2>2, CreateEffect
  <2>3. CASE object' = [object EXCEPT ![LaunchKey(r)] = IF Exists(@) THEN @ ELSE "refused"]
    BY Zenon, <1>1, <1>2, <2>3, KeptEffect
  <2> QED BY <2>2, <2>3 DEF recordTerminalLaunchFailure
<1> DEFINE e == <<launchFailed("rejected"), outcomeRecorded("failed"), runClosed>>
<1>5. PICK w : w = completeBookingAndAppend(r, e)
  OBVIOUS
<1>6. worker' = [worker EXCEPT ![r] = w]
  BY <1>5 DEF recordTerminalLaunchFailure, Plan
<1>7. PICK t : t = AppendEvents(s, e)
  OBVIOUS
<1>8. t = [s EXCEPT !.failure = "rejected",
                    !.excluded = IF "rejected" = "replaceable" THEN @ \cup {s.intentOffer} ELSE @,
                    !.outcome = "failed", !.closed = TRUE, !.version = s.version + 1]
  BY Zenon, <1>7, FailEvents
<1>9. Appended(s, t)
  BY <1>2, <1>8 DEF Appended, RunFields
<1>10. Completes(r, s, w)' /\ holdsBooking(s)
  BY Zenon, <1>1, <1>2, <1>3, <1>5, CompletionFields
<1>11. /\ SameLaunch(s, t) /\ SameRefusal(s, t) /\ SameBooking(s, t) /\ t.stages = s.stages
       /\ t.closed /\ t.cleanupRequested = s.cleanupRequested /\ t.failure = "rejected"
  BY <1>2, <1>3, <1>8 DEF RunFields, SameLaunch, SameRefusal, SameBooking, bookingQueued
<1>12. Releases(r, s, t, w)'
  BY <1>3, <1>10, <1>11 DEF Releases
<1>13. Move(r, s, t, w)'
  BY <1>12 DEF Move
<1> QED BY Zenon, <1>1, <1>2, <1>3, <1>4, <1>5, <1>6, <1>7, <1>9, <1>13, CompletionStep

(* A launch refused here, to be tried elsewhere. *)
LEMMA RecordReplaceableLaunchFailure ==
    ASSUME IInv, NEW r \in Runs, recordReplaceableLaunchFailure(r)
    PROVE  IInv'
<1> DEFINE f == launchFailed("replaceable")
<1>0. PICK e : e = <<f>> \o (IF exhausted(r) THEN <<outcomeRecorded("failed"), runClosed>> ELSE <<>>)
  BY Zenon
<1>1. PICK s : s = run[r]
  OBVIOUS
<1>2. /\ run' = run /\ schedule' = schedule /\ machine' = machine
      /\ RunOK(s) /\ DOMAIN s = RunFields /\ step(s) = "launch" /\ CanCompleteBooking(r)
      /\ object' = [object EXCEPT ![LaunchKey(r)] = "refused"] /\ ~ OnNode(r)
  BY <1>1 DEF IInv, RunOK, recordReplaceableLaunchFailure, Steps
<1>3. /\ ~ s.closed /\ ~ s.cleanupRequested /\ s.outcome = "none" /\ s.attempts # 0
      /\ ~ replacementEligible(s) /\ ~ bookingQueued(s) /\ s.intentOffer \in OneShot
  BY <1>1, <1>2, StepFacts DEF OnNode
<1>4. Confined(r) /\ object'[<<r, s.attempts>>] = "refused"
  BY Zenon, <1>1, <1>2, RefusedEffect
<1>5. PICK w : w = completeBookingAndAppend(r, e)
  BY Zenon
<1>6. worker' = [worker EXCEPT ![r] = w]
  BY <1>0, <1>5 DEF recordReplaceableLaunchFailure, Plan
<1>7. PICK t : t = AppendEvents(s, e)
  BY Zenon
<1>8. /\ Appended(s, t) /\ SameLaunch(s, t) /\ SameBooking(s, t) /\ t.stages = s.stages
      /\ t.excluded = s.excluded \cup {s.intentOffer} /\ t.failure = "replaceable"
      /\ t.reclaimed = s.reclaimed
      /\ t.cleanupRequested = s.cleanupRequested /\ t.cleanupConfirmed = s.cleanupConfirmed
      /\ t.closed \/ (~ exhausted(r) /\ t.outcome = s.outcome)
  <2>1. CASE exhausted(r)
    <3>1. e = <<f, outcomeRecorded("failed"), runClosed>>
      BY <1>0, <2>1, Join12
    <3>2. AppendEvents(s, <<f, outcomeRecorded("failed"), runClosed>>) =
            [s EXCEPT !.failure = "replaceable",
                      !.excluded = IF "replaceable" = "replaceable" THEN @ \cup {s.intentOffer} ELSE @,
                      !.outcome = "failed", !.closed = TRUE, !.version = s.version + 1]
      BY Zenon, FailEvents
    <3>3. t = [s EXCEPT !.failure = "replaceable",
                      !.excluded = IF "replaceable" = "replaceable" THEN @ \cup {s.intentOffer} ELSE @,
                      !.outcome = "failed", !.closed = TRUE, !.version = s.version + 1]
      BY Zenon, <1>7, <3>1, <3>2
    <3> QED BY <1>2, <3>3 DEF Appended, RunFields, SameLaunch, SameBooking, bookingQueued
  <2>2. CASE ~ exhausted(r)
    <3>1. e = <<f>>
      BY <1>0, <2>2, JoinEmpty
    <3>2. t = AppendEvents(s, <<f>>)
      BY Zenon, <1>7, <3>1
    <3>3. t = [s EXCEPT !.failure = "replaceable",
                      !.excluded = IF "replaceable" = "replaceable" THEN @ \cup {s.intentOffer} ELSE @,
                      !.version = s.version + 1]
      BY Zenon, <3>2, LaunchFailedEvents
    <3> QED BY <1>2, <2>2, <3>3 DEF Appended, RunFields, SameLaunch, SameBooking, bookingQueued
  <2> QED BY <2>1, <2>2
<1>9. t.closed \/ s.attempts < MaxPreStartAttempts
  BY <1>1, <1>2, <1>8, BoundsAssumption DEF exhausted, RunOK
<1>10. Completes(r, s, w)'
  BY Zenon, <1>1, <1>2, <1>3, <1>5, CompletionFields
<1>11. Replaces(r, s, t, w)'
  BY <1>3, <1>4, <1>8, <1>9, <1>10 DEF Replaces
<1>12. Move(r, s, t, w)'
  BY <1>11 DEF Move
<1> QED BY Zenon, <1>1, <1>2, <1>3, <1>4, <1>5, <1>6, <1>7, <1>8, <1>12, CompletionStep

(* What an observation with a first start leaves of the Run. *)
LEMMA SeenFields ==
    ASSUME NEW s, DOMAIN s = RunFields, NEW x, NEW t,
           t = [s EXCEPT !.phase = x,
                         !.terminal = IF x \in TerminalPhases THEN FirstTerminal(s, outcomeForPhase(x)) ELSE @,
                         !.started = TRUE, !.version = s.version + 1]
    PROVE  Appended(s, t) /\ Still(s, t)
<1>1. PICK y : y = IF x \in TerminalPhases THEN FirstTerminal(s, outcomeForPhase(x)) ELSE s.terminal
  BY Zenon
<1>2. t = [s EXCEPT !.phase = x, !.terminal = y, !.started = TRUE, !.version = s.version + 1]
  BY Zenon, <1>1
<1>3. /\ DOMAIN t = DOMAIN s /\ t.version = s.version + 1
      /\ \A f \in RunFields \ {"phase", "terminal", "started", "version"} : t[f] = s[f]
  BY Zenon, <1>2 DEF RunFields
<1> QED BY <1>3 DEF Appended, RunFields, Still, SameLaunch, SameRefusal, SameBooking, SameEnd, bookingQueued

(* What a plain observation leaves of the Run. *)
LEMMA ObserveFields ==
    ASSUME NEW s, DOMAIN s = RunFields, NEW x, NEW t,
           t = [s EXCEPT !.phase = x,
                         !.terminal = IF x \in TerminalPhases THEN FirstTerminal(s, outcomeForPhase(x)) ELSE @,
                         !.version = s.version + 1]
    PROVE  Appended(s, t) /\ Still(s, t)
<1>1. PICK y : y = IF x \in TerminalPhases THEN FirstTerminal(s, outcomeForPhase(x)) ELSE s.terminal
  BY Zenon
<1>2. t = [s EXCEPT !.phase = x, !.terminal = y, !.version = s.version + 1]
  BY Zenon, <1>1
<1>3. /\ DOMAIN t = DOMAIN s /\ t.version = s.version + 1
      /\ \A f \in RunFields \ {"phase", "terminal", "started", "version"} : t[f] = s[f]
  BY Zenon, <1>2 DEF RunFields
<1> QED BY <1>3 DEF Appended, RunFields, Still, SameLaunch, SameRefusal, SameBooking, SameEnd, bookingQueued

(* An observation records progress and nothing else. *)
LEMMA ObservedRun ==
    ASSUME NEW s, DOMAIN s = RunFields, NEW x, NEW b \in BOOLEAN, NEW e,
           e = <<[type |-> "external_state_observed", phase |-> x]>> \o
               (IF b THEN <<[type |-> "execution_started"]>> ELSE <<>>),
           NEW t, t = AppendEvents(s, e)
    PROVE  Appended(s, t) /\ Still(s, t)
<1> DEFINE o == [type |-> "external_state_observed", phase |-> x]
           g == [type |-> "execution_started"]
<1>1. CASE b
  <2>1. e = <<o, g>>
    BY <1>1, Join11
  <2>2. AppendEvents(s, <<o, g>>) =
          [s EXCEPT !.phase = x,
                    !.terminal = IF x \in TerminalPhases THEN FirstTerminal(s, outcomeForPhase(x)) ELSE @,
                    !.started = TRUE, !.version = s.version + 1]
    BY Zenon, SeenEvents
  <2>3. t = [s EXCEPT !.phase = x,
                    !.terminal = IF x \in TerminalPhases THEN FirstTerminal(s, outcomeForPhase(x)) ELSE @,
                    !.started = TRUE, !.version = s.version + 1]
    BY Zenon, <2>1, <2>2
  <2> QED BY Zenon, <2>3, SeenFields
<1>2. CASE ~ b
  <2>1. e = <<o>>
    BY <1>2, JoinEmpty
  <2>2. t = AppendEvents(s, <<o>>)
    BY Zenon, <2>1
  <2>3. t = [s EXCEPT !.phase = x,
                    !.terminal = IF x \in TerminalPhases THEN FirstTerminal(s, outcomeForPhase(x)) ELSE @,
                    !.version = s.version + 1]
    BY Zenon, <2>2, ObserveEvents
  <2> QED BY Zenon, <2>3, ObserveFields
<1> QED BY <1>1, <1>2

(* A running workload is observed. *)
LEMMA RecordObservation ==
    ASSUME IInv, NEW r \in Runs, recordObservation(r)
    PROVE  IInv'
<1>1. PICK s : s = run[r]
  OBVIOUS
<1>2. /\ run' = run /\ schedule' = schedule /\ object' = object /\ machine' = machine
      /\ RunOK(s) /\ DOMAIN s = RunFields /\ step(s) = "observe"
  BY <1>1 DEF IInv, RunOK, recordObservation, Steps
<1>3. /\ s.attempts # 0 /\ ~ s.closed /\ ~ replacementEligible(s) /\ ~ bookingQueued(s)
  BY <1>2, StepFacts
<1>4. PICK x : x = observeLaunch(r)
  BY Zenon
<1>5. PICK b \in BOOLEAN : b = (~ s.started /\ x \in Exited \cup {"running"})
  BY Zenon
<1>6. PICK e : e = <<[type |-> "external_state_observed", phase |-> x]>> \o
                   (IF b THEN <<[type |-> "execution_started"]>> ELSE <<>>)
  BY Zenon
<1>7. PICK q : q = RentalOf(r, s)
  BY Zenon
<1>8. PICK t : t = AppendEvents(s, e)
  BY Zenon
<1>9. Appended(s, t) /\ Still(s, t)
  BY Zenon, <1>2, <1>6, <1>8, ObservedRun
<1>10. \/ Plan(r, commitSchedule(r, e, q, Started(schedule[q], 0)))
       \/ Plan(r, appendEvents(r, e))
  BY Zenon, <1>1, <1>4, <1>5, <1>6, <1>7 DEF recordObservation
<1>11. CASE Plan(r, commitSchedule(r, e, q, Started(schedule[q], 0)))
  <2>1. PICK n : n = Started(schedule[q], 0)
    BY Zenon
  <2>2. PICK w : w = commitSchedule(r, e, q, n)
    BY Zenon
  <2>3. worker' = [worker EXCEPT ![r] = w]
    BY Zenon, <1>11, <2>1, <2>2 DEF Plan
  <2>4. /\ w.version = run[r].version /\ w.events = e /\ w.rental = q
        /\ w.base = schedule[q].version /\ w.next = n
    BY <2>2, CommitFields
  <2>5. holdsBooking(s)
    BY <1>2, <1>3, HoldsBookingFacts
  <2>6. q \in Rentals /\ q # NoRental
    BY <1>2, <1>3, <1>7, <2>5, BookingNames DEF holdsBooking
  <2>7. Dates(r, s, w)
    BY <1>7, <2>1, <2>4, <2>5, <2>6 DEF Dates
  <2>8. Quiet(r, s, t, w)
    BY <1>9, <2>7 DEF Quiet, Still
  <2>9. Move(r, s, t, w)
    BY <2>8 DEF Move
  <2>10. t = AppendEvents(s, w.events) /\ w.version = s.version
    BY <1>1, <1>8, <2>4
  <2>11. w.rental # NoRental => w.rental \in Rentals /\ w.base = schedule[w.rental].version
    BY <2>4, <2>6
  <2> QED BY Zenon, <1>1, <1>2, <1>9, <2>3, <2>9, <2>10, <2>11, PureStep
<1>12. CASE Plan(r, appendEvents(r, e))
  <2>1. PICK w : w = appendEvents(r, e)
    BY Zenon
  <2>2. worker' = [worker EXCEPT ![r] = w]
    BY Zenon, <1>12, <2>1 DEF Plan
  <2>3. Confined(r)
    BY Zenon, <1>2, SameStays
  <2> QED BY Zenon, <1>1, <1>2, <1>8, <1>9, <2>1, <2>2, <2>3, QuietPlan
<1> QED BY <1>10, <1>11, <1>12

(* A queued Booking that has come to the head is dispatched. *)
LEMMA DispatchQueuedBooking ==
    ASSUME IInv, NEW r \in Runs, dispatchQueuedBooking(r)
    PROVE  IInv'
<1> DEFINE d == [type |-> "booking_dispatched"]
<1>1. PICK s : s = run[r]
  OBVIOUS
<1>2. /\ run' = run /\ schedule' = schedule /\ object' = object /\ machine' = machine
      /\ RunOK(s) /\ DOMAIN s = RunFields /\ step(s) = "dispatch"
  BY <1>1 DEF IInv, RunOK, dispatchQueuedBooking, Steps
<1>3. ~ s.closed /\ ~ s.cleanupRequested /\ bookingQueued(s)
  BY <1>2, StepFacts
<1>4. /\ s.booking = s.attempts + 1 /\ Replaced(s) /\ s.offer \in Standing /\ s.offer \notin s.excluded
      /\ s.booking # 0
  BY <1>2, <1>3 DEF RunOK, Placed, bookingQueued
<1>5. PICK e : e = <<d, [type |-> "attempt_created"], [type |-> "launch_intent_recorded", offer |-> s.offer]>>
  BY Zenon
<1>6. e = <<[type |-> "booking_dispatched"]>> \o attemptEvents(s.offer)
  BY <1>5, Join12 DEF attemptEvents
<1>7. PICK w : w = appendEvents(r, e)
  BY Zenon
<1>8. worker' = [worker EXCEPT ![r] = w]
  BY Zenon, <1>1, <1>6, <1>7 DEF dispatchQueuedBooking, Plan
<1>9. w.version = s.version /\ w.events = e /\ w.rental = NoRental
  BY <1>1, <1>7, PlanFields
<1>10. PICK t : t = AppendEvents(s, e)
  BY Zenon
<1>11. PICK u : u = Apply(s, d)
  BY Zenon
<1>12. u = [s EXCEPT !.bookingState = "running"]
  BY Zenon, <1>11, PlacementEvent
<1>13. /\ DOMAIN u = RunFields /\ u.version = s.version /\ u.bookingState = "running"
       /\ u.offer = s.offer /\ u.booking = s.booking /\ SameLaunch(s, u) /\ SameRefusal(s, u)
       /\ SameEnd(s, u) /\ u.outcome = s.outcome
  BY <1>2, <1>12 DEF RunFields, SameLaunch, SameRefusal, SameEnd
<1>14. Begun(u, t, s.offer, FALSE) /\ Appended(s, t)
  <2>1. t = AppendEvents(s, <<d, [type |-> "attempt_created"],
                              [type |-> "launch_intent_recorded", offer |-> s.offer]>>)
    BY Zenon, <1>5, <1>10
  <2>2. DOMAIN u = RunFields /\ u.version = s.version
    BY <1>13
  <2>3. PICK x : x = s.offer
    OBVIOUS
  <2> QED BY Zenon, <1>2, <1>11, <2>1, <2>2, <2>3, AttemptEvents
<1>15. NewAttempt(s, t) /\ t.offer = s.offer
  BY <1>2, <1>3, <1>4, <1>13, <1>14 DEF NewAttempt, Begun, SameLaunch, SameRefusal, SameEnd, Offers, RunOK,
     bookingQueued, nodeEnrolled
<1>16. AtHead(schedule[RentalOf(r, s)], BookingID(r, s))
  <2> DEFINE b == schedule[RentalOf(r, s)]  id == BookingID(r, s)  i == bookingIndex(b, id)
  <2>1. Holds(b, id) /\ b.bookings[i].state = "running"
    BY <1>1 DEF dispatchQueuedBooking
  <2>2. i \in DOMAIN b.bookings /\ b.bookings[i].id = id
    BY <2>1 DEF Holds, bookingIndex
  <2>3. RentalOf(r, s) \in Rentals
    BY <1>2, <1>3, <1>4, BookingNames
  <2>4. IsSchedule(b)
    BY <2>3 DEF IInv, SchedulesOK
  <2> HIDE DEF b, id, i
  <2>5. i = 1
    BY <2>1, <2>2, <2>4 DEF IsSchedule
  <2>6. AtHead(b, id)
    BY <2>2, <2>5 DEF AtHead
  <2> QED BY <2>6 DEF b, id
<1>17. Dispatches(r, s, t, w)
  BY <1>3, <1>9, <1>15, <1>16 DEF Dispatches, Keeps
<1>18. Move(r, s, t, w)
  BY <1>17 DEF Move
<1> QED BY Zenon, <1>1, <1>2, <1>8, <1>9, <1>10, <1>14, <1>18, PureStep

(* The Rental a Run's next Booking would name is nobody's. *)
LEMMA FreeRental ==
    ASSUME IInv, NEW r \in Runs, ~ holdsBooking(run[r]), NEW b \in Attempts
    PROVE  schedule[<<r, b>>].bookings = <<>>
<1> DEFINE q == <<r, b>>  c == schedule[q].bookings
<1>1. q \in Rentals /\ q \in LaunchKeys
  BY DEF Rentals, LaunchKeys
<1>2. IsSchedule(schedule[q]) /\ \A i \in DOMAIN c : Holder(q, c[i].id)
  BY <1>1 DEF IInv, SchedulesOK
<1>3. ASSUME NEW i \in DOMAIN c PROVE FALSE
  <2>1. PICK x \in Runs : holdsBooking(run[x]) /\ RentalOf(x, run[x]) = q
    BY <1>2, <1>3 DEF Holder
  <2>2. run[x].offer \notin Standing
    BY <1>1, <2>1, NamesAssumption DEF RentalOf
  <2>3. x = r
    BY <2>1, <2>2 DEF RentalOf
  <2> QED BY <2>1, <2>3
<1> HIDE DEF q, c
<1>4. IsSeq(c)
  BY <1>2 DEF IsSchedule, c
<1>5. Len(c) \in Nat /\ DOMAIN c = 1..Len(c) /\ (c = <<>> <=> Len(c) = 0)
  BY <1>4, SeqFacts
<1>6. Len(c) = 0
  <2>1. Len(c) # 0 => 1 \in DOMAIN c
    BY <1>5
  <2> QED BY <2>1, <1>3
<1>7. c = <<>>
  BY <1>5, <1>6
<1> QED BY <1>7 DEF c, q

(* The events of a placement. *)
Took(s, t, offer, b, cap) ==
    /\ t.offer = offer /\ t.booking = b /\ t.bookingState = "running"
    /\ t.attempts = s.attempts + 1 /\ t.intent = s.attempts + 1 /\ t.intentOffer = offer
    /\ t.failure = "none" /\ t.stages = {} /\ t.reclaimed = FALSE /\ t.excluded = s.excluded
    /\ t.capacity = cap /\ SameEnd(s, t) /\ t.outcome = s.outcome

(* A placement on a machine that exists. *)
LEMMA PlacedRun ==
    ASSUME NEW s, DOMAIN s = RunFields, NEW offer, NEW b, NEW d, d = decided(offer, b, "running"),
           NEW t, t = AppendEvents(s, <<d, [type |-> "attempt_created"],
                                        [type |-> "launch_intent_recorded", offer |-> offer]>>)
    PROVE  Appended(s, t) /\ Took(s, t, offer, b, FALSE)
<1>1. PICK u : u = Apply(s, d)
  BY Zenon
<1>2. /\ DOMAIN u = RunFields /\ u.version = s.version
      /\ u.offer = offer /\ u.booking = b /\ u.bookingState = "running"
      /\ SameLaunch(s, u) /\ SameRefusal(s, u) /\ SameEnd(s, u)
      /\ u.stages = s.stages /\ u.outcome = s.outcome
  BY <1>1, DecidedFields
<1>3. Begun(u, t, offer, FALSE) /\ Appended(s, t)
  BY Zenon, <1>1, <1>2, AttemptEvents
<1> QED BY <1>2, <1>3 DEF Begun, Took, SameLaunch, SameRefusal, SameEnd

(* A placement on a machine still to be built. *)
LEMMA ProvisionedRun ==
    ASSUME NEW s, DOMAIN s = RunFields, NEW offer, NEW b, NEW d, d = decided(offer, b, "running"),
           NEW t, t = AppendEvents(s, <<d, [type |-> "attempt_created"],
                                        [type |-> "launch_intent_recorded", offer |-> offer],
                                        [type |-> "capacity_requested"]>>)
    PROVE  Appended(s, t) /\ Took(s, t, offer, b, TRUE)
<1>1. PICK u : u = Apply(s, d)
  BY Zenon
<1>2. /\ DOMAIN u = RunFields /\ u.version = s.version
      /\ u.offer = offer /\ u.booking = b /\ u.bookingState = "running"
      /\ SameLaunch(s, u) /\ SameRefusal(s, u) /\ SameEnd(s, u)
      /\ u.stages = s.stages /\ u.outcome = s.outcome
  BY <1>1, DecidedFields
<1>3. Begun(u, t, offer, TRUE) /\ Appended(s, t)
  BY Zenon, <1>1, <1>2, ProvisionEvents
<1> QED BY <1>2, <1>3 DEF Begun, Took, SameLaunch, SameRefusal, SameEnd

(* A placement behind the Booking of another Run. *)
LEMMA QueuedRun ==
    ASSUME NEW s, DOMAIN s = RunFields, NEW offer, NEW b, NEW t,
           t = AppendEvents(s, <<decided(offer, b, "queued")>>)
    PROVE  /\ Appended(s, t) /\ t.offer = offer /\ t.booking = b /\ t.bookingState = "queued"
           /\ SameLaunch(s, t) /\ SameRefusal(s, t) /\ SameEnd(s, t)
           /\ t.stages = s.stages /\ t.outcome = s.outcome
<1>1. PICK u : u = Apply(s, decided(offer, b, "queued"))
  BY Zenon
<1>2. /\ DOMAIN u = RunFields /\ u.version = s.version
      /\ u.offer = offer /\ u.booking = b /\ u.bookingState = "queued"
      /\ SameLaunch(s, u) /\ SameRefusal(s, u) /\ SameEnd(s, u)
      /\ u.stages = s.stages /\ u.outcome = s.outcome
  BY <1>1, DecidedFields
<1>3. t = [u EXCEPT !.version = s.version + 1]
  BY <1>1, Append1
<1>4. /\ DOMAIN t = RunFields /\ t.version = s.version + 1
      /\ \A f \in RunFields \ {"version"} : t[f] = u[f]
  BY Zenon, <1>2, <1>3 DEF RunFields
<1> QED BY <1>2, <1>4 DEF Appended, RunFields, SameLaunch, SameRefusal, SameEnd

(* A placement decision: at once, on a machine to be built, or queued. *)
LEMMA StepPlace ==
    ASSUME IInv, NEW r \in Runs, NEW offer \in Offers, stepPlace(r, offer)
    PROVE  IInv'
<1>1. PICK s : s = run[r]
  OBVIOUS
<1>2. /\ run' = run /\ schedule' = schedule /\ object' = object /\ machine' = machine
      /\ RunOK(s) /\ DOMAIN s = RunFields /\ step(s) = "admit" /\ offer \notin s.excluded
  BY <1>1 DEF IInv, RunOK, stepPlace, Admits, Steps
<1>3. ~ s.closed /\ ~ s.cleanupRequested /\ ~ bookingQueued(s) /\ Replaced(s) /\ ~ holdsBooking(s)
  BY <1>2, StepFacts, NotHolding
<1>4. PICK b : b = s.attempts + 1
  BY Zenon
<1>5. b \in Attempts /\ b \in Nat /\ b # 0 /\ s.attempts \in Nat
  <2>1. Spent(s) /\ s.attempts \in Nat
    BY <1>2 DEF RunOK
  <2>2. s.attempts + 1 \in Attempts
    BY Zenon, <1>2, <1>3, <2>1, NextAttempt
  <2> QED BY <1>4, <2>1, <2>2
<1>6. PICK q : q = IF offer \in Standing THEN offer ELSE <<r, b>>
  BY Zenon
<1>7. q \in Rentals /\ q # NoRental
  BY <1>5, <1>6, NamesAssumption DEF Rentals, LaunchKeys
<1>8. PICK req : req = bookingRequest(r, b)
  BY Zenon
<1>9. PICK st : st = bookingFor(schedule[q], req).state
  BY Zenon
<1>10. st = IF schedule[q].bookings = <<>> THEN "running" ELSE "queued"
  BY <1>9 DEF bookingFor
<1> DEFINE d == decided(offer, b, st)
           a == [type |-> "attempt_created"]
           l == [type |-> "launch_intent_recorded", offer |-> offer]
           c == [type |-> "capacity_requested"]
<1>11. PICK e : e = <<d>> \o (IF st = "queued" THEN <<>> ELSE attemptEvents(offer)) \o
                    (IF offer \in Provisioned THEN <<c>> ELSE <<>>)
  BY Zenon
<1>12. PICK n : n = Reserve(schedule[q], req)
  BY Zenon
<1>13. PICK w : w = [commitSchedule(r, e, q, n) EXCEPT !.admits = TRUE]
  BY Zenon
<1>14. worker' = [worker EXCEPT ![r] = w]
  BY Zenon, <1>1, <1>4, <1>6, <1>8, <1>9, <1>11, <1>12, <1>13 DEF stepPlace, PlanAdmission, Plan
<1>15. /\ w.version = run[r].version /\ w.events = e /\ w.rental = q
       /\ w.base = schedule[q].version /\ w.next = n
  BY <1>13, CommitFields
<1>16. PICK t : t = AppendEvents(s, e)
  BY Zenon
<1>17. Appended(s, t) /\ Move(r, s, t, w)
  <2>1. CASE schedule[q].bookings = <<>>
    <3>1. PICK cap \in BOOLEAN : cap = IF offer \in Provisioned THEN TRUE ELSE FALSE
      BY Zenon
    <3>2. st = "running"
      BY <1>10, <2>1
    <3>3. PICK f : f = d
      BY Zenon
    <3>4. Appended(s, t) /\ Took(s, t, offer, b, cap)
      <4>0. f = decided(offer, b, "running")
        BY Zenon, <3>3, <3>2
      <4>1. CASE offer \in Provisioned
        <5>1. e = <<f>> \o <<a, l>> \o <<c>>
          BY Zenon, <1>11, <3>2, <3>3, <4>1 DEF attemptEvents
        <5>2. <<f>> \o <<a, l>> = <<f, a, l>> /\ <<f, a, l>> \o <<c>> = <<f, a, l, c>>
          BY Zenon, Join12, Join31
        <5>3. t = AppendEvents(s, <<f, a, l, c>>)
          BY Zenon, <1>16, <5>1, <5>2
        <5>4. Appended(s, t) /\ Took(s, t, offer, b, TRUE)
          BY Zenon, <1>2, <4>0, <5>3, ProvisionedRun
        <5> QED BY Zenon, <3>1, <4>1, <5>4
      <4>2. CASE offer \notin Provisioned
        <5>1. e = <<f>> \o <<a, l>> \o <<>>
          BY Zenon, <1>11, <3>2, <3>3, <4>2 DEF attemptEvents
        <5>2. <<f>> \o <<a, l>> = <<f, a, l>> /\ <<f, a, l>> \o <<>> = <<f, a, l>>
          BY Zenon, Join12, JoinEmpty
        <5>3. t = AppendEvents(s, <<f, a, l>>)
          BY Zenon, <1>16, <5>1, <5>2
        <5>4. Appended(s, t) /\ Took(s, t, offer, b, FALSE)
          BY Zenon, <1>2, <4>0, <5>3, PlacedRun
        <5> QED BY Zenon, <3>1, <4>2, <5>4
      <4> QED BY <4>1, <4>2
    <3>5. NewAttempt(s, t)
      BY <1>2, <1>3, <1>4, <1>5, <3>1, <3>4 DEF NewAttempt, bookingQueued, nodeEnrolled, SameEnd, Took
    <3>6. Reserves(r, t, w)
      BY <1>6, <1>7, <1>8, <1>12, <1>15, <3>4 DEF Reserves, RentalOf, Took
    <3>7. Places(r, s, t, w)
      BY <1>3, <1>15, <2>1, <3>5, <3>6 DEF Places
    <3> QED BY <3>4, <3>7 DEF Move
  <2>2. CASE schedule[q].bookings # <<>>
    <3>1. offer \in Standing
      BY <1>1, <1>3, <1>5, <1>6, <2>2, FreeRental
    <3>2. offer \notin Provisioned
      BY <3>1, OffersAssumption
    <3>3. st = "queued"
      BY <1>10, <2>2
    <3>4. e = <<decided(offer, b, "queued")>>
      <4>1. e = <<d>> \o <<>> \o <<>>
        BY Zenon, <1>11, <3>2, <3>3
      <4>2. <<d>> \o <<>> = <<d>>
        BY Zenon, JoinEmpty
      <4> QED BY Zenon, <4>1, <4>2, <3>3
    <3>5. /\ Appended(s, t) /\ t.offer = offer /\ t.booking = b /\ t.bookingState = "queued"
          /\ SameLaunch(s, t) /\ SameRefusal(s, t) /\ SameEnd(s, t)
          /\ t.stages = s.stages /\ t.outcome = s.outcome
      <4>1. t = AppendEvents(s, <<decided(offer, b, "queued")>>)
        BY Zenon, <1>16, <3>4
      <4> QED BY <1>2, <4>1, QueuedRun
    <3>6. Reserves(r, t, w)
      BY <1>6, <1>7, <1>8, <1>12, <1>15, <3>5 DEF Reserves, RentalOf
    <3>7. Queues(r, s, t, w)
      BY <1>2, <1>3, <1>4, <1>5, <1>15, <2>2, <3>1, <3>5, <3>6 DEF Queues, bookingQueued
    <3> QED BY <3>5, <3>7 DEF Move
  <2> QED BY <2>1, <2>2
<1>18. t = AppendEvents(s, w.events) /\ w.version = s.version
  BY Zenon, <1>1, <1>15, <1>16
<1>19. w.rental # NoRental => w.rental \in Rentals /\ w.base = schedule[w.rental].version
  BY Zenon, <1>7, <1>15
<1> QED BY Zenon, <1>1, <1>2, <1>14, <1>17, <1>18, <1>19, PureStep

(* Appends of nobody's worker: a request, a cancel, a report. *)
LEMMA QuietAppend ==
    ASSUME IInv, NEW r \in Runs, NEW s, s = run[r], NEW t, run' = [run EXCEPT ![r] = t],
           Appended(s, t), Still(s, t),
           schedule' = schedule, object' = object, machine' = machine, worker' = worker
    PROVE  IInv'
<1>1. PICK w : w = NoPlan
  OBVIOUS
<1>2. w.rental = NoRental
  BY <1>1 DEF NoPlan
<1>3. Quiet(r, s, t, w)
  BY <1>2 DEF Quiet, Still, Keeps
<1>4. Move(r, s, t, w)
  BY <1>3 DEF Move
<1>5. RunOK(t) /\ Agrees(r, t) /\ Posted(r)
  BY Zenon, <1>2, <1>4, CommitMove
<1>6. ObjectsOK(r, t) /\ MachinesOK(r, t)
  BY <1>5 DEF Agrees
<1>7. /\ DOMAIN worker' = Runs /\ \A x \in Runs : x # r => worker'[x] = worker[x]
      /\ worker'[r] \in {worker[r], NoPlan}
  BY DEF IInv, Shape
<1> QED BY Zenon, <1>5, <1>6, <1>7, RunStep

(* A request appends to its Run alone. *)
LEMMA CreateRunAppends ==
    ASSUME IInv, NEW r \in Runs, CreateRun(r)
    PROVE  \E t : run' = [run EXCEPT ![r] = t] /\ Appended(run[r], t) /\ Still(run[r], t)
<1>1. PICK s : s = run[r]
  OBVIOUS
<1>2. PICK t : t = AppendEvents(s, <<[type |-> "run_requested"]>>)
  BY Zenon
<1>3. t = [s EXCEPT !.requested = TRUE, !.version = s.version + 1]
  BY Zenon, <1>2, RequestEvents
<1>4. DOMAIN s = RunFields
  BY <1>1 DEF IInv, RunOK
<1>5. Appended(s, t) /\ Still(s, t)
  BY <1>3, <1>4 DEF Appended, RunFields, Still, SameLaunch, SameRefusal, SameBooking, SameEnd, bookingQueued
<1>6. run' = [run EXCEPT ![r] = t]
  BY Zenon, <1>1, <1>2 DEF CreateRun
<1> QED BY Zenon, <1>1, <1>5, <1>6

(* A cancellation appends to its Run alone. *)
LEMMA CancelAppends ==
    ASSUME IInv, NEW r \in Runs, CancelAppend(r), run' # run
    PROVE  \E t : run' = [run EXCEPT ![r] = t] /\ Appended(run[r], t) /\ Still(run[r], t)
<1>1. PICK s : s = run[r]
  OBVIOUS
<1>2. PICK t : t = AppendEvents(s, <<[type |-> "cancel_requested"]>>)
  BY Zenon
<1>3. t = [s EXCEPT !.cancelled = TRUE, !.terminal = FirstTerminal(s, "cancelled"), !.version = s.version + 1]
  BY Zenon, <1>2, CancelEvents
<1>4. DOMAIN s = RunFields
  BY <1>1 DEF IInv, RunOK
<1>5. Appended(s, t) /\ Still(s, t)
  BY <1>3, <1>4 DEF Appended, RunFields, Still, SameLaunch, SameRefusal, SameBooking, SameEnd, bookingQueued
<1>6. run' = [run EXCEPT ![r] = t]
  BY Zenon, <1>1, <1>2 DEF CancelAppend
<1> QED BY Zenon, <1>1, <1>5, <1>6

(* A report appends to its Run alone. *)
LEMMA RecordReportAppends ==
    ASSUME IInv, NEW r \in Runs, NEW outcome, RecordReport(r, outcome)
    PROVE  \E t : run' = [run EXCEPT ![r] = t] /\ Appended(run[r], t) /\ Still(run[r], t)
<1>1. PICK s : s = run[r]
  OBVIOUS
<1>2. PICK t : t = AppendEvents(s, <<[type |-> "run_reported", outcome |-> outcome]>>)
  BY Zenon
<1>3. t = [s EXCEPT !.reported = outcome, !.terminal = FirstTerminal(s, outcome), !.version = s.version + 1]
  BY Zenon, <1>2, ReportEvents
<1>4. DOMAIN s = RunFields
  BY <1>1 DEF IInv, RunOK
<1>5. Appended(s, t) /\ Still(s, t)
  BY <1>3, <1>4 DEF Appended, RunFields, Still, SameLaunch, SameRefusal, SameBooking, SameEnd, bookingQueued
<1>6. run' = [run EXCEPT ![r] = t]
  BY Zenon, <1>1, <1>2 DEF RecordReport
<1> QED BY Zenon, <1>1, <1>5, <1>6

(* Requests, cancellations and reports keep the invariant, whatever plan is *)
(* in flight.                                                               *)
LEMMA CommandSteps ==
    ASSUME IInv, NEW r \in Runs,
           CreateRun(r) \/ CancelAppend(r) \/ \E outcome \in ReportOutcomes : RecordReport(r, outcome),
           run' # run
    PROVE  IInv'
<1>1. PICK t : run' = [run EXCEPT ![r] = t] /\ Appended(run[r], t) /\ Still(run[r], t)
  BY CreateRunAppends, CancelAppends, RecordReportAppends
<1>2. schedule' = schedule /\ object' = object /\ machine' = machine /\ worker' = worker
  BY Zenon DEF CreateRun, CancelAppend, RecordReport
<1> QED BY Zenon, <1>1, <1>2, QuietAppend

(* Steps that only lose plans or do nothing to what is durable. *)
LEMMA MemoryStep ==
    ASSUME IInv, run' = run, schedule' = schedule, object' = object, machine' = machine,
           DOMAIN worker' = Runs, \A x \in Runs : worker'[x] \in {worker[x], NoPlan}
    PROVE  IInv'
<1>1. Shape'
  BY DEF IInv, Shape
<1>2. \A x \in Runs : RunOK(run[x])'
  BY DEF IInv
<1>3. \A x \in Runs : ObjectsOK(x, run[x])' /\ MachinesOK(x, run[x])'
  BY DEF IInv, ObjectsOK, MachinesOK
<1>4. SchedulesOK'
  BY DEF IInv, SchedulesOK, Holder
<1>5. ASSUME NEW x \in Runs, worker'[x] # NoPlan PROVE PlanOK(x, worker[x])'
  <2>1. worker'[x] = worker[x] /\ RunOK(run[x]) /\ run'[x] = run[x]
    BY <1>5 DEF IInv
  <2>2. PlanOK(x, worker[x])
    BY <2>1, <1>5 DEF IInv
  <2>3. Onward /\ Undisturbed(x)
    BY DEF IInv, SchedulesOK, IsSchedule, Onward, Undisturbed
  <2> QED BY <2>1, <2>2, <2>3, PlanStays
<1> QED BY <1>1, <1>2, <1>3, <1>4, <1>5 DEF IInv

(* Steps of the outside world. *)
LEMMA OutsideStep ==
    ASSUME IInv, run' = run, schedule' = schedule, worker' = worker, Shape',
           \A x \in Runs : ObjectsOK(x, run[x])' /\ MachinesOK(x, run[x])' /\ Undisturbed(x)
    PROVE  IInv'
<1>1. \A x \in Runs : RunOK(run[x])'
  BY DEF IInv
<1>2. SchedulesOK'
  BY DEF IInv, SchedulesOK, Holder
<1>3. ASSUME NEW x \in Runs, worker'[x] # NoPlan PROVE PlanOK(x, worker[x])'
  <2>1. worker'[x] = worker[x] /\ RunOK(run[x]) /\ run'[x] = run[x] /\ Undisturbed(x)
    BY DEF IInv
  <2>2. PlanOK(x, worker[x])
    BY <2>1, <1>3 DEF IInv
  <2>3. Onward
    BY DEF IInv, SchedulesOK, IsSchedule, Onward
  <2> QED BY <2>1, <2>2, <2>3, PlanStays
<1> QED BY <1>1, <1>2, <1>3 DEF IInv

\* What an object outside may turn into by itself.
Turns(u, v) ==
    \/ u = "landing" /\ v = "queued"
    \/ u \in {"queued", "running"} /\ v \in Ended \cup {"running"}
    \/ u = "stopping" /\ v = "released"
    \/ u = "missed" /\ v = "orphaned"

(* A launch that arrives, or a workload that starts, ends or stops. *)
LEMMA ObjectTurns ==
    ASSUME IInv, NEW k \in LaunchKeys, NEW v, object' = [object EXCEPT ![k] = v], Turns(object[k], v),
           run' = run, schedule' = schedule, worker' = worker, machine' = machine
    PROVE  IInv'
<1>1. Shape'
  BY DEF IInv, Shape, Turns, ObjectStates, Ended, Exited
<1>2. \A j \in LaunchKeys : object'[j] = object[j] \/ (Turns(object[j], object'[j]))
  BY DEF IInv, Shape
<1>3. ASSUME NEW x \in Runs PROVE ObjectsOK(x, run[x])' /\ MachinesOK(x, run[x])' /\ Undisturbed(x)
  <2>1. PICK s : s = run[x]
    OBVIOUS
  <2>2. RunOK(s) /\ ObjectsOK(x, s) /\ MachinesOK(x, s)
    BY <2>1 DEF IInv
  <2>3. s.attempts # 0 => s.attempts \in Attempts
    BY <2>2, AttemptsBounded
  <2>4. \A i \in Attempts : \/ object'[<<x, i>>] = object[<<x, i>>]
                            \/ Turns(object[<<x, i>>], object'[<<x, i>>])
    BY <1>2 DEF LaunchKeys
  <2>5. \A i \in Attempts : i # s.attempts => object'[<<x, i>>] = object[<<x, i>>]
    BY <2>2, <2>4 DEF ObjectsOK, Unlaunched, Turns
  <2>6. ObjectsOK(x, s)'
    <3>1. CASE s.attempts = 0
      BY <3>1, <2>2, <2>5 DEF ObjectsOK
    <3>2. CASE s.attempts # 0
      <4>1. PICK u : u = object[<<x, s.attempts>>]
        OBVIOUS
      <4>2. PICK y : y = object'[<<x, s.attempts>>]
        OBVIOUS
      <4>3. y = u \/ Turns(u, y)
        BY <2>3, <2>4, <3>2, <4>1, <4>2
      <4>4. /\ replacementEligible(s) => u \in {"none", "refused", "released"}
            /\ replacementEligible(s) /\ ~ s.cleanupRequested /\ ~ s.closed => Unlaunched(u, s.attempts)
            /\ s.capacity /\ ~ nodeEnrolled(s) /\ ~ s.cleanupRequested /\ ~ s.closed => u = "none"
            /\ s.closed => u \notin Pending \/ s.failure = "rejected"
        BY <2>2, <3>2, <4>1 DEF ObjectsOK
      <4>5. /\ replacementEligible(s) => y \in {"none", "refused", "released"}
            /\ replacementEligible(s) /\ ~ s.cleanupRequested /\ ~ s.closed => Unlaunched(y, s.attempts)
            /\ s.capacity /\ ~ nodeEnrolled(s) /\ ~ s.cleanupRequested /\ ~ s.closed => y = "none"
            /\ s.closed => y \notin Pending \/ s.failure = "rejected"
        BY <4>3, <4>4 DEF Turns, Unlaunched, Pending, Outstanding, Ended, Exited
      <4>6. \A i \in Attempts : i # s.attempts =>
                /\ Unlaunched(object'[<<x, i>>], i)
                /\ object'[<<x, i>>] # "none" => i < s.attempts
        BY <2>2, <2>5 DEF ObjectsOK
      <4> QED BY <4>2, <4>5, <4>6 DEF ObjectsOK
    <3> QED BY <3>1, <3>2
  <2>7. MachinesOK(x, s)'
    BY <2>2 DEF MachinesOK
  <2>8. Undisturbed(x)
    BY <2>1, <2>3, <2>4 DEF Undisturbed, Turns, Pending, Outstanding, Ended, Exited
  <2> QED BY <2>1, <2>6, <2>7, <2>8
<1> QED BY <1>1, <1>3, OutsideStep

(* Machines that come up, enrol, expire or go. *)
LEMMA MachineTurns ==
    ASSUME IInv, DOMAIN machine' = LaunchKeys,
           \A k \in LaunchKeys : /\ DOMAIN machine'[k] = {"state", "enrolled", "expired"}
                                 /\ machine'[k].state \in Alive => machine[k].state \in Alive,
           run' = run, schedule' = schedule, worker' = worker, object' = object
    PROVE  IInv'
<1>1. Shape'
  BY DEF IInv, Shape
<1>2. ASSUME NEW x \in Runs PROVE ObjectsOK(x, run[x])' /\ MachinesOK(x, run[x])' /\ Undisturbed(x)
  <2>1. PICK s : s = run[x]
    OBVIOUS
  <2>2. RunOK(s) /\ ObjectsOK(x, s) /\ MachinesOK(x, s)
    BY <2>1 DEF IInv
  <2>3. s.attempts # 0 => s.attempts \in Attempts
    BY <2>2, AttemptsBounded
  <2>4. \A i \in Attempts : machine'[<<x, i>>].state \in Alive => machine[<<x, i>>].state \in Alive
    BY DEF LaunchKeys
  <2>5. ObjectsOK(x, s)'
    BY <2>2 DEF ObjectsOK
  <2>6. MachinesOK(x, s)'
    BY <2>2, <2>4 DEF MachinesOK
  <2>7. Undisturbed(x)
    BY <2>1, <2>3, <2>4 DEF Undisturbed
  <2> QED BY <2>1, <2>5, <2>6, <2>7
<1> QED BY <1>1, <1>2, OutsideStep

(* Every step of the outside world keeps the invariant. *)
LEMMA WorldStep ==
    ASSUME IInv, NEW k \in LaunchKeys, World(k)
    PROVE  IInv'
<1>0. /\ DOMAIN machine = LaunchKeys
      /\ \A j \in LaunchKeys : DOMAIN machine[j] = {"state", "enrolled", "expired"}
  BY DEF IInv, Shape
<1>1. CASE WorkloadStarts(k)
  <2>1. Turns(object[k], "running")
    BY <1>1 DEF WorkloadStarts, Turns
  <2> QED BY Zenon, <1>1, <2>1, ObjectTurns DEF WorkloadStarts
<1>7. CASE LaunchLands(k)
  <2>1. CASE object[k] = "landing"
    <3>1. object' = [object EXCEPT ![k] = "queued"] /\ Turns(object[k], "queued")
      BY <1>7, <2>1 DEF LaunchLands, Turns
    <3> QED BY Zenon, <1>7, <3>1, ObjectTurns DEF LaunchLands
  <2>2. CASE object[k] = "missed"
    <3>1. object' = [object EXCEPT ![k] = "orphaned"] /\ Turns(object[k], "orphaned")
      BY <1>7, <2>2 DEF LaunchLands, Turns
    <3> QED BY Zenon, <1>7, <3>1, ObjectTurns DEF LaunchLands
  <2> QED BY <1>7, <2>1, <2>2 DEF LaunchLands
<1>2. CASE AgentStops(k)
  <2>1. Turns(object[k], "released")
    BY <1>2 DEF AgentStops, Turns
  <2> QED BY Zenon, <1>2, <2>1, ObjectTurns DEF AgentStops
<1>3. ASSUME NEW outcome \in ExitOutcomes, WorkloadExits(k, outcome) PROVE IInv'
  <2>1. Turns(object[k], outcome)
    BY <1>3, BoundsAssumption DEF WorkloadExits, Turns
  <2> QED BY Zenon, <1>3, <2>1, ObjectTurns DEF WorkloadExits
<1>4. CASE MachineBoots(k)
  <2>1. /\ run' = run /\ schedule' = schedule /\ worker' = worker /\ object' = object
        /\ machine[k].state = "starting" /\ machine' = [machine EXCEPT ![k].state = "active"]
    BY <1>4 DEF MachineBoots
  <2>2. DOMAIN machine' = LaunchKeys
    BY <1>0, <2>1
  <2>3. \A j \in LaunchKeys : /\ DOMAIN machine'[j] = {"state", "enrolled", "expired"}
                              /\ machine'[j].state \in Alive => machine[j].state \in Alive
    BY <1>0, <2>1 DEF Alive
  <2> QED BY <2>1, <2>2, <2>3, MachineTurns
<1>5. CASE AgentEnrols(k)
  <2>1. /\ run' = run /\ schedule' = schedule /\ worker' = worker /\ object' = object
        /\ machine' = [machine EXCEPT ![k].enrolled = TRUE]
    BY <1>5 DEF AgentEnrols
  <2>2. DOMAIN machine' = LaunchKeys
    BY <1>0, <2>1
  <2>3. \A j \in LaunchKeys : /\ DOMAIN machine'[j] = {"state", "enrolled", "expired"}
                              /\ machine'[j].state \in Alive => machine[j].state \in Alive
    BY <1>0, <2>1
  <2> QED BY <2>1, <2>2, <2>3, MachineTurns
<1>6. CASE DeadlinePasses(k)
  <2>1. /\ run' = run /\ schedule' = schedule /\ worker' = worker /\ object' = object
        /\ machine' = [machine EXCEPT ![k].expired = TRUE]
    BY <1>6 DEF DeadlinePasses
  <2>2. DOMAIN machine' = LaunchKeys
    BY <1>0, <2>1
  <2>3. \A j \in LaunchKeys : /\ DOMAIN machine'[j] = {"state", "enrolled", "expired"}
                              /\ machine'[j].state \in Alive => machine[j].state \in Alive
    BY <1>0, <2>1
  <2> QED BY <2>1, <2>2, <2>3, MachineTurns
<1> QED BY <1>1, <1>2, <1>3, <1>4, <1>5, <1>6, <1>7 DEF World

(* Every step of the control loop keeps the invariant. *)
LEMMA AdvanceStep ==
    ASSUME IInv, NEW r \in Runs, Advance(r)
    PROVE  IInv'
<1>1. CASE Conflict(r)
  <2>1. /\ run' = run /\ schedule' = schedule /\ object' = object /\ machine' = machine
        /\ DOMAIN worker' = Runs /\ \A x \in Runs : worker'[x] \in {worker[x], NoPlan}
    BY <1>1 DEF Conflict, IInv, Shape
  <2> QED BY <2>1, MemoryStep
<1> QED BY Zenon, <1>1, RecordTerminalTransition, ReleaseAndCloseScheduled, RecordCleanupFailure, RecordDeferral,
           RecordRefusal, CloseRetryExhausted, StepPlace, DispatchQueuedBooking, AllocateCapacity,
           WatchCapacityArrive, ReclaimCapacity, LaunchAccepted, RecordIndeterminateLaunch,
           RecordReplaceableLaunchFailure, RecordTerminalLaunchFailure, RecordObservation, CommitStep
           DEF Advance

(* At first there is an attempt for every offer. *)
LEMMA OneForEachOffer == Leaves(0, {})
<1> DEFINE c == Cardinality(Offers)
<1>1. c \in Nat /\ IsFiniteSet(Offers)
  BY NamesAssumption, FS_CardinalityType
<1>2. ASSUME NEW k \in 0..(c + 1), NEW q \in [1..k -> Offers \ {}],
             \A i, j \in 1..k : q[i] = q[j] => i = j
      PROVE  0 + k <= c
  <2>1. k \in Nat /\ q \in Injection(1..k, Offers)
    BY <1>1, <1>2 DEF Injection, IsInjective
  <2>2. Cardinality(1..k) <= c
    BY <1>1, <2>1, FS_Injection
  <2>3. Cardinality(1..k) = k
    BY <2>1, FS_Interval
  <2> QED BY <1>1, <2>1, <2>2, <2>3
<1> QED BY <1>1, <1>2 DEF Leaves

(* The invariant holds before the first Run is requested. *)
LEMMA InitOK == Init => IInv
<1> SUFFICES ASSUME Init PROVE IInv
  OBVIOUS
<1>1. /\ \A r \in Runs : run[r] = EmptyRun /\ worker[r] = NoPlan
      /\ \A k \in LaunchKeys : object[k] = "none" /\ machine[k] = NoMachine
      /\ \A q \in Rentals : schedule[q] = NewRentalSchedule
  BY DEF Init
<1>2. Shape
  BY DEF Init, Shape, ObjectStates, NoMachine
<1>3. RunOK(EmptyRun)
  <2>1. Leaves(0, {})
    BY OneForEachOffer
  <2>2. /\ DOMAIN EmptyRun = RunFields /\ EmptyRun.version = 0 /\ EmptyRun.attempts = 0
        /\ EmptyRun.booking = 0 /\ EmptyRun.intent = 0 /\ EmptyRun.excluded = {}
        /\ EmptyRun.capacity = FALSE /\ EmptyRun.failure = "none" /\ EmptyRun.reclaimed = FALSE
        /\ EmptyRun.outcome = "none" /\ EmptyRun.cleanupRequested = FALSE
        /\ EmptyRun.cleanupConfirmed = FALSE /\ EmptyRun.bookingState = "none"
    BY Zenon DEF EmptyRun, RunFields
  <2> QED BY <2>1, <2>2 DEF RunOK, Spent, Placed, Replaced, bookingQueued
<1>4. EmptyRun.attempts = 0 /\ EmptyRun.booking = 0
  BY Zenon DEF EmptyRun
<1>5. ASSUME NEW r \in Runs PROVE ObjectsOK(r, run[r]) /\ MachinesOK(r, run[r])
  <2>1. \A i \in Attempts : object[<<r, i>>] = "none" /\ machine[<<r, i>>].state = "none"
    BY <1>1 DEF LaunchKeys, NoMachine
  <2> QED BY <1>1, <1>4, <2>1 DEF ObjectsOK, MachinesOK, Unlaunched, Alive
<1>6. SchedulesOK
  <2>1. \A r \in Runs : ~ holdsBooking(run[r])
    BY <1>1, <1>4 DEF holdsBooking
  <2>2. DOMAIN NewRentalSchedule.bookings = {}
    BY DEF NewRentalSchedule
  <2> QED BY <1>1, <2>1, <2>2, NewSchedule DEF SchedulesOK
<1> QED BY <1>1, <1>2, <1>3, <1>5, <1>6 DEF IInv

(* Every step keeps the invariant. *)
LEMMA Inductive == IInv /\ [Next]_vars => IInv'
<1> SUFFICES ASSUME IInv, [Next]_vars PROVE IInv'
  OBVIOUS
<1>1. CASE UNCHANGED vars
  <2>1. /\ run' = run /\ schedule' = schedule /\ object' = object /\ machine' = machine
        /\ DOMAIN worker' = Runs /\ \A x \in Runs : worker'[x] \in {worker[x], NoPlan}
    BY <1>1 DEF vars, IInv, Shape
  <2> QED BY <2>1, MemoryStep
<1>2. ASSUME NEW r \in Runs,
             CreateRun(r) \/ CancelAppend(r) \/ \E outcome \in ReportOutcomes : RecordReport(r, outcome)
      PROVE  IInv'
  <2>1. CASE run' = run
    <3>1. /\ schedule' = schedule /\ object' = object /\ machine' = machine
          /\ DOMAIN worker' = Runs /\ \A x \in Runs : worker'[x] \in {worker[x], NoPlan}
      BY Zenon, <1>2 DEF CreateRun, CancelAppend, RecordReport, IInv, Shape
    <3> QED BY <2>1, <3>1, MemoryStep
  <2>2. CASE run' # run
    BY Zenon, <1>2, <2>2, CommandSteps
  <2> QED BY <2>1, <2>2
<1>3. ASSUME NEW r \in Runs, CancelRun(r) \/ PublishInputs(r) PROVE IInv'
  <2>1. /\ run' = run /\ schedule' = schedule /\ object' = object /\ machine' = machine
        /\ DOMAIN worker' = Runs /\ \A x \in Runs : worker'[x] \in {worker[x], NoPlan}
    BY <1>3 DEF CancelRun, PublishInputs, IInv, Shape
  <2> QED BY <2>1, MemoryStep
<1>4. CASE Crash
  <2>1. /\ run' = run /\ schedule' = schedule /\ object' = object /\ machine' = machine
        /\ DOMAIN worker' = Runs /\ \A x \in Runs : worker'[x] \in {worker[x], NoPlan}
    BY <1>4 DEF Crash, IInv, Shape
  <2> QED BY <2>1, MemoryStep
<1> QED BY Zenon, <1>1, <1>2, <1>3, <1>4, AdvanceStep, WorldStep DEF Next

(* The invariant always holds. *)
LEMMA AlwaysIInv == Spec => []IInv
BY InitOK, Inductive, PTL DEF Spec

-----------------------------------------------------------------------------
(***************************************************************************)
(* What follows.                                                           *)
(***************************************************************************)
(* An object there, on its way or landed too late is the current attempt's. *)
LEMMA LiveFacts ==
    ASSUME IInv, NEW r \in Runs, NEW i \in Attempts,
           object[<<r, i>>] \in Pending \cup {"missed", "orphaned"}
    PROVE  i = run[r].attempts
<1>1. ObjectsOK(r, run[r])
  BY DEF IInv
<1> QED BY <1>1 DEF ObjectsOK, Unlaunched, Pending, Outstanding, Ended, Exited

(* One nobody has asked to stop is, unless its launch was rejected, an open *)
(* Run's at the head of its Rental.                                         *)
LEMMA PendingFacts ==
    ASSUME IInv, NEW r \in Runs, NEW i \in Attempts, object[<<r, i>>] \in Pending,
           run[r].failure # "rejected"
    PROVE  ~ run[r].closed /\ AtHead(schedule[RentalOf(r, run[r])], BookingID(r, run[r]))
<1>1. PICK s : s = run[r]
  OBVIOUS
<1>2. RunOK(s) /\ ObjectsOK(r, s)
  BY <1>1 DEF IInv
<1>3. i = s.attempts
  BY <1>1, LiveFacts
<1>4. s.attempts # 0
  BY <1>3 DEF Attempts
<1>5. ~ s.closed /\ ~ replacementEligible(s)
  BY <1>1, <1>2, <1>3, <1>4 DEF ObjectsOK, Pending, Outstanding, Ended, Exited
<1>6. ~ bookingQueued(s)
  BY <1>2, <1>4, <1>5 DEF RunOK, Placed, Replaced
<1>7. holdsBooking(s)
  BY <1>2, <1>4, <1>5, <1>6, HoldsBookingFacts
<1>8. AtHead(schedule[RentalOf(r, s)], BookingID(r, s))
  BY <1>1, <1>6, <1>7 DEF IInv, SchedulesOK
<1> QED BY <1>1, <1>5, <1>8

(* Whatever is planned, cancelled, retried or lost in a crash, the Bookings *)
(* on a Rental's schedule are those of the open Runs that took one there    *)
(* and have not given it back.                                              *)
THEOREM BookingsHeld == Spec => []BookingsAreHeld
<1>1. IInv => BookingsAreHeld
  <2> SUFFICES ASSUME IInv, NEW q \in Rentals
               PROVE  {schedule[q].bookings[i].id : i \in DOMAIN schedule[q].bookings} =
                      {BookingID(r, run[r]) : r \in {x \in Runs : holdsBooking(run[x]) /\ RentalOf(x, run[x]) = q}}
    BY Zenon DEF BookingsAreHeld
  <2>1. \A i \in DOMAIN schedule[q].bookings : Holder(q, schedule[q].bookings[i].id)
    BY DEF IInv, SchedulesOK
  <2>2. \A r \in Runs : holdsBooking(run[r]) /\ RentalOf(r, run[r]) = q =>
           \E i \in DOMAIN schedule[q].bookings : schedule[q].bookings[i].id = BookingID(r, run[r])
    BY DEF IInv, SchedulesOK, Holds
  <2> QED BY <2>1, <2>2 DEF Holder
<1> QED BY <1>1, AlwaysIInv, PTL

(* Two workloads nobody has asked to stop are never on one Rental, unless   *)
(* the launch of one was recorded as rejected: a launch is made only by the *)
(* Run at the head of the schedule, and the head is given up only with the  *)
(* launch or on its rejection.                                              *)
THEOREM RentalsExclusive == Spec => []RentalExclusive
<1>1. IInv => RentalExclusive
  <2> SUFFICES ASSUME IInv, NEW k1 \in LaunchKeys, NEW k2 \in LaunchKeys,
                      object[k1] \in Pending, object[k2] \in Pending,
                      run[k1[1]].failure # "rejected", run[k2[1]].failure # "rejected",
                      RentalOf(k1[1], run[k1[1]]) = RentalOf(k2[1], run[k2[1]])
               PROVE  k1 = k2
    BY DEF RentalExclusive, Pending
  <2>1. PICK r1 \in Runs, i1 \in Attempts : k1 = <<r1, i1>>
    BY DEF LaunchKeys
  <2>2. PICK r2 \in Runs, i2 \in Attempts : k2 = <<r2, i2>>
    BY DEF LaunchKeys
  <2>3. i1 = run[r1].attempts /\ AtHead(schedule[RentalOf(r1, run[r1])], BookingID(r1, run[r1]))
    BY <2>1, LiveFacts, PendingFacts
  <2>4. i2 = run[r2].attempts /\ AtHead(schedule[RentalOf(r2, run[r2])], BookingID(r2, run[r2]))
    BY <2>2, LiveFacts, PendingFacts
  <2>5. BookingID(r1, run[r1]) = BookingID(r2, run[r2])
    BY <2>1, <2>2, <2>3, <2>4 DEF AtHead
  <2>6. r1 = r2
    BY <2>5 DEF BookingID
  <2> QED BY <2>1, <2>2, <2>3, <2>4, <2>6
<1> QED BY <1>1, AlwaysIInv, PTL

(* A Run has objects of at most one of its attempts, there, on their way or *)
(* landed too late: a Run is placed again only after its provider proved    *)
(* that nothing was created, or its machine was given back.                 *)
THEOREM OneObject == Spec => []OneObjectPerRun
<1>1. IInv => OneObjectPerRun
  BY LiveFacts DEF OneObjectPerRun
<1> QED BY <1>1, AlwaysIInv, PTL

(* A closed Run has left nothing outside that nobody was asked to stop but  *)
(* the object of a launch recorded as rejected: whatever else was launched, *)
(* timed out or was lost in a crash was cleaned up before the Run closed.   *)
THEOREM ClosedIsReleased == Spec => []ClosedMeansReleased
<1>1. IInv => ClosedMeansReleased
  BY LiveFacts, PendingFacts DEF ClosedMeansReleased
<1> QED BY <1>1, AlwaysIInv, PTL

(* A machine that was built and not given back is its Run's current one: a  *)
(* lost answer, a crash or a conflict never makes a Run forget a machine.   *)
THEOREM MachinesKept == Spec => []NoAbandonedMachine
<1>1. IInv => NoAbandonedMachine
  <2> SUFFICES ASSUME IInv, NEW k \in LaunchKeys, machine[k].state \in Alive
               PROVE  run[k[1]].intent = k[2]
    BY DEF NoAbandonedMachine, Alive
  <2>1. PICK r \in Runs, i \in Attempts : k = <<r, i>>
    BY DEF LaunchKeys
  <2>2. i = run[r].attempts /\ run[r].intent = run[r].attempts
    BY <2>1 DEF IInv, MachinesOK, RunOK
  <2> QED BY <2>1, <2>2
<1> QED BY <1>1, AlwaysIInv, PTL

(* A Run is handed to providers at most as often as its workload allows,   *)
(* across replacements, reclaimed machines and crashes.                    *)
THEOREM LaunchesBounded == Spec => []LaunchesWithinBound
<1>1. ASSUME IInv, NEW r \in Runs
      PROVE  Cardinality({i \in Attempts : object[<<r, i>>] # "none"}) <= MaxPreStartAttempts
  <2> DEFINE M == MaxPreStartAttempts  I == 1..(M - 1)  a == run[r].attempts
             L == {i \in Attempts : object[<<r, i>>] # "none"}
  <2>1. M \in Nat /\ M # 0
    BY BoundsAssumption
  <2>2. \A i \in L : i = a \/ (i \in Nat /\ i # 0 /\ i < M)
    <3>1. \A i \in Attempts : i # a => Unlaunched(object[<<r, i>>], i)
      BY Zenon, <1>1 DEF IInv, ObjectsOK
    <3>2. \A i \in Attempts : i \in Nat /\ i # 0
      BY DEF Attempts
    <3> HIDE DEF a, M
    <3> QED BY <3>1, <3>2 DEF Unlaunched, M
  <2> HIDE DEF L, a
  <2>3. \A i \in L : i \in I \cup {a}
    BY <2>1, <2>2
  <2>4. L \in SUBSET (I \cup {a})
    BY <2>3
  <2>5. IsFiniteSet(I) /\ Cardinality(I) = M - 1
    BY <2>1, FS_Interval
  <2> HIDE DEF I, M
  <2>6. IsFiniteSet(I \cup {a}) /\ Cardinality(I \cup {a}) \in {M - 1, M - 1 + 1}
    BY <2>5, FS_AddElement
  <2>7. IsFiniteSet(L) /\ Cardinality(L) <= Cardinality(I \cup {a})
    BY <2>4, <2>6, FS_Subset
  <2>8. Cardinality(L) \in Nat
    BY <2>7, FS_CardinalityType
  <2>9. Cardinality(L) <= M
    BY <2>1, <2>6, <2>7, <2>8
  <2> QED BY <2>9 DEF L, M
<1>2. IInv => LaunchesWithinBound
  BY <1>1 DEF LaunchesWithinBound
<1> QED BY <1>2, AlwaysIInv, PTL

\* What no append takes back.
Lasting(s, t) ==
    /\ s.outcome # "none" => t.outcome = s.outcome
    /\ s.closed => t.closed

(* A committed move takes neither back. *)
LEMMA MoveLasts ==
    ASSUME NEW r, NEW s, NEW t, NEW w, Move(r, s, t, w)
    PROVE  Lasting(s, t)
BY DEF Move, Quiet, Ends, Closes, Releases, Replaces, Places, Queues, Dispatches, NewAttempt, SameEnd, Lasting

(* Recording progress takes neither back. *)
LEMMA StillLasts ==
    ASSUME NEW s, NEW t, Still(s, t)
    PROVE  Lasting(s, t)
BY DEF Still, SameEnd, Lasting

(* A step changes at most one Run, and takes neither back. *)
LEMMA NextLasts ==
    ASSUME IInv, Next, run' # run
    PROVE  \E r \in Runs : \E t : run' = [run EXCEPT ![r] = t] /\ Lasting(run[r], t)
<1>1. ASSUME NEW r \in Runs,
             CreateRun(r) \/ CancelAppend(r) \/ \E outcome \in ReportOutcomes : RecordReport(r, outcome)
      PROVE  \E t : run' = [run EXCEPT ![r] = t] /\ Lasting(run[r], t)
  <2>1. PICK t : run' = [run EXCEPT ![r] = t] /\ Appended(run[r], t) /\ Still(run[r], t)
    BY <1>1, CreateRunAppends, CancelAppends, RecordReportAppends
  <2> QED BY Zenon, <2>1, StillLasts
<1>2. ASSUME NEW r \in Runs, Advance(r)
      PROVE  \E t : run' = [run EXCEPT ![r] = t] /\ Lasting(run[r], t)
  <2>1. Commit(r)
    BY Zenon, <1>2 DEF Advance, recordTerminalTransition, releaseAndCloseScheduled, recordCleanupFailure, recordDeferral,
       recordRefusal, closeRetryExhausted, stepPlace, dispatchQueuedBooking, allocateCapacity,
       watchCapacityArrive, reclaimCapacity, launchAccepted, recordIndeterminateLaunch,
       recordReplaceableLaunchFailure, recordTerminalLaunchFailure, recordObservation, Conflict
  <2>2. PICK t : t = AppendEvents(run[r], worker[r].events)
    BY Zenon
  <2>3. run' = [run EXCEPT ![r] = t]
    BY Zenon, <2>1, <2>2 DEF Commit
  <2>4. Move(r, run[r], t, worker[r])
    BY <2>1, <2>2 DEF Commit, VersionsMatch, IInv, PlanOK, Lands
  <2> QED BY Zenon, <2>3, <2>4, MoveLasts
<1>3. ASSUME NEW r \in Runs, CancelRun(r) \/ PublishInputs(r) PROVE FALSE
  BY <1>3 DEF CancelRun, PublishInputs
<1>4. ASSUME NEW k \in LaunchKeys, World(k) PROVE FALSE
  BY Zenon, <1>4 DEF World, WorkloadStarts, LaunchLands, AgentStops, WorkloadExits, MachineBoots, AgentEnrols, DeadlinePasses
<1>5. ~ Crash
  BY DEF Crash
<1> QED BY Zenon, <1>1, <1>2, <1>3, <1>4, <1>5 DEF Next

(* An outcome is recorded once and a closed Run stays closed, whatever is   *)
(* reported, cancelled or committed late.                                   *)
THEOREM OutcomesFinal == Spec => OutcomeFinal
<1>1. ASSUME IInv, [Next]_vars
      PROVE  [\A r \in Runs : /\ run[r].outcome # "none" => run'[r].outcome = run[r].outcome
                              /\ run[r].closed => run'[r].closed]_vars
  <2>1. CASE run' = run
    BY <2>1
  <2>2. CASE run' # run
    <3>1. Next
      BY <1>1, <2>2 DEF vars
    <3>2. PICK r \in Runs : \E t : run' = [run EXCEPT ![r] = t] /\ Lasting(run[r], t)
      BY Zenon, <1>1, <2>2, <3>1, NextLasts
    <3>3. PICK t : run' = [run EXCEPT ![r] = t] /\ Lasting(run[r], t)
      BY Zenon, <3>2
    <3>4. DOMAIN run = Runs
      BY <1>1 DEF IInv, Shape
    <3>5. \A x \in Runs : run'[x] = IF x = r THEN t ELSE run[x]
      BY <3>3, <3>4
    <3> QED BY <3>3, <3>5 DEF Lasting
  <2> QED BY <2>1, <2>2
<1> QED BY <1>1, AlwaysIInv, PTL DEF Spec, OutcomeFinal
=============================================================================
