-------------------------- MODULE RunLifecycleMoves -------------------------
(***************************************************************************)
(* What a worker plans is a move: what the events it appends make of the   *)
(* Run's record, and the steps that close a Run, wait for capacity, or     *)
(* launch.                                                                 *)
(***************************************************************************)
EXTENDS RunLifecycleCommit

-----------------------------------------------------------------------------
(* The facts about lists that the rest uses. *)
LEMMA ListEqual ==
    ASSUME NEW S, NEW l \in Seq(S), NEW m \in Seq(S), Len(l) = Len(m),
           \A i \in 1..Len(l) : l[i] = m[i]
    PROVE  l = m
  OBVIOUS

(* Two lists joined. *)
LEMMA ListJoin ==
    ASSUME NEW S, NEW l \in Seq(S), NEW m \in Seq(S)
    PROVE  /\ l \o m \in Seq(S) /\ Len(l \o m) = Len(l) + Len(m)
           /\ \A i \in 1..(Len(l) + Len(m)) :
                 (l \o m)[i] = IF i <= Len(l) THEN l[i] ELSE m[i - Len(l)]
  OBVIOUS

(* The empty list joined to one. *)
LEMMA ListJoinEmpty ==
    ASSUME NEW S, NEW l \in Seq(S)
    PROVE  l \o <<>> = l /\ <<>> \o l = l
  OBVIOUS

(* One event: the Run it is applied to, one version on. *)
LEMMA Append1 ==
    ASSUME NEW s, NEW a, NEW u,
           Apply(s, a) = u
    PROVE  AppendEvents(s, <<a>>) = [u EXCEPT !.version = s.version + 1]
BY DEF AppendEvents, ApplyNth

(* Two events, one version on. *)
LEMMA Append2 ==
    ASSUME NEW s, NEW a, NEW b, NEW u, NEW v,
           Apply(s, a) = u, Apply(u, b) = v
    PROVE  AppendEvents(s, <<a, b>>) = [v EXCEPT !.version = s.version + 1]
BY DEF AppendEvents, ApplyNth

(* Three events, one version on. *)
LEMMA Append3 ==
    ASSUME NEW s, NEW a, NEW b, NEW c, NEW u, NEW v, NEW x,
           Apply(s, a) = u, Apply(u, b) = v, Apply(v, c) = x
    PROVE  AppendEvents(s, <<a, b, c>>) = [x EXCEPT !.version = s.version + 1]
BY DEF AppendEvents, ApplyNth

(* Four events, one version on: no transition of the control loop appends *)
(* more.                                                                  *)
LEMMA Append4 ==
    ASSUME NEW s, NEW a, NEW b, NEW c, NEW d, NEW u, NEW v, NEW x, NEW y,
           Apply(s, a) = u, Apply(u, b) = v, Apply(v, c) = x, Apply(x, d) = y
    PROVE  AppendEvents(s, <<a, b, c, d>>) = [y EXCEPT !.version = s.version + 1]
BY DEF AppendEvents, ApplyNth

(* Joining the empty list of events to a list adds nothing. *)
LEMMA JoinEmpty ==
    ASSUME NEW a, NEW b, NEW c
    PROVE  /\ <<>> \o <<a>> = <<a>> /\ <<a>> \o <<>> = <<a>>
           /\ <<>> \o <<a, b, c>> = <<a, b, c>> /\ <<a, b, c>> \o <<>> = <<a, b, c>>
<1>1. <<a>> \in Seq({a, b, c}) /\ <<a, b, c>> \in Seq({a, b, c})
  OBVIOUS
<1> QED BY <1>1, ListJoinEmpty

(* A transition event followed by one more is the list of the two. *)
LEMMA Join11 ==
    ASSUME NEW a, NEW b
    PROVE  <<a>> \o <<b>> = <<a, b>>
<1> DEFINE S == {a, b}  l == <<a>> \o <<b>>  m == <<a, b>>
<1>1. <<a>> \in Seq(S) /\ <<b>> \in Seq(S) /\ m \in Seq(S)
  OBVIOUS
<1>2. Len(<<a>>) = 1 /\ Len(<<b>>) = 1 /\ Len(m) = 2
  OBVIOUS
<1>3. l \in Seq(S) /\ Len(l) = 2 /\ l[1] = a /\ l[2] = b
  BY <1>1, <1>2, ListJoin
<1>4. m[1] = a /\ m[2] = b
  OBVIOUS
<1> HIDE DEF S, l, m
<1>5. Len(l) = Len(m) /\ \A i \in 1..Len(l) : l[i] = m[i]
  BY <1>2, <1>3, <1>4
<1>6. l = m
  BY <1>1, <1>3, <1>5, ListEqual
<1> QED BY <1>6 DEF l, m

(* A transition event followed by two more is the list of the three. *)
LEMMA Join12 ==
    ASSUME NEW a, NEW b, NEW c
    PROVE  <<a>> \o <<b, c>> = <<a, b, c>>
<1> DEFINE S == {a, b, c}  l == <<a>> \o <<b, c>>  m == <<a, b, c>>
<1>1. <<a>> \in Seq(S) /\ <<b, c>> \in Seq(S) /\ m \in Seq(S)
  OBVIOUS
<1>2. Len(<<a>>) = 1 /\ Len(<<b, c>>) = 2 /\ Len(m) = 3
  OBVIOUS
<1>3. l \in Seq(S) /\ Len(l) = 3 /\ l[1] = a /\ l[2] = b /\ l[3] = c
  BY <1>1, <1>2, ListJoin
<1>4. m[1] = a /\ m[2] = b /\ m[3] = c
  OBVIOUS
<1> HIDE DEF S, l, m
<1>5. Len(l) = Len(m) /\ \A i \in 1..Len(l) : l[i] = m[i]
  BY <1>2, <1>3, <1>4
<1>6. l = m
  BY <1>1, <1>3, <1>5, ListEqual
<1> QED BY <1>6 DEF l, m

(* A transition event followed by three more is the list of the four. *)
LEMMA Join13 ==
    ASSUME NEW a, NEW b, NEW c, NEW d
    PROVE  <<a>> \o <<b, c, d>> = <<a, b, c, d>>
<1> DEFINE S == {a, b, c, d}  l == <<a>> \o <<b, c, d>>  m == <<a, b, c, d>>
<1>1. <<a>> \in Seq(S) /\ <<b, c, d>> \in Seq(S) /\ m \in Seq(S)
  OBVIOUS
<1>2. Len(<<a>>) = 1 /\ Len(<<b, c, d>>) = 3 /\ Len(m) = 4
  OBVIOUS
<1>3. l \in Seq(S) /\ Len(l) = 4 /\ l[1] = a /\ l[2] = b /\ l[3] = c /\ l[4] = d
  BY <1>1, <1>2, ListJoin
<1>4. m[1] = a /\ m[2] = b /\ m[3] = c /\ m[4] = d
  OBVIOUS
<1> HIDE DEF S, l, m
<1>5. Len(l) = Len(m) /\ \A i \in 1..Len(l) : l[i] = m[i]
  BY <1>2, <1>3, <1>4
<1>6. l = m
  BY <1>1, <1>3, <1>5, ListEqual
<1> QED BY <1>6 DEF l, m

(* Three events and the capacity request after them are the list of the *)
(* four.                                                                *)
LEMMA Join31 ==
    ASSUME NEW a, NEW b, NEW c, NEW d
    PROVE  <<a, b, c>> \o <<d>> = <<a, b, c, d>>
<1> DEFINE S == {a, b, c, d}  l == <<a, b, c>> \o <<d>>  m == <<a, b, c, d>>
<1>1. <<a, b, c>> \in Seq(S) /\ <<d>> \in Seq(S) /\ m \in Seq(S)
  OBVIOUS
<1>2. Len(<<a, b, c>>) = 3 /\ Len(<<d>>) = 1 /\ Len(m) = 4
  OBVIOUS
<1>3. l \in Seq(S) /\ Len(l) = 4 /\ l[1] = a /\ l[2] = b /\ l[3] = c /\ l[4] = d
  BY <1>1, <1>2, ListJoin
<1>4. m[1] = a /\ m[2] = b /\ m[3] = c /\ m[4] = d
  OBVIOUS
<1> HIDE DEF S, l, m
<1>5. Len(l) = Len(m) /\ \A i \in 1..Len(l) : l[i] = m[i]
  BY <1>2, <1>3, <1>4
<1>6. l = m
  BY <1>1, <1>3, <1>5, ListEqual
<1> QED BY <1>6 DEF l, m

(* What the events that end a Run record: outcome, cleanup and closure. *)
LEMMA ClosureEvent ==
    /\ \A s, o : Apply(s, outcomeRecorded(o)) = [s EXCEPT !.outcome = o]
    /\ \A s : Apply(s, runClosed) = [s EXCEPT !.closed = TRUE]
    /\ \A s : Apply(s, [type |-> "cleanup_requested"]) = [s EXCEPT !.cleanupRequested = TRUE]
    /\ \A s : Apply(s, [type |-> "cleanup_failed"]) = [s EXCEPT !.cleanupFailed = TRUE]
    /\ \A s : Apply(s, [type |-> "cleanup_confirmed"]) = [s EXCEPT !.cleanupConfirmed = TRUE]
BY DEF Apply, ApplyClosure, PlacementEvents, CapacityEvents, ClosureEvents, outcomeRecorded, runClosed

(* What the events of a launch and of a running workload record. *)
LEMMA ExecutionEvent ==
    /\ \A s : Apply(s, [type |-> "run_requested"]) = [s EXCEPT !.requested = TRUE]
    /\ \A s : Apply(s, [type |-> "launch_accepted"]) = [s EXCEPT !.accepted = TRUE]
    /\ \A s, x : Apply(s, launchFailed(x)) =
          [s EXCEPT !.failure = x,
                    !.excluded = IF x = "replaceable" THEN @ \cup {s.intentOffer} ELSE @]
    /\ \A s : Apply(s, [type |-> "execution_started"]) = [s EXCEPT !.started = TRUE]
    /\ \A s, x : Apply(s, [type |-> "run_reported", outcome |-> x]) =
          [s EXCEPT !.reported = x, !.terminal = FirstTerminal(s, x)]
    /\ \A s : Apply(s, [type |-> "cancel_requested"]) =
          [s EXCEPT !.cancelled = TRUE, !.terminal = FirstTerminal(s, "cancelled")]
    /\ \A s, x : Apply(s, [type |-> "external_state_observed", phase |-> x]) =
          [s EXCEPT !.phase = x,
                    !.terminal = IF x \in TerminalPhases
                                 THEN FirstTerminal(s, outcomeForPhase(x)) ELSE @]
BY DEF Apply, ApplyExecution, PlacementEvents, CapacityEvents, ClosureEvents, launchFailed

(* What the events of a machine being built or reclaimed record. *)
LEMMA CapacityEvent ==
    /\ \A s : Apply(s, [type |-> "capacity_requested"]) = [s EXCEPT !.capacity = TRUE]
    /\ \A s : Apply(s, [type |-> "capacity_accepted"]) = [s EXCEPT !.capacityAccepted = TRUE]
    /\ \A s, x : Apply(s, [type |-> "capacity_stage_observed", stages |-> x]) =
          [s EXCEPT !.stages = @ \cup x]
    /\ \A s : Apply(s, [type |-> "capacity_reclaimed"]) =
          [s EXCEPT !.reclaimed = TRUE, !.excluded = @ \cup {s.intentOffer}]
BY DEF Apply, ApplyCapacity, PlacementEvents, CapacityEvents

(* What the events of admission, dispatch and a new attempt record. *)
LEMMA PlacementEvent ==
    /\ \A s, x : Apply(s, [type |-> "admission_deferred", reason |-> x]) =
          [s EXCEPT !.deferral = x, !.deferrals = @ + 1]
    /\ \A s, x : Apply(s, [type |-> "admission_refused", reason |-> x]) =
          [s EXCEPT !.deferral = x, !.deferrals = @ + 1]
    /\ \A s : Apply(s, [type |-> "booking_dispatched"]) = [s EXCEPT !.bookingState = "running"]
    /\ \A s : Apply(s, [type |-> "attempt_created"]) =
          [s EXCEPT !.attempts = @ + 1, !.intent = 0, !.intentOffer = NoOffer,
                    !.accepted = FALSE, !.started = FALSE, !.failure = "none",
                    !.capacity = FALSE, !.capacityAccepted = FALSE, !.stages = {},
                    !.reclaimed = FALSE]
    /\ \A s, x : Apply(s, [type |-> "launch_intent_recorded", offer |-> x]) =
          [s EXCEPT !.intent = s.attempts, !.intentOffer = x]
BY DEF Apply, ApplyPlacement, PlacementEvents, launchIntentRecorded

(* A terminal Run whose cleanup is asked for. *)
LEMMA AskEvents ==
    ASSUME NEW s, NEW o
    PROVE  AppendEvents(s, <<outcomeRecorded(o), [type |-> "cleanup_requested"]>>) =
             [s EXCEPT !.outcome = o,
                       !.cleanupRequested = TRUE,
                       !.version = s.version + 1]
<1> DEFINE u == [s EXCEPT !.outcome = o]
<1>1. Apply(s, outcomeRecorded(o)) = u
  BY ClosureEvent
<1> HIDE DEF u
<1> DEFINE v == [u EXCEPT !.cleanupRequested = TRUE]
<1>2. Apply(u, [type |-> "cleanup_requested"]) = v
  BY ClosureEvent
<1> HIDE DEF v
<1>3. AppendEvents(s, <<outcomeRecorded(o), [type |-> "cleanup_requested"]>>) = [v EXCEPT !.version = s.version + 1]
  BY <1>1, <1>2, Append2
<1> QED BY <1>3 DEF u, v

(* A terminal Run closed at once, nothing having been launched. *)
LEMMA CloseEvents ==
    ASSUME NEW s, NEW o
    PROVE  AppendEvents(s, <<outcomeRecorded(o), runClosed>>) =
             [s EXCEPT !.outcome = o,
                       !.closed = TRUE,
                       !.version = s.version + 1]
<1> DEFINE u == [s EXCEPT !.outcome = o]
<1>1. Apply(s, outcomeRecorded(o)) = u
  BY ClosureEvent
<1> HIDE DEF u
<1> DEFINE v == [u EXCEPT !.closed = TRUE]
<1>2. Apply(u, runClosed) = v
  BY ClosureEvent
<1> HIDE DEF v
<1>3. AppendEvents(s, <<outcomeRecorded(o), runClosed>>) = [v EXCEPT !.version = s.version + 1]
  BY <1>1, <1>2, Append2
<1> QED BY <1>3 DEF u, v

(* A cleanup confirmed and the Run closed with it. *)
LEMMA ConfirmEvents ==
    ASSUME NEW s
    PROVE  AppendEvents(s, <<[type |-> "cleanup_confirmed"], runClosed>>) =
             [s EXCEPT !.cleanupConfirmed = TRUE,
                       !.closed = TRUE,
                       !.version = s.version + 1]
<1> DEFINE u == [s EXCEPT !.cleanupConfirmed = TRUE]
<1>1. Apply(s, [type |-> "cleanup_confirmed"]) = u
  BY ClosureEvent
<1> HIDE DEF u
<1> DEFINE v == [u EXCEPT !.closed = TRUE]
<1>2. Apply(u, runClosed) = v
  BY ClosureEvent
<1> HIDE DEF v
<1>3. AppendEvents(s, <<[type |-> "cleanup_confirmed"], runClosed>>) = [v EXCEPT !.version = s.version + 1]
  BY <1>1, <1>2, Append2
<1> QED BY <1>3 DEF u, v

(* A launch that failed for good, with the outcome and the closure it *)
(* brings.                                                            *)
LEMMA FailEvents ==
    ASSUME NEW s, NEW x, NEW o
    PROVE  AppendEvents(s, <<launchFailed(x), outcomeRecorded(o), runClosed>>) =
             [s EXCEPT !.failure = x, !.excluded = IF x = "replaceable" THEN @ \cup {s.intentOffer} ELSE @,
                       !.outcome = o,
                       !.closed = TRUE,
                       !.version = s.version + 1]
<1> DEFINE u == [s EXCEPT !.failure = x, !.excluded = IF x = "replaceable" THEN @ \cup {s.intentOffer} ELSE @]
<1>1. Apply(s, launchFailed(x)) = u
  BY Zenon, ExecutionEvent
<1> HIDE DEF u
<1> DEFINE v == [u EXCEPT !.outcome = o]
<1>2. Apply(u, outcomeRecorded(o)) = v
  BY ClosureEvent
<1> HIDE DEF v
<1> DEFINE p == [v EXCEPT !.closed = TRUE]
<1>3. Apply(v, runClosed) = p
  BY ClosureEvent
<1> HIDE DEF p
<1>4. AppendEvents(s, <<launchFailed(x), outcomeRecorded(o), runClosed>>) = [p EXCEPT !.version = s.version + 1]
  BY <1>1, <1>2, <1>3, Append3
<1> QED BY <1>4 DEF u, v, p

(* A Run refused, with the outcome and the closure it brings. *)
LEMMA RefuseEvents ==
    ASSUME NEW s, NEW x, NEW o
    PROVE  AppendEvents(s, <<[type |-> "admission_refused", reason |-> x], outcomeRecorded(o), runClosed>>) =
             [s EXCEPT !.deferral = x, !.deferrals = @ + 1,
                       !.outcome = o,
                       !.closed = TRUE,
                       !.version = s.version + 1]
<1> DEFINE u == [s EXCEPT !.deferral = x, !.deferrals = @ + 1]
<1>1. Apply(s, [type |-> "admission_refused", reason |-> x]) = u
  BY Zenon, PlacementEvent
<1> HIDE DEF u
<1> DEFINE v == [u EXCEPT !.outcome = o]
<1>2. Apply(u, outcomeRecorded(o)) = v
  BY ClosureEvent
<1> HIDE DEF v
<1> DEFINE p == [v EXCEPT !.closed = TRUE]
<1>3. Apply(v, runClosed) = p
  BY ClosureEvent
<1> HIDE DEF p
<1>4. AppendEvents(s, <<[type |-> "admission_refused", reason |-> x], outcomeRecorded(o), runClosed>>) = [p EXCEPT !.version = s.version + 1]
  BY <1>1, <1>2, <1>3, Append3
<1> QED BY <1>4 DEF u, v, p

(* An observation that is also the first sign the workload started. *)
LEMMA SeenEvents ==
    ASSUME NEW s, NEW x
    PROVE  AppendEvents(s, <<[type |-> "external_state_observed", phase |-> x], [type |-> "execution_started"]>>) =
             [s EXCEPT !.phase = x, !.terminal = IF x \in TerminalPhases THEN FirstTerminal(s, outcomeForPhase(x)) ELSE @,
                       !.started = TRUE,
                       !.version = s.version + 1]
<1> DEFINE u == [s EXCEPT !.phase = x, !.terminal = IF x \in TerminalPhases THEN FirstTerminal(s, outcomeForPhase(x)) ELSE @]
<1>1. Apply(s, [type |-> "external_state_observed", phase |-> x]) = u
  BY Zenon, ExecutionEvent
<1> HIDE DEF u
<1> DEFINE v == [u EXCEPT !.started = TRUE]
<1>2. Apply(u, [type |-> "execution_started"]) = v
  BY Zenon, ExecutionEvent
<1> HIDE DEF v
<1>3. AppendEvents(s, <<[type |-> "external_state_observed", phase |-> x], [type |-> "execution_started"]>>) = [v EXCEPT !.version = s.version + 1]
  BY <1>1, <1>2, Append2
<1> QED BY <1>3 DEF u, v

(* A decision, and the attempt that follows it, as what they leave of the Run. *)
LEMMA DecidedFields ==
    ASSUME NEW s, DOMAIN s = RunFields, NEW x, NEW y, NEW z,
           NEW u, u = Apply(s, decided(x, y, z))
    PROVE  /\ DOMAIN u = RunFields /\ u.version = s.version
           /\ u.offer = x /\ u.booking = y /\ u.bookingState = z
           /\ SameLaunch(s, u) /\ SameRefusal(s, u) /\ SameEnd(s, u)
           /\ u.stages = s.stages /\ u.outcome = s.outcome
<1>1. u = [s EXCEPT !.offer = x, !.booking = y, !.bookingState = z,
                    !.deferral = IF x # NoOffer THEN "none" ELSE @]
  BY DEF Apply, ApplyPlacement, PlacementEvents, decided
<1> QED BY <1>1 DEF RunFields, SameLaunch, SameRefusal, SameEnd

Begun(s, t, offer, cap) ==
    /\ DOMAIN t = RunFields
    /\ t.offer = s.offer /\ t.booking = s.booking /\ t.bookingState = s.bookingState
    /\ t.attempts = s.attempts + 1 /\ t.intent = s.attempts + 1 /\ t.intentOffer = offer
    /\ t.failure = "none" /\ t.stages = {} /\ t.reclaimed = FALSE /\ t.excluded = s.excluded
    /\ t.capacity = cap
    /\ SameEnd(s, t) /\ t.outcome = s.outcome

(* A new attempt and its launch intent, as what they leave of the Run. *)
LEMMA BegunFields ==
    ASSUME NEW s, DOMAIN s = RunFields, NEW x, NEW v, NEW p,
           v = [s EXCEPT !.attempts = @ + 1, !.intent = 0, !.intentOffer = NoOffer,
                         !.accepted = FALSE, !.started = FALSE, !.failure = "none",
                         !.capacity = FALSE, !.capacityAccepted = FALSE, !.stages = {},
                         !.reclaimed = FALSE],
           p = [v EXCEPT !.intent = v.attempts, !.intentOffer = x]
    PROVE  Begun(s, p, x, FALSE)
<1>2. DOMAIN v = RunFields /\ v.attempts = s.attempts + 1
  BY DEF RunFields
<1>3. v.offer = s.offer /\ v.booking = s.booking /\ v.bookingState = s.bookingState
  BY DEF RunFields
<1>4. v.failure = "none" /\ v.stages = {} /\ v.excluded = s.excluded
  BY DEF RunFields
<1>5. v.reclaimed = FALSE
  BY DEF RunFields
<1>6. v.capacity = FALSE
  BY DEF RunFields
<1>7. SameEnd(s, v) /\ v.outcome = s.outcome
  BY DEF RunFields, SameEnd
<1>9. DOMAIN p = RunFields /\ p.attempts = v.attempts /\ p.intent = v.attempts /\ p.intentOffer = x
  BY <1>2 DEF RunFields
<1>10. p.offer = v.offer /\ p.booking = v.booking /\ p.bookingState = v.bookingState
  BY <1>2 DEF RunFields
<1>11. p.failure = v.failure /\ p.stages = v.stages /\ p.excluded = v.excluded
  BY <1>2 DEF RunFields
<1>12. p.reclaimed = v.reclaimed /\ p.capacity = v.capacity
  BY <1>2 DEF RunFields
<1>13. SameEnd(v, p) /\ p.outcome = v.outcome
  BY <1>2 DEF RunFields, SameEnd
<1> QED BY Zenon, <1>2, <1>3, <1>4, <1>5, <1>6, <1>7, <1>9, <1>10, <1>11, <1>12, <1>13 DEF SameEnd, Begun

(* A decision, the attempt it begins and its launch intent. *)
LEMMA AttemptEvents ==
    ASSUME NEW s, DOMAIN s = RunFields, NEW x, NEW d,
           NEW u, u = Apply(s, d), DOMAIN u = RunFields, u.version = s.version,
           NEW t, t = AppendEvents(s, <<d, [type |-> "attempt_created"],
                                        [type |-> "launch_intent_recorded", offer |-> x]>>)
    PROVE  Begun(u, t, x, FALSE) /\ Appended(s, t)
<1>1. PICK v : v = Apply(u, [type |-> "attempt_created"])
  OBVIOUS
<1>2. PICK p : p = Apply(v, [type |-> "launch_intent_recorded", offer |-> x])
  OBVIOUS
<1>3. Begun(u, p, x, FALSE)
  <2>1. v = [u EXCEPT !.attempts = @ + 1, !.intent = 0, !.intentOffer = NoOffer,
                      !.accepted = FALSE, !.started = FALSE, !.failure = "none",
                      !.capacity = FALSE, !.capacityAccepted = FALSE, !.stages = {},
                      !.reclaimed = FALSE]
    BY Zenon, <1>1, PlacementEvent
  <2>2. p = [v EXCEPT !.intent = v.attempts, !.intentOffer = x]
    BY Zenon, <1>2, PlacementEvent
  <2> QED BY Zenon, <2>1, <2>2, BegunFields
<1>4. t = [p EXCEPT !.version = s.version + 1]
  BY <1>1, <1>2, Append3
<1> QED BY <1>3, <1>4 DEF Begun, RunFields, SameEnd, Appended

(* The same when a machine has to be built for the attempt. *)
LEMMA ProvisionEvents ==
    ASSUME NEW s, DOMAIN s = RunFields, NEW x, NEW d,
           NEW u, u = Apply(s, d), DOMAIN u = RunFields, u.version = s.version,
           NEW t, t = AppendEvents(s, <<d, [type |-> "attempt_created"],
                                        [type |-> "launch_intent_recorded", offer |-> x],
                                        [type |-> "capacity_requested"]>>)
    PROVE  Begun(u, t, x, TRUE) /\ Appended(s, t)
<1>1. PICK v : v = Apply(u, [type |-> "attempt_created"])
  OBVIOUS
<1>2. PICK p : p = Apply(v, [type |-> "launch_intent_recorded", offer |-> x])
  OBVIOUS
<1>3. Begun(u, p, x, FALSE)
  <2>1. v = [u EXCEPT !.attempts = @ + 1, !.intent = 0, !.intentOffer = NoOffer,
                      !.accepted = FALSE, !.started = FALSE, !.failure = "none",
                      !.capacity = FALSE, !.capacityAccepted = FALSE, !.stages = {},
                      !.reclaimed = FALSE]
    BY Zenon, <1>1, PlacementEvent
  <2>2. p = [v EXCEPT !.intent = v.attempts, !.intentOffer = x]
    BY Zenon, <1>2, PlacementEvent
  <2> QED BY Zenon, <2>1, <2>2, BegunFields
<1>4. PICK q : q = Apply(p, [type |-> "capacity_requested"])
  OBVIOUS
<1>5. q = [p EXCEPT !.capacity = TRUE]
  BY Zenon, <1>4, CapacityEvent
<1>6. Begun(u, q, x, TRUE)
  BY <1>3, <1>5 DEF Begun, RunFields, SameEnd
<1>7. t = [q EXCEPT !.version = s.version + 1]
  BY <1>1, <1>2, <1>4, Append4
<1> QED BY <1>6, <1>7 DEF Begun, RunFields, SameEnd, Appended

(* A decision that selected nothing, followed by what was made of it. *)
LEMMA WaitEvents ==
    ASSUME NEW s, NEW d, NEW x
    PROVE  AppendEvents(s, <<d, [type |-> "admission_deferred", reason |-> x]>>) =
             [Apply(s, d) EXCEPT !.deferral = x, !.deferrals = @ + 1, !.version = s.version + 1]
<1>0. PICK u : u = Apply(s, d)
  OBVIOUS
<1> DEFINE t == AppendEvents(s, <<d, [type |-> "admission_deferred", reason |-> x]>>)
<1>1. PICK v : v = Apply(u, [type |-> "admission_deferred", reason |-> x])
  OBVIOUS
<1>2. v = [u EXCEPT !.deferral = x, !.deferrals = @ + 1]
  BY Zenon, <1>1, PlacementEvent
<1>3. t = [v EXCEPT !.version = s.version + 1]
  BY <1>0, <1>1, Append2
<1> QED BY Zenon, <1>0, <1>2, <1>3

(* A decision that selected nothing, and the Run refused on it. *)
LEMMA RefuseNothingEvents ==
    ASSUME NEW s, NEW d, NEW x
    PROVE  AppendEvents(s, <<d, [type |-> "admission_refused", reason |-> x],
                             outcomeRecorded("failed"), runClosed>>) =
             [Apply(s, d) EXCEPT !.deferral = x, !.deferrals = @ + 1, !.outcome = "failed", !.closed = TRUE,
                                 !.version = s.version + 1]
<1>0. PICK u : u = Apply(s, d)
  OBVIOUS
<1> DEFINE t == AppendEvents(s, <<d, [type |-> "admission_refused", reason |-> x],
                                  outcomeRecorded("failed"), runClosed>>)
<1>1. PICK v : v = Apply(u, [type |-> "admission_refused", reason |-> x])
  OBVIOUS
<1>2. v = [u EXCEPT !.deferral = x, !.deferrals = @ + 1]
  BY Zenon, <1>1, PlacementEvent
<1>3. PICK p : p = Apply(v, outcomeRecorded("failed"))
  OBVIOUS
<1>4. p = [v EXCEPT !.outcome = "failed"]
  BY Zenon, <1>3, ClosureEvent
<1>5. PICK q : q = Apply(p, runClosed)
  OBVIOUS
<1>6. q = [p EXCEPT !.closed = TRUE]
  BY Zenon, <1>5, ClosureEvent
<1>7. t = [q EXCEPT !.version = s.version + 1]
  BY <1>0, <1>1, <1>3, <1>5, Append4
<1> QED BY Zenon, <1>0, <1>2, <1>4, <1>6, <1>7

(* A decision that selected nothing, and the Run closed because its *)
(* attempts are used up.                                            *)
LEMMA ExhaustEvents ==
    ASSUME NEW s, NEW d, NEW o
    PROVE  AppendEvents(s, <<d, outcomeRecorded(o), runClosed>>) =
             [Apply(s, d) EXCEPT !.outcome = o, !.closed = TRUE, !.version = s.version + 1]
<1>0. PICK u : u = Apply(s, d)
  OBVIOUS
<1> DEFINE t == AppendEvents(s, <<d, outcomeRecorded(o), runClosed>>)
<1>3. PICK p : p = Apply(u, outcomeRecorded(o))
  OBVIOUS
<1>4. p = [u EXCEPT !.outcome = o]
  BY Zenon, <1>3, ClosureEvent
<1>5. PICK q : q = Apply(p, runClosed)
  OBVIOUS
<1>6. q = [p EXCEPT !.closed = TRUE]
  BY Zenon, <1>5, ClosureEvent
<1>7. t = [q EXCEPT !.version = s.version + 1]
  BY <1>0, <1>3, <1>5, Append3
<1> QED BY Zenon, <1>0, <1>4, <1>6, <1>7

(* The appends of one event. *)
LEMMA CleanupFailedEvents ==
    ASSUME NEW s, NEW t, t = AppendEvents(s, <<[type |-> "cleanup_failed"]>>)
    PROVE  t = [s EXCEPT !.cleanupFailed = TRUE, !.version = s.version + 1]
<1>1. PICK u : u = Apply(s, [type |-> "cleanup_failed"])
  OBVIOUS
<1>2. u = [s EXCEPT !.cleanupFailed = TRUE]
  BY Zenon, <1>1, ClosureEvent
<1>3. t = [u EXCEPT !.version = s.version + 1]
  BY <1>1, Append1
<1> QED BY Zenon, <1>2, <1>3

(* A Run is requested. *)
LEMMA RequestEvents ==
    ASSUME NEW s, NEW t, t = AppendEvents(s, <<[type |-> "run_requested"]>>)
    PROVE  t = [s EXCEPT !.requested = TRUE, !.version = s.version + 1]
<1>1. PICK u : u = Apply(s, [type |-> "run_requested"])
  OBVIOUS
<1>2. u = [s EXCEPT !.requested = TRUE]
  BY Zenon, <1>1, ExecutionEvent
<1>3. t = [u EXCEPT !.version = s.version + 1]
  BY <1>1, Append1
<1> QED BY Zenon, <1>2, <1>3

(* A launch is accepted. *)
LEMMA AcceptEvents ==
    ASSUME NEW s, NEW t, t = AppendEvents(s, <<[type |-> "launch_accepted"]>>)
    PROVE  t = [s EXCEPT !.accepted = TRUE, !.version = s.version + 1]
<1>1. PICK u : u = Apply(s, [type |-> "launch_accepted"])
  OBVIOUS
<1>2. u = [s EXCEPT !.accepted = TRUE]
  BY Zenon, <1>1, ExecutionEvent
<1>3. t = [u EXCEPT !.version = s.version + 1]
  BY <1>1, Append1
<1> QED BY Zenon, <1>2, <1>3

(* A launch failed; a replaceable failure strikes its offer out. *)
LEMMA LaunchFailedEvents ==
    ASSUME NEW s, NEW x, NEW t, t = AppendEvents(s, <<launchFailed(x)>>)
    PROVE  t = [s EXCEPT !.failure = x,
                     !.excluded = IF x = "replaceable" THEN @ \cup {s.intentOffer} ELSE @, !.version = s.version + 1]
<1>1. PICK u : u = Apply(s, launchFailed(x))
  OBVIOUS
<1>2. u = [s EXCEPT !.failure = x,
                     !.excluded = IF x = "replaceable" THEN @ \cup {s.intentOffer} ELSE @]
  BY Zenon, <1>1, ExecutionEvent
<1>3. t = [u EXCEPT !.version = s.version + 1]
  BY <1>1, Append1
<1> QED BY Zenon, <1>2, <1>3

(* An outcome is reported; the first terminal one stays. *)
LEMMA ReportEvents ==
    ASSUME NEW s, NEW x, NEW t, t = AppendEvents(s, <<[type |-> "run_reported", outcome |-> x]>>)
    PROVE  t = [s EXCEPT !.reported = x, !.terminal = FirstTerminal(s, x), !.version = s.version + 1]
<1>1. PICK u : u = Apply(s, [type |-> "run_reported", outcome |-> x])
  OBVIOUS
<1>2. u = [s EXCEPT !.reported = x, !.terminal = FirstTerminal(s, x)]
  BY Zenon, <1>1, ExecutionEvent
<1>3. t = [u EXCEPT !.version = s.version + 1]
  BY <1>1, Append1
<1> QED BY Zenon, <1>2, <1>3

(* A cancellation is requested; the first terminal cause stays. *)
LEMMA CancelEvents ==
    ASSUME NEW s, NEW t, t = AppendEvents(s, <<[type |-> "cancel_requested"]>>)
    PROVE  t = [s EXCEPT !.cancelled = TRUE, !.terminal = FirstTerminal(s, "cancelled"), !.version = s.version + 1]
<1>1. PICK u : u = Apply(s, [type |-> "cancel_requested"])
  OBVIOUS
<1>2. u = [s EXCEPT !.cancelled = TRUE, !.terminal = FirstTerminal(s, "cancelled")]
  BY Zenon, <1>1, ExecutionEvent
<1>3. t = [u EXCEPT !.version = s.version + 1]
  BY <1>1, Append1
<1> QED BY Zenon, <1>2, <1>3

(* A phase is observed; a terminal one settles the outcome if none was *)
(* settled.                                                            *)
LEMMA ObserveEvents ==
    ASSUME NEW s, NEW x, NEW t, t = AppendEvents(s, <<[type |-> "external_state_observed", phase |-> x]>>)
    PROVE  t = [s EXCEPT !.phase = x,
                     !.terminal = IF x \in TerminalPhases
                                  THEN FirstTerminal(s, outcomeForPhase(x)) ELSE @, !.version = s.version + 1]
<1>1. PICK u : u = Apply(s, [type |-> "external_state_observed", phase |-> x])
  OBVIOUS
<1>2. u = [s EXCEPT !.phase = x,
                     !.terminal = IF x \in TerminalPhases
                                  THEN FirstTerminal(s, outcomeForPhase(x)) ELSE @]
  BY Zenon, <1>1, ExecutionEvent
<1>3. t = [u EXCEPT !.version = s.version + 1]
  BY <1>1, Append1
<1> QED BY Zenon, <1>2, <1>3

(* The provider accepted the request for a machine. *)
LEMMA CapacityAcceptedEvents ==
    ASSUME NEW s, NEW t, t = AppendEvents(s, <<[type |-> "capacity_accepted"]>>)
    PROVE  t = [s EXCEPT !.capacityAccepted = TRUE, !.version = s.version + 1]
<1>1. PICK u : u = Apply(s, [type |-> "capacity_accepted"])
  OBVIOUS
<1>2. u = [s EXCEPT !.capacityAccepted = TRUE]
  BY Zenon, <1>1, CapacityEvent
<1>3. t = [u EXCEPT !.version = s.version + 1]
  BY <1>1, Append1
<1> QED BY Zenon, <1>2, <1>3

(* Stages of a machine coming up are observed. *)
LEMMA StageEvents ==
    ASSUME NEW s, NEW x, NEW t, t = AppendEvents(s, <<[type |-> "capacity_stage_observed", stages |-> x]>>)
    PROVE  t = [s EXCEPT !.stages = @ \cup x, !.version = s.version + 1]
<1>1. PICK u : u = Apply(s, [type |-> "capacity_stage_observed", stages |-> x])
  OBVIOUS
<1>2. u = [s EXCEPT !.stages = @ \cup x]
  BY Zenon, <1>1, CapacityEvent
<1>3. t = [u EXCEPT !.version = s.version + 1]
  BY <1>1, Append1
<1> QED BY Zenon, <1>2, <1>3

(* A machine is reclaimed and its offer struck out. *)
LEMMA ReclaimEvents ==
    ASSUME NEW s, NEW t, t = AppendEvents(s, <<[type |-> "capacity_reclaimed"]>>)
    PROVE  t = [s EXCEPT !.reclaimed = TRUE, !.excluded = @ \cup {s.intentOffer}, !.version = s.version + 1]
<1>1. PICK u : u = Apply(s, [type |-> "capacity_reclaimed"])
  OBVIOUS
<1>2. u = [s EXCEPT !.reclaimed = TRUE, !.excluded = @ \cup {s.intentOffer}]
  BY Zenon, <1>1, CapacityEvent
<1>3. t = [u EXCEPT !.version = s.version + 1]
  BY <1>1, Append1
<1> QED BY Zenon, <1>2, <1>3

(* An admission is deferred. *)
LEMMA DeferEvents ==
    ASSUME NEW s, NEW x, NEW t, t = AppendEvents(s, <<[type |-> "admission_deferred", reason |-> x]>>)
    PROVE  t = [s EXCEPT !.deferral = x, !.deferrals = @ + 1, !.version = s.version + 1]
<1>1. PICK u : u = Apply(s, [type |-> "admission_deferred", reason |-> x])
  OBVIOUS
<1>2. u = [s EXCEPT !.deferral = x, !.deferrals = @ + 1]
  BY Zenon, <1>1, PlacementEvent
<1>3. t = [u EXCEPT !.version = s.version + 1]
  BY <1>1, Append1
<1> QED BY Zenon, <1>2, <1>3

-----------------------------------------------------------------------------
(***************************************************************************)
(* Planning: the effect of a step, and the plan it leaves.                 *)
(***************************************************************************)
(* What is known of a Run when its next transition is the named one. *)
LEMMA StepFacts ==
    ASSUME NEW s, RunOK(s)
    PROVE  /\ step(s) = "cleanup" => ~ s.closed /\ s.cleanupRequested
           /\ step(s) \in {"terminal", "dispatch", "admit", "capacity", "launch", "observe"} =>
                 ~ s.closed /\ ~ s.cleanupRequested /\ ~ s.cleanupConfirmed /\ s.outcome = "none"
           /\ step(s) = "dispatch" => bookingQueued(s)
           /\ step(s) = "admit" => ~ bookingQueued(s) /\ Replaced(s)
           /\ step(s) \in {"capacity", "launch", "observe"} =>
                 ~ bookingQueued(s) /\ s.attempts # 0 /\ ~ replacementEligible(s)
           /\ step(s) = "capacity" => s.capacity /\ ~ nodeEnrolled(s)
           /\ step(s) = "launch" => ~ (s.capacity /\ ~ nodeEnrolled(s)) /\ s.failure = "none"
<1>1. /\ s.intent = s.attempts /\ (s.cleanupConfirmed => s.closed)
      /\ s.outcome # "none" => s.closed \/ s.cleanupRequested
  BY DEF RunOK
<1> QED BY <1>1 DEF step, Replaced

(* The launch of a Run is keyed by its current attempt. *)
LEMMA LaunchKeyOf ==
    ASSUME NEW r \in Runs, RunOK(run[r]), run[r].attempts # 0
    PROVE  LaunchKey(r) = <<r, run[r].attempts>> /\ LaunchKey(r) \in LaunchKeys
BY AttemptsBounded DEF RunOK, LaunchKey, LaunchKeys

(* An open Run in the middle of an attempt holds its Booking. *)
LEMMA HoldsBookingFacts ==
    ASSUME NEW s, RunOK(s), ~ s.closed, ~ bookingQueued(s), s.attempts # 0, ~ replacementEligible(s)
    PROVE  holdsBooking(s)
BY DEF RunOK, Placed, holdsBooking

(* A plan that only appends carries its Run's version, and no Rental. *)
LEMMA PlanFields ==
    ASSUME NEW r, NEW e, NEW w, w \in {appendEvents(r, e), [appendEvents(r, e) EXCEPT !.admits = TRUE]}
    PROVE  w.version = run[r].version /\ w.events = e /\ w.rental = NoRental
BY Zenon DEF appendEvents, NoPlan

(* A plan that commits a schedule carries the versions of both. *)
LEMMA CommitFields ==
    ASSUME NEW r, NEW e, NEW q, NEW n,
           NEW w, w \in {commitSchedule(r, e, q, n), [commitSchedule(r, e, q, n) EXCEPT !.admits = TRUE]}
    PROVE  /\ w.version = run[r].version /\ w.events = e /\ w.rental = q
           /\ w.base = schedule[q].version /\ w.next = n
BY Zenon DEF appendEvents, commitSchedule, NoPlan

(* A Booking the schedule can complete is one its Run holds. *)
LEMMA CompletableIsHeld ==
    ASSUME IInv, NEW r \in Runs, ~ run[r].closed, CanCompleteBooking(r)
    PROVE  holdsBooking(run[r]) /\ RentalOf(r, run[r]) \in Rentals /\ RentalOf(r, run[r]) # NoRental
<1>1. RunOK(run[r]) /\ run[r].booking # 0
  BY DEF IInv, CanCompleteBooking
<1>2. RentalOf(r, run[r]) \in Rentals /\ RentalOf(r, run[r]) # NoRental
  BY <1>1, BookingNames
<1>3. Holder(RentalOf(r, run[r]), BookingID(r, run[r]))
  BY <1>2 DEF IInv, SchedulesOK, CanCompleteBooking, Holds
<1>4. PICK x \in Runs : BookingID(r, run[r]) = BookingID(x, run[x]) /\ holdsBooking(run[x])
  BY <1>3 DEF Holder
<1>5. x = r
  BY <1>4 DEF BookingID
<1> QED BY <1>2, <1>4, <1>5

\* The step keeps what is known of the objects and machines, Run r's among them.
Confined(r) ==
    /\ Touches(r) /\ ObjectsOK(r, run[r])' /\ MachinesOK(r, run[r])'
    /\ object' \in [LaunchKeys -> ObjectStates] /\ DOMAIN machine' = LaunchKeys
    /\ \A k \in LaunchKeys : DOMAIN machine'[k] = {"state", "enrolled", "expired"}

(* A step that acts outside for Run r and leaves it a good plan keeps the *)
(* invariant.                                                             *)
LEMMA EffectStep ==
    ASSUME IInv, NEW r \in Runs, NEW w, DOMAIN worker' = Runs, worker'[r] = w,
           \A x \in Runs : x # r => worker'[x] = worker[x],
           run' = run, schedule' = schedule, Confined(r),
           w # NoPlan => PlanOK(r, w)'
    PROVE  IInv'
<1>1. Shape' /\ Touches(r) /\ ObjectsOK(r, run[r])' /\ MachinesOK(r, run[r])'
  BY DEF IInv, Shape, Confined
<1>2. \A x \in Runs : RunOK(run[x])'
  BY DEF IInv
<1>3. \A x \in Runs : ObjectsOK(x, run[x])' /\ MachinesOK(x, run[x])'
  BY <1>1, OthersKeep DEF IInv
<1>4. SchedulesOK'
  BY DEF IInv, SchedulesOK, Holder
<1>5. ASSUME NEW x \in Runs, worker'[x] # NoPlan PROVE PlanOK(x, worker[x])'
  <2>1. CASE x = r
    BY <2>1, <1>5
  <2>2. CASE x # r
    <3>1. worker'[x] = worker[x] /\ RunOK(run[x])
      BY <2>2 DEF IInv
    <3>2. PlanOK(x, worker[x])
      BY <3>1, <1>5 DEF IInv
    <3>3. Onward
      BY DEF IInv, SchedulesOK, IsSchedule, Onward
    <3>4. Undisturbed(x)
      BY <1>1, <3>1, <2>2, AttemptsBounded, OtherKeys DEF Undisturbed
    <3> QED BY <3>1, <3>2, <3>3, <3>4, PlanStays
  <2> QED BY <2>1, <2>2
<1> QED BY <1>1, <1>2, <1>3, <1>4, <1>5 DEF IInv

(* The same, with the plan written into the worker. *)
LEMMA PlanStep ==
    ASSUME IInv, NEW r \in Runs, NEW w, worker' = [worker EXCEPT ![r] = w],
           run' = run, schedule' = schedule, Confined(r), PlanOK(r, w)'
    PROVE  IInv'
<1>1. DOMAIN worker' = Runs /\ worker'[r] = w /\ \A x \in Runs : x # r => worker'[x] = worker[x]
  BY DEF IInv, Shape
<1> QED BY Zenon, <1>1, EffectStep

(* A plan made from the current Run and the current schedule is a good one. *)
LEMMA PlanMade ==
    ASSUME IInv, NEW r \in Runs, NEW w, NEW s, NEW t, s = run[r], t = AppendEvents(s, w.events),
           Appended(s, t), w.version = s.version,
           w.rental # NoRental => w.rental \in Rentals /\ w.base = schedule[w.rental].version,
           run' = run, schedule' = schedule, Move(r, s, t, w)'
    PROVE  PlanOK(r, w)'
<1>1. w.version \in Nat /\ w.version <= run'[r].version
  BY DEF IInv, RunOK
<1>2. w.rental # NoRental =>
          w.rental \in Rentals /\ w.base \in Nat /\ w.base <= schedule'[w.rental].version
  BY DEF IInv, SchedulesOK, IsSchedule
<1>3. Lands(r, w)'
  BY DEF Lands, Appended
<1> QED BY <1>1, <1>2, <1>3 DEF PlanOK

(* A step that does nothing outside is confined to its Run. *)
LEMMA SameStays ==
    ASSUME IInv, NEW r \in Runs, run' = run, object' = object, machine' = machine
    PROVE  Confined(r)
<1>1. ObjectsOK(r, run[r])' /\ MachinesOK(r, run[r])'
  BY DEF IInv, ObjectsOK, MachinesOK
<1> QED BY <1>1 DEF IInv, Shape, Touches, Confined

(* A step that only plans. *)
LEMMA PureStep ==
    ASSUME IInv, NEW r \in Runs, NEW w, worker' = [worker EXCEPT ![r] = w],
           run' = run, schedule' = schedule, object' = object, machine' = machine,
           NEW s, NEW t, s = run[r], t = AppendEvents(s, w.events),
           Appended(s, t), w.version = s.version,
           w.rental # NoRental => w.rental \in Rentals /\ w.base = schedule[w.rental].version,
           Move(r, s, t, w)
    PROVE  IInv'
<1>1. RunOK(s)
  BY DEF IInv
<1>2. Onward /\ Undisturbed(r)
  BY DEF IInv, SchedulesOK, IsSchedule, Onward, Undisturbed
<1>3. w.rental # NoRental =>
          w.rental \in Rentals /\ w.base \in Nat /\ w.base <= schedule[w.rental].version
  BY DEF IInv, SchedulesOK, IsSchedule
<1>4. Move(r, s, t, w)'
  BY <1>1, <1>2, <1>3, MoveStays
<1>5. PlanOK(r, w)'
  BY <1>4, PlanMade
<1> QED BY Zenon, <1>5, SameStays, PlanStep

\* What the current attempt of an open Run may come to hold.
MayHold(s, v) ==
    /\ s.attempts # 0 /\ ~ s.closed /\ v \in ObjectStates
    /\ replacementEligible(s) => v \in {"none", "refused", "released"}
    /\ ~ s.cleanupRequested => ~ replacementEligible(s) /\ ~ (s.capacity /\ ~ nodeEnrolled(s))

(* A call to the provider about the current attempt's object is confined to *)
(* its Run.                                                                 *)
LEMMA ObjectEffect ==
    ASSUME IInv, NEW r \in Runs, NEW s, s = run[r], NEW k, k = <<r, s.attempts>>,
           NEW v, MayHold(s, v), object' = [object EXCEPT ![k] = v], run' = run, machine' = machine
    PROVE  Confined(r)
<1>1. /\ RunOK(s) /\ ObjectsOK(r, s) /\ MachinesOK(r, s) /\ s.attempts # 0 /\ v \in ObjectStates
      /\ object \in [LaunchKeys -> ObjectStates] /\ DOMAIN machine = LaunchKeys
      /\ \A x \in LaunchKeys : DOMAIN machine[x] = {"state", "enrolled", "expired"}
  BY DEF IInv, Shape, MayHold
<1>2. s.attempts \in Attempts
  BY <1>1, AttemptsBounded
<1>3. object'[<<r, s.attempts>>] = v
  BY <1>1, <1>2 DEF LaunchKeys
<1>4. Touches(r) /\ object' \in [LaunchKeys -> ObjectStates]
  <2>1. object' \in [LaunchKeys -> ObjectStates]
    BY Zenon, <1>1
  <2>2. \A x \in LaunchKeys : x[1] # r => x # k
    OBVIOUS
  <2>3. \A x \in LaunchKeys : x # k => object'[x] = object[x]
    BY <1>1
  <2> QED BY <2>1, <2>2, <2>3 DEF Touches
<1>5. \A i \in Attempts : i # s.attempts => object'[<<r, i>>] = object[<<r, i>>]
  BY <1>1 DEF LaunchKeys
<1>6. ObjectsOK(r, s)'
  BY <1>1, <1>3, <1>5 DEF ObjectsOK, MayHold
<1>7. MachinesOK(r, s)'
  BY <1>1 DEF MachinesOK
<1> QED BY <1>1, <1>4, <1>6, <1>7 DEF Confined

(* So is a call about the current attempt's machine. *)
LEMMA MachineEffect ==
    ASSUME IInv, NEW r \in Runs, NEW s, s = run[r], s.attempts # 0, s.capacity, ~ replacementEligible(s),
           NEW k, k = <<r, s.attempts>>,
           NEW v, machine' = [machine EXCEPT ![k].state = v],
           run' = run, object' = object
    PROVE  Confined(r)
<1>1. /\ RunOK(s) /\ ObjectsOK(r, s) /\ MachinesOK(r, s)
      /\ object \in [LaunchKeys -> ObjectStates] /\ DOMAIN machine = LaunchKeys
      /\ \A x \in LaunchKeys : DOMAIN machine[x] = {"state", "enrolled", "expired"}
  BY DEF IInv, Shape
<1>2. s.attempts \in Attempts /\ <<r, s.attempts>> \in LaunchKeys
  BY <1>1, AttemptsBounded DEF LaunchKeys
<1>3. /\ DOMAIN machine' = LaunchKeys
      /\ \A x \in LaunchKeys : x # k => machine'[x] = machine[x]
      /\ machine'[<<r, s.attempts>>] = [machine[<<r, s.attempts>>] EXCEPT !.state = v]
  BY <1>1, <1>2
<1>4. /\ machine'[<<r, s.attempts>>].state = v
      /\ DOMAIN machine'[<<r, s.attempts>>] = {"state", "enrolled", "expired"}
  BY <1>1, <1>2, <1>3
<1>5. \A x \in LaunchKeys : DOMAIN machine'[x] = {"state", "enrolled", "expired"}
  BY <1>1, <1>3, <1>4
<1>6. Touches(r)
  BY <1>3 DEF Touches
<1>7. ObjectsOK(r, s)'
  BY <1>1 DEF ObjectsOK
<1>8. \A i \in Attempts : i # s.attempts => machine'[<<r, i>>] = machine[<<r, i>>]
  BY <1>3 DEF LaunchKeys
<1>9. MachinesOK(r, s)'
  BY <1>1, <1>8 DEF MachinesOK
<1> QED BY <1>1, <1>3, <1>5, <1>6, <1>7, <1>9 DEF Confined

-----------------------------------------------------------------------------
(* A terminal Run: close it, or ask for its cleanup. *)
LEMMA RecordTerminalTransition ==
    ASSUME IInv, NEW r \in Runs, recordTerminalTransition(r)
    PROVE  IInv'
<1>1. PICK s : s = run[r]
  OBVIOUS
<1>2. /\ RunOK(s) /\ ObjectsOK(r, s) /\ step(s) = "terminal"
      /\ run' = run /\ schedule' = schedule /\ object' = object /\ machine' = machine
  BY <1>1 DEF IInv, recordTerminalTransition, Steps
<1>3. ~ s.closed /\ ~ s.cleanupRequested /\ ~ s.cleanupConfirmed /\ s.outcome = "none" /\ DOMAIN s = RunFields
  BY <1>2, StepFacts DEF RunOK
<1> DEFINE o == outcomeRecorded(s.terminal)
           asks == <<o, [type |-> "cleanup_requested"]>>
           ends == <<o, runClosed>>
<1>4. CASE externalObjectPossible(s)
  <2>1. PICK w : w = appendEvents(r, asks)
    OBVIOUS
  <2>2. worker' = [worker EXCEPT ![r] = w]
    BY <1>1, <1>4, <2>1 DEF recordTerminalTransition, Plan
  <2>3. w.version = s.version /\ w.events = asks /\ w.rental = NoRental
    BY <1>1, <2>1, PlanFields
  <2>4. PICK t : t = AppendEvents(s, asks)
    OBVIOUS
  <2>5. t = [s EXCEPT !.outcome = s.terminal, !.cleanupRequested = TRUE, !.version = s.version + 1]
    BY Zenon, <2>4, AskEvents
  <2>6. Appended(s, t)
    BY <1>3, <2>5 DEF Appended, RunFields
  <2>7. Ends(s, t, w)
    BY <1>2, <1>3, <1>4, <2>3, <2>5 DEF Ends, SameLaunch, SameRefusal, SameBooking, Keeps, RunFields,
       externalObjectPossible, RunOK, bookingQueued
  <2> QED BY Zenon, <1>1, <1>2, <2>2, <2>3, <2>4, <2>6, <2>7, PureStep DEF Move
<1>5. CASE ~ externalObjectPossible(s) /\ bookingQueued(s)
  <2>1. PICK w : w = completeBookingAndAppend(r, ends)
    OBVIOUS
  <2>2. worker' = [worker EXCEPT ![r] = w] /\ CanCompleteBooking(r)
    BY <1>1, <1>5, <2>1 DEF recordTerminalTransition, Plan
  <2>3. /\ w.version = s.version /\ w.events = ends /\ w.rental = RentalOf(r, s)
        /\ w.base = schedule[w.rental].version
        /\ w.next = Complete(schedule[w.rental], BookingID(r, s), 0)
    BY <1>1, <2>1, CommitFields DEF completeBookingAndAppend
  <2>4. PICK t : t = AppendEvents(s, ends)
    OBVIOUS
  <2>5. t = [s EXCEPT !.outcome = s.terminal, !.closed = TRUE, !.version = s.version + 1]
    BY Zenon, <2>4, CloseEvents
  <2>6. Appended(s, t)
    BY <1>3, <2>5 DEF Appended, RunFields
  <2>7. holdsBooking(s) /\ w.rental \in Rentals /\ w.rental # NoRental
    BY <1>1, <1>3, <2>2, <2>3, CompletableIsHeld
  <2>8. s.attempts # 0 => object[<<r, s.attempts>>] \notin Pending
    BY <1>2, <1>5 DEF RunOK, Placed, Replaced, ObjectsOK, Pending, Outstanding, Ended, Exited
  <2>9. Releases(r, s, t, w)
    BY <1>3, <2>3, <2>5, <2>7, <2>8 DEF Releases, SameLaunch, SameRefusal, SameBooking, Completes,
       RunFields, bookingQueued
  <2> QED BY Zenon, <1>1, <1>2, <2>2, <2>3, <2>4, <2>6, <2>7, <2>9, PureStep DEF Move
<1>6. CASE ~ externalObjectPossible(s) /\ ~ bookingQueued(s)
  <2>1. PICK w : w = appendEvents(r, ends)
    OBVIOUS
  <2>2. worker' = [worker EXCEPT ![r] = w]
    BY <1>1, <1>6, <2>1 DEF recordTerminalTransition, Plan
  <2>3. w.version = s.version /\ w.events = ends /\ w.rental = NoRental
    BY <1>1, <2>1, PlanFields
  <2>4. PICK t : t = AppendEvents(s, ends)
    OBVIOUS
  <2>5. t = [s EXCEPT !.outcome = s.terminal, !.closed = TRUE, !.version = s.version + 1]
    BY Zenon, <2>4, CloseEvents
  <2>6. Appended(s, t)
    BY <1>3, <2>5 DEF Appended, RunFields
  <2>7. Closes(s, t, w)
    BY <1>2, <1>3, <1>6, <2>3, <2>5 DEF Closes, SameLaunch, SameRefusal, Keeps, RunFields,
       externalObjectPossible, RunOK, bookingQueued, Replaced, replacementEligible
  <2> QED BY Zenon, <1>1, <1>2, <2>2, <2>3, <2>4, <2>6, <2>7, PureStep DEF Move
<1> QED BY <1>4, <1>5, <1>6

(* A cleanup whose provider confirms the release: give the Booking back and *)
(* close.                                                                   *)
LEMMA ReleaseAndCloseScheduled ==
    ASSUME IInv, NEW r \in Runs, releaseAndCloseScheduled(r)
    PROVE  IInv'
<1>1. PICK s : s = run[r]
  OBVIOUS
<1>2. /\ RunOK(s) /\ ObjectsOK(r, s) /\ step(s) = "cleanup" /\ worker[r] = NoPlan
      /\ run' = run /\ schedule' = schedule /\ machine' = machine /\ DOMAIN worker = Runs
      /\ object \in [LaunchKeys -> ObjectStates]
  BY <1>1 DEF IInv, Shape, releaseAndCloseScheduled, Steps
<1>3. ~ s.closed /\ s.cleanupRequested /\ DOMAIN s = RunFields /\ s.attempts # 0
  BY <1>2, StepFacts DEF RunOK
<1>4. LaunchKey(r) = <<r, s.attempts>> /\ LaunchKey(r) \in LaunchKeys
  BY <1>1, <1>2, <1>3, LaunchKeyOf
<1>5. PICK v : v = IF OnNode(r) /\ object[<<r, s.attempts>>] \in {"queued", "running"} THEN "stopping"
                   ELSE IF object[<<r, s.attempts>>] = "stopping" THEN "stopping"
                   ELSE IF object[<<r, s.attempts>>] \in {"landing", "missed"} THEN "missed" ELSE "released"
  OBVIOUS
<1>50. PICK k : k = <<r, s.attempts>>
  BY Zenon
<1>6. object' = [object EXCEPT ![k] = v]
  BY Zenon, <1>4, <1>5, <1>50 DEF releaseAndCloseScheduled, cleanup
<1>7. /\ v \in ObjectStates /\ v \notin Pending
      /\ replacementEligible(s) => v \in {"none", "refused", "released"}
  BY <1>2, <1>3, <1>5 DEF ObjectStates, Pending, Outstanding, Ended, Exited, ObjectsOK
<1>71. MayHold(s, v)
  BY <1>3, <1>7 DEF MayHold
<1>72. object'[<<r, s.attempts>>] = v
  BY <1>2, <1>4, <1>50, <1>6
<1>8. Confined(r)
  BY Zenon, <1>1, <1>2, <1>50, <1>6, <1>71, ObjectEffect
<1> DEFINE ends == <<[type |-> "cleanup_confirmed"], runClosed>>
<1>9. CASE CanCompleteBooking(r)
  <2>1. PICK w : w = completeBookingAndAppend(r, ends)
    OBVIOUS
  <2>2. worker' = [worker EXCEPT ![r] = w]
    BY <1>9, <2>1 DEF releaseAndCloseScheduled, Plan
  <2>3. /\ w.version = s.version /\ w.events = ends /\ w.rental = RentalOf(r, s)
        /\ w.base = schedule[w.rental].version
        /\ w.next = Complete(schedule[w.rental], BookingID(r, s), 0)
    BY <1>1, <2>1, CommitFields DEF completeBookingAndAppend
  <2>4. PICK t : t = AppendEvents(s, ends)
    OBVIOUS
  <2>5. t = [s EXCEPT !.cleanupConfirmed = TRUE, !.closed = TRUE, !.version = s.version + 1]
    BY Zenon, <2>4, ConfirmEvents
  <2>6. Appended(s, t)
    BY <1>3, <2>5 DEF Appended, RunFields
  <2>7. holdsBooking(s) /\ w.rental \in Rentals /\ w.rental # NoRental
    BY <1>1, <1>3, <1>9, <2>3, CompletableIsHeld
  <2>8. Releases(r, s, t, w)'
    BY Zenon, <1>2, <1>3, <1>7, <1>72, <2>3, <2>5, <2>7 DEF Releases, SameLaunch, SameRefusal, SameBooking,
       Completes, RunFields, bookingQueued
  <2>9. PlanOK(r, w)'
    BY <1>1, <1>2, <2>3, <2>4, <2>6, <2>7, <2>8, PlanMade DEF Move
  <2> QED BY Zenon, <1>2, <1>8, <2>2, <2>9, PlanStep
<1>10. CASE ~ CanCompleteBooking(r)
  <2>1. DOMAIN worker' = Runs /\ worker'[r] = NoPlan /\ \A x \in Runs : x # r => worker'[x] = worker[x]
    BY <1>2, <1>10 DEF releaseAndCloseScheduled
  <2> QED BY Zenon, <1>2, <1>8, <2>1, EffectStep
<1> QED BY <1>9, <1>10

(* A cleanup the provider did not confirm. *)
LEMMA RecordCleanupFailure ==
    ASSUME IInv, NEW r \in Runs, recordCleanupFailure(r)
    PROVE  IInv'
<1> DEFINE e == <<[type |-> "cleanup_failed"]>>
<1>1. PICK s : s = run[r]
  OBVIOUS
<1>2. /\ run' = run /\ schedule' = schedule /\ object' = object /\ machine' = machine
      /\ DOMAIN s = RunFields
  BY <1>1 DEF IInv, RunOK, recordCleanupFailure
<1>3. PICK w : w = appendEvents(r, e)
  OBVIOUS
<1>4. worker' = [worker EXCEPT ![r] = w]
  BY <1>3 DEF recordCleanupFailure, Plan
<1>5. w.version = s.version /\ w.events = e /\ w.rental = NoRental
  BY <1>1, <1>3, PlanFields
<1>6. PICK t : t = AppendEvents(s, e)
  OBVIOUS
<1>7. t = [s EXCEPT !.cleanupFailed = TRUE, !.version = s.version + 1]
  BY Zenon, <1>6, CleanupFailedEvents
<1>8. Appended(s, t)
  BY <1>2, <1>7 DEF Appended, RunFields
<1>9. Quiet(r, s, t, w)
  BY <1>2, <1>5, <1>7 DEF Quiet, SameLaunch, SameRefusal, SameBooking, SameEnd, Keeps, RunFields, bookingQueued
<1> QED BY Zenon, <1>1, <1>2, <1>4, <1>5, <1>6, <1>8, <1>9, PureStep DEF Move

(* An admission that has to wait. *)
LEMMA RecordDeferral ==
    ASSUME IInv, NEW r \in Runs, NEW reason \in Reasons, recordDeferral(r, reason)
    PROVE  IInv'
<1> DEFINE a == [type |-> "admission_deferred", reason |-> reason]
<1>0. PICK e : e = evidence(reason) \o <<a>>
  BY Zenon
<1>1. PICK s : s = run[r]
  OBVIOUS
<1>2. /\ run' = run /\ schedule' = schedule /\ object' = object /\ machine' = machine
      /\ RunOK(s) /\ DOMAIN s = RunFields /\ step(s) = "admit"
      /\ reason = "capacity" => ~ replacementEligible(s)
  BY <1>1 DEF IInv, RunOK, recordDeferral, Admits, Steps
<1>3. ~ bookingQueued(s) /\ Replaced(s) /\ ~ s.closed
  BY <1>2, StepFacts
<1>4. PICK w : w = [appendEvents(r, e) EXCEPT !.admits = TRUE]
  BY Zenon
<1>5. worker' = [worker EXCEPT ![r] = w]
  BY <1>0, <1>4 DEF recordDeferral, PlanAdmission, Plan
<1>6. w.version = s.version /\ w.events = e /\ w.rental = NoRental
  BY <1>1, <1>4, PlanFields
<1>7. PICK t : t = AppendEvents(s, e)
  BY Zenon
<1>8. Appended(s, t) /\ Quiet(r, s, t, w)
  <2>1. CASE reason = "capacity"
    <3>1. e = <<selectedNothing, a>>
      BY <1>0, <2>1, Join11 DEF evidence
    <3>2. PICK u : u = Apply(s, selectedNothing)
      BY Zenon
    <3>3. /\ DOMAIN u = RunFields /\ u.version = s.version
          /\ u.offer = NoOffer /\ u.booking = 0 /\ u.bookingState = "none"
          /\ SameLaunch(s, u) /\ SameRefusal(s, u) /\ SameEnd(s, u)
          /\ u.stages = s.stages /\ u.outcome = s.outcome
      BY <1>2, <3>2, DecidedFields DEF selectedNothing
    <3>4. t = [u EXCEPT !.deferral = reason, !.deferrals = @ + 1, !.version = s.version + 1]
      <4>1. t = AppendEvents(s, <<selectedNothing, a>>)
        BY Zenon, <1>7, <3>1
      <4> QED BY Zenon, <4>1, <3>2, WaitEvents
    <3>5. s.booking = 0
      BY <1>2, <1>3, <2>1 DEF RunOK, Placed, Replaced
    <3>6. Appended(s, t) /\ t.booking = 0 /\ SameLaunch(u, t) /\ SameRefusal(u, t) /\ SameEnd(u, t)
      BY <3>3, <3>4 DEF Appended, RunFields, SameLaunch, SameRefusal, SameEnd
    <3>7. t.stages = u.stages /\ t.outcome = u.outcome
      BY <3>3, <3>4 DEF RunFields
    <3> QED BY <1>6, <3>3, <3>5, <3>6, <3>7 DEF Quiet, SameLaunch, SameRefusal, SameEnd, SameBooking,
               Keeps, bookingQueued
  <2>2. CASE reason # "capacity"
    <3>1. e = <<a>>
      BY <1>0, <2>2, JoinEmpty DEF evidence
    <3>2. t = [s EXCEPT !.deferral = reason, !.deferrals = @ + 1, !.version = s.version + 1]
      <4>1. t = AppendEvents(s, <<a>>)
        BY Zenon, <1>7, <3>1
      <4> QED BY Zenon, <4>1, DeferEvents
    <3> QED BY <1>2, <1>6, <3>2 DEF Appended, Quiet, SameLaunch, SameRefusal, SameBooking, SameEnd, Keeps,
               RunFields, bookingQueued
  <2> QED BY <2>1, <2>2
<1> QED BY Zenon, <1>1, <1>2, <1>5, <1>6, <1>7, <1>8, PureStep DEF Move

(* An admission that is refused. *)
LEMMA RecordRefusal ==
    ASSUME IInv, NEW r \in Runs, NEW reason \in Reasons, recordRefusal(r, reason)
    PROVE  IInv'
<1> DEFINE a == [type |-> "admission_refused", reason |-> reason]
<1>0. PICK e : e = evidence(reason) \o <<a, outcomeRecorded("failed"), runClosed>>
  BY Zenon
<1>1. PICK s : s = run[r]
  OBVIOUS
<1>2. /\ run' = run /\ schedule' = schedule /\ object' = object /\ machine' = machine
      /\ RunOK(s) /\ DOMAIN s = RunFields /\ step(s) = "admit"
  BY <1>1 DEF IInv, RunOK, recordRefusal, Admits, Steps
<1>3. ~ bookingQueued(s) /\ Replaced(s) /\ ~ s.closed /\ s.outcome = "none"
  BY <1>2, StepFacts
<1>4. PICK w : w = [appendEvents(r, e) EXCEPT !.admits = TRUE]
  BY Zenon
<1>5. worker' = [worker EXCEPT ![r] = w]
  BY <1>0, <1>4 DEF recordRefusal, PlanAdmission, Plan
<1>6. w.version = s.version /\ w.events = e /\ w.rental = NoRental
  BY <1>1, <1>4, PlanFields
<1>7. PICK t : t = AppendEvents(s, e)
  BY Zenon
<1>8. Appended(s, t) /\ Closes(s, t, w)
  <2>1. CASE reason = "capacity"
    <3>1. e = <<selectedNothing, a, outcomeRecorded("failed"), runClosed>>
      BY <1>0, <2>1, Join13 DEF evidence
    <3>2. PICK u : u = Apply(s, selectedNothing)
      BY Zenon
    <3>3. /\ DOMAIN u = RunFields /\ u.version = s.version
          /\ u.offer = NoOffer /\ u.booking = 0 /\ u.bookingState = "none"
          /\ SameLaunch(s, u) /\ SameRefusal(s, u) /\ SameEnd(s, u)
          /\ u.stages = s.stages /\ u.outcome = s.outcome
      BY <1>2, <3>2, DecidedFields DEF selectedNothing
    <3>4. t = [u EXCEPT !.deferral = reason, !.deferrals = @ + 1, !.outcome = "failed", !.closed = TRUE,
                        !.version = s.version + 1]
      <4>1. t = AppendEvents(s, <<selectedNothing, a, outcomeRecorded("failed"), runClosed>>)
        BY Zenon, <1>7, <3>1
      <4>2. AppendEvents(s, <<selectedNothing, a, outcomeRecorded("failed"), runClosed>>) =
              [Apply(s, selectedNothing) EXCEPT
                  !.deferral = reason, !.deferrals = @ + 1, !.outcome = "failed", !.closed = TRUE,
                  !.version = s.version + 1]
        BY Zenon, RefuseNothingEvents
      <4> QED BY Zenon, <4>1, <4>2, <3>2
    <3>5. Appended(s, t) /\ t.booking = 0 /\ SameLaunch(u, t) /\ SameRefusal(u, t)
      BY <3>3, <3>4 DEF Appended, RunFields, SameLaunch, SameRefusal
    <3>6. t.stages = u.stages /\ t.closed /\ t.cleanupRequested = u.cleanupRequested
      BY <3>3, <3>4 DEF RunFields
    <3> QED BY <1>3, <1>6, <3>3, <3>5, <3>6 DEF Closes, SameLaunch, SameRefusal, SameEnd, Keeps, bookingQueued
  <2>2. CASE reason # "capacity"
    <3>1. e = <<a, outcomeRecorded("failed"), runClosed>>
      BY <1>0, <2>2, JoinEmpty DEF evidence
    <3>2. t = [s EXCEPT !.deferral = reason, !.deferrals = @ + 1, !.outcome = "failed", !.closed = TRUE,
                        !.version = s.version + 1]
      <4>1. t = AppendEvents(s, <<a, outcomeRecorded("failed"), runClosed>>)
        BY Zenon, <1>7, <3>1
      <4> QED BY Zenon, <4>1, RefuseEvents
    <3> QED BY <1>2, <1>3, <1>6, <3>2 DEF Appended, Closes, SameLaunch, SameRefusal, Keeps,
               RunFields, bookingQueued
  <2> QED BY <2>1, <2>2
<1> QED BY Zenon, <1>1, <1>2, <1>5, <1>6, <1>7, <1>8, PureStep DEF Move

(* A Run whose attempts are used up. *)
LEMMA CloseRetryExhausted ==
    ASSUME IInv, NEW r \in Runs, closeRetryExhausted(r)
    PROVE  IInv'
<1>0. PICK e : e = <<selectedNothing, outcomeRecorded("failed"), runClosed>>
  BY Zenon
<1>1. PICK s : s = run[r]
  OBVIOUS
<1>2. /\ run' = run /\ schedule' = schedule /\ object' = object /\ machine' = machine
      /\ RunOK(s) /\ DOMAIN s = RunFields /\ step(s) = "admit"
  BY <1>1 DEF IInv, RunOK, closeRetryExhausted, Admits, Steps
<1>3. ~ bookingQueued(s) /\ Replaced(s) /\ ~ s.closed /\ s.outcome = "none"
  BY <1>2, StepFacts
<1>4. PICK w : w = [appendEvents(r, e) EXCEPT !.admits = TRUE]
  BY Zenon
<1>5. worker' = [worker EXCEPT ![r] = w]
  BY <1>0, <1>4 DEF closeRetryExhausted, PlanAdmission, Plan
<1>6. w.version = s.version /\ w.events = e /\ w.rental = NoRental
  BY <1>1, <1>4, PlanFields
<1>7. PICK t : t = AppendEvents(s, e)
  BY Zenon
<1>8. Appended(s, t) /\ Closes(s, t, w)
  <2>1. PICK u : u = Apply(s, selectedNothing)
    BY Zenon
  <2>2. /\ DOMAIN u = RunFields /\ u.version = s.version
        /\ u.offer = NoOffer /\ u.booking = 0 /\ u.bookingState = "none"
        /\ SameLaunch(s, u) /\ SameRefusal(s, u) /\ SameEnd(s, u)
        /\ u.stages = s.stages /\ u.outcome = s.outcome
    BY <1>2, <2>1, DecidedFields DEF selectedNothing
  <2>3. t = [u EXCEPT !.outcome = "failed", !.closed = TRUE, !.version = s.version + 1]
    <3>1. t = AppendEvents(s, <<selectedNothing, outcomeRecorded("failed"), runClosed>>)
      BY Zenon, <1>0, <1>7
    <3> QED BY Zenon, <3>1, <2>1, ExhaustEvents
  <2>4. Appended(s, t) /\ t.booking = 0 /\ SameLaunch(u, t) /\ SameRefusal(u, t)
    BY <2>2, <2>3 DEF Appended, RunFields, SameLaunch, SameRefusal
  <2>5. t.stages = u.stages /\ t.closed /\ t.cleanupRequested = u.cleanupRequested
    BY <2>2, <2>3 DEF RunFields
  <2> QED BY <1>3, <1>6, <2>2, <2>4, <2>5 DEF Closes, SameLaunch, SameRefusal, SameEnd, Keeps, bookingQueued
<1> QED BY Zenon, <1>1, <1>2, <1>5, <1>6, <1>7, <1>8, PureStep DEF Move

\* Nothing but the progress of the attempt is recorded.
Still(s, t) ==
    /\ SameLaunch(s, t) /\ SameRefusal(s, t) /\ SameBooking(s, t) /\ SameEnd(s, t)
    /\ s.stages \subseteq t.stages /\ (s.reclaimed => t.stages = s.stages)
    /\ t.outcome = s.outcome

(* A step that plans to record progress. *)
LEMMA QuietPlan ==
    ASSUME IInv, NEW r \in Runs, run' = run, schedule' = schedule, Confined(r),
           NEW e, NEW w, w = appendEvents(r, e), worker' = [worker EXCEPT ![r] = w],
           NEW s, s = run[r], NEW t, t = AppendEvents(s, e), Appended(s, t), Still(s, t)
    PROVE  IInv'
<1>1. w.version = s.version /\ w.events = e /\ w.rental = NoRental
  BY PlanFields
<1>2. Quiet(r, s, t, w)'
  BY <1>1 DEF Quiet, Keeps, Still
<1>3. PlanOK(r, w)'
  BY <1>1, <1>2, PlanMade DEF Move
<1> QED BY Zenon, <1>3, PlanStep

(* A machine is asked for. *)
LEMMA AllocateCapacity ==
    ASSUME IInv, NEW r \in Runs, allocateCapacity(r)
    PROVE  IInv'
<1>1. PICK s : s = run[r]
  OBVIOUS
<1>2. /\ run' = run /\ schedule' = schedule /\ object' = object /\ DOMAIN worker = Runs
      /\ worker[r] = NoPlan /\ RunOK(s) /\ DOMAIN s = RunFields /\ step(s) = "capacity"
  BY <1>1 DEF IInv, Shape, RunOK, allocateCapacity, Steps
<1>3. s.attempts # 0 /\ s.capacity /\ ~ replacementEligible(s)
  BY <1>2, StepFacts
<1>4. PICK k : k = <<r, s.attempts>>
  BY Zenon
<1>5. PICK v : v = IF machine[k].state \in {"starting", "active"} THEN machine[k].state ELSE "starting"
  BY Zenon
<1>6. machine' = [machine EXCEPT ![k].state = v]
  <2>1. LaunchKey(r) = k
    BY <1>1, <1>2, <1>3, <1>4, LaunchKeyOf
  <2> QED BY Zenon, <2>1, <1>5 DEF allocateCapacity
<1>7. Confined(r)
  BY Zenon, <1>1, <1>2, <1>3, <1>4, <1>6, MachineEffect
<1> DEFINE e == <<[type |-> "capacity_accepted"]>>
<1>8. CASE Plan(r, appendEvents(r, e))
  <2>1. PICK w : w = appendEvents(r, e)
    OBVIOUS
  <2>2. worker' = [worker EXCEPT ![r] = w]
    BY <1>8, <2>1 DEF Plan
  <2>3. PICK t : t = AppendEvents(s, e)
    OBVIOUS
  <2>4. t = [s EXCEPT !.capacityAccepted = TRUE, !.version = s.version + 1]
    BY Zenon, <2>3, CapacityAcceptedEvents
  <2>5. Appended(s, t) /\ Still(s, t)
    BY <1>2, <2>4 DEF Appended, RunFields, Still, SameLaunch, SameRefusal, SameBooking, SameEnd, bookingQueued
  <2> QED BY Zenon, <1>1, <1>2, <1>7, <2>1, <2>2, <2>3, <2>5, QuietPlan
<1>9. CASE worker' = worker
  <2>1. DOMAIN worker' = Runs /\ worker'[r] = NoPlan /\ \A x \in Runs : x # r => worker'[x] = worker[x]
    BY <1>2, <1>9
  <2> QED BY Zenon, <1>2, <1>7, <2>1, EffectStep
<1> QED BY <1>8, <1>9 DEF allocateCapacity

(* A machine is seen coming up. *)
LEMMA WatchCapacityArrive ==
    ASSUME IInv, NEW r \in Runs, watchCapacityArrive(r)
    PROVE  IInv'
<1>1. PICK s : s = run[r]
  OBVIOUS
<1>2. /\ run' = run /\ schedule' = schedule /\ object' = object /\ machine' = machine
      /\ RunOK(s) /\ DOMAIN s = RunFields /\ step(s) = "capacity"
  BY <1>1 DEF IInv, RunOK, watchCapacityArrive, Steps
<1>3. ~ s.reclaimed
  BY <1>2, StepFacts DEF replacementEligible
<1>4. Confined(r)
  BY Zenon, <1>2, SameStays
<1>5. PICK x : x = capacityStageEvents(r)
  BY Zenon
<1> DEFINE e == <<[type |-> "capacity_stage_observed", stages |-> x]>>
<1>6. PICK w : w = appendEvents(r, e)
  OBVIOUS
<1>7. worker' = [worker EXCEPT ![r] = w]
  BY <1>5, <1>6 DEF watchCapacityArrive, Plan
<1>8. PICK t : t = AppendEvents(s, e)
  OBVIOUS
<1>9. t = [s EXCEPT !.stages = @ \cup x, !.version = s.version + 1]
  BY Zenon, <1>8, StageEvents
<1>10. Appended(s, t) /\ Still(s, t)
  BY <1>2, <1>3, <1>9 DEF Appended, RunFields, Still, SameLaunch, SameRefusal, SameBooking, SameEnd, bookingQueued
<1> QED BY Zenon, <1>1, <1>2, <1>4, <1>6, <1>7, <1>8, <1>10, QuietPlan

(* A call that creates, or finds what is there, is confined to its Run. *)
LEMMA CreateEffect ==
    ASSUME IInv, NEW r \in Runs, NEW s, s = run[r], step(s) = "launch",
           NEW created, created \subseteq ObjectStates, CreateObject(r, created),
           run' = run, machine' = machine
    PROVE  Confined(r)
<1>1. RunOK(s) /\ object \in [LaunchKeys -> ObjectStates]
  BY DEF IInv, Shape
<1>2. /\ s.attempts # 0 /\ ~ s.closed /\ ~ replacementEligible(s)
      /\ ~ (s.capacity /\ ~ nodeEnrolled(s))
  BY <1>1, StepFacts
<1>3. PICK k : k = <<r, s.attempts>>
  BY Zenon
<1>4. LaunchKey(r) = k /\ k \in LaunchKeys /\ object[k] \in ObjectStates
  BY <1>1, <1>2, <1>3, LaunchKeyOf
<1>5. CASE object' = object
  BY Zenon, <1>5, SameStays
<1>6. CASE object' # object
  <2>1. PICK v \in {object[k], "queued"} \cup created : object' = [object EXCEPT ![k] = v]
    BY Zenon, <1>4, <1>6 DEF CreateObject
  <2>2. v \in ObjectStates
    BY <1>4 DEF ObjectStates
  <2>3. MayHold(s, v)
    BY <1>2, <2>2 DEF MayHold
  <2> QED BY Zenon, <1>3, <2>1, <2>3, ObjectEffect
<1> QED BY <1>5, <1>6

(* A launch the provider accepted. *)
LEMMA LaunchAccepted ==
    ASSUME IInv, NEW r \in Runs, launchAccepted(r)
    PROVE  IInv'
<1>1. PICK s : s = run[r]
  OBVIOUS
<1>2. /\ run' = run /\ schedule' = schedule /\ machine' = machine
      /\ RunOK(s) /\ DOMAIN s = RunFields /\ step(s) = "launch"
  BY <1>1 DEF IInv, RunOK, launchAccepted, Steps
<1>3. Confined(r)
  <2>1. {"queued"} \subseteq ObjectStates /\ CreateObject(r, {"queued"})
    BY DEF launchAccepted, ObjectStates
  <2> QED BY Zenon, <1>1, <1>2, <2>1, CreateEffect
<1> DEFINE e == <<[type |-> "launch_accepted"]>>
<1>4. PICK w : w = appendEvents(r, e)
  OBVIOUS
<1>5. worker' = [worker EXCEPT ![r] = w]
  BY <1>4 DEF launchAccepted, Plan
<1>6. PICK t : t = AppendEvents(s, e)
  OBVIOUS
<1>7. t = [s EXCEPT !.accepted = TRUE, !.version = s.version + 1]
  BY Zenon, <1>6, AcceptEvents
<1>8. Appended(s, t) /\ Still(s, t)
  BY <1>2, <1>7 DEF Appended, RunFields, Still, SameLaunch, SameRefusal, SameBooking, SameEnd, bookingQueued
<1> QED BY Zenon, <1>1, <1>2, <1>3, <1>4, <1>5, <1>6, <1>8, QuietPlan

(* A launch whose answer was lost: nothing is recorded of it. *)
LEMMA RecordIndeterminateLaunch ==
    ASSUME IInv, NEW r \in Runs, recordIndeterminateLaunch(r)
    PROVE  IInv'
<1>1. PICK s : s = run[r]
  OBVIOUS
<1>2. /\ run' = run /\ schedule' = schedule /\ machine' = machine
      /\ RunOK(s) /\ DOMAIN s = RunFields /\ step(s) = "launch"
  BY <1>1 DEF IInv, RunOK, recordIndeterminateLaunch, Steps
<1>3. s.failure = "none"
  BY <1>2, StepFacts
<1>4. Confined(r)
  <2>1. {"queued", "landing"} \subseteq ObjectStates
    BY DEF ObjectStates
  <2>2. CASE CreateObject(r, {"queued", "landing"})
    BY Zenon, <1>1, <1>2, <2>1, <2>2, CreateEffect
  <2>3. CASE object' = object
    BY Zenon, <2>3, <1>2, SameStays
  <2> QED BY <2>2, <2>3 DEF recordIndeterminateLaunch
<1> DEFINE e == <<launchFailed("indeterminate")>>
<1>5. PICK w : w = appendEvents(r, e)
  OBVIOUS
<1>6. worker' = [worker EXCEPT ![r] = w]
  BY <1>5 DEF recordIndeterminateLaunch, Plan
<1>7. PICK t : t = AppendEvents(s, e)
  OBVIOUS
<1>8. t = [s EXCEPT !.failure = "indeterminate",
                     !.excluded = IF "indeterminate" = "replaceable" THEN @ \cup {s.intentOffer} ELSE @,
                     !.version = s.version + 1]
  BY Zenon, <1>7, LaunchFailedEvents
<1>9. Appended(s, t) /\ Still(s, t)
  BY <1>2, <1>3, <1>8 DEF Appended, RunFields, Still, SameLaunch, SameRefusal, SameBooking, SameEnd, bookingQueued
<1> QED BY Zenon, <1>1, <1>2, <1>4, <1>5, <1>6, <1>7, <1>9, QuietPlan
=============================================================================
