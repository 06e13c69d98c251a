------------------------- MODULE RunLifecycleCommit -------------------------
(***************************************************************************)
(* What TLAPS proves of RunLifecycle, for any Runs, offers, queue          *)
(* capacity, attempt bound and number of faults, begins here.              *)
(*                                                                         *)
(* A worker's plan is made at one moment and committed at another.  The    *)
(* argument is therefore about plans: while the stream a plan was made     *)
(* from is still at the version it read, the plan is one of eight kinds of *)
(* move (Move), each of which says what it does to the Run and what was    *)
(* already done outside, and no step of another Run, of the provider or of *)
(* a node takes that away.  Committing one is then the only step that      *)
(* changes a Run and a schedule together.                                  *)
(*                                                                         *)
(* This module states the invariant (IInv) and shows that committing a     *)
(* move keeps it.  RunLifecycleMoves shows that what a worker plans is a   *)
(* move, and RunLifecycleProofs concludes.                                 *)
(***************************************************************************)
EXTENDS RunLifecycle, TLAPS

RunFields ==
    {"version", "requested", "offer", "booking", "bookingState", "attempts", "intent",
     "intentOffer", "accepted", "failure", "started", "deferral", "deferrals", "excluded",
     "capacity", "capacityAccepted", "stages", "reclaimed", "cancelled", "terminal", "reported",
     "outcome", "cleanupRequested", "cleanupFailed", "cleanupConfirmed", "closed", "phase"}

BookingFields ==
    {"id", "run", "state", "after", "version", "projected", "latest", "expected", "max", "startedAt"}

Alive == {"starting", "active"}

(***************************************************************************)
(* One Run's record.  Every attempt but the last was replaced, and each    *)
(* replaced attempt struck out an offer of its own, which is why attempts  *)
(* are no more than offers (Spent).  Leaves(n, e) says so without counting *)
(* what was struck out: after n attempts, however the offers not in e are  *)
(* tried one after the other, each once, there is an attempt for each.     *)
(***************************************************************************)
Leaves(n, e) ==
    LET c == Cardinality(Offers)
    IN  /\ c \in Nat /\ n \in Nat
        /\ \A k \in 0..(c + 1) : \A q \in [1..k -> Offers \ e] :
              (\A i, j \in 1..k : q[i] = q[j] => i = j) => n + k <= c

Replaced(s) == s.attempts = 0 \/ replacementEligible(s)

Spent(s) ==
    /\ s.excluded \subseteq Offers
    /\ s.attempts # 0 => s.intentOffer \in Offers
    /\ Leaves(s.attempts, IF Replaced(s) THEN s.excluded ELSE s.excluded \cup {s.intentOffer})
    /\ ~ Replaced(s) => s.intentOffer \notin s.excluded

Placed(s) ==
    /\ bookingQueued(s) =>
          /\ s.booking = s.attempts + 1 /\ Replaced(s)
          /\ s.offer \in Standing /\ s.offer \notin s.excluded
    /\ ~ bookingQueued(s) /\ ~ s.closed =>
          IF s.attempts = 0 THEN s.booking = 0
          ELSE s.booking = s.attempts /\ s.offer = s.intentOffer

RunOK(s) ==
    /\ DOMAIN s = RunFields
    /\ s.version \in Nat /\ s.attempts \in Nat /\ s.booking \in Nat
    /\ s.intent = s.attempts
    /\ Spent(s) /\ Placed(s)
    /\ s.capacity => s.attempts # 0 /\ s.intentOffer \in Provisioned
    /\ s.failure = "replaceable" =>
          /\ s.attempts # 0 /\ s.intentOffer \in OneShot
          /\ s.closed \/ s.attempts < MaxPreStartAttempts
    /\ s.reclaimed => s.capacity /\ ~ nodeEnrolled(s)
    /\ s.outcome # "none" => s.closed \/ s.cleanupRequested
    /\ s.cleanupRequested => s.attempts # 0 /\ s.failure # "replaceable"
    /\ s.cleanupConfirmed => s.closed

(***************************************************************************)
(* What the provider, the nodes and the machines hold for a Run.           *)
(***************************************************************************)
\* Nothing of the attempt exists, and the attempt counts against the bound only
\* if it was handed to a provider.
Unlaunched(state, attempt) ==
    state = "none" \/ (state = "refused" /\ attempt < MaxPreStartAttempts)

ObjectsOK(r, s) ==
    /\ \A i \in Attempts : i # s.attempts =>
          /\ Unlaunched(object[<<r, i>>], i)
          /\ object[<<r, i>>] # "none" => i < s.attempts
    /\ s.attempts # 0 =>
          LET state == object[<<r, s.attempts>>]
          IN  /\ replacementEligible(s) => state \in {"none", "refused", "released"}
              /\ replacementEligible(s) /\ ~ s.cleanupRequested /\ ~ s.closed =>
                    Unlaunched(state, s.attempts)
              /\ s.capacity /\ ~ nodeEnrolled(s) /\ ~ s.cleanupRequested /\ ~ s.closed =>
                    state = "none"
              /\ s.closed => state \notin Pending \/ s.failure = "rejected"

MachinesOK(r, s) ==
    \A i \in Attempts : machine[<<r, i>>].state \in Alive =>
        i = s.attempts /\ s.capacity /\ ~ replacementEligible(s)

(***************************************************************************)
(* The schedules.                                                          *)
(***************************************************************************)
IsSeq(b) == Len(b) \in Nat /\ b = [i \in 1..Len(b) |-> b[i]]

IsSchedule(q) ==
    /\ q.version \in Nat
    /\ IsSeq(q.bookings)
    /\ \A i \in DOMAIN q.bookings :
          /\ DOMAIN q.bookings[i] = BookingFields
          /\ q.bookings[i].state = IF i = 1 THEN "running" ELSE "queued"
    /\ \A i, j \in DOMAIN q.bookings : q.bookings[i].id = q.bookings[j].id => i = j

AtHead(q, id) == 1 \in DOMAIN q.bookings /\ q.bookings[1].id = id

Holder(q, id) ==
    \E r \in Runs : id = BookingID(r, run[r]) /\ holdsBooking(run[r]) /\ RentalOf(r, run[r]) = q

SchedulesOK ==
    /\ \A q \in Rentals : IsSchedule(schedule[q])
    /\ \A q \in Rentals : \A i \in DOMAIN schedule[q].bookings : Holder(q, schedule[q].bookings[i].id)
    /\ \A r \in Runs : holdsBooking(run[r]) =>
          /\ Holds(schedule[RentalOf(r, run[r])], BookingID(r, run[r]))
          /\ ~ bookingQueued(run[r]) => AtHead(schedule[RentalOf(r, run[r])], BookingID(r, run[r]))

(***************************************************************************)
(* The moves.  s is the Run as the plan read it, t what the commit makes   *)
(* of it, w the plan.                                                      *)
(***************************************************************************)
SameLaunch(s, t) ==
    /\ t.attempts = s.attempts /\ t.intent = s.intent /\ t.intentOffer = s.intentOffer
    /\ t.capacity = s.capacity

SameRefusal(s, t) ==
    /\ t.excluded = s.excluded /\ t.reclaimed = s.reclaimed
    /\ (t.failure = "replaceable") = (s.failure = "replaceable")
    /\ s.failure \in {"none", t.failure}

SameBooking(s, t) ==
    /\ t.booking = s.booking /\ bookingQueued(t) = bookingQueued(s)
    /\ s.booking # 0 => t.offer = s.offer

SameEnd(s, t) ==
    /\ t.cleanupRequested = s.cleanupRequested
    /\ t.cleanupConfirmed = s.cleanupConfirmed /\ t.closed = s.closed

Current(w) == schedule[w.rental].version = w.base

Keeps(w) == w.rental = NoRental

Completes(r, s, w) ==
    /\ w.rental = RentalOf(r, s) /\ w.rental # NoRental
    /\ Current(w) => w.next = Complete(schedule[w.rental], BookingID(r, s), 0)

Reserves(r, t, w) ==
    /\ w.rental = RentalOf(r, t) /\ w.rental # NoRental
    /\ Current(w) => w.next = Reserve(schedule[w.rental], bookingRequest(r, t.booking))

Dates(r, s, w) ==
    /\ w.rental = RentalOf(r, s) /\ w.rental # NoRental /\ holdsBooking(s)
    /\ Current(w) => w.next = Started(schedule[w.rental], 0)

\* Nothing a placement, a launch or a closing decided is touched.
Quiet(r, s, t, w) ==
    /\ SameLaunch(s, t) /\ SameRefusal(s, t) /\ SameBooking(s, t) /\ SameEnd(s, t)
    /\ s.stages \subseteq t.stages
    /\ s.reclaimed => t.stages = s.stages
    /\ t.outcome = s.outcome
    /\ Keeps(w) \/ Dates(r, s, w)

\* The outcome is recorded and a cleanup asked for.
Ends(s, t, w) ==
    /\ SameLaunch(s, t) /\ SameRefusal(s, t) /\ SameBooking(s, t) /\ t.stages = s.stages
    /\ s.outcome = "none" /\ ~ s.closed /\ s.attempts # 0 /\ s.failure # "replaceable"
    /\ t.cleanupRequested /\ t.cleanupConfirmed = s.cleanupConfirmed /\ t.closed = s.closed
    /\ Keeps(w)

\* A Run that holds nothing is closed.
Closes(s, t, w) ==
    /\ SameLaunch(s, t) /\ SameRefusal(s, t) /\ t.stages = s.stages
    /\ t.booking \in {0, s.booking} /\ ~ bookingQueued(t)
    /\ s.outcome = "none" /\ ~ s.closed /\ ~ bookingQueued(s) /\ Replaced(s)
    /\ t.closed /\ t.cleanupRequested = s.cleanupRequested
    /\ Keeps(w)

\* A Run with nothing left running, or whose launch was rejected, is closed and
\* gives its Booking back.
Releases(r, s, t, w) ==
    /\ SameLaunch(s, t) /\ SameRefusal(s, t) /\ SameBooking(s, t) /\ t.stages = s.stages
    /\ s.outcome = "none" \/ t.outcome = s.outcome
    /\ ~ s.closed /\ holdsBooking(s)
    /\ t.closed /\ t.cleanupRequested = s.cleanupRequested
    /\ s.attempts # 0 => object[<<r, s.attempts>>] \notin Pending \/ t.failure = "rejected"
    /\ Completes(r, s, w)

\* The attempt came to nothing: its offer is struck out and its Booking given
\* back, and the Run is placed again or its attempts are spent.
Replaces(r, s, t, w) ==
    /\ SameLaunch(s, t) /\ SameBooking(s, t) /\ t.stages = s.stages
    /\ s.outcome = "none" /\ ~ s.closed /\ ~ s.cleanupRequested
    /\ s.attempts # 0 /\ ~ replacementEligible(s) /\ ~ bookingQueued(s)
    /\ t.excluded = s.excluded \cup {s.intentOffer}
    /\ t.outcome = s.outcome \/ t.closed
    /\ t.cleanupRequested = s.cleanupRequested /\ t.cleanupConfirmed = s.cleanupConfirmed
    /\ \/ /\ t.reclaimed /\ t.failure = s.failure
          /\ s.capacity /\ ~ nodeEnrolled(s)
          /\ machine[<<r, s.attempts>>].state \notin Alive
       \/ /\ t.failure = "replaceable" /\ t.reclaimed = s.reclaimed
          /\ s.intentOffer \in OneShot
          /\ object[<<r, s.attempts>>] = "refused"
          /\ t.closed \/ s.attempts < MaxPreStartAttempts
    /\ Completes(r, s, w)

\* The next attempt of a Run.
NewAttempt(s, t) ==
    /\ ~ s.closed /\ ~ s.cleanupRequested /\ Replaced(s)
    /\ t.attempts = s.attempts + 1 /\ t.intent = t.attempts /\ t.booking = t.attempts
    /\ t.intentOffer = t.offer /\ t.offer \in Offers /\ t.offer \notin s.excluded
    /\ t.excluded = s.excluded /\ t.failure = "none" /\ ~ t.reclaimed
    /\ ~ bookingQueued(t)
    /\ t.capacity => t.offer \in Provisioned
    /\ ~ nodeEnrolled(t)
    /\ SameEnd(s, t) /\ t.outcome = s.outcome

\* An attempt on a Rental that was free.
Places(r, s, t, w) ==
    /\ NewAttempt(s, t) /\ ~ bookingQueued(s)
    /\ Reserves(r, t, w)
    /\ Current(w) => schedule[w.rental].bookings = <<>>

\* A place behind the holder of a standing Rental.
Queues(r, s, t, w) ==
    /\ SameLaunch(s, t) /\ SameRefusal(s, t) /\ SameEnd(s, t) /\ t.stages = s.stages
    /\ ~ s.closed /\ ~ s.cleanupRequested /\ Replaced(s) /\ ~ bookingQueued(s)
    /\ t.outcome = s.outcome
    /\ t.booking = s.attempts + 1 /\ bookingQueued(t)
    /\ t.offer \in Standing /\ t.offer \notin s.excluded
    /\ Reserves(r, t, w)
    /\ Current(w) => schedule[w.rental].bookings # <<>>

\* An attempt on the Rental whose queue has come to the Run.
Dispatches(r, s, t, w) ==
    /\ NewAttempt(s, t) /\ bookingQueued(s) /\ t.offer = s.offer
    /\ AtHead(schedule[RentalOf(r, s)], BookingID(r, s))
    /\ Keeps(w)

Move(r, s, t, w) ==
    \/ Quiet(r, s, t, w) \/ Ends(s, t, w) \/ Closes(s, t, w)
    \/ Releases(r, s, t, w) \/ Replaces(r, s, t, w)
    \/ Places(r, s, t, w) \/ Queues(r, s, t, w) \/ Dispatches(r, s, t, w)

\* What a plan still current would do.
Lands(r, w) ==
    LET t == AppendEvents(run[r], w.events)
    IN  /\ DOMAIN t = RunFields /\ t.version = run[r].version + 1
        /\ Move(r, run[r], t, w)

PlanOK(r, w) ==
    /\ w.version \in Nat /\ w.version <= run[r].version
    /\ w.rental # NoRental =>
          w.rental \in Rentals /\ w.base \in Nat /\ w.base <= schedule[w.rental].version
    /\ w.version = run[r].version => Lands(r, w)

Shape ==
    /\ DOMAIN run = Runs /\ DOMAIN schedule = Rentals /\ DOMAIN worker = Runs
    /\ object \in [LaunchKeys -> ObjectStates]
    /\ DOMAIN machine = LaunchKeys
    /\ \A k \in LaunchKeys : DOMAIN machine[k] = {"state", "enrolled", "expired"}

IInv ==
    /\ Shape
    /\ \A r \in Runs : RunOK(run[r])
    /\ \A r \in Runs : ObjectsOK(r, run[r]) /\ MachinesOK(r, run[r])
    /\ SchedulesOK
    /\ \A r \in Runs : worker[r] # NoPlan => PlanOK(r, worker[r])

(* A list is a function on the places up to its length. *)
LEMMA ListLen ==
    ASSUME NEW S, NEW l \in Seq(S)
    PROVE  Len(l) \in Nat /\ DOMAIN l = 1..Len(l) /\ l \in [1..Len(l) -> S]
  OBVIOUS

(* The list of length zero. *)
LEMMA ListEmpty ==
    ASSUME NEW S
    PROVE  /\ <<>> \in Seq(S) /\ Len(<<>>) = 0
           /\ \A l \in Seq(S) : l # <<>> => Len(l) # 0
  OBVIOUS

(* A list one longer. *)
LEMMA ListAppend ==
    ASSUME NEW S, NEW l \in Seq(S), NEW x \in S
    PROVE  /\ Append(l, x) \in Seq(S) /\ Len(Append(l, x)) = Len(l) + 1
           /\ \A i \in 1..Len(l) : Append(l, x)[i] = l[i]
           /\ Append(l, x)[Len(l) + 1] = x
  OBVIOUS

-----------------------------------------------------------------------------
(* t is a Run's record one append after s. *)
Appended(s, t) == DOMAIN t = RunFields /\ t.version = s.version + 1

-----------------------------------------------------------------------------
(* The attempts of a Run are no more than the offers: one that tries an    *)
(* offer it had not struck out has an attempt for it, and one for each of  *)
(* the offers still left after it.                                         *)
LEMMA StrikeOut ==
    ASSUME NEW n, NEW e, Leaves(n, e), NEW o \in Offers, o \notin e
    PROVE  n + 1 \in Attempts /\ Leaves(n + 1, e \cup {o})
<1> DEFINE c == Cardinality(Offers)
<1>1. c \in Nat /\ n \in Nat
  BY DEF Leaves
<1>2. ASSUME NEW k \in 0..(c + 1), NEW q \in [1..k -> Offers \ e],
             \A i, j \in 1..k : q[i] = q[j] => i = j
      PROVE  n + k <= c
  BY <1>2 DEF Leaves
<1>3. n + 1 <= c
  <2>1. [i \in 1..1 |-> o] \in [1..1 -> Offers \ e]
    OBVIOUS
  <2>2. 1 \in 0..(c + 1) /\ \A i, j \in 1..1 : i = j
    BY <1>1
  <2> QED BY Zenon, <2>1, <2>2, <1>2
<1>4. ASSUME NEW k \in 0..(c + 1), NEW q \in [1..k -> Offers \ (e \cup {o})],
             \A i, j \in 1..k : q[i] = q[j] => i = j
      PROVE  n + 1 + k <= c
  <2>1. k \in Nat /\ q \in [1..k -> Offers \ e]
    BY <1>1
  <2>2. n + k <= c
    BY <2>1, <1>2, <1>4
  <2>3. k <= c
    BY <1>1, <2>1, <2>2
  <2> DEFINE p == [i \in 1..(k + 1) |-> IF i = k + 1 THEN o ELSE q[i]]
  <2>4. k + 1 \in 0..(c + 1) /\ p \in [1..(k + 1) -> Offers \ e]
    BY <1>1, <2>1, <2>3
  <2>5. \A i, j \in 1..(k + 1) : p[i] = p[j] => i = j
    BY <2>1, <1>4
  <2>6. n + (k + 1) <= c
    BY Zenon, <2>4, <2>5, <1>2
  <2> QED BY <1>1, <2>1, <2>6
<1>5. n + 1 \in 1..c
  BY <1>1, <1>3
<1> QED BY <1>1, <1>4, <1>5 DEF Leaves, Attempts

(* The attempt a Run makes on an offer it had not struck out. *)
LEMMA NextAttempt ==
    ASSUME NEW s, s.attempts \in Nat, Spent(s), Replaced(s),
           NEW o \in Offers, o \notin s.excluded
    PROVE  s.attempts + 1 \in Attempts /\ Leaves(s.attempts + 1, s.excluded \cup {o})
<1>1. Leaves(s.attempts, s.excluded)
  BY DEF Spent
<1> QED BY <1>1, StrikeOut

(* The current attempt of a Run is one of those there can be. *)
LEMMA AttemptsBounded ==
    ASSUME NEW s, RunOK(s), s.attempts # 0
    PROVE  s.attempts \in Attempts
<1> DEFINE n == s.attempts  c == Cardinality(Offers)
<1>1. PICK e : Leaves(n, e)
  BY DEF RunOK, Spent
<1>2. c \in Nat /\ n \in Nat /\ n # 0
  BY <1>1 DEF Leaves
<1>3. n <= c
  <2>1. [i \in 1..0 |-> {}] \in [1..0 -> Offers \ e]
    OBVIOUS
  <2>2. 0 \in 0..(c + 1) /\ \A i, j \in 1..0 : i = j
    BY <1>2
  <2>3. n + 0 <= c
    BY Zenon, <2>1, <2>2, <1>1 DEF Leaves
  <2> QED BY <1>2, <2>3
<1> HIDE DEF n, c
<1>4. n \in 1..c
  BY <1>2, <1>3
<1> QED BY <1>4 DEF Attempts, n, c

(* The Rental of an open Run's Booking, and its identity. *)
LEMMA BookingNames ==
    ASSUME NEW r \in Runs, NEW s, RunOK(s), s.booking # 0, ~ s.closed
    PROVE  /\ s.booking \in Attempts /\ s.offer \in Offers
           /\ RentalOf(r, s) \in Rentals /\ RentalOf(r, s) # NoRental
           /\ bookingQueued(s) => s.booking = s.attempts + 1
           /\ ~ bookingQueued(s) => s.attempts # 0 /\ s.booking = s.attempts /\ s.offer = s.intentOffer
<1>1. CASE bookingQueued(s)
  <2>1. /\ s.booking = s.attempts + 1 /\ Replaced(s) /\ s.offer \in Offers /\ s.offer \notin s.excluded
        /\ s.attempts \in Nat /\ Spent(s) /\ s.offer \in Standing
    BY <1>1 DEF RunOK, Placed, Offers
  <2>2. s.attempts + 1 \in Attempts
    BY Zenon, <2>1, NextAttempt
  <2> QED BY <1>1, <2>1, <2>2, NamesAssumption DEF RentalOf, Rentals
<1>2. CASE ~ bookingQueued(s)
  <2>1. s.attempts # 0 /\ s.booking = s.attempts /\ s.offer = s.intentOffer
    BY <1>2 DEF RunOK, Placed
  <2>2. s.attempts \in Attempts /\ s.offer \in Offers
    BY <2>1, AttemptsBounded DEF RunOK, Spent
  <2> QED BY <1>2, <2>1, <2>2, NamesAssumption DEF RentalOf, Rentals, LaunchKeys
<1> QED BY <1>1, <1>2

(***************************************************************************)
(* Every move leaves a Run's record well formed.                           *)
(***************************************************************************)
LEMMA QuietRun ==
    ASSUME NEW r, NEW s, NEW t, NEW w, RunOK(s), Appended(s, t), Quiet(r, s, t, w)
    PROVE  RunOK(t) /\ holdsBooking(t) = holdsBooking(s)
<1> USE DEF Quiet, SameLaunch, SameRefusal, SameBooking, SameEnd, Appended
<1>1. replacementEligible(t) = replacementEligible(s) /\ Replaced(t) = Replaced(s)
  BY DEF replacementEligible, Replaced
<1>2. Spent(t)
  BY <1>1 DEF RunOK, Spent
<1>3. Placed(t)
  BY <1>1 DEF RunOK, Placed, bookingQueued
<1>4. t.reclaimed => t.capacity /\ ~ nodeEnrolled(t)
  BY DEF RunOK, nodeEnrolled
<1>5. RunOK(t)
  BY <1>2, <1>3, <1>4 DEF RunOK
<1> QED BY <1>1, <1>5 DEF holdsBooking

(* So does asking for a cleanup, which keeps the Booking. *)
LEMMA EndsRun ==
    ASSUME NEW s, NEW t, NEW w, RunOK(s), Appended(s, t), Ends(s, t, w)
    PROVE  RunOK(t) /\ holdsBooking(t) = holdsBooking(s)
<1> USE DEF Ends, SameLaunch, SameRefusal, SameBooking, Appended
<1>1. replacementEligible(t) = replacementEligible(s) /\ Replaced(t) = Replaced(s)
  BY DEF replacementEligible, Replaced
<1>2. Spent(t)
  BY <1>1 DEF RunOK, Spent
<1>3. Placed(t)
  BY <1>1 DEF RunOK, Placed, bookingQueued
<1>4. t.reclaimed => t.capacity /\ ~ nodeEnrolled(t)
  BY DEF RunOK, nodeEnrolled
<1>5. RunOK(t)
  BY <1>2, <1>3, <1>4 DEF RunOK
<1> QED BY <1>1, <1>5 DEF holdsBooking

(* So does closing a Run that holds no Booking. *)
LEMMA ClosesRun ==
    ASSUME NEW s, NEW t, NEW w, RunOK(s), Appended(s, t), Closes(s, t, w)
    PROVE  RunOK(t) /\ ~ holdsBooking(t) /\ ~ holdsBooking(s)
<1> USE DEF Closes, SameLaunch, SameRefusal, Appended
<1>1. replacementEligible(t) = replacementEligible(s) /\ Replaced(t) = Replaced(s)
  BY DEF replacementEligible, Replaced
<1>2. Spent(t)
  BY <1>1 DEF RunOK, Spent
<1>3. Placed(t)
  BY <1>1 DEF RunOK, Placed
<1>4. t.reclaimed => t.capacity /\ ~ nodeEnrolled(t)
  BY DEF RunOK, nodeEnrolled
<1>5. RunOK(t)
  BY <1>2, <1>3, <1>4 DEF RunOK
<1>6. ~ holdsBooking(s)
  BY DEF holdsBooking, RunOK, Placed, Replaced
<1> QED BY <1>5, <1>6 DEF holdsBooking

(* So does closing a Run and giving its Booking back. *)
LEMMA ReleasesRun ==
    ASSUME NEW r, NEW s, NEW t, NEW w, RunOK(s), Appended(s, t), Releases(r, s, t, w)
    PROVE  RunOK(t) /\ ~ holdsBooking(t) /\ holdsBooking(s)
<1> USE DEF Releases, SameLaunch, SameRefusal, SameBooking, Appended
<1>1. replacementEligible(t) = replacementEligible(s) /\ Replaced(t) = Replaced(s)
  BY DEF replacementEligible, Replaced
<1>2. Spent(t)
  BY <1>1 DEF RunOK, Spent
<1>3. Placed(t)
  BY <1>1 DEF RunOK, Placed, bookingQueued
<1>4. t.reclaimed => t.capacity /\ ~ nodeEnrolled(t)
  BY DEF RunOK, nodeEnrolled
<1>5. RunOK(t)
  BY <1>2, <1>3, <1>4 DEF RunOK
<1> QED BY <1>5 DEF holdsBooking

(* So does giving the Booking back to be placed again. *)
LEMMA ReplacesRun ==
    ASSUME NEW r, NEW s, NEW t, NEW w, RunOK(s), Appended(s, t), Replaces(r, s, t, w)
    PROVE  RunOK(t) /\ ~ holdsBooking(t) /\ holdsBooking(s)
<1> USE DEF Replaces, SameLaunch, SameBooking, Appended
<1>1. replacementEligible(t) /\ Replaced(t) /\ ~ Replaced(s)
  BY DEF replacementEligible, Replaced
<1>2. Spent(t)
  BY <1>1 DEF RunOK, Spent
<1>3. Placed(t)
  BY <1>1 DEF RunOK, Placed
<1>4. t.reclaimed => t.capacity /\ ~ nodeEnrolled(t)
  BY Zenon DEF RunOK, nodeEnrolled
<1>5. t.failure = "replaceable" =>
          t.attempts # 0 /\ t.intentOffer \in OneShot /\ (t.closed \/ t.attempts < MaxPreStartAttempts)
  BY DEF RunOK, replacementEligible
<1>6. RunOK(t)
  BY <1>2, <1>3, <1>4, <1>5 DEF RunOK
<1>7. holdsBooking(s)
  BY DEF holdsBooking, RunOK, Placed
<1> QED BY <1>1, <1>6, <1>7 DEF holdsBooking

(* So does a new attempt, which holds a Booking. *)
LEMMA NewAttemptRun ==
    ASSUME NEW s, NEW t, RunOK(s), Appended(s, t), NewAttempt(s, t)
    PROVE  RunOK(t) /\ holdsBooking(t) /\ t.attempts \in Attempts
<1> USE DEF NewAttempt, Appended, SameEnd
<1>1. ~ replacementEligible(t) /\ ~ Replaced(t)
  BY DEF replacementEligible, Replaced, RunOK
<1>2. Spent(t)
  <2>1. Leaves(t.attempts, t.excluded \cup {t.intentOffer})
    BY Zenon, NextAttempt DEF RunOK
  <2> QED BY <1>1, <2>1 DEF RunOK, Spent
<1>3. Placed(t)
  BY <1>1 DEF RunOK, Placed
<1>4. RunOK(t)
  BY <1>2, <1>3 DEF RunOK
<1>5. t.attempts \in Attempts
  BY Zenon, NextAttempt DEF RunOK
<1> QED BY <1>1, <1>4, <1>5 DEF holdsBooking, RunOK

(* So does queueing behind another Run, which takes a Booking. *)
LEMMA QueuesRun ==
    ASSUME NEW r, NEW s, NEW t, NEW w, RunOK(s), Appended(s, t), Queues(r, s, t, w)
    PROVE  RunOK(t) /\ holdsBooking(t) /\ ~ holdsBooking(s)
<1> USE DEF Queues, SameLaunch, SameRefusal, SameEnd, Appended
<1>1. replacementEligible(t) = replacementEligible(s) /\ Replaced(t) = Replaced(s)
  BY DEF replacementEligible, Replaced
<1>2. Spent(t)
  BY <1>1 DEF RunOK, Spent
<1>3. Placed(t)
  BY <1>1 DEF RunOK, Placed
<1>4. t.reclaimed => t.capacity /\ ~ nodeEnrolled(t)
  BY DEF RunOK, nodeEnrolled
<1>5. t.booking \in Nat /\ t.booking # 0
  BY DEF RunOK
<1>6. RunOK(t)
  BY <1>2, <1>3, <1>4, <1>5 DEF RunOK
<1>7. ~ holdsBooking(s)
  BY DEF holdsBooking, RunOK, Placed, Replaced
<1> QED BY <1>5, <1>6, <1>7 DEF holdsBooking

-----------------------------------------------------------------------------
(* What the operations on a schedule make of its Bookings. *)
LEMMA SeqFacts ==
    ASSUME NEW b, IsSeq(b)
    PROVE  /\ Len(b) \in Nat /\ DOMAIN b = 1..Len(b)
           /\ b \in Seq({b[i] : i \in DOMAIN b})
           /\ (b = <<>>) <=> (Len(b) = 0)
<1>1. Len(b) \in Nat /\ b = [i \in 1..Len(b) |-> b[i]]
  BY DEF IsSeq
<1>2. DOMAIN b = 1..Len(b)
  BY <1>1
<1>3. b \in [1..Len(b) -> {b[i] : i \in DOMAIN b}]
  BY <1>1, <1>2
<1>4. b \in Seq({b[i] : i \in DOMAIN b})
  BY <1>1, <1>3
<1> HIDE DEF IsSeq
<1> QED BY <1>1, <1>2, <1>4, ListEmpty

(* A function on 1..n is a sequence of length n. *)
LEMMA MadeSeq ==
    ASSUME NEW n \in Nat, NEW f, DOMAIN f = 1..n, f = [i \in 1..n |-> f[i]]
    PROVE  IsSeq(f) /\ Len(f) = n
<1>1. f \in Seq({f[i] : i \in 1..n})
  OBVIOUS
<1>2. Len(f) = n
  BY <1>1, ListLen
<1> QED BY <1>2 DEF IsSeq

(* Appending keeps what was there and adds one at the end. *)
LEMMA AppendSeq ==
    ASSUME NEW b, IsSeq(b), NEW x
    PROVE  /\ IsSeq(Append(b, x)) /\ Len(Append(b, x)) = Len(b) + 1
           /\ DOMAIN Append(b, x) = 1..(Len(b) + 1)
           /\ \A i \in 1..Len(b) : Append(b, x)[i] = b[i]
           /\ Append(b, x)[Len(b) + 1] = x
<1> DEFINE S == {b[i] : i \in DOMAIN b} \cup {x}
<1>1. b \in Seq(S) /\ x \in S /\ Len(b) \in Nat
  <2>1. b \in Seq({b[i] : i \in DOMAIN b}) /\ Len(b) \in Nat
    BY SeqFacts
  <2> QED BY <2>1
<1> HIDE DEF S
<1>2. /\ Append(b, x) \in Seq(S) /\ Len(Append(b, x)) = Len(b) + 1
      /\ \A i \in 1..Len(b) : Append(b, x)[i] = b[i]
      /\ Append(b, x)[Len(b) + 1] = x
  BY <1>1, ListAppend
<1>3. DOMAIN Append(b, x) = 1..(Len(b) + 1)
  BY <1>2, ListLen
<1> DEFINE c == Append(b, x)
<1>4. c = [i \in 1..Len(c) |-> c[i]]
  <2>1. c \in Seq(S)
    BY <1>2
  <2> HIDE DEF c
  <2>2. c \in [1..Len(c) -> S]
    BY <2>1, ListLen
  <2> QED BY <2>2
<1> HIDE DEF c
<1>5. IsSeq(c)
  BY <1>1, <1>2, <1>4 DEF IsSeq, c
<1> QED BY <1>2, <1>3, <1>5 DEF c

(* The schedule of a Rental nobody has booked is a schedule. *)
LEMMA NewSchedule == IsSchedule(NewRentalSchedule)
<1>1. IsSeq(<<>>)
  BY ListEmpty DEF IsSeq
<1> QED BY <1>1 DEF IsSchedule, NewRentalSchedule

(* A reservation adds its Booking behind those that are there. *)
LEMMA ReserveFacts ==
    ASSUME NEW q, IsSchedule(q), NEW req, \A i \in DOMAIN q.bookings : q.bookings[i].id # req.id
    PROVE  /\ IsSchedule(Reserve(q, req)) /\ Reserve(q, req).version = q.version + 1
           /\ Reserve(q, req).bookings # <<>>
           /\ \A id : Holds(Reserve(q, req), id) <=> Holds(q, id) \/ id = req.id
           /\ \A id : AtHead(q, id) => AtHead(Reserve(q, req), id)
           /\ q.bookings = <<>> => AtHead(Reserve(q, req), req.id)
<1> DEFINE b == q.bookings  x == bookingFor(q, req)  a == Append(b, x)  n == Reserve(q, req)
<1>1. IsSeq(b) /\ Len(b) \in Nat /\ DOMAIN b = 1..Len(b)
  BY SeqFacts DEF IsSchedule
<1>2. /\ IsSeq(a) /\ Len(a) = Len(b) + 1 /\ DOMAIN a = 1..(Len(b) + 1)
      /\ \A i \in DOMAIN b : a[i] = b[i]
      /\ a[Len(b) + 1] = x
  BY <1>1, AppendSeq
<1>3. n.bookings = a /\ n.version = q.version + 1 /\ q.version \in Nat
  BY DEF Reserve, IsSchedule
<1>4. /\ DOMAIN x = BookingFields /\ x.id = req.id
      /\ x.state = IF Len(b) = 0 THEN "running" ELSE "queued"
  <2>1. (b = <<>>) <=> (Len(b) = 0)
    BY <1>1, SeqFacts
  <2>2. x.id = req.id /\ x.state = IF b = <<>> THEN "running" ELSE "queued"
    BY DEF bookingFor
  <2>3. DOMAIN x = BookingFields
    BY DEF bookingFor, BookingFields
  <2> QED BY <2>1, <2>2, <2>3
<1>5. /\ \A i \in DOMAIN b : DOMAIN b[i] = BookingFields /\ b[i].state = IF i = 1 THEN "running" ELSE "queued"
      /\ \A i, j \in DOMAIN b : b[i].id = b[j].id => i = j
      /\ \A i \in DOMAIN b : b[i].id # req.id
  BY DEF IsSchedule
<1> HIDE DEF b, x, a, n
<1>6. \A i \in DOMAIN a : i \in DOMAIN b \/ (i = Len(b) + 1 /\ i \notin DOMAIN b)
  BY <1>1, <1>2
<1>7. \A i \in DOMAIN a : DOMAIN a[i] = BookingFields /\ a[i].state = IF i = 1 THEN "running" ELSE "queued"
  <2> TAKE i \in DOMAIN a
  <2>1. CASE i \in DOMAIN b
    BY <2>1, <1>2, <1>5
  <2>2. CASE i = Len(b) + 1
    BY <2>2, <1>1, <1>2, <1>4
  <2> QED BY <2>1, <2>2, <1>6
<1>8. \A i, j \in DOMAIN a : a[i].id = a[j].id => i = j
  BY <1>2, <1>4, <1>5, <1>6
<1>9. IsSchedule(n)
  BY <1>1, <1>2, <1>3, <1>7, <1>8 DEF IsSchedule
<1>10. \A id : Holds(n, id) <=> Holds(q, id) \/ id = req.id
  <2> TAKE id
  <2>1. (\E i \in DOMAIN a : a[i].id = id) <=> (\E i \in DOMAIN b : b[i].id = id) \/ id = req.id
    <3>1. Len(b) + 1 \in DOMAIN a /\ \A i \in DOMAIN b : i \in DOMAIN a
      BY <1>1, <1>2
    <3> QED BY <3>1, <1>2, <1>4, <1>6
  <2> QED BY <2>1, <1>3 DEF Holds, b
<1>11. \A id : AtHead(q, id) => AtHead(n, id)
  <2>1. 1 \in DOMAIN b => 1 \in DOMAIN a /\ a[1] = b[1]
    BY <1>1, <1>2
  <2> QED BY <2>1, <1>3 DEF AtHead, b
<1>12. b = <<>> => AtHead(n, req.id)
  <2>1. b = <<>> => Len(b) = 0
    BY <1>1, SeqFacts
  <2>2. b = <<>> => 1 \in DOMAIN a /\ a[1] = x
    BY <2>1, <1>2
  <2> QED BY <2>2, <1>3, <1>4 DEF AtHead
<1>13. a # <<>>
  BY <1>1, <1>2, SeqFacts
<1> QED BY <1>3, <1>9, <1>10, <1>11, <1>12, <1>13 DEF n, b

(* Dating the start of the head moves no Booking. *)
LEMMA StartedFacts ==
    ASSUME NEW q, IsSchedule(q), NEW at
    PROVE  /\ IsSchedule(Started(q, at)) /\ Started(q, at).version = q.version + 1
           /\ \A id : Holds(Started(q, at), id) <=> Holds(q, id)
           /\ \A id : AtHead(q, id) => AtHead(Started(q, at), id)
           /\ Started(q, at).bookings = <<>> <=> q.bookings = <<>>
<1> DEFINE b == q.bookings  a == [b EXCEPT ![1].startedAt = at]  n == Started(q, at)
<1>1. IsSeq(b) /\ Len(b) \in Nat /\ DOMAIN b = 1..Len(b) /\ (b = <<>> <=> Len(b) = 0)
  BY SeqFacts DEF IsSchedule
<1>2. n.bookings = a /\ n.version = q.version + 1 /\ q.version \in Nat
  BY DEF Started, IsSchedule
<1>3. /\ \A i \in DOMAIN b : DOMAIN b[i] = BookingFields /\ b[i].state = IF i = 1 THEN "running" ELSE "queued"
      /\ \A i, j \in DOMAIN b : b[i].id = b[j].id => i = j
  BY DEF IsSchedule
<1> HIDE DEF b
<1>4. DOMAIN a = DOMAIN b /\ a = [i \in 1..Len(b) |-> a[i]]
  BY Zenon, <1>1 DEF IsSeq
<1>5. ASSUME NEW i \in DOMAIN b
      PROVE  DOMAIN a[i] = DOMAIN b[i] /\ a[i].id = b[i].id /\ a[i].state = b[i].state
  <2>1. a[i] = IF i = 1 THEN [b[i] EXCEPT !.startedAt = at] ELSE b[i]
    OBVIOUS
  <2> QED BY <2>1, <1>3 DEF BookingFields
<1> HIDE DEF a, n
<1>6. IsSeq(a) /\ Len(a) = Len(b)
  BY <1>1, <1>4, MadeSeq
<1>7. IsSchedule(n)
  <2>1. \A i \in DOMAIN a : DOMAIN a[i] = BookingFields /\ a[i].state = IF i = 1 THEN "running" ELSE "queued"
    BY <1>3, <1>4, <1>5
  <2>2. \A i, j \in DOMAIN a : a[i].id = a[j].id => i = j
    BY <1>3, <1>4, <1>5
  <2>3. n.version \in Nat
    BY <1>2
  <2> QED BY Zenon, <1>2, <1>6, <2>1, <2>2, <2>3 DEF IsSchedule
<1>8. \A id : Holds(n, id) <=> Holds(q, id)
  BY Zenon, <1>2, <1>4, <1>5 DEF Holds, b
<1>9. \A id : AtHead(q, id) => AtHead(n, id)
  BY <1>2, <1>4, <1>5 DEF AtHead, b
<1>10. a = <<>> <=> b = <<>>
  BY <1>1, <1>6, SeqFacts
<1> QED BY <1>2, <1>7, <1>8, <1>9, <1>10 DEF n, b

(* A completion takes its own Booking out and leaves the head in place *)
(* otherwise.                                                          *)
LEMMA CompleteFacts ==
    ASSUME NEW q, IsSchedule(q), NEW id, Holds(q, id), NEW now
    PROVE  /\ IsSchedule(Complete(q, id, now)) /\ Complete(q, id, now).version = q.version + 1
           /\ \A x : Holds(Complete(q, id, now), x) <=> Holds(q, x) /\ x # id
           /\ \A x : AtHead(q, x) /\ x # id => AtHead(Complete(q, id, now), x)
<1> DEFINE b == q.bookings  k == bookingIndex(q, id)  m == Len(b) - 1
           u == without(q, k)  n == Complete(q, id, now)  a == n.bookings
           At(i) == IF i < k THEN i ELSE i + 1
<1>1. IsSeq(b) /\ Len(b) \in Nat /\ DOMAIN b = 1..Len(b)
  BY SeqFacts DEF IsSchedule
<1>2. /\ \A i \in DOMAIN b : DOMAIN b[i] = BookingFields
      /\ \A i, j \in DOMAIN b : b[i].id = b[j].id => i = j
      /\ q.version \in Nat
  BY DEF IsSchedule
<1>3. k \in DOMAIN b /\ b[k].id = id
  BY DEF Holds, bookingIndex
<1>4. /\ u.version = q.version + 1
      /\ DOMAIN u.bookings = 1..m /\ \A i \in 1..m : u.bookings[i] = b[At(i)]
  BY DEF without
<1>5. n.version = u.version /\ DOMAIN u = {"version", "bookings"}
  BY DEF Complete, reproject, without
<1>6. DOMAIN a = DOMAIN u.bookings /\ a = [i \in DOMAIN u.bookings |-> a[i]]
  BY <1>5 DEF Complete, reproject
<1>7. ASSUME NEW i \in DOMAIN u.bookings, DOMAIN u.bookings[i] = BookingFields
      PROVE  /\ DOMAIN a[i] = BookingFields /\ a[i].id = u.bookings[i].id
             /\ a[i].state = IF i = 1 THEN "running" ELSE "queued"
  <2>1. a[i] = [u.bookings[i] EXCEPT
                  !.version   = u.version,
                  !.state     = IF i = 1 THEN "running" ELSE "queued",
                  !.after     = IF i = 1 THEN NoBooking ELSE u.bookings[i - 1].id,
                  !.projected = IF i = 1 THEN NoTime ELSE now + ExpectedAhead(u, i - 1, now),
                  !.latest    = IF i = 1 THEN NoTime ELSE now + MaxAhead(u, i - 1, now)]
    BY <1>5 DEF Complete, reproject
  <2> QED BY <1>7, <2>1 DEF BookingFields
<1> HIDE DEF b, k, u, n, a
<1>8. m \in Nat /\ \A i \in 1..m : At(i) \in DOMAIN b /\ At(i) # k
  BY <1>1, <1>3
<1>9. \A i, j \in 1..m : At(i) = At(j) => i = j
  BY <1>1, <1>3
<1>10. \A j \in DOMAIN b : j # k => \E i \in 1..m : At(i) = j
  <2> SUFFICES ASSUME NEW j \in DOMAIN b, j # k PROVE \E i \in 1..m : At(i) = j
    OBVIOUS
  <2>1. CASE j < k
    <3>1. j \in 1..m /\ At(j) = j
      BY <2>1, <1>1, <1>3
    <3> QED BY <3>1
  <2>2. CASE j > k
    <3>1. j - 1 \in 1..m /\ At(j - 1) = j
      BY <2>2, <1>1, <1>3
    <3> QED BY <3>1
  <2> QED BY <2>1, <2>2, <1>1, <1>3
<1>11. k # 1 /\ 1 \in DOMAIN b => 1 \in 1..m /\ At(1) = 1
  BY <1>1, <1>3
<1> HIDE DEF m, At
<1>12. \A i \in 1..m : /\ DOMAIN a[i] = BookingFields /\ a[i].id = b[At(i)].id
                       /\ a[i].state = IF i = 1 THEN "running" ELSE "queued"
  BY <1>2, <1>4, <1>7, <1>8
<1>13. IsSeq(a) /\ DOMAIN a = 1..m
  BY <1>4, <1>6, <1>8, MadeSeq
<1>14. \A i, j \in 1..m : a[i].id = a[j].id => i = j
  BY <1>2, <1>8, <1>9, <1>12
<1>15. IsSchedule(n)
  BY <1>2, <1>4, <1>5, <1>12, <1>13, <1>14 DEF IsSchedule, a
<1>16. \A x : Holds(n, x) <=> Holds(q, x) /\ x # id
  <2> TAKE x
  <2>1. (\E i \in 1..m : a[i].id = x) <=> (\E j \in DOMAIN b : b[j].id = x) /\ x # id
    BY <1>2, <1>3, <1>8, <1>10, <1>12
  <2> QED BY <2>1, <1>13 DEF Holds, a, b
<1>17. \A x : AtHead(q, x) /\ x # id => AtHead(n, x)
  <2>1. ASSUME NEW x, 1 \in DOMAIN b, b[1].id = x, x # id
        PROVE  1 \in DOMAIN a /\ a[1].id = x
    BY <2>1, <1>3, <1>11, <1>12, <1>13
  <2> QED BY <2>1 DEF AtHead, a, b
<1> QED BY <1>2, <1>4, <1>5, <1>15, <1>16, <1>17 DEF n

(***************************************************************************)
(* What was done outside before a plan stays done, and the schedule a plan *)
(* was made from is the one it is committed against or has a newer         *)
(* version.                                                                *)
(***************************************************************************)
Undisturbed(x) == run[x].attempts # 0 =>
    LET k == <<x, run[x].attempts>>
    IN  /\ object[k] \notin Pending => object'[k] \notin Pending
        /\ object[k] = "refused" => object'[k] = "refused"
        /\ machine[k].state \notin Alive => machine'[k].state \notin Alive

Onward ==
    \A q \in Rentals :
        /\ schedule[q].version \in Nat /\ schedule'[q].version \in Nat
        /\ schedule'[q] = schedule[q] \/ schedule'[q].version > schedule[q].version

(* A move that was planned stays the move it was while others act. *)
LEMMA MoveStays ==
    ASSUME NEW x \in Runs, NEW s, NEW t, NEW w, RunOK(s), s = run[x],
           w.rental # NoRental => w.rental \in Rentals /\ w.base \in Nat /\ w.base <= schedule[w.rental].version,
           Undisturbed(x), Onward,
           bookingQueued(s) /\ ~ s.closed =>
              (AtHead(schedule[RentalOf(x, s)], BookingID(x, s)) =>
                   AtHead(schedule'[RentalOf(x, s)], BookingID(x, s))),
           Move(x, s, t, w)
    PROVE  Move(x, s, t, w)'
<1> DEFINE b == w.base  v == schedule[w.rental].version  u == schedule'[w.rental].version
<1>1. ASSUME w.rental # NoRental, Current(w)'
      PROVE  Current(w) /\ schedule'[w.rental] = schedule[w.rental]
  <2>1. b \in Nat /\ v \in Nat /\ u \in Nat /\ b <= v /\ u = b
    BY <1>1 DEF Onward, Current
  <2>2. schedule'[w.rental] = schedule[w.rental] \/ u > v
    BY <1>1 DEF Onward
  <2> HIDE DEF b, v, u
  <2>3. ~ (u > v)
    BY <2>1
  <2> QED BY <2>2, <2>3, <1>1 DEF Current, u, b, v
<1>2. CASE Quiet(x, s, t, w)
  <2>1. Quiet(x, s, t, w)'
    BY <1>1, <1>2 DEF Quiet, Keeps, Dates
  <2> QED BY <2>1 DEF Move
<1>3. CASE Ends(s, t, w)
  BY <1>3 DEF Move, Ends
<1>4. CASE Closes(s, t, w)
  BY <1>4 DEF Move, Closes
<1>5. CASE Releases(x, s, t, w)
  <2>1. Releases(x, s, t, w)'
    BY <1>1, <1>5 DEF Releases, Completes, Undisturbed
  <2> QED BY <2>1 DEF Move
<1>6. CASE Replaces(x, s, t, w)
  <2>1. Replaces(x, s, t, w)'
    BY <1>1, <1>6 DEF Replaces, Completes, Undisturbed
  <2> QED BY <2>1 DEF Move
<1>7. CASE Places(x, s, t, w)
  <2>1. Places(x, s, t, w)'
    BY <1>1, <1>7 DEF Places, Reserves
  <2> QED BY <2>1 DEF Move
<1>8. CASE Queues(x, s, t, w)
  <2>1. Queues(x, s, t, w)'
    BY <1>1, <1>8 DEF Queues, Reserves
  <2> QED BY <2>1 DEF Move
<1>9. CASE Dispatches(x, s, t, w)
  <2>1. ~ s.closed
    BY <1>9 DEF Dispatches, NewAttempt
  <2>2. Dispatches(x, s, t, w)'
    BY <1>9, <2>1 DEF Dispatches
  <2> QED BY <2>2 DEF Move
<1> QED BY <1>2, <1>3, <1>4, <1>5, <1>6, <1>7, <1>8, <1>9 DEF Move

(* A plan stays a good one while others act. *)
LEMMA PlanStays ==
    ASSUME NEW x \in Runs, RunOK(run[x]), PlanOK(x, worker[x]),
           run'[x] = run[x], worker'[x] = worker[x], Undisturbed(x), Onward,
           bookingQueued(run[x]) /\ ~ run[x].closed =>
              (AtHead(schedule[RentalOf(x, run[x])], BookingID(x, run[x])) =>
                   AtHead(schedule'[RentalOf(x, run[x])], BookingID(x, run[x])))
    PROVE  PlanOK(x, worker[x])'
<1>1. PICK s : s = run[x]
  OBVIOUS
<1>2. PICK w : w = worker[x]
  OBVIOUS
<1>3. PICK t : t = AppendEvents(s, w.events)
  OBVIOUS
<1>4. /\ w.version \in Nat /\ w.version <= s.version
      /\ w.rental # NoRental =>
           w.rental \in Rentals /\ w.base \in Nat /\ w.base <= schedule[w.rental].version
      /\ w.version = s.version =>
           DOMAIN t = RunFields /\ t.version = s.version + 1 /\ Move(x, s, t, w)
  BY <1>1, <1>2, <1>3 DEF PlanOK, Lands
<1>5. w.version = s.version => Move(x, s, t, w)'
  BY <1>1, <1>4, MoveStays
<1>6. w.rental # NoRental => w.base <= schedule'[w.rental].version
  <2> DEFINE b == w.base  v == schedule[w.rental].version  u == schedule'[w.rental].version
  <2> SUFFICES ASSUME w.rental # NoRental PROVE b <= u
    OBVIOUS
  <2>1. b \in Nat /\ v \in Nat /\ u \in Nat /\ b <= v /\ (u = v \/ u > v)
    BY <1>4 DEF Onward
  <2> HIDE DEF b, v, u
  <2> QED BY <2>1
<1>7. run'[x] = s /\ worker'[x] = w
  BY <1>1, <1>2
<1> QED BY <1>3, <1>4, <1>5, <1>6, <1>7 DEF PlanOK, Lands

\* The objects and machines a step of Run r may touch.
Touches(r) ==
    \A k \in LaunchKeys : k[1] # r => object'[k] = object[k] /\ machine'[k] = machine[k]

(* A step that touches only Run r leaves the objects of another Run alone. *)
LEMMA OtherKeys ==
    ASSUME NEW r \in Runs, Touches(r), NEW x \in Runs, x # r, NEW i \in Attempts
    PROVE  object'[<<x, i>>] = object[<<x, i>>] /\ machine'[<<x, i>>] = machine[<<x, i>>]
<1>1. <<x, i>> \in LaunchKeys /\ <<x, i>>[1] # r
  BY DEF LaunchKeys
<1> QED BY <1>1 DEF Touches

(* Such a step keeps what is known of another Run's objects and machines. *)
LEMMA OthersKeep ==
    ASSUME NEW r \in Runs, Touches(r), NEW x \in Runs, x # r, run'[x] = run[x], RunOK(run[x]),
           ObjectsOK(x, run[x]), MachinesOK(x, run[x])
    PROVE  ObjectsOK(x, run[x])' /\ MachinesOK(x, run[x])'
<1>1. PICK s : s = run[x]
  OBVIOUS
<1>2. s.attempts # 0 => s.attempts \in Attempts
  BY <1>1, AttemptsBounded
<1>3. ObjectsOK(x, s)'
  BY <1>1, <1>2, OtherKeys DEF ObjectsOK
<1>4. MachinesOK(x, s)'
  BY <1>1, OtherKeys DEF MachinesOK
<1> QED BY <1>1, <1>3, <1>4

(* A Run to be placed holds no Booking. *)
LEMMA NotHolding ==
    ASSUME NEW s, RunOK(s), ~ bookingQueued(s), Replaced(s)
    PROVE  ~ holdsBooking(s)
BY DEF RunOK, Placed, Replaced, holdsBooking

-----------------------------------------------------------------------------
(***************************************************************************)
(* Committing.  What a commit of Run r makes of the schedule of Rental q:  *)
(* only r's own Booking comes, goes or is dated, and it is there exactly   *)
(* when the Run holds it.                                                  *)
(***************************************************************************)
Tracks(r, q, n, s, t) ==
    /\ IsSchedule(n) /\ n.version = schedule[q].version + 1
    /\ holdsBooking(s) => RentalOf(r, s) = q
    /\ \A id : (\A b : id # <<r, b>>) =>
          /\ Holds(n, id) <=> Holds(schedule[q], id)
          /\ AtHead(schedule[q], id) => AtHead(n, id)
    /\ \A b : Holds(n, <<r, b>>) => b = t.booking /\ holdsBooking(t) /\ RentalOf(r, t) = q
    /\ holdsBooking(t) =>
          /\ RentalOf(r, t) = q /\ Holds(n, BookingID(r, t))
          /\ ~ bookingQueued(t) => AtHead(n, BookingID(r, t))

\* Nobody else's Booking is disturbed.
Aside(r) ==
    \A x \in Runs : x # r /\ bookingQueued(run[x]) /\ ~ run[x].closed =>
        (AtHead(schedule[RentalOf(x, run[x])], BookingID(x, run[x])) =>
             AtHead(schedule'[RentalOf(x, run[x])], BookingID(x, run[x])))

\* A commit of Run r as its schedule sees it.
Posted(r) == DOMAIN schedule' = Rentals /\ SchedulesOK' /\ Onward /\ Aside(r)

(* A holder of Run r's Booking b is r, and b is the Booking it holds. *)
LEMMA HolderOf ==
    ASSUME NEW q, NEW r, NEW b, Holder(q, <<r, b>>)
    PROVE  b = run[r].booking /\ holdsBooking(run[r]) /\ RentalOf(r, run[r]) = q
<1>1. PICK x \in Runs : <<r, b>> = <<x, run[x].booking>> /\ holdsBooking(run[x]) /\ RentalOf(x, run[x]) = q
  BY DEF Holder, BookingID
<1>2. x = r /\ b = run[x].booking
  BY <1>1
<1> QED BY <1>1, <1>2

(* A commit that tracks its Run keeps the schedules right and disturbs *)
(* nobody else.                                                        *)
LEMMA ScheduleStep ==
    ASSUME IInv, NEW r \in Runs, NEW s, s = run[r], NEW t, run' = [run EXCEPT ![r] = t],
           NEW q \in Rentals, NEW n, schedule' = [schedule EXCEPT ![q] = n], Tracks(r, q, n, s, t)
    PROVE  Posted(r)
<1>1. /\ DOMAIN run = Runs /\ DOMAIN schedule = Rentals
      /\ run'[r] = t /\ \A x \in Runs : x # r => run'[x] = run[x]
      /\ schedule'[q] = n /\ \A p \in Rentals : p # q => schedule'[p] = schedule[p]
      /\ DOMAIN schedule' = Rentals
  BY DEF IInv, Shape
<1>2. /\ \A p \in Rentals : IsSchedule(schedule[p])
      /\ \A p \in Rentals : \A id : Holds(schedule[p], id) => Holder(p, id)
      /\ \A x \in Runs : holdsBooking(run[x]) =>
          /\ Holds(schedule[RentalOf(x, run[x])], BookingID(x, run[x]))
          /\ ~ bookingQueued(run[x]) => AtHead(schedule[RentalOf(x, run[x])], BookingID(x, run[x]))
  <2>1. \A p \in Rentals : \A id : Holds(schedule[p], id) => Holder(p, id)
    BY DEF IInv, SchedulesOK, Holds
  <2> QED BY <2>1 DEF IInv, SchedulesOK
<1>3. \A p \in Rentals : IsSchedule(schedule'[p])
  BY <1>1, <1>2 DEF Tracks
<1>4. ASSUME NEW p \in Rentals, NEW id, Holds(schedule'[p], id) PROVE Holder(p, id)'
  <2>1. CASE p # q
    <3>1. Holder(p, id)
      BY <2>1, <1>1, <1>2, <1>4
    <3>2. PICK x \in Runs : id = BookingID(x, run[x]) /\ holdsBooking(run[x]) /\ RentalOf(x, run[x]) = p
      BY <3>1 DEF Holder
    <3>3. x # r
      BY <3>2, <2>1 DEF Tracks
    <3> QED BY <3>2, <3>3, <1>1 DEF Holder
  <2>2. CASE p = q /\ \E b : id = <<r, b>>
    <3>1. PICK b : id = <<r, b>>
      BY <2>2
    <3>2. b = t.booking /\ holdsBooking(t) /\ RentalOf(r, t) = q
      BY <1>1, <1>4, <2>2, <3>1 DEF Tracks
    <3> QED BY <1>1, <2>2, <3>1, <3>2 DEF Holder, BookingID
  <2>3. CASE p = q /\ \A b : id # <<r, b>>
    <3>1. Holder(p, id)
      BY <2>3, <1>1, <1>2, <1>4 DEF Tracks
    <3>2. PICK x \in Runs : id = BookingID(x, run[x]) /\ holdsBooking(run[x]) /\ RentalOf(x, run[x]) = p
      BY <3>1 DEF Holder
    <3>3. x # r
      BY <3>2, <2>3 DEF BookingID
    <3> QED BY <3>2, <3>3, <1>1 DEF Holder
  <2> QED BY <2>1, <2>2, <2>3
<1>5. ASSUME NEW x \in Runs, x # r
      PROVE  /\ \A b : <<x, run[x].booking>> # <<r, b>>
             /\ AtHead(schedule[RentalOf(x, run[x])], BookingID(x, run[x])) =>
                  \/ RentalOf(x, run[x]) \notin Rentals
                  \/ AtHead(schedule'[RentalOf(x, run[x])], BookingID(x, run[x]))
             /\ Holds(schedule[RentalOf(x, run[x])], BookingID(x, run[x])) =>
                  \/ RentalOf(x, run[x]) \notin Rentals
                  \/ Holds(schedule'[RentalOf(x, run[x])], BookingID(x, run[x]))
  <2>1. \A b : <<x, run[x].booking>> # <<r, b>>
    BY <1>5
  <2> QED BY <2>1, <1>1 DEF Tracks, BookingID
<1>6. \A x \in Runs : run[x].booking # 0 /\ ~ run[x].closed => RentalOf(x, run[x]) \in Rentals
  BY BookingNames DEF IInv
<1>7. ASSUME NEW x \in Runs, holdsBooking(run[x])'
      PROVE  /\ Holds(schedule[RentalOf(x, run[x])], BookingID(x, run[x]))'
             /\ ~ bookingQueued(run[x])' => AtHead(schedule[RentalOf(x, run[x])], BookingID(x, run[x]))'
  <2>1. CASE x = r
    BY <2>1, <1>1, <1>7 DEF Tracks
  <2>2. CASE x # r
    <3>1. run'[x] = run[x] /\ holdsBooking(run[x]) /\ RentalOf(x, run[x]) \in Rentals
      BY <2>2, <1>1, <1>6, <1>7 DEF holdsBooking
    <3> QED BY <3>1, <2>2, <1>2, <1>5
  <2> QED BY <2>1, <2>2
<1>8. SchedulesOK'
  BY <1>3, <1>4, <1>7 DEF SchedulesOK, Holds
<1>9. Onward
  <2>1. schedule[q].version \in Nat /\ n.version = schedule[q].version + 1
    BY <1>2 DEF IsSchedule, Tracks
  <2>2. n.version > schedule[q].version
    BY <2>1
  <2>3. \A p \in Rentals : schedule[p].version \in Nat /\ schedule'[p].version \in Nat
    BY <1>2, <1>3 DEF IsSchedule
  <2> QED BY <1>1, <2>2, <2>3 DEF Onward
<1>10. Aside(r)
  BY <1>5, <1>6 DEF Aside, bookingQueued
<1> QED BY <1>1, <1>8, <1>9, <1>10 DEF Posted

\* A commit that leaves every schedule alone.
Unmoved(r, s, t) ==
    /\ holdsBooking(t) <=> holdsBooking(s)
    /\ holdsBooking(s) => t.booking = s.booking /\ RentalOf(r, t) = RentalOf(r, s)
    /\ holdsBooking(t) /\ ~ bookingQueued(t) => AtHead(schedule[RentalOf(r, t)], BookingID(r, t))

(* So does a commit that leaves the schedules alone. *)
LEMMA ScheduleSame ==
    ASSUME IInv, NEW r \in Runs, NEW s, s = run[r], NEW t, run' = [run EXCEPT ![r] = t],
           schedule' = schedule, Unmoved(r, s, t)
    PROVE  Posted(r)
<1>1. /\ DOMAIN run = Runs /\ DOMAIN schedule' = Rentals
      /\ run'[r] = t /\ \A x \in Runs : x # r => run'[x] = run[x]
  BY DEF IInv, Shape
<1>2. ASSUME NEW p, NEW id, Holder(p, id) PROVE Holder(p, id)'
  <2>1. PICK x \in Runs : id = BookingID(x, run[x]) /\ holdsBooking(run[x]) /\ RentalOf(x, run[x]) = p
    BY <1>2 DEF Holder
  <2>2. id = BookingID(x, run'[x]) /\ holdsBooking(run'[x]) /\ RentalOf(x, run'[x]) = p
    BY <2>1, <1>1 DEF Unmoved, BookingID
  <2> QED BY <2>2 DEF Holder
<1>3. ASSUME NEW x \in Runs, holdsBooking(run[x])'
      PROVE  /\ Holds(schedule[RentalOf(x, run[x])], BookingID(x, run[x]))'
             /\ ~ bookingQueued(run[x])' => AtHead(schedule[RentalOf(x, run[x])], BookingID(x, run[x]))'
  <2>1. CASE x = r
    BY Zenon, <2>1, <1>1, <1>3 DEF IInv, SchedulesOK, Unmoved, BookingID
  <2>2. CASE x # r
    BY <2>2, <1>1, <1>3 DEF IInv, SchedulesOK
  <2> QED BY <2>1, <2>2
<1>4. SchedulesOK'
  BY <1>2, <1>3 DEF IInv, SchedulesOK
<1>5. Onward /\ Aside(r)
  BY DEF IInv, SchedulesOK, IsSchedule, Onward, Aside
<1> QED BY <1>1, <1>4, <1>5 DEF Posted

(* A step that appends to Run r. *)
LEMMA RunStep ==
    ASSUME IInv, NEW r \in Runs, NEW s, s = run[r], NEW t, run' = [run EXCEPT ![r] = t],
           Appended(s, t), RunOK(t), ObjectsOK(r, t), MachinesOK(r, t), Posted(r),
           object' = object, machine' = machine,
           DOMAIN worker' = Runs, \A x \in Runs : x # r => worker'[x] = worker[x],
           worker'[r] \in {worker[r], NoPlan}
    PROVE  IInv'
<1>1. /\ DOMAIN run' = Runs /\ run'[r] = t /\ \A x \in Runs : x # r => run'[x] = run[x]
      /\ RunOK(s) /\ t.version = s.version + 1 /\ s.version \in Nat
  BY DEF IInv, Shape, RunOK, Appended
<1>2. Shape'
  BY <1>1 DEF IInv, Shape, Posted
<1>3. \A x \in Runs : RunOK(run[x])'
  BY <1>1 DEF IInv
<1>4. Touches(r)
  BY DEF Touches
<1>5. ASSUME NEW x \in Runs PROVE ObjectsOK(x, run[x])' /\ MachinesOK(x, run[x])'
  <2>1. CASE x = r
    BY <2>1, <1>1 DEF ObjectsOK, MachinesOK
  <2>2. CASE x # r
    <3>1. run'[x] = run[x] /\ RunOK(run[x]) /\ ObjectsOK(x, run[x]) /\ MachinesOK(x, run[x])
      BY <2>2, <1>1 DEF IInv
    <3> QED BY Zenon, <2>2, <3>1, <1>4, OthersKeep
  <2> QED BY <2>1, <2>2
<1>6. SchedulesOK' /\ Onward /\ Aside(r)
  BY DEF Posted
<1>7. ASSUME NEW x \in Runs, worker'[x] # NoPlan PROVE PlanOK(x, worker[x])'
  <2>1. CASE x = r
    <3>1. PICK w : w = worker[r]
      OBVIOUS
    <3>2. worker'[r] = w /\ PlanOK(r, w)
      BY <2>1, <1>7, <3>1 DEF IInv
    <3>3. /\ w.version \in Nat /\ w.version <= s.version
          /\ w.rental # NoRental =>
               w.rental \in Rentals /\ w.base \in Nat /\ w.base <= schedule[w.rental].version
      BY <3>2 DEF PlanOK
    <3>4. w.version <= t.version /\ w.version # t.version
      <4> DEFINE a == w.version  b == s.version  c == t.version
      <4>1. a \in Nat /\ b \in Nat /\ a <= b /\ c = b + 1
        BY <1>1, <3>3
      <4> HIDE DEF a, b, c
      <4>2. a <= c /\ a # c
        BY <4>1
      <4> QED BY <4>2 DEF a, c
    <3>5. w.rental # NoRental => w.base <= schedule'[w.rental].version
      <4> DEFINE b == w.base  v == schedule[w.rental].version  u == schedule'[w.rental].version
      <4> SUFFICES ASSUME w.rental # NoRental PROVE b <= u
        OBVIOUS
      <4>1. b \in Nat /\ v \in Nat /\ u \in Nat /\ b <= v /\ (u = v \/ u > v)
        BY <3>3, <1>6 DEF Onward
      <4> HIDE DEF b, v, u
      <4> QED BY <4>1
    <3> QED BY <1>1, <2>1, <3>2, <3>3, <3>4, <3>5 DEF PlanOK
  <2>2. CASE x # r
    <3>1. worker'[x] = worker[x] /\ RunOK(run[x]) /\ run'[x] = run[x]
      BY <2>2, <1>1 DEF IInv
    <3>2. PlanOK(x, worker[x])
      BY <3>1, <1>7 DEF IInv
    <3>3. Undisturbed(x)
      BY DEF Undisturbed
    <3>4. bookingQueued(run[x]) /\ ~ run[x].closed =>
              (AtHead(schedule[RentalOf(x, run[x])], BookingID(x, run[x])) =>
                   AtHead(schedule'[RentalOf(x, run[x])], BookingID(x, run[x])))
      BY <2>2, <1>6 DEF Aside
    <3> QED BY <3>1, <3>2, <3>3, <3>4, <1>6, PlanStays
  <2> QED BY <2>1, <2>2
<1> QED BY <1>2, <1>3, <1>5, <1>6, <1>7 DEF IInv

(***************************************************************************)
(* Every move agrees with what is outside.                                 *)
(***************************************************************************)
Agrees(r, t) == ObjectsOK(r, t) /\ MachinesOK(r, t)

(* Recording progress agrees with it. *)
LEMMA QuietAgrees ==
    ASSUME NEW r, NEW s, NEW t, NEW w, Agrees(r, s), Quiet(r, s, t, w)
    PROVE  Agrees(r, t)
<1>1. /\ replacementEligible(t) = replacementEligible(s) /\ (~ nodeEnrolled(t) => ~ nodeEnrolled(s))
      /\ SameLaunch(s, t) /\ SameEnd(s, t) /\ s.failure \in {"none", t.failure}
  BY DEF Quiet, SameRefusal, replacementEligible, nodeEnrolled
<1>2. ObjectsOK(r, t)
  BY <1>1 DEF Agrees, ObjectsOK, SameLaunch, SameEnd
<1>3. MachinesOK(r, t)
  BY <1>1 DEF Agrees, MachinesOK, SameLaunch
<1> QED BY <1>2, <1>3 DEF Agrees

(* So does asking for a cleanup. *)
LEMMA EndsAgrees ==
    ASSUME NEW r, NEW s, NEW t, NEW w, Agrees(r, s), Ends(s, t, w)
    PROVE  Agrees(r, t)
<1>1. /\ replacementEligible(t) = replacementEligible(s) /\ SameLaunch(s, t)
      /\ t.cleanupRequested /\ ~ t.closed
  BY DEF Ends, SameRefusal, replacementEligible
<1>2. ObjectsOK(r, t)
  BY <1>1 DEF Agrees, ObjectsOK, SameLaunch
<1>3. MachinesOK(r, t)
  BY <1>1 DEF Agrees, MachinesOK, SameLaunch
<1> QED BY <1>2, <1>3 DEF Agrees

(* So does closing a Run that launched nothing. *)
LEMMA ClosesAgrees ==
    ASSUME NEW r, NEW s, NEW t, NEW w, Agrees(r, s), Closes(s, t, w)
    PROVE  Agrees(r, t)
<1>1. /\ replacementEligible(t) = replacementEligible(s) /\ SameLaunch(s, t)
      /\ t.closed /\ (s.attempts # 0 => replacementEligible(s))
  BY DEF Closes, SameRefusal, replacementEligible, Replaced
<1>2. ObjectsOK(r, t)
  BY <1>1 DEF Agrees, ObjectsOK, SameLaunch, Pending, Outstanding, Ended, Exited
<1>3. MachinesOK(r, t)
  BY <1>1 DEF Agrees, MachinesOK, SameLaunch
<1> QED BY <1>2, <1>3 DEF Agrees

(* So does closing a Run whose release was confirmed. *)
LEMMA ReleasesAgrees ==
    ASSUME NEW r, NEW s, NEW t, NEW w, Agrees(r, s), Releases(r, s, t, w)
    PROVE  Agrees(r, t)
<1>1. /\ replacementEligible(t) = replacementEligible(s) /\ SameLaunch(s, t)
      /\ t.closed
      /\ s.attempts # 0 => object[<<r, s.attempts>>] \notin Pending \/ t.failure = "rejected"
  BY DEF Releases, SameRefusal, replacementEligible
<1>2. ObjectsOK(r, t)
  BY <1>1 DEF Agrees, ObjectsOK, SameLaunch
<1>3. MachinesOK(r, t)
  BY <1>1 DEF Agrees, MachinesOK, SameLaunch
<1> QED BY <1>2, <1>3 DEF Agrees

(* So does giving an attempt up that created nothing. *)
LEMMA ReplacesAgrees ==
    ASSUME NEW r, NEW s, NEW t, NEW w, RunOK(s), Agrees(r, s), Replaces(r, s, t, w)
    PROVE  Agrees(r, t)
<1>1. /\ SameLaunch(s, t) /\ s.attempts # 0 /\ ~ s.closed /\ ~ s.cleanupRequested
      /\ t.cleanupRequested = s.cleanupRequested /\ nodeEnrolled(t) = nodeEnrolled(s)
  BY DEF Replaces, nodeEnrolled
<1>2. CASE /\ s.capacity /\ ~ nodeEnrolled(s)
           /\ machine[<<r, s.attempts>>].state \notin Alive
  <2>1. object[<<r, s.attempts>>] = "none"
    BY <1>1, <1>2 DEF Agrees, ObjectsOK
  <2>2. ObjectsOK(r, t)
    BY <1>1, <2>1 DEF Agrees, ObjectsOK, SameLaunch, Unlaunched, Pending, Outstanding, Ended, Exited
  <2>3. MachinesOK(r, t)
    BY <1>1, <1>2 DEF Agrees, MachinesOK, SameLaunch
  <2> QED BY <2>2, <2>3 DEF Agrees
<1>3. CASE /\ s.intentOffer \in OneShot /\ object[<<r, s.attempts>>] = "refused"
           /\ t.closed \/ s.attempts < MaxPreStartAttempts
  <2>1. ~ s.capacity
    BY <1>3, OffersAssumption DEF RunOK
  <2>2. ObjectsOK(r, t)
    BY <1>1, <1>3, <2>1 DEF Agrees, ObjectsOK, SameLaunch, Unlaunched, Pending, Outstanding, Ended, Exited
  <2>3. MachinesOK(r, t)
    BY <2>1, <1>1 DEF Agrees, MachinesOK, SameLaunch
  <2> QED BY <2>2, <2>3 DEF Agrees
<1> QED BY <1>2, <1>3 DEF Replaces

(* So does a new attempt, of which nothing exists yet. *)
LEMMA NewAttemptAgrees ==
    ASSUME NEW r, NEW s, NEW t, RunOK(s), Agrees(r, s), NewAttempt(s, t), t.attempts \in Attempts
    PROVE  Agrees(r, t)
<1>1. /\ ~ s.closed /\ ~ s.cleanupRequested /\ Replaced(s) /\ t.attempts = s.attempts + 1
      /\ ~ replacementEligible(t) /\ ~ t.closed /\ s.attempts \in Nat
  BY DEF NewAttempt, SameEnd, replacementEligible, RunOK
<1>2. s.attempts # 0 => Unlaunched(object[<<r, s.attempts>>], s.attempts)
  BY <1>1 DEF Agrees, ObjectsOK, Replaced
<1>3. ASSUME NEW i \in Attempts, i # s.attempts
      PROVE  Unlaunched(object[<<r, i>>], i) /\ (object[<<r, i>>] # "none" => i < s.attempts)
  BY <1>3 DEF Agrees, ObjectsOK
<1>4. object[<<r, t.attempts>>] = "none"
  <2>1. t.attempts # s.attempts /\ ~ (t.attempts < s.attempts)
    BY <1>1
  <2> QED BY <2>1, <1>3
<1>5. \A i \in Attempts : i # t.attempts =>
          /\ Unlaunched(object[<<r, i>>], i)
          /\ object[<<r, i>>] # "none" => i < t.attempts
  <2> SUFFICES ASSUME NEW i \in Attempts, i # t.attempts
               PROVE  /\ Unlaunched(object[<<r, i>>], i)
                      /\ object[<<r, i>>] # "none" => i < t.attempts
    OBVIOUS
  <2>1. i \in Nat /\ i # 0
    BY DEF Attempts
  <2>2. CASE i = s.attempts
    BY <2>1, <2>2, <1>1, <1>2
  <2>3. CASE i # s.attempts
    <3>1. Unlaunched(object[<<r, i>>], i) /\ (object[<<r, i>>] # "none" => i < s.attempts)
      BY <2>3, <1>3
    <3> QED BY <3>1, <2>1, <1>1
  <2> QED BY <2>2, <2>3
<1>6. ObjectsOK(r, t)
  BY <1>1, <1>4, <1>5 DEF ObjectsOK
<1>7. MachinesOK(r, t)
  <2>1. \A i \in Attempts : machine[<<r, i>>].state \notin Alive
    BY <1>1 DEF Agrees, MachinesOK, Replaced, Attempts
  <2> QED BY <2>1 DEF MachinesOK
<1> QED BY <1>6, <1>7 DEF Agrees

(* So does queueing. *)
LEMMA QueuesAgrees ==
    ASSUME NEW r, NEW s, NEW t, NEW w, Agrees(r, s), Queues(r, s, t, w)
    PROVE  Agrees(r, t)
<1>1. /\ replacementEligible(t) = replacementEligible(s) /\ nodeEnrolled(t) = nodeEnrolled(s)
      /\ SameLaunch(s, t) /\ SameEnd(s, t) /\ ~ s.closed
  BY DEF Queues, SameRefusal, replacementEligible, nodeEnrolled
<1>2. ObjectsOK(r, t)
  BY <1>1 DEF Agrees, ObjectsOK, SameLaunch, SameEnd
<1>3. MachinesOK(r, t)
  BY <1>1 DEF Agrees, MachinesOK, SameLaunch
<1> QED BY <1>2, <1>3 DEF Agrees

(* A Run's Bookings on a schedule: the one it holds, if it is there. *)
LEMMA OwnBookings ==
    ASSUME IInv, NEW r \in Runs, NEW s, s = run[r], NEW q \in Rentals
    PROVE  /\ IsSchedule(schedule[q])
           /\ \A b : Holds(schedule[q], <<r, b>>) => b = s.booking /\ holdsBooking(s) /\ RentalOf(r, s) = q
           /\ holdsBooking(s) /\ RentalOf(r, s) = q =>
                /\ Holds(schedule[q], BookingID(r, s))
                /\ ~ bookingQueued(s) => AtHead(schedule[q], BookingID(r, s))
<1>1. \A id : Holds(schedule[q], id) => Holder(q, id)
  BY DEF IInv, SchedulesOK, Holds
<1>2. ASSUME NEW b, Holds(schedule[q], <<r, b>>)
      PROVE  b = s.booking /\ holdsBooking(s) /\ RentalOf(r, s) = q
  <2>1. Holder(q, <<r, b>>)
    BY <1>1, <1>2
  <2> QED BY <2>1, HolderOf
<1> QED BY <1>2 DEF IInv, SchedulesOK

(* Dating the start of its Booking tracks the Run. *)
LEMMA DatesTracks ==
    ASSUME IInv, NEW r \in Runs, NEW s, s = run[r], NEW t, NEW q \in Rentals, q = RentalOf(r, s),
           holdsBooking(s), holdsBooking(t), SameBooking(s, t),
           NEW n, n = Started(schedule[q], 0)
    PROVE  Tracks(r, q, n, s, t)
<1>1. s.booking # 0 /\ t.booking = s.booking /\ t.offer = s.offer /\ bookingQueued(t) = bookingQueued(s)
  BY DEF SameBooking, holdsBooking
<1>2. BookingID(r, t) = BookingID(r, s) /\ RentalOf(r, t) = q
  BY <1>1 DEF BookingID, RentalOf
<1>3. /\ IsSchedule(schedule[q])
      /\ \A b : Holds(schedule[q], <<r, b>>) => b = s.booking
      /\ Holds(schedule[q], BookingID(r, s))
      /\ ~ bookingQueued(s) => AtHead(schedule[q], BookingID(r, s))
  BY OwnBookings
<1>4. /\ IsSchedule(n) /\ n.version = schedule[q].version + 1
      /\ \A id : Holds(n, id) <=> Holds(schedule[q], id)
      /\ \A id : AtHead(schedule[q], id) => AtHead(n, id)
  BY <1>3, StartedFacts
<1> QED BY <1>1, <1>2, <1>3, <1>4 DEF Tracks

(* Completing its Booking tracks a Run that stops holding one. *)
LEMMA CompletesTracks ==
    ASSUME IInv, NEW r \in Runs, NEW s, s = run[r], NEW t, NEW q \in Rentals, q = RentalOf(r, s),
           holdsBooking(s), ~ holdsBooking(t),
           NEW n, n = Complete(schedule[q], BookingID(r, s), 0)
    PROVE  Tracks(r, q, n, s, t)
<1>1. /\ IsSchedule(schedule[q])
      /\ \A b : Holds(schedule[q], <<r, b>>) => <<r, b>> = BookingID(r, s)
      /\ Holds(schedule[q], BookingID(r, s))
  BY OwnBookings DEF BookingID
<1>2. PICK own : own = BookingID(r, s)
  BY Zenon
<1>3. n = Complete(schedule[q], own, 0) /\ Holds(schedule[q], own)
  BY Zenon, <1>1, <1>2
<1>4. /\ IsSchedule(n) /\ n.version = schedule[q].version + 1
      /\ \A x : Holds(n, x) <=> Holds(schedule[q], x) /\ x # own
      /\ \A x : AtHead(schedule[q], x) /\ x # own => AtHead(n, x)
  BY <1>1, <1>3, CompleteFacts
<1>5. own = <<r, s.booking>>
  BY <1>2 DEF BookingID
<1> QED BY <1>1, <1>2, <1>4, <1>5 DEF Tracks

(* Reserving a Booking tracks a Run that starts holding one. *)
LEMMA ReservesTracks ==
    ASSUME IInv, NEW r \in Runs, NEW s, s = run[r], NEW t, NEW q \in Rentals, q = RentalOf(r, t),
           ~ holdsBooking(s), holdsBooking(t),
           ~ bookingQueued(t) => schedule[q].bookings = <<>>,
           NEW n, n = Reserve(schedule[q], bookingRequest(r, t.booking))
    PROVE  Tracks(r, q, n, s, t)
<1>1. /\ IsSchedule(schedule[q])
      /\ \A b : ~ Holds(schedule[q], <<r, b>>)
  BY OwnBookings
<1>2. PICK req : req = bookingRequest(r, t.booking)
  BY Zenon
<1>3. req.id = <<r, t.booking>>
  BY <1>2 DEF bookingRequest
<1>4. \A i \in DOMAIN schedule[q].bookings : schedule[q].bookings[i].id # req.id
  BY <1>1, <1>3 DEF Holds
<1>5. n = Reserve(schedule[q], req)
  BY Zenon, <1>2
<1>6. /\ IsSchedule(n) /\ n.version = schedule[q].version + 1
      /\ \A id : Holds(n, id) <=> Holds(schedule[q], id) \/ id = req.id
      /\ \A id : AtHead(schedule[q], id) => AtHead(n, id)
      /\ schedule[q].bookings = <<>> => AtHead(n, req.id)
  BY <1>1, <1>4, <1>5, ReserveFacts
<1> QED BY <1>1, <1>3, <1>6 DEF Tracks, BookingID

(* A move that leaves the schedules alone. *)
LEMMA SameUnmoved ==
    ASSUME IInv, NEW r \in Runs, NEW s, s = run[r], NEW t,
           holdsBooking(t) = holdsBooking(s), SameBooking(s, t)
    PROVE  Unmoved(r, s, t)
<1>1. CASE holdsBooking(s)
  <2>1. s.booking # 0 /\ t.booking = s.booking /\ t.offer = s.offer /\ bookingQueued(t) = bookingQueued(s)
    BY <1>1 DEF SameBooking, holdsBooking
  <2>2. BookingID(r, t) = BookingID(r, s) /\ RentalOf(r, t) = RentalOf(r, s)
    BY <2>1 DEF BookingID, RentalOf
  <2>3. ~ bookingQueued(s) => AtHead(schedule[RentalOf(r, s)], BookingID(r, s))
    BY <1>1 DEF IInv, SchedulesOK
  <2> QED BY <2>1, <2>2, <2>3 DEF Unmoved
<1>2. CASE ~ holdsBooking(s)
  BY <1>2 DEF Unmoved
<1> QED BY <1>1, <1>2

(* A dispatch finds the Booking at the head, where it stays. *)
LEMMA DispatchesUnmoved ==
    ASSUME IInv, NEW r \in Runs, NEW s, s = run[r], NEW t, NEW w,
           Dispatches(r, s, t, w), holdsBooking(t)
    PROVE  Unmoved(r, s, t)
<1>1. /\ ~ s.closed /\ bookingQueued(s) /\ t.offer = s.offer /\ t.booking = s.attempts + 1
      /\ AtHead(schedule[RentalOf(r, s)], BookingID(r, s))
  BY DEF Dispatches, NewAttempt
<1>2. s.booking = s.attempts + 1 /\ holdsBooking(s)
  BY <1>1 DEF IInv, RunOK, Placed, bookingQueued, holdsBooking
<1>3. BookingID(r, t) = BookingID(r, s) /\ RentalOf(r, t) = RentalOf(r, s) /\ t.booking = s.booking
  BY <1>1, <1>2 DEF BookingID, RentalOf
<1> QED BY <1>1, <1>2, <1>3 DEF Unmoved

(* Every move, committed, leaves the Run, its objects and the schedules *)
(* right.                                                               *)
LEMMA CommitMove ==
    ASSUME IInv, NEW r \in Runs, NEW s, s = run[r], NEW t, NEW w, Appended(s, t), Move(r, s, t, w),
           run' = [run EXCEPT ![r] = t],
           w.rental = NoRental => schedule' = schedule,
           w.rental # NoRental =>
              w.rental \in Rentals /\ Current(w) /\ schedule' = [schedule EXCEPT ![w.rental] = w.next]
    PROVE  RunOK(t) /\ Agrees(r, t) /\ Posted(r)
<1>1. RunOK(s) /\ Agrees(r, s)
  BY DEF IInv, Agrees
<1>2. CASE Quiet(r, s, t, w)
  <2>1. RunOK(t) /\ holdsBooking(t) = holdsBooking(s)
    BY Zenon, <1>1, <1>2, QuietRun
  <2>2. Agrees(r, t)
    BY Zenon, <1>1, <1>2, QuietAgrees
  <2>3. SameBooking(s, t)
    BY <1>2 DEF Quiet
  <2>4. CASE Keeps(w)
    <3>1. schedule' = schedule
      BY <2>4 DEF Keeps
    <3>2. Unmoved(r, s, t)
      BY Zenon, <2>1, <2>3, SameUnmoved
    <3>3. Posted(r)
      BY Zenon, <3>1, <3>2, ScheduleSame
    <3> QED BY <2>1, <2>2, <3>3
  <2>5. CASE Dates(r, s, w)
    <3>1. PICK q : q = RentalOf(r, s)
      BY Zenon
    <3>2. /\ w.rental = q /\ q \in Rentals /\ holdsBooking(s) /\ w.next = Started(schedule[q], 0)
          /\ schedule' = [schedule EXCEPT ![q] = w.next]
      BY <2>5, <3>1 DEF Dates
    <3>3. PICK n : n = w.next
      OBVIOUS
    <3>4. Tracks(r, q, n, s, t)
      BY Zenon, <2>1, <2>3, <3>1, <3>2, <3>3, DatesTracks
    <3>5. Posted(r)
      BY Zenon, <3>2, <3>3, <3>4, ScheduleStep
    <3> QED BY <2>1, <2>2, <3>5
  <2> QED BY <1>2, <2>4, <2>5 DEF Quiet
<1>3. CASE Ends(s, t, w)
  <2>1. RunOK(t) /\ holdsBooking(t) = holdsBooking(s)
    BY Zenon, <1>1, <1>3, EndsRun
  <2>2. Agrees(r, t)
    BY Zenon, <1>1, <1>3, EndsAgrees
  <2>3. SameBooking(s, t) /\ schedule' = schedule
    BY <1>3 DEF Ends, Keeps
  <2>4. Unmoved(r, s, t)
    BY Zenon, <2>1, <2>3, SameUnmoved
  <2>5. Posted(r)
    BY Zenon, <2>3, <2>4, ScheduleSame
  <2> QED BY <2>1, <2>2, <2>5
<1>4. CASE Closes(s, t, w)
  <2>1. RunOK(t) /\ ~ holdsBooking(t) /\ ~ holdsBooking(s)
    BY Zenon, <1>1, <1>4, ClosesRun
  <2>2. Agrees(r, t)
    BY Zenon, <1>1, <1>4, ClosesAgrees
  <2>3. schedule' = schedule
    BY <1>4 DEF Closes, Keeps
  <2>4. Unmoved(r, s, t)
    BY <2>1 DEF Unmoved
  <2>5. Posted(r)
    BY Zenon, <2>3, <2>4, ScheduleSame
  <2> QED BY <2>1, <2>2, <2>5
<1>5. ASSUME Completes(r, s, w), RunOK(t), ~ holdsBooking(t), holdsBooking(s)
      PROVE  Posted(r)
  <2>1. PICK q : q = RentalOf(r, s)
    BY Zenon
  <2>2. /\ w.rental = q /\ q \in Rentals /\ w.next = Complete(schedule[q], BookingID(r, s), 0)
        /\ schedule' = [schedule EXCEPT ![q] = w.next]
    BY <1>5, <2>1 DEF Completes
  <2>3. PICK n : n = w.next
    OBVIOUS
  <2>4. Tracks(r, q, n, s, t)
    BY Zenon, <1>5, <2>1, <2>2, <2>3, CompletesTracks
  <2> QED BY Zenon, <2>2, <2>3, <2>4, ScheduleStep
<1>6. CASE Releases(r, s, t, w)
  <2>1. RunOK(t) /\ ~ holdsBooking(t) /\ holdsBooking(s)
    BY Zenon, <1>1, <1>6, ReleasesRun
  <2>2. Agrees(r, t)
    BY Zenon, <1>1, <1>6, ReleasesAgrees
  <2>3. Completes(r, s, w)
    BY <1>6 DEF Releases
  <2> QED BY <1>5, <2>1, <2>2, <2>3
<1>7. CASE Replaces(r, s, t, w)
  <2>1. RunOK(t) /\ ~ holdsBooking(t) /\ holdsBooking(s)
    BY Zenon, <1>1, <1>7, ReplacesRun
  <2>2. Agrees(r, t)
    BY Zenon, <1>1, <1>7, ReplacesAgrees
  <2>3. Completes(r, s, w)
    BY <1>7 DEF Replaces
  <2> QED BY <1>5, <2>1, <2>2, <2>3
<1>8. ASSUME Reserves(r, t, w), ~ holdsBooking(s), holdsBooking(t),
             ~ bookingQueued(t) => schedule[w.rental].bookings = <<>>
      PROVE  Posted(r)
  <2>1. PICK q : q = RentalOf(r, t)
    BY Zenon
  <2>2. /\ w.rental = q /\ q \in Rentals /\ w.next = Reserve(schedule[q], bookingRequest(r, t.booking))
        /\ schedule' = [schedule EXCEPT ![q] = w.next]
        /\ ~ bookingQueued(t) => schedule[q].bookings = <<>>
    BY <1>8, <2>1 DEF Reserves
  <2>3. PICK n : n = w.next
    OBVIOUS
  <2>4. Tracks(r, q, n, s, t)
    BY Zenon, <1>8, <2>1, <2>2, <2>3, ReservesTracks
  <2> QED BY Zenon, <2>2, <2>3, <2>4, ScheduleStep
<1>9. CASE Places(r, s, t, w)
  <2>1. NewAttempt(s, t) /\ Reserves(r, t, w) /\ ~ bookingQueued(s) /\ Replaced(s)
    BY <1>9 DEF Places, NewAttempt
  <2>2. RunOK(t) /\ holdsBooking(t) /\ t.attempts \in Attempts
    BY Zenon, <1>1, <2>1, NewAttemptRun
  <2>3. Agrees(r, t)
    BY Zenon, <1>1, <2>1, <2>2, NewAttemptAgrees
  <2>4. ~ holdsBooking(s)
    BY Zenon, <1>1, <2>1, NotHolding
  <2>5. schedule[w.rental].bookings = <<>>
    BY <1>9, <2>1 DEF Places, Reserves
  <2> QED BY <1>8, <2>1, <2>2, <2>3, <2>4, <2>5
<1>10. CASE Queues(r, s, t, w)
  <2>1. RunOK(t) /\ holdsBooking(t) /\ ~ holdsBooking(s)
    BY Zenon, <1>1, <1>10, QueuesRun
  <2>2. Agrees(r, t)
    BY Zenon, <1>1, <1>10, QueuesAgrees
  <2>3. Reserves(r, t, w) /\ bookingQueued(t)
    BY <1>10 DEF Queues
  <2> QED BY <1>8, <2>1, <2>2, <2>3
<1>11. CASE Dispatches(r, s, t, w)
  <2>1. NewAttempt(s, t) /\ schedule' = schedule
    BY <1>11 DEF Dispatches, Keeps
  <2>2. RunOK(t) /\ holdsBooking(t) /\ t.attempts \in Attempts
    BY Zenon, <1>1, <2>1, NewAttemptRun
  <2>3. Agrees(r, t)
    BY Zenon, <1>1, <2>1, <2>2, NewAttemptAgrees
  <2>4. Unmoved(r, s, t)
    BY Zenon, <1>11, <2>2, DispatchesUnmoved
  <2>5. Posted(r)
    BY Zenon, <2>1, <2>4, ScheduleSame
  <2> QED BY <2>2, <2>3, <2>5
<1> QED BY <1>2, <1>3, <1>4, <1>6, <1>7, <1>9, <1>10, <1>11 DEF Move

(* A commit keeps the invariant: one that is stale changes nothing, one *)
(* that is current is a move.                                           *)
LEMMA CommitStep ==
    ASSUME IInv, NEW r \in Runs, Commit(r)
    PROVE  IInv'
<1>1. PICK s : s = run[r]
  OBVIOUS
<1>2. PICK w : w = worker[r]
  OBVIOUS
<1>3. PICK t : t = AppendEvents(s, w.events)
  BY Zenon
<1>4. PlanOK(r, w) /\ w.version = s.version /\ (w.rental # NoRental => Current(w))
  BY <1>1, <1>2 DEF Commit, VersionsMatch, IInv, Current
<1>5. /\ DOMAIN t = RunFields /\ t.version = s.version + 1 /\ Move(r, s, t, w)
      /\ w.rental # NoRental => w.rental \in Rentals
  BY <1>1, <1>3, <1>4 DEF PlanOK, Lands
<1>6. Appended(s, t)
  BY <1>5 DEF Appended
<1>7. run' = [run EXCEPT ![r] = t]
  BY Zenon, <1>1, <1>2, <1>3 DEF Commit
<1>8. /\ w.rental = NoRental => schedule' = schedule
      /\ w.rental # NoRental => schedule' = [schedule EXCEPT ![w.rental] = w.next]
      /\ object' = object /\ machine' = machine
  BY <1>2 DEF Commit
<1>9. /\ DOMAIN worker' = Runs /\ \A x \in Runs : x # r => worker'[x] = worker[x]
      /\ worker'[r] \in {worker[r], NoPlan}
  BY DEF Commit, IInv, Shape
<1>10. RunOK(t) /\ Agrees(r, t) /\ Posted(r)
  <2>1. w.rental # NoRental =>
           w.rental \in Rentals /\ Current(w) /\ schedule' = [schedule EXCEPT ![w.rental] = w.next]
    BY Zenon, <1>4, <1>5, <1>8
  <2> QED BY Zenon, <1>1, <1>5, <1>6, <1>7, <1>8, <2>1, CommitMove
<1>11. ObjectsOK(r, t) /\ MachinesOK(r, t)
  BY <1>10 DEF Agrees
<1> QED BY Zenon, <1>1, <1>6, <1>7, <1>8, <1>9, <1>10, <1>11, RunStep
=============================================================================
