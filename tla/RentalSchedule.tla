--------------------------- MODULE RentalSchedule ---------------------------
(***************************************************************************)
(* The Bookings one Rental carries, as the pure operations of              *)
(* internal/domain/rental_schedule.go.  A schedule is a version and a      *)
(* sequence of Bookings: the first one holds the Rental, the others wait   *)
(* behind it in order.  Every operation returns the next schedule; the     *)
(* caller commits it against the version it read.                          *)
(*                                                                         *)
(* Times and runtimes are natural numbers of seconds.  A time the code     *)
(* leaves nil or zero is NoTime, an empty Booking identity is NoBooking.   *)
(***************************************************************************)
EXTENDS Integers, Sequences

CONSTANTS
    QueueCapacity,   \* Bookings that may wait behind the running one
    NoBooking        \* the empty AfterBookingID

ASSUME QueueCapacityAssumption == QueueCapacity \in Nat

NoTime == -1

NewRentalSchedule == [version |-> 0, bookings |-> <<>>]

(***************************************************************************)
(* How much of a declared runtime is left.  A Booking whose workload has   *)
(* not started owes all of it.                                             *)
(***************************************************************************)
remainingSeconds(declared, startedAt, now) ==
    IF startedAt = NoTime THEN declared
    ELSE IF declared - (now - startedAt) > 0 THEN declared - (now - startedAt) ELSE 0

RemainingExpectedSeconds(b, now) == remainingSeconds(b.expected, b.startedAt, now)
RemainingMaxSeconds(b, now) == remainingSeconds(b.max, b.startedAt, now)

\* The sum of the first n values of f.
Total(f, n) ==
    LET sum[k \in 0..n] == IF k = 0 THEN 0 ELSE sum[k - 1] + f[k]
    IN  sum[n]

\* What the first n Bookings of a schedule have left, expected and enforced.
ExpectedAhead(s, n, now) ==
    Total([i \in 1..n |-> RemainingExpectedSeconds(s.bookings[i], now)], n)
MaxAhead(s, n, now) ==
    Total([i \in 1..n |-> RemainingMaxSeconds(s.bookings[i], now)], n)

ExpectedWaitSeconds(s, now) == ExpectedAhead(s, Len(s.bookings), now)

\* The Booking holding the Rental is past the runtime Mercator enforces.
Exhausted(s, now) ==
    /\ s.bookings # <<>>
    /\ RemainingMaxSeconds(s.bookings[1], now) <= 0

Holds(s, id) == \E i \in DOMAIN s.bookings : s.bookings[i].id = id
bookingIndex(s, id) == CHOOSE i \in DOMAIN s.bookings : s.bookings[i].id = id

(***************************************************************************)
(* A request is a Booking identity, its Run, two runtimes and the moment   *)
(* it is reserved at.                                                      *)
(***************************************************************************)
validBookingRequest(s, req) ==
    /\ req.expected > 0 /\ req.max > 0
    /\ req.expected <= req.max
    /\ Len(s.bookings) < QueueCapacity + 1
    /\ ~ Exhausted(s, req.reservedAt)
    /\ \A i \in DOMAIN s.bookings :
          s.bookings[i].id # req.id /\ s.bookings[i].run # req.run

startBounds(s, now) ==
    [projected |-> now + ExpectedWaitSeconds(s, now),
     latest    |-> now + MaxAhead(s, Len(s.bookings), now)]

bookingFor(s, req) ==
    LET empty  == s.bookings = <<>>
        bounds == startBounds(s, req.reservedAt)
    IN  [id |-> req.id, run |-> req.run,
         state     |-> IF empty THEN "running" ELSE "queued",
         after     |-> IF empty THEN NoBooking ELSE s.bookings[Len(s.bookings)].id,
         version   |-> s.version + 1,
         projected |-> IF empty THEN NoTime ELSE bounds.projected,
         latest    |-> IF empty THEN NoTime ELSE bounds.latest,
         expected  |-> req.expected, max |-> req.max, startedAt |-> NoTime]

\* Mutant: the newcomer goes to the front.
ReserveFront(s, req) ==
    [version |-> s.version + 1, bookings |-> <<bookingFor(s, req)>> \o s.bookings]

Reserve(s, req) ==
    [version |-> s.version + 1, bookings |-> Append(s.bookings, bookingFor(s, req))]

CanStart(s, id) ==
    /\ s.bookings # <<>>
    /\ s.bookings[1].id = id
    /\ s.bookings[1].startedAt = NoTime

\* Mutant: the start is dated on the last Booking.
StartedLast(s, at) ==
    [version |-> s.version + 1,
     bookings |-> [s.bookings EXCEPT ![Len(s.bookings)].startedAt = at]]

Started(s, at) ==
    [version |-> s.version + 1, bookings |-> [s.bookings EXCEPT ![1].startedAt = at]]

\* Every Booking restated from its place in the queue and the moment now.
reproject(s, now) ==
    [s EXCEPT !.bookings = [i \in DOMAIN s.bookings |->
        [s.bookings[i] EXCEPT
            !.version   = s.version,
            !.state     = IF i = 1 THEN "running" ELSE "queued",
            !.after     = IF i = 1 THEN NoBooking ELSE s.bookings[i - 1].id,
            !.projected = IF i = 1 THEN NoTime ELSE now + ExpectedAhead(s, i - 1, now),
            !.latest    = IF i = 1 THEN NoTime ELSE now + MaxAhead(s, i - 1, now)]]]

\* The schedule's next version without the Booking in place k.
without(s, k) ==
    [version  |-> s.version + 1,
     bookings |-> [i \in 1..Len(s.bookings) - 1 |-> s.bookings[IF i < k THEN i ELSE i + 1]]]

\* Mutant: the Bookings left behind are not restated.
CompleteUnrestated(s, id, now) == without(s, bookingIndex(s, id))

Complete(s, id, now) == reproject(without(s, bookingIndex(s, id)), now)
=============================================================================
