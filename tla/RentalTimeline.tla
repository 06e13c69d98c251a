--------------------------- MODULE RentalTimeline ---------------------------
(***************************************************************************)
(* One Rental's schedule over time.  Placements reserve, the observation   *)
(* that a workload runs starts the clock of the Booking holding the        *)
(* Rental, and launch failures, cleanups, refusals and cancellations       *)
(* complete Bookings anywhere in the queue.  Each operation is one         *)
(* committed version of the schedule.                                      *)
(***************************************************************************)
EXTENDS RentalSchedule

CONSTANTS
    BookingIDs, Runs,
    Runtimes,     \* the <<expected, enforced>> runtimes a caller may declare
    MaxNow,       \* bound on the clock
    MaxVersion    \* bound on committed versions

ASSUME RuntimesAssumption == Runtimes \subseteq Nat \X Nat
ASSUME NoBookingAssumption == NoBooking \notin BookingIDs

VARIABLES schedule, now

vars == <<schedule, now>>

Init == schedule = NewRentalSchedule /\ now = 0

ReserveBooking(id, run, rt) ==
    LET req == [id |-> id, run |-> run, expected |-> rt[1], max |-> rt[2], reservedAt |-> now]
    IN  /\ schedule.version < MaxVersion
        /\ validBookingRequest(schedule, req)
        /\ schedule' = Reserve(schedule, req)
        /\ UNCHANGED now

\* The machine dates the start itself, so the moment may lie in the past.
WorkloadStarted(id, at) ==
    /\ schedule.version < MaxVersion
    /\ CanStart(schedule, id)
    /\ schedule' = Started(schedule, at)
    /\ UNCHANGED now

CompleteBooking(id) ==
    /\ schedule.version < MaxVersion
    /\ Holds(schedule, id)
    /\ schedule' = Complete(schedule, id, now)
    /\ UNCHANGED now

Tick == now < MaxNow /\ now' = now + 1 /\ UNCHANGED schedule

Next ==
    \/ \E id \in BookingIDs, run \in Runs, rt \in Runtimes : ReserveBooking(id, run, rt)
    \/ \E id \in BookingIDs, at \in 0..now : WorkloadStarted(id, at)
    \/ \E id \in BookingIDs : CompleteBooking(id)
    \/ Tick

Spec == Init /\ [][Next]_vars

-----------------------------------------------------------------------------
ScheduledBookings ==
    [id : BookingIDs, run : Runs, state : {"running", "queued"},
     after : BookingIDs \cup {NoBooking}, version : Nat,
     projected : Int, latest : Int, expected : Nat, max : Nat, startedAt : Int]

\* Every field of the schedule holds a value of its type.
TypeOK ==
    /\ now \in Nat
    /\ schedule \in [version : Nat, bookings : Seq(ScheduledBookings)]

(***************************************************************************)
(* One Booking at most holds the Rental and at most QueueCapacity wait: a  *)
(* Booking is running exactly when it is first, the chain of               *)
(* AfterBookingIDs is the queue's order, and no Booking and no Run is on   *)
(* the schedule twice, however reservations and completions anywhere in    *)
(* the queue interleave (Reserve and Complete build these fields by two    *)
(* different routes).                                                      *)
(***************************************************************************)
QueueWellFormed ==
    /\ Len(schedule.bookings) <= QueueCapacity + 1
    /\ \A i \in DOMAIN schedule.bookings :
          /\ schedule.bookings[i].state = IF i = 1 THEN "running" ELSE "queued"
          /\ schedule.bookings[i].after =
                IF i = 1 THEN NoBooking ELSE schedule.bookings[i - 1].id
          /\ schedule.bookings[i].version <= schedule.version
    /\ \A i, j \in DOMAIN schedule.bookings :
          i # j => /\ schedule.bookings[i].id # schedule.bookings[j].id
                   /\ schedule.bookings[i].run # schedule.bookings[j].run

(***************************************************************************)
(* Only the Booking holding the Rental has a start moment, and the moment  *)
(* goes with the Booking: a Booking promoted by a completion owes its      *)
(* whole runtime (Started accepts index 0 only, reproject invents none).   *)
(***************************************************************************)
OnlyHolderStarted ==
    \A i \in DOMAIN schedule.bookings :
        schedule.bookings[i].startedAt # NoTime => i = 1

(***************************************************************************)
(* The queue is first come, first served: Bookings leave, and newcomers    *)
(* join at the end, but no Booking ever overtakes another, and the one     *)
(* holding the Rental loses it only by leaving.                            *)
(***************************************************************************)
NoOvertaking ==
    [][\A i, j \in DOMAIN schedule.bookings, k, l \in DOMAIN schedule'.bookings :
          /\ schedule.bookings[i].id = schedule'.bookings[k].id
          /\ schedule.bookings[j].id = schedule'.bookings[l].id
          /\ i < j
          => k < l /\ (i = 1 => k = 1)]_vars
=============================================================================
