\* Two Runs contending for one standing node, under fair sweeps.
CONSTANTS
    Standing = {node}
    Provisioned = {}
    OneShot = {}
    NoOffer = NoOffer
    QueueCapacity = 1
    NoBooking = NoBooking
    Runs = {r1, r2}
    NoRental = NoRental
    MaxPreStartAttempts = 1
    Blind = {}
    ExitOutcomes = {"succeeded"}
    ReportOutcomes = {}
    MaxDeferrals = 0
    MaxFaults = 1
SPECIFICATION FairSpec
CHECK_DEADLOCK FALSE
INVARIANTS
    BookingsAreHeld
    RentalExclusive
PROPERTIES
    EndedRunCloses
    PromotedRunDispatched
