\* One Run over every kind of capacity, with machines that have to be built.
CONSTANTS
    Standing = {node}
    Provisioned = {fresh}
    OneShot = {shot1, shot2}
    NoOffer = NoOffer
    QueueCapacity = 1
    NoBooking = NoBooking
    Runs = {r1}
    NoRental = NoRental
    MaxPreStartAttempts = 2
    Blind = {shot1}
    ExitOutcomes = {"succeeded", "cancelled"}
    ReportOutcomes = {"failed"}
    MaxDeferrals = 2
    MaxFaults = 3
SPECIFICATION Spec
VIEW View
CHECK_DEADLOCK FALSE
INVARIANTS
    OneObjectPerRun
    
    NoAbandonedMachine
    LaunchesWithinBound
PROPERTY OutcomeFinal
