\* A launch handed to a node, lost in a crash and then refused: the comment of
\* recordTerminalLaunchFailure.
CONSTANTS
    Standing = {node}
    Provisioned = {}
    OneShot = {}
    NoOffer = NoOffer
    QueueCapacity = 1
    NoBooking = NoBooking
    Runs = {r1}
    NoRental = NoRental
    MaxPreStartAttempts = 1
    Blind = {}
    ExitOutcomes = {"succeeded"}
    ReportOutcomes = {}
    MaxDeferrals = 0
    MaxFaults = 1
SPECIFICATION Spec
CHECK_DEADLOCK FALSE
INVARIANT RejectedLaunchLeavesNothing
