SPECIFICATION PlacementSpec
CONSTANTS
    QueueCapacity = 2
    NoBooking = NoBooking
    BookingIDs = {b1, b2, b3}
    Runs = {r1, r2, r3}
    Runtimes <- MCRuntimes
    MaxNow = 3
    MaxVersion = 6
    Asks <- MCAsks
    Fleets <- MCFleets
    ContainerStart <- MCContainerStart
    FetchTime = 4
    UnpackTime = 2
    ReadTime = 2
SYMMETRY NameSymmetry
CHECK_DEADLOCK FALSE
INVARIANTS QueueWellFormed OnlyHolderStarted SelectedReserves SilenceIsPriced
PROPERTIES NoOvertaking WaitsEnd
