SPECIFICATION FairSpec
CONSTANTS
    RunIDs = {1, 2}
    Machine <- MCMachine
    Content <- MCImages
    Starts = {1}
    Drivers = {"sweep", "events"}
    MaxConcurrent = 1
    MinInterval = 1
    MaxRestarts = 1
    MaxFailures = 1
    MaxDepartures = 1
    MaxFaults = 2
INVARIANT RememberedWasAsked
PROPERTY DesireIsStated
