CONSTANTS
    Runs = {r1}
    Strangers = {x1}
    Standing = {1}
    Machined = {2}
    Keeping = {{"attempt", "key"}}
    Sweepers = {s1}
    MaxLaunches = 2  MaxLost = 1  MaxCrashes = 1  MaxFailures = 1
SPECIFICATION FairSpec
INVARIANTS LiveWorkIsSpared GoneAsRecorded
PROPERTY OverCapacityGoes
