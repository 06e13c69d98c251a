SPECIFICATION FairSpec
CONSTANTS
    Runs = {"r1"}
    Images = {"i1"}
    SessionBuffer = 2
    MaxFaults = 2
    MaxStateLosses = 1
    MaxSetbacks = 1
CHECK_DEADLOCK FALSE
INVARIANT ToldIsRecorded
PROPERTIES ExitIsRecorded CommandsTakeEffectOnce
