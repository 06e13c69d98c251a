SPECIFICATION Spec
CONSTANTS
    m1 = m1
    m2 = m2
    spare = spare
    family = family
    None = None
    Runs = {m1, m2, spare}
    ClassOf <- MCClassOf
    GroupOf <- MCGroupOf
    MaxParallel = 1
    Provisioning = TRUE
    Fleet = {"could_hold", "unstated", "nothing"}
    Waits = {2}
    Durations = {1}
    MaxNow = 3
SYMMETRY Members
VIEW Observed
CHECK_DEADLOCK FALSE
INVARIANTS
    FamilyWithinWidth
    QueueAgreesWithRuns
    SelfImposedWithinWait
PROPERTIES
    SameClassInOrder
    AgedOutranksArrivals
