SPECIFICATION RegistrySpec
CONSTANTS
    Machines = {m1, m2}
    Conns = {c1, c2}
    Lease = 1
    Invitation = 2
    Waits = {0, 4}
    MaxTime = 5
    MaxFencing = 2
SYMMETRY Symmetry
INVARIANTS OnlyRegisteredIsOpen DrainedHoldsNothing InvitationHeldIsRedeemable
CHECK_DEADLOCK FALSE
