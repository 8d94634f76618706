SPECIFICATION Spec
CONSTANTS
    Users = {alice, bob}
    MaxPendingWrites = 2
    Persistence = "memory"
    MaxWrites = 3
    MaxWaits = 1
    MaxCloses = 2
    MaxRestarts = 0
    MaxLate = 0
SYMMETRY UserSymmetry
INVARIANTS
    NoAssertionFails
    ReportedExactlyOnce
    WaitersAreReachable
