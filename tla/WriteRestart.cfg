SPECIFICATION Spec
CONSTANTS
    Users = {alice, bob}
    MaxPendingWrites = 2
    Persistence = "leveldb"
    MaxWrites = 2
    MaxWaits = 0
    MaxCloses = 1
    MaxRestarts = 1
    MaxLate = 1
SYMMETRY UserSymmetry
INVARIANTS
    ReportedExactlyOnce
    TokensAgree
PROPERTY
    ImplementsWriteQueue
