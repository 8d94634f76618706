SPECIFICATION Spec
CONSTANTS
    Users = {alice}
    MaxPendingWrites = 1
    Persistence = "leveldb"
    MaxWrites = 1
    MaxWaits = 0
    MaxCloses = 2
    MaxRestarts = 0
    MaxLate = 0
INVARIANT
    RejectedWasRefused
