SPECIFICATION FairSpec
CONSTANTS
    Users = {alice, bob}
    MaxPendingWrites = 1
    Persistence = "leveldb"
    MaxWrites = 2
    MaxWaits = 0
    MaxCloses = 2
    MaxRestarts = 0
    MaxLate = 0
PROPERTIES
    WritesSettle
    IdleStreamCloses
