SPECIFICATION Spec
CONSTANTS
    Users = {alice}
    MaxPendingWrites = 2
    Persistence = "leveldb"
    MaxWrites = 3
    MaxWaits = 1
    MaxCloses = 2
    MaxRestarts = 0
    MaxLate = 1
INVARIANTS
    TypeOK
    NoAssertionFails
    PipelineIsQueuePrefix
    ResponsesMatchPipeline
    WaitsForPendingWrites
    WaitersAreReachable
PROPERTIES
    OutcomesAreTrue
    ImplementsWriteQueue
