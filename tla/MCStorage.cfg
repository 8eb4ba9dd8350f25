CONSTANTS
    c1 = c1
    c2 = c2
    huge = huge
    NoCommand = NoCommand
    Magic = Magic
    NoFile = NoFile
    NoneTaken = NoneTaken
    Replica = {r1, r2}
    Command <- MCCommand
    Absurd <- MCAbsurd
    States <- MCStates
    MaxCount = 2
    Snapshots <- MCSnapshots
    U32 = 8
    MaxCommand = 2
    MaxBatch = 2
    Batches <- MCBatches
    MaxWrites = 3
    MaxTerm = 2
    MaxStored = 4
    MaxApplied = 3
    Json <- MCJson
    Strings = {1, 2}
    Half = 4
CHECK_DEADLOCK FALSE
SPECIFICATION StorageSpec
INVARIANTS
    NeverBlended
    SavedIsKept
    SnapshotsNeverBlended
    SnapshotsAreKept
    ReadIsWritten
    ErrorsAreJustified
    
    
    SinceIsByIndex
    SeekFinds
    
    KVReplicasAgree
    NothingIsSkipped
    CounterReplicasAgree
