\* A tree that splits, evictions at any time, crashes while the disk is whole.
CONSTANTS
    a = a
    b = b
    Key = {1, 2}
    Val = {a, b}
    None = None
    Tombstone = Tombstone
    LeafSpace = 2
    MaxEntries = 2
    checkpoint_interval = 2
    MaxSeq = 2
    MaxPage = 8
    MaxCrashes = 2
    MaxErrors = 1
    MaxHalfDone = 1
    CrashIn = {}
SPECIFICATION Spec
INVARIANTS IndexReflectsLog ScanReflectsLog SentinelIsSound CheckpointLeavesNothing
PROPERTY ComesToRest
CHECK_DEADLOCK FALSE
