\* A crash between the page writes of a checkpoint.
CONSTANTS
    a = a
    b = b
    Key = {1, 2}
    Val = {a, b}
    None = None
    Tombstone = Tombstone
    LeafSpace = 2
    MaxEntries = 2
    checkpoint_interval = 2
    MaxSeq = 3
    MaxPage = 4
    MaxCrashes = 1
    MaxErrors = 0
    MaxHalfDone = 0
    CrashIn = {"sentinel"}
SPECIFICATION Spec
INVARIANT IndexReflectsLog
CHECK_DEADLOCK FALSE
