\* Puts, deletes and batches in two segments, two compactions under held
\* snapshots, one that fails and may be tried again, two crashes anywhere.
CONSTANTS
    a = a
    b = b
    None = None
    Val = {a}
    Writable = {a, None}
    Key = {1, 2}
    SegMax = 1
    MaxSegs = 2
    MaxBatch = 2
    MaxSeq = 2
    MaxSeqAfterFault = 0
    MaxGuards = 2
    MaxCompactions = 2
    MaxCrashes = 2
    MaxFaults = 1
SPECIFICATION Spec
CHECK_DEADLOCK FALSE
INVARIANTS NoScratchLeft 
PROPERTIES RecoveryIsIdempotent  RecoveryEnds
