\* Kills, power losses and I/O errors in any order.
CONSTANTS
    put = put
    del = del
    Torn = Torn
    Op = {put}
    SegMax = 2
    MaxBatch = 3
    MaxSeq = 4
    MaxCrashes = 2
    Crashes <- AnyCrashes
    MaxFaults = 2
SPECIFICATION Spec
CHECK_DEADLOCK FALSE
INVARIANTS AckedSurvive OpenSucceeds SeqsAreContiguous
PROPERTIES SyncedRecordsStay ImplementsDurableLog
