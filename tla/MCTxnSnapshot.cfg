\* A deletion compacted away, then a new transaction.
CONSTANTS
    t1 = t1
    t2 = t2
    a = a
    b = b
    None = None
    Val = {a}
    Writable = {a, None}
    Transactions = {t1, t2}
    Key = {1, 2}
    Recovered <- OnlyEmpty
    MaxSeq = 3
    MaxSeqAfterFailure = 0
    MaxFailures = 0
SPECIFICATION Spec
INVARIANT SnapshotIsStateAtBegin
