\* Clients that never delete: the store is snapshot isolated.  They go on
\* after a compact has failed half way.
CONSTANTS
    t1 = t1
    t2 = t2
    a = a
    b = b
    None = None
    Val = {a, b}
    Writable = {a, b}
    Transactions = {t1, t2}
    Key = {1, 2}
    Recovered <- EmptyOrCompacted
    MaxSeq = 2
    MaxSeqAfterFailure = 2
    MaxFailures = 1
SPECIFICATION Spec
SYMMETRY Symm
INVARIANTS RegistryMatchesGuards SnapshotIsStateAtBegin ConflictIsReal
PROPERTY ImplementsSnapshotIsolation
