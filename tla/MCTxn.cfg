\* Puts, deletes and compactions by two concurrent transactions.
CONSTANTS
    t1 = t1
    t2 = t2
    a = a
    b = b
    None = None
    Val = {a}
    Writable = {a, None}
    Transactions = {t1, t2}
    Key = {1, 2}
    Recovered <- EmptyOrCompacted
    MaxSeq = 3
    MaxSeqAfterFailure = 0
    MaxFailures = 0
SPECIFICATION Spec
SYMMETRY Symm
INVARIANTS IInv NoLostUpdate VersionsInCommitOrder
PROPERTY ReadsAreStable
