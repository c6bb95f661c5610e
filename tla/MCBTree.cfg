\* Three keys, leaves of up to three entries, trees of up to three levels, and
\* a value that fits in no leaf.
CONSTANTS
    small = small
    big = big
    huge = huge
    None = None
    Key = {1, 2, 3}
    Val = {small, big, huge}
    Size <- Sizes
    LeafSpace = 3
    MaxEntries = 2
    MaxPage = 7
    MaxErrors = 1
    IoMayFail = TRUE
SPECIFICATION Spec
INVARIANTS TypeOK GetIsLatest ScanAllAgrees ScanRangeAgrees EqualDepth NoEmptyLeaf
CHECK_DEADLOCK FALSE
