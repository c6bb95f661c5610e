\* Two big values, or one big and two small ones, fill a leaf.
CONSTANTS
    small = small
    big = big
    huge = huge
    None = None
    Key = {1, 2, 3, 4}
    Val = {small, big}
    Size <- Sizes
    LeafSpace = 5
    MaxEntries = 3
    MaxPage = 7
    MaxErrors = 1
    IoMayFail = FALSE
SPECIFICATION Spec
PROPERTY OtherKeysStay
CHECK_DEADLOCK FALSE
