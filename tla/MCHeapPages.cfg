\* Rewrites of two pages, with crashes and I/O errors at every step.
CONSTANTS
    PageId = {1, 2}
    Content = {x, y}
    Missing = Missing
    Junk = Junk
    Partial = Partial
    MaxWrites = 4
    MaxCrashes = 2
    MaxFaults = 2
SPECIFICATION Spec
INVARIANTS ReadsAreDurable LiveSlotsAreInUse
PROPERTY ImplementsPageStore
CHECK_DEADLOCK FALSE
