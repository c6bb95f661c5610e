\* Three pages in two frames: every fetch of a third page evicts.
CONSTANTS
    Content = {c1}
    Fresh = Fresh
    Blank = Blank
    Missing = Missing
    Capacity = 2
    MaxId = 3
    MaxPins = 2
    MaxCrashes = 1
SPECIFICATION Spec
INVARIANTS TypeOK PoolIsTransparent CleanFramesAreDurable TableMatchesFrames ExhaustedMeansPinned
PROPERTY PinnedPagesStay
CHECK_DEADLOCK FALSE
