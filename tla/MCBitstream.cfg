SPECIFICATION MCSpec
CONSTANTS
    Files <- MCFiles
    Units <- MCUnits
    Followers <- MCFollowers
    MaxUnits = 2
    Shapes <- MCShapes
    MaxFaults = 2
    MaxSets = 3
    MaxPics = 3
    rangeTabLPS <- MCrangeTabLPS
    transIdxLPS <- MCtransIdxLPS
    Programs <- MCPrograms
INVARIANTS
    UnitsAsWritten
    ParsedAsCoded
    BinsAsCoded
    HeadersAsWritten
    AcceptedIsUsable
    AvailabilityAsSpecified
    ScalingAsSpecified
    ConfigAgrees
    FilesReadBack
    DisplayedAsSpecified
    FramesAsCoded
CHECK_DEADLOCK FALSE
