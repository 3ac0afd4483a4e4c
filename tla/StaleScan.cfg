SPECIFICATION ResizedSpec
CONSTANTS
    Files <- MCFiles
    Units <- MCUnits
    Followers <- MCFollowers
    MaxUnits = 2
    Shapes <- MCShapes
    MaxFaults = 0
    MaxSets = 3
    MaxPics = 3
    rangeTabLPS <- MCrangeTabLPS
    transIdxLPS <- MCtransIdxLPS
    Programs <- MCPrograms
INVARIANTS
    AvailabilityAsSpecified
CHECK_DEADLOCK FALSE
