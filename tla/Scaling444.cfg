SPECIFICATION Chroma444Spec
CONSTANTS
    Files <- MCFiles
    Units <- MCUnits
    Shapes <- MCShapes
    Followers <- MCFollowers
    MaxUnits = 2
    MaxFaults = 0
    MaxSets = 3
    MaxPics = 3
    rangeTabLPS <- MCrangeTabLPS
    transIdxLPS <- MCtransIdxLPS
    Programs <- MCPrograms
INVARIANTS
    ScalingAsSpecified
CHECK_DEADLOCK FALSE
