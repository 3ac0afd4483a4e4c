SPECIFICATION FairSpec
CONSTANTS
    NTiles = 4
    Helpers = 2
    Shapes = {1, 2}
    Configs = {1, 2}
    Grids <- MCGrids
INVARIANTS
    CanvasSet
    OneOwner
    OwnParameters
    Outcome
    AllReleased
PROPERTIES
    Terminates
