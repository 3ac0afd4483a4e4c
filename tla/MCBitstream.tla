----------------------------- MODULE MCBitstream -----------------------------
\* What lies between the bytes of a file and its blocks, for TLC: a behaviour is
\* one of NalFraming, SegmentData, Cabac, Headers or PictureTables, or of the
\* container, one of BoxWalk, HeifFile or Sequence.
EXTENDS MCBitData, BoxWalk, Cabac, NalFraming, SegmentData

CONSTANTS MaxSets, MaxPics

VARIABLES part,
          stream, damage, kind, todo, k, pos, v, understood, sets, rps, tiles, refused,
          family, sps, pps, coded, nsets, active, pics, ctu,
          image, heif, shown, conf, meta,
          movie, want, on, s, held, out, colors, frames

headerVars == <<stream, damage, kind, todo, k, pos, v, understood, sets, rps, tiles, refused>>
tableVars == <<family, sps, pps, coded, nsets, active, pics, ctu>>
codedVars == <<dataVars, cabacVars, headerVars, tableVars>>
walkVars == <<file, parsed, next, header, hnext>>
stillVars == <<image, heif, shown, conf, meta>>
reelVars == <<movie, want, on, s, held, out, colors, frames>>
containerVars == <<walkVars, stillVars, reelVars>>
MCvars == <<part, written, codedVars, walkVars, stillVars, reelVars>>

CabacData == INSTANCE MCCabac
MCrangeTabLPS == CabacData!MCrangeTabLPS
MCtransIdxLPS == CabacData!MCtransIdxLPS
MCPrograms == CabacData!MCPrograms
HeaderData == INSTANCE MCHeaders
Tiled == INSTANCE SegmentData WITH Shapes <- TilesAndRows
Sets == INSTANCE Headers WITH Streams <- HeaderData!MCStreams, Damages <- HeaderData!DamageTo, parsed <- understood
Tables == INSTANCE PictureTables WITH Families <- MCFamilies
Chroma444 == INSTANCE PictureTables WITH Families <- FullChroma
Resized == INSTANCE PictureTables WITH Families <- SameInCtbs
ContainerData == INSTANCE MCContainer
MCFiles == ContainerData!MCFiles
Still == INSTANCE HeifFile WITH
    Pictures <- ContainerData!MCPictures, Foreign <- ContainerData!MCForeign, MaxLumaSamples <- 12, defaultTile <- 2,
    FrameSizeLimit <- 100, MaxSide <- 50, MaxGrid <- 3, MaxId <- 15, MaxProps <- 8, MaxOffset <- 1200, file <- heif
Reel == INSTANCE Sequence WITH
    Movies <- ContainerData!MCMovies, MaxFrames <- 4, MaxLoops <- 1, indefiniteDuration <- 99, got <- frames

No == 0
NoNal == written = <<>>
NoSegments == pic = No /\ segments = No /\ arriving = No /\ faults = No /\ d = [corrupt |-> TRUE] /\ seg = No /\ read = No
NoCabac == /\ prog = [calls |-> <<>>, contexts |-> <<>>, samples |-> <<>>] /\ bits = <<>> /\ nput = 0 /\ w = reinit /\ wstate = <<>>
           /\ nget = -1 /\ c = Window(0, 0, 0) /\ cstate = <<>> /\ got = [bin |-> 0, samples |-> <<>>, refused |-> FALSE]
NoHeaders == /\ stream = No /\ damage = No /\ kind = No /\ todo = No /\ k = No /\ pos = No
             /\ v = No /\ understood = No /\ sets = No /\ rps = No /\ tiles = No /\ refused = No
NoTables == family = No /\ sps = No /\ pps = No /\ coded = No /\ nsets = No /\ active = No /\ pics = No /\ ctu = No
NoWalk == file = <<>> /\ parsed = No /\ next = No /\ header = No /\ hnext = No
NoStill == image = No /\ heif = No /\ shown = No /\ conf = No /\ meta = No
NoReel == movie = No /\ want = No /\ on = No /\ s = No /\ held = No /\ out = No /\ colors = No /\ frames = No
NoContainer == NoWalk /\ NoStill /\ NoReel
NoCoded == NoNal /\ NoSegments /\ NoCabac /\ NoHeaders /\ NoTables

FramingInit == part = "framing" /\ NalInit /\ NoSegments /\ NoCabac /\ NoHeaders /\ NoTables /\ NoContainer
SegmentsInit(first) == part = "segments" /\ first /\ NoNal /\ NoCabac /\ NoHeaders /\ NoTables /\ NoContainer
ArithmeticInit == part = "arithmetic" /\ CabacInit /\ NoNal /\ NoSegments /\ NoHeaders /\ NoTables /\ NoContainer
HeadersInit == part = "headers" /\ Sets!Init /\ NoNal /\ NoSegments /\ NoCabac /\ NoTables /\ NoContainer
TablesInit(first) == part = "tables" /\ first /\ NoNal /\ NoSegments /\ NoCabac /\ NoHeaders /\ NoContainer

FramingNext == part = "framing" /\ NalNext /\ UNCHANGED <<part, dataVars, cabacVars, headerVars, tableVars, containerVars>>
SegmentsNext == part = "segments" /\ DataNext /\ UNCHANGED <<part, written, cabacVars, headerVars, tableVars, containerVars>>
ArithmeticNext == part = "arithmetic" /\ CabacNext /\ UNCHANGED <<part, written, dataVars, headerVars, tableVars, containerVars>>
HeadersNext == part = "headers" /\ Sets!Next /\ UNCHANGED <<part, written, dataVars, cabacVars, tableVars, containerVars>>
TablesNext == part = "tables" /\ Tables!Next /\ UNCHANGED <<part, written, dataVars, cabacVars, headerVars, containerVars>>

WalkInit == part = "walk" /\ Init /\ NoCoded /\ NoStill /\ NoReel
StillInit == part = "still" /\ Still!Init /\ NoCoded /\ NoWalk /\ NoReel
ReelInit == part = "reel" /\ Reel!Init /\ NoCoded /\ NoWalk /\ NoStill
WalkNext == part = "walk" /\ Next /\ UNCHANGED <<part, written, codedVars, stillVars, reelVars>>
StillNext == part = "still" /\ Still!Next /\ UNCHANGED <<part, written, codedVars, walkVars, reelVars>>
ReelNext == part = "reel" /\ Reel!Next /\ UNCHANGED <<part, written, codedVars, walkVars, stillVars>>

MCInit == FramingInit \/ SegmentsInit(DataInit) \/ ArithmeticInit \/ HeadersInit \/ TablesInit(Tables!Init)
        \/ WalkInit \/ StillInit \/ ReelInit
MCNext == FramingNext \/ SegmentsNext \/ ArithmeticNext \/ HeadersNext \/ TablesNext
        \/ WalkNext \/ StillNext \/ ReelNext
MCSpec == MCInit /\ [][MCNext]_MCvars
TiledSpec == SegmentsInit(Tiled!DataInit) /\ [][SegmentsNext]_MCvars
Chroma444Spec == TablesInit(Chroma444!Init) /\ [][TablesNext]_MCvars
ResizedSpec == TablesInit(Resized!Init) /\ [][TablesNext]_MCvars

HeadersAsWritten == part = "headers" => Sets!HeadersAsWritten
AcceptedIsUsable == part = "headers" => Sets!AcceptedIsUsable
AvailabilityAsSpecified == part = "tables" => Tables!AvailabilityAsSpecified
ScalingAsSpecified == part = "tables" => Tables!ScalingAsSpecified
FilesReadBack == part = "still" => Still!FilesReadBack
DisplayedAsSpecified == part = "still" => Still!DisplayedAsSpecified
FramesAsCoded == part = "reel" => Reel!FramesAsCoded
=============================================================================
