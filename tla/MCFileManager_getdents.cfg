CONSTANTS
    Names = {"d", "f", "g", "longname"}
    NameOrder <- MCNameOrder
    InitFs <- MCInitFsLong
    AbsPaths <- MCAbsPaths
    RelPaths <- MCRelPaths
    NumIds = 2
    BufSizes = {24}
    Counts = {1}
    Offsets <- MCOffsets
    MaxSize = 1
    RootComps <- MCRootComps
SPECIFICATION Spec
INVARIANT ZeroMeansEnd
