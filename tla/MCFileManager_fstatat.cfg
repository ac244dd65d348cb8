CONSTANTS
    Names = {"d", "f", "g", "longname"}
    NameOrder <- MCNameOrder
    InitFs <- MCInitFs
    AbsPaths <- MCAbsPaths
    RelPaths <- MCRelPaths
    NumIds = 2
    BufSizes = {24, 64}
    Counts = {1}
    Offsets <- MCOffsets
    MaxSize = 1
    RootComps <- MCRootComps
SPECIFICATION Spec
INVARIANT StatNamesItsNode
