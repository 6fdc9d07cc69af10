SPECIFICATION Spec
CONSTANTS
    StructTypes <- MCStructTypes
    Fields <- MCFields
    StructOf <- MCStructOf
    SizeOf <- MCSizeOf
    Objects <- MCObjects
    BlockSize <- MCBlockSize
    Top <- MCTop
    NoField = NoField
    Roots <- MCRoots
    Paths <- MCPaths
    NameLen <- MCNameLen
    BufLen = 6
PROPERTIES
    LongPathsResolveWhole
