SPECIFICATION Spec
CONSTANTS
    StructTypes <- MCStructTypes
    Fields <- MCFields
    StructOf <- MCStructOf
    SizeOf <- MCSizeOf
    Objects <- MCObjects
    BlockSize <- MCBlockSize
    Top <- MCTop
    NoField = NoField
    Roots <- MCRoots
    Paths <- MCPaths
    NameLen <- MCNameLen
    BufLen = 15
INVARIANTS
    TypeOK
    WalkInsideObjects
    HandleValid
    IndexUsable
PROPERTIES
    LookupReturns
    ImplementsLookup
