SPECIFICATION Spec
CONSTANTS
    StructTypes <- MCStructTypes
    Fields <- MCFields
    StructOf <- MCStructOf
    SizeOf <- MCSizeOf
    Objects <- MCObjects
    BlockSize <- MCBlockSize
    Top <- MCTop
    NoField = NoField
    Members <- MCMembers
    ElemType <- MCElemType
    Boot <- MCBoot
    Values = {2}
    MaxCopy = 4
    NoSrc = NoSrc
    CarefulReaders = TRUE
    Roots <- MCRoots
    Paths <- MCPaths
    NameLen <- MCNameLen
    BufLen = 255
PROPERTIES
    AccessHitsTheAskedMember
    ElementIsTheOneAsked
