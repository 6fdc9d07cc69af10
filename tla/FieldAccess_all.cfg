SPECIFICATION Spec
CONSTANTS
    StructTypes <- MCStructTypes
    Fields <- MCFields
    StructOf <- MCStructOf
    SizeOf <- MCSizeOf
    Objects <- MCObjects
    BlockSize <- MCBlockSize
    Top <- MCTop
    NoField = NoField
    Members <- MCMembers
    ElemType <- MCElemType
    Boot <- MCBoot
    Values = {2}
    MaxCopy = 3
    NoSrc = NoSrc
    CarefulReaders = TRUE
INVARIANTS
    TypeOK
    WritesAuthorized
    ReadsAuthorized
    FrozenUnchanged
PROPERTIES
    EnumsValid
