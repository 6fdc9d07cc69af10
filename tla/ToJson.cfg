SPECIFICATION JsonSpec
CONSTANTS
    StructTypes <- MCStructTypes
    Fields <- MCFields
    StructOf <- MCStructOf
    SizeOf <- MCSizeOf
    Objects <- MCObjects
    BlockSize <- MCBlockSize
    Top <- MCTop
    NoField = NoField
    ElemType <- MCElemType
    StringTypes = {"char*", "char_arr"}
    InlineStrings = {"char_arr"}
    Unprintable = {"void*"}
    CustomTypes = {"Kind"}
    KeyName <- MCKeyName
    Quoted = {"Mode", "Kind", "char*", "char_arr"}
    Requests <- MCRequests
    Boots <- MCBoots
    Escapes = {9}
    Shown <- MCShown
    Pieces = {}
    Sizes = {0, 21, 110}
    BufTop = 120
    Scratch = 4
    SizeMod = 128
    MaxText = 0
    NUL = "NUL"
    Junk = "Junk"
INVARIANTS
    JsonTypeOK
    ReadsStayInside
    OutputIsTheDocument
    HoldsThePrefix
    StaysInside
    TextArrives
PROPERTIES
    Finishes
CHECK_DEADLOCK FALSE
