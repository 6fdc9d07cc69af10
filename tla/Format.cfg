SPECIFICATION FormatSpec
CONSTANTS
    StructTypes <- MCStructTypes
    Fields <- MCFields
    StructOf <- MCStructOf
    SizeOf <- MCSizeOf
    Objects <- MCObjects
    BlockSize <- MCBlockSize
    Top <- MCTop
    NoField = NoField
    Members <- MCMembers
    ElemType <- MCElemType
    Boot <- MCBoot
    Values = {}
    MaxCopy = 8
    NoSrc = NoSrc
    CarefulReaders = TRUE
    Unsigned = {"uint8_t"}
    Signed = {"int8_t"}
    Enums <- MCEnums
    FormatOf <- MCFormatOf
    NoText <- MCNoText
    Texts <- MCTexts
    Calls <- MCCalls
    Buffers = {3}
    MAX_BUF_LEN = 6
INVARIANTS
    StringsEnd
    FieldsShowWhatTheyTook
    ShownTextIsTaken
PROPERTIES
    PrintsAll
