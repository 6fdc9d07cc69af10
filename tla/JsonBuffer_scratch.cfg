SPECIFICATION BufferSpec
CONSTANTS
    Pieces <- MCPieces
    Sizes = {0, 1, 2, 3, 5}
    BufTop = 8
    Scratch = 4
    SizeMod = 16
    MaxText = 7
    NUL = "NUL"
    Junk = "Junk"
INVARIANTS
    TextIsWhole
