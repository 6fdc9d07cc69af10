SPECIFICATION EmitSpec
CONSTANTS
    Bases <- MCBases
    Upper <- MCUpper
    Runs <- MCRuns
INVARIANTS
    EmitTypeOK
    KeptIsWhatIsMarked
    TypeMapIsTheClosure
    RegistryIsSound
    DeclaredBeforeUse
    DefinedOnce
    TagsReachTheTables
PROPERTIES
    SoundInputIsWritten
CHECK_DEADLOCK FALSE
