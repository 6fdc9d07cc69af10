SPECIFICATION EmitSpec
CONSTANTS
    Bases <- MCBases
    Upper <- MCUpper
    Runs <- EnumRefs
INVARIANTS
    EnumTablesExist
CHECK_DEADLOCK FALSE
