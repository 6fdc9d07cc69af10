SPECIFICATION LoadSpec
CONSTANTS
    t1 = t1
    t2 = t2
    t3 = t3
    k1 = k1
    k2 = k2
    PluginNames <- MCNames
    Registrations <- MCRegistrations
    Keys <- MCKeys
    Tags <- MCTags
    Asks <- MCAsks
    Claims <- MCClaims
    Provides <- MCProvides
INVARIANTS
    LoadTypeOK
    Topological
    LeastOrder
    FailsOnCycles
    DependenciesContributed
    LoadedIsComplete
    ErrorsAreComplete
PROPERTIES
    CompatiblePluginsLoad
CHECK_DEADLOCK FALSE
