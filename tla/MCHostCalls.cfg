SPECIFICATION Spec
CONSTANTS
    s1 = s1
    s2 = s2
    Hosts <- MCHosts
    Streams <- MCStreams
    HeaderMaps <- MCHeaderMaps
    IdSpace = 4
    WordMax = 6
    MemorySize = 6
    MaxBytes = 30
    MaxCount = 2
    MaxDepth = 2
    MaxCalls = 1
CHECK_DEADLOCK FALSE
SYMMETRY Symmetry

INVARIANT IdsAreUnique
INVARIANT ActsOnLivingContext
INVARIANT EffectiveStaysInItsCall
INVARIANT HttpCallsAreKnown
INVARIANT PluginFollowsHost
INVARIANT PairsSurvive
