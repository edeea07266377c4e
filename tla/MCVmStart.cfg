SPECIFICATION Spec
CONSTANTS
    Clones <- MCClones
    Codes <- MCCodes
    MaxDepth = 3
    WordMax = 7
INVARIANT RestrictionFollowsStack
INVARIANT CloneMatchesBase
INVARIANT StartedOnce
INVARIANT CodeIsKept
PROPERTY ImplementsVmProtocol
CHECK_DEADLOCK FALSE
