SPECIFICATION ManagerSpec
CONSTANTS
    t1 = t1
    t2 = t2
    Threads <- MCThreads
    Projects = {"p1", "p2"}
    Names <- MCNames
    IdSpace = 4
    MaxInfos = 2
    MaxPackets = 2
SYMMETRY Symmetry
INVARIANT NamedVmsAreSound
