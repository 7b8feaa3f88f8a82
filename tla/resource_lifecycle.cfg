SPECIFICATION FairSpec
INVARIANTS
    NoneLeftStarting
    StateIsTrue
    DependenciesStarted
    NobodyWaitsInVain
    AnnouncedInOrder
PROPERTY EventuallyIdle
CONSTANTS
    a = a
    b = b
    c = c
    Resource = {a, b, c}
    Graphs <- Acyclic
    MaxCalls = 1
