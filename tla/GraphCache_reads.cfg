CONSTANTS
    r1 = r1
    r2 = r2
    w1 = w1
    w2 = w2
    anon = anon
    Reader = {r1}
    Writer = {w1, w2}
    Key = {anon}
    MaxVersion = 2
SPECIFICATION Spec
INVARIANTS
    TypeOK
    GraphStaleOnlyIfOverlapped
    VizStaleOnlyIfOverlapped
PROPERTIES
    EventuallyFresh
