CONSTANTS
    dexter = dexter
    theory = theory
    mine = mine
    new1 = new1
    new2 = new2
    c1 = c1
    c2 = c2
    Client = {c1, c2}
    ChangeSetId = {k1}
    NoChangeSetId = none
    Resource <- MCResource
    Seed <- MCSeed
    OpLists <- MCOpLists
    MaxOrder = 2
    MaxClock = 4
SPECIFICATION Spec
SYMMETRY Symmetry
INVARIANTS
    ConfirmIsIdempotent
