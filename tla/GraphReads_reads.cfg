SPECIFICATION Spec
CONSTANTS
    OverviewMaxNodes = 3
    OverviewMaxEdges = 2
    FocusMaxIds = 2
    FocusMaxNodes = 2
    Node = {1, 2, 3, 4, 5, 6, 7}
    Claim = {11, 12, 13, 14, 15, 16, 17}
    Structure <- MCStructure
    Starts <- MCStarts
    Request <- MCRequest
    NewNode <- MCNewNode
    NewClaim <- MCNewClaim
    Window <- MCWindow
    MaxOrder = 2
    MaxHops = 3
    MaxDepth = 2
    MaxWrites = 3
INVARIANTS
    TypeOK
    NothingHidden
    WalkIsExact
    FailsOnlyIfOvertakenOrOddEnd
    DtoStandsAlone
