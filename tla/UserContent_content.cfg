SPECIFICATION Spec
CONSTANTS
    c1 = c1
    c2 = c2
    ann = ann
    bob = bob
    root = root
    entity = entity
    node = node
    rel = rel
    note = note
    claim = claim
    v1 = v1
    v2 = v2
    nobody = nobody
    none = none
    Client = {c1, c2}
    User = {ann, bob, root}
    Admin = {root}
    NoUser = nobody
    NoValue = none
    Value = {v1, v2}
    Resource = {entity, node, rel, note, claim}
    Seed <- MCSeed
    Request <- MCRequest
    MaxOrder = 2
    MaxLog = 4
INVARIANTS
    TypeOK
    IdentityKept
    NotVisibleBeforeReferences
    LogTellsPresent
    StatusIsLastDecision
PROPERTIES
    OnlyOwnerChanges
    DanglesOnlyIfOvertaken
SYMMETRY Perms
