CONSTANTS
    t1 = t1
    t2 = t2
    browser = browser
    Client = {t1, t2, browser}
    Turn = {t1, t2}
    MaxOrder = 2
    Episodes = {1, 2}
    Requests <- MCRequests
    MaxPermits = 1
SPECIFICATION Spec
INVARIANTS
    TypeOK
    OneGeneration
    PermitsAccounted
    AnswersWithinConfirmed
    CompletedIsAnswered
PROPERTIES
    StatusIsFinal
    TurnEnds
