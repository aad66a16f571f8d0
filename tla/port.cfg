SPECIFICATION Spec
CONSTANTS
    s1 = s1
    s2 = s2
    c1 = c1
    c2 = c2
    Starter = {s1, s2}
    Client = {c1, c2}
    Backlog = 0
    Cases <- Everyone
    MaxFaults = 1
INVARIANTS
    TypeOK
    LoopHasPort
    OrderlyHandover
    AnsweredInTurn
    OnlyDesertedPipesBreak
PROPERTIES
    CloseIsObeyed
    ClientsFinish
