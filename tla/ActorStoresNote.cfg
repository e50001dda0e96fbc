CONSTANTS
    summon = summon
    follower = follower
    oakflesh = oakflesh
    NoForm = NoForm
    Form <- MCSummons
    Dynamic <- MCSummons
    Guest <- MCNobody
    Spell <- MCSpells
    AffectFormer = TRUE
    MaxTasks = 2
    MaxSpawns = 0
    MaxToggles = 0
    MaxLoads = 0
SPECIFICATION MCSpec
INVARIANT
    RemovedIsManagedAgain
CHECK_DEADLOCK FALSE
