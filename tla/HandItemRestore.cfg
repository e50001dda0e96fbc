SPECIFICATION MCSpec
CONSTANTS
    sword = sword
    great = great
    shield = shield
    torch = torch
    bound = bound
    bow = bow
    arrow = arrow
    f1 = f1
    NoItem = NoItem
    NoActor = NoActor
    Actor = {f1}
    Item = {sword, great, shield, torch, bound, bow, arrow}
    KindOf <- MCKindOf
    MaxCopies <- TwoSwords
    MaxTasks = 2
INVARIANTS
    SnapshotsExclusive
    RestoreIsSound
    RestoreReachesSnapshot
PROPERTIES
    RequestsSettleInGame
