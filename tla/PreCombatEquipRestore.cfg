SPECIFICATION LifeSpec
CONSTANTS
    sword = sword
    dagger = dagger
    great = great
    shield = shield
    torch = torch
    bound = bound
    bow = bow
    arrow = arrow
    f1 = f1
    NoItem = NoItem
    Actor = {f1}
    Item = {sword}
    KindOf <- MCKindOf
    MaxTasks = 1
    RestoreTries = 1
    ReconcileTries = 1
INVARIANTS
    PendingRestoreIsFromThisFight
