SPECIFICATION FairGameSpec
CONSTANTS
    sword = sword
    dagger = dagger
    great = great
    shield = shield
    torch = torch
    bound = bound
    bow = bow
    arrow = arrow
    f1 = f1
    NoItem = NoItem
    Actor = {f1}
    Item = {sword, shield, bow}
    KindOf <- MCKindOf
    MaxTasks = 3
    RestoreTries = 1
    ReconcileTries = 2
INVARIANTS
    LastRestoreWins
    ReconcileIsQuiet
PROPERTIES
    ChainsEnd
