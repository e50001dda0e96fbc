SPECIFICATION MCSpec
CONSTANTS
    f1 = f1
    c1 = c1
    c2 = c2
    c3 = c3
    bare = bare
    named = named
    w1 = w1
    Actor = {f1}
    NoActor = NoActor
    Addr = {c1, c2, c3}
    Sig = {bare, named}
    Bare = bare
    Main = Main
    Worker = {w1}
    MaxPlain = 1
    MaxTasks = 1
INVARIANTS
    PendingHasTask
    SanitizedHasNoTags
PROPERTIES
    LastCopyStays
    TriggersAreScanned
