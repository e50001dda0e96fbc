SPECIFICATION FairSpec
CONSTANTS
    f1 = f1
    f2 = f2
    Actor = {f1}
    NoActor = NoActor
    Main = Main
    w1 = w1
    w2 = w2
    Worker = {w1, w2}
    MaxTasks = 3
INVARIANTS
    PendingHasTask
    RequestsHaveASource
PROPERTIES
    ImplementsRequests
    PendingEnds
