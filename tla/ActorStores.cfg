CONSTANTS
    summon = summon
    follower = follower
    oakflesh = oakflesh
    NoForm = NoForm
    Form <- MCSummons
    Dynamic <- MCSummons
    Guest <- MCSummons
    Spell <- MCSpells
    AffectFormer = TRUE
    MaxTasks = 2
    MaxSpawns = 1
    MaxToggles = 2
    MaxLoads = 1
SPECIFICATION MCSpec
INVARIANTS
    PreferencesOnlyFromTrade
    NextActorIsUnmanaged
    SessionEnrolsTarget
    ManagedActorsExist
    SnapshotsOnlyOfManaged
    SpellsAreAccountedFor
PROPERTIES
    RestoreIsDeliveredInSession
    MissingIsPurged
CHECK_DEADLOCK FALSE
