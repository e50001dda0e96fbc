SPECIFICATION FairSpec
CONSTANTS
    robe = robe
    boots = boots
    hood = hood
    helmet = helmet
    Smith = Smith
    NoOutfit = NoOutfit
    Unseen = Unseen
    None = None
    Armor <- MCArmor
    Slot <- MCSlot
    HeadOrder <- MCHeadOrder
    SlotsOf <- MCSlotsOf
    Fits <- MCArmor
    Outfit <- MCOutfit
    GearOf <- MCGearOf
    Games <- MCGames
    RestoreTries = 1
    ReconcileTries = 1
    MaxTasks = 1
INVARIANTS
    RestoreReachesSnapshot
    HeadgearIsFromBeforeFight
PROPERTIES
    OnlyStrayUnequipSplits
    DrainDresses
