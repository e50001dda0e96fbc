SPECIFICATION Spec
CONSTANTS
    sword = sword
    sword2 = sword2
    enchanted = enchanted
    shield = shield
    great = great
    bow = bow
    bow2 = bow2
    torch = torch
    conjured = conjured
    iron = iron
    steel = steel
    Sword = Sword
    Shield = Shield
    Great = Great
    Bow = Bow
    Torch = Torch
    Conjured = Conjured
    Iron = Iron
    Steel = Steel
    plain = plain
    fire = fire
    None = None
    Bare = plain
    Copy <- MCCopy
    Base <- MCBase
    BaseOf <- MCBaseOf
    KindOf <- MCKindOf
    IdentOf <- MCIdentOf
    Settings <- MCSettings
    Loads <- MCLoads
INVARIANTS
    PrefsExclusive
    EnforcementSettles
PROPERTIES
    HandsKeptOutOfCombat
    FightHandsPreferred
    TakenWeaponNotReplaced
