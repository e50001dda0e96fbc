SPECIFICATION Spec
CONSTANTS
    Ann = Ann
    Ben = Ben
    Cor = Cor
    Player = Player
    None = None
    venom = venom
    toxin = toxin
    draught = draught
    book = book
    Followers = {Ann, Ben}
    Corpses = {Cor}
    Poisons = {venom, toxin}
    Potions = {draught}
    Tomes = {book}
    Addresses = {1, 2, 3, 4, 5}
    MaxTasks = 2
    MaxClicks = 3
    Games <- MCGames
INVARIANTS
    ToggleServesHand
    TransferEquipsWhatCame
    SourcePaysOncePerEffect
PROPERTY
    CoatsFairly
