--------------------------- MODULE PluginSettings ---------------------------
(* The plugin's settings and the INI file that keeps them: the structures    *)
(* with their default values, the file's template with its hundred keys and  *)
(* its hundred positional arguments, and the loader that reads every key     *)
(* back by name.  The three lists are written apart in the code, and here.   *)
(*                                                                           *)
(* A settings value is a record of sections, a section a record of fields.   *)
(* Keys are compared without case in the code; here a key is written like    *)
(* the field it belongs to wherever the two agree.  An unsigned number above *)
(* 2^31-1 is written as the signed number a cast to int makes of it.         *)
EXTENDS Integers, Sequences

\* The two functions together; where both are defined, the left one.
f ++ g == [x \in DOMAIN f \cup DOMAIN g |-> IF x \in DOMAIN f THEN f[x] ELSE g[x]]

On(fields) == [f \in fields |-> TRUE]
Off(fields) == [f \in fields |-> FALSE]

-----------------------------------------------------------------------------
(* Structures and defaults                                                   *)

Core == On({"enableMod"})
ActorScope == On({"affectFormerFollowers", "includeInclusionActors", "includePlayerSummons"})
QuickTrade ==
  On({"enableQuickTrade", "enableQuickTradeForFollowers",
      "enableQuickTradeForFormerFollowers", "enableQuickTradeForInclusionActors",
      "enableQuickTradeForPlayerSummons", "enableQuickTradeForKNoneActors",
      "enableQuickTradeForMounts"}) ++ Off({"quickTradeAllWorldMounts"})
UIFeedback == On({"enableNotifications", "enableUISounds"})
Logging == [logLevel |-> "info"]

KeyboardControls == [modKeyDik |-> 29, skyuiEquipModeKey |-> 0, quickTradeKeyDik |-> 0]
GamepadControls ==
  [gamepadModKey |-> 280, gamepadRightHandKey |-> 276, gamepadLeftHandKey |-> 278,
   quickTradeGamepadKey |-> 0]
ButtonIndicators ==
  [enableModKeyIndicator |-> TRUE, modKeyIndicatorText |-> "",
   inclusionIndicatorText |-> "", summonIndicatorText |-> "", equipModeTextOverride |-> ""]
IconAppearance ==
  On({"enableIconIndicator", "enableCombatEquipIcon", "enableHeadgearIcon",
      "enableOutfitSyncIcon", "enableHandItemIcon", "enableCustomization"}) ++
  [iconSize |-> 12, gapAfterText |-> 8, gapAfterIcon |-> 8, fecIconSpacing |-> 8]

EquipModeItems ==
  On({"enable", "enableWeapons", "enableArmor", "enableAmmo", "enableTorches",
      "enableScrolls"})
EquipModeConsumableMode ==
  On({"enableConsumableMode", "enablePotions", "enableFoods", "enableDrinks",
      "enableIngredients"}) ++ Off({"enableIngredientDiscoveryForPlayer"})
EquipModePoisonMode == [mode |-> "apply", enableStacking |-> FALSE, maxCharges |-> 100]
EquipModeSpellTomeMode ==
  [enableSpellTomeMode |-> TRUE, doNotConsumeSpellTomes |-> FALSE]

CombatEquipPreference ==
  On({"enableScoring", "enableInstanceAlign"}) ++
  Off({"enableClearPreferencesOnUnequip", "enableClearLeftHandPreferenceOnUnequip"})
CombatEquipEnforcement ==
  On({"enableMeleeEnforcement", "enableAmmoPreference"}) ++
  Off({"enableMeleeEnforcementEmptyHand"})
CombatEquipRestore ==
  On({"enableRestorePreCombatOnExit"}) ++
  Off({"enableHeadgearAutoEquip", "enableInfiniteAmmo"})

OutfitSync ==
  On({"enableUpdateNpcOutfitSuppression", "enableOutfitSnapshotRestore",
      "allowOutfitChanges"})
HiddenItems ==
  On({"enableNonPlayableItems", "removeHiddenWeapon", "removeHiddenAmmo",
      "enableOutfitItems", "enableRevealDefaultOutfitItems",
      "enableRevealExternalOutfitItems"}) ++ Off({"removeHiddenArmor"})
ItemInjectionBlocking == Off({"enableOutfitItemBlocker", "enableLeveledItemBlocker"})
LootBlocking ==
  On({"enablePreventCombatLoot"}) ++
  Off({"enablePreventContainerLoot", "enablePreventPickupObject"})
AutoEquipBlocking ==
  On({"enableNonCombatEquipBlocker", "enableHandItemRestore",
      "enableBestWeaponAutoEquipSuppressor"})
EquipGate ==
  On({"enableNeverBlockTorchEquip"}) ++ Off({"enableEquipBlocking", "enableUnequipBlocking"})

WeaponEnchantmentRecharge ==
  On({"enableRecharge", "enableUIIndicator", "advancedSoulGemDisplay", "showStackCount"}) ++
  [rechargeKeyDik |-> 20, gamepadRechargeKey |-> 279,
   containedSoulDisplayMode |-> "lower", sourceDisplayMode |-> "disable",
   soulGemSortMode |-> "asc"]
StatsDisplay == [followerStatsInTradeMenuMode |-> "follower"]
CorpseEquipMode == [enable |-> TRUE, indicatorText |-> ""]
EngineFixes == On({"enableStaleWeightCacheFix"})
SkyUIFixes == On({"enableQuantityMenuBlocker", "enableZeroWeightFix"})

Defaults ==
  [core |-> Core, actorScope |-> ActorScope, quickTrade |-> QuickTrade,
   uiFeedback |-> UIFeedback, logging |-> Logging,
   keyboardControls |-> KeyboardControls, gamepadControls |-> GamepadControls,
   buttonIndicators |-> ButtonIndicators, iconAppearance |-> IconAppearance,
   equipModeItems |-> EquipModeItems,
   equipModeConsumableMode |-> EquipModeConsumableMode,
   equipModePoisonMode |-> EquipModePoisonMode,
   equipModeSpellTomeMode |-> EquipModeSpellTomeMode,
   combatEquipPreference |-> CombatEquipPreference,
   combatEquipEnforcement |-> CombatEquipEnforcement,
   combatEquipRestore |-> CombatEquipRestore,
   outfitSync |-> OutfitSync, hiddenItems |-> HiddenItems,
   itemInjectionBlocking |-> ItemInjectionBlocking, lootBlocking |-> LootBlocking,
   autoEquipBlocking |-> AutoEquipBlocking, equipGate |-> EquipGate,
   weaponEnchantmentRecharge |-> WeaponEnchantmentRecharge,
   statsDisplay |-> StatsDisplay, corpseEquipMode |-> CorpseEquipMode,
   engineFixes |-> EngineFixes, skyUIFixes |-> SkyUIFixes]

Sections == DOMAIN Defaults

-----------------------------------------------------------------------------
(* Values in the file, and the parsers                                       *)

\* What stands after a key's "=": a word or a number.
Word(w) == <<"word", w>>
Num(n) == <<"number", n>>
Words(ws) == {Word(w) : w \in ws}

OffWords == Words({"off", "disabled", "disable", "none"}) \cup {Num(0)}

ParseBool(t, fallback) ==
  IF t \in Words({"true", "yes", "y", "on", "enable", "enabled"}) \cup {Num(1)} THEN TRUE
  ELSE IF t \in Words({"false", "no", "n", "off", "disable", "disabled"}) \cup {Num(0)}
       THEN FALSE
  ELSE fallback

\* The value whose words contain t.
Meaning(t, fallback, words) ==
  IF \E m \in DOMAIN words : t \in words[m]
  THEN CHOOSE m \in DOMAIN words : t \in words[m]
  ELSE fallback

ParsePoisonMode(t, fallback) ==
  Meaning(t, fallback,
    [disable |-> OffWords,
     apply   |-> Words({"applytoweapon", "apply_to_weapon", "apply", "weapon",
                        "applyweapon", "apply_weapon"}) \cup {Num(1)},
     consume |-> Words({"consume", "drink"}) \cup {Num(2)}])

ParseContainedSoulDisplayMode(t, fallback) ==
  Meaning(t, fallback,
    [disable |-> OffWords,
     lower   |-> Words({"onlyiflowerthancapacity", "only_if_lower_than_capacity",
                        "only_if_lower", "lower_only", "lower", "auto"}) \cup {Num(1)},
     always  |-> Words({"always"}) \cup {Num(2)}])

ParseSoulGemSourceDisplayMode(t, fallback) ==
  Meaning(t, fallback,
    [disable  |-> OffWords,
     follower |-> Words({"follower", "followeronly", "follower_only"}) \cup {Num(1)},
     player   |-> Words({"player", "playeronly", "player_only"}) \cup {Num(2)},
     both     |-> Words({"both", "followerandplayer", "follower_and_player",
                         "follower&player", "follower+player"}) \cup {Num(3)}])

ParseSoulGemSortMode(t, fallback) ==
  Meaning(t, fallback,
    [name |-> Words({"name", "by_name", "sortbyname", "vanilla"}) \cup {Num(0)},
     asc  |-> Words({"soul_asc", "soulasc", "asc"}) \cup {Num(1)},
     desc |-> Words({"soul_desc", "souldesc", "desc"}) \cup {Num(2)}])

ParseFollowerStatsInTradeMenuMode(t, fallback) ==
  Meaning(t, fallback,
    [always   |-> Words({"always", "both", "all"}) \cup {Num(2)},
     follower |-> Words({"follower", "follower_side", "followerside", "followeronly",
                         "take", "take_only", "takeonly"}) \cup {Num(1)},
     disable  |-> OffWords])

\* ParseU32 and, for the whole pixels modelled here, ParseDouble.
ParseU32(t, fallback) == IF t[1] = "number" THEN t[2] ELSE fallback

ParseCharges(t, fallback) ==
  LET v == ParseU32(t, fallback) IN
  IF v = 0 THEN 1 ELSE IF v < 0 \/ v > 100 THEN 100 ELSE v

\* The log level and the texts: whatever is not blank.
ParseText(t, fallback) == IF t[1] = "word" /\ t[2] # "" THEN t[2] ELSE fallback

Parsed(parser, t, fallback) ==
  CASE parser = "bool"      -> ParseBool(t, fallback)
    [] parser = "poison"    -> ParsePoisonMode(t, fallback)
    [] parser = "contained" -> ParseContainedSoulDisplayMode(t, fallback)
    [] parser = "source"    -> ParseSoulGemSourceDisplayMode(t, fallback)
    [] parser = "sort"      -> ParseSoulGemSortMode(t, fallback)
    [] parser = "stats"     -> ParseFollowerStatsInTradeMenuMode(t, fallback)
    [] parser = "number"    -> ParseU32(t, fallback)
    [] parser = "charges"   -> ParseCharges(t, fallback)
    [] parser = "text"      -> ParseText(t, fallback)

-----------------------------------------------------------------------------
(* The loader: which field each key of a section feeds, through which parser *)

\* Keys named like their fields; the others are written out.
Reads(parser, fields) == [f \in fields |-> <<f, parser>>]
LoadCore == Reads("bool", {"enableMod"})
LoadUIFeedback == Reads("bool", {"enableNotifications", "enableUISounds"})
LoadLogging == Reads("text", {"logLevel"})
LoadActorScope ==
  Reads("bool", {"affectFormerFollowers", "includeInclusionActors",
                 "includePlayerSummons"})
LoadQuickTrade ==
  Reads("bool", {"enableQuickTrade", "enableQuickTradeForFollowers",
                 "enableQuickTradeForFormerFollowers",
                 "enableQuickTradeForInclusionActors",
                 "enableQuickTradeForPlayerSummons", "enableQuickTradeForKNoneActors",
                 "enableQuickTradeForMounts", "quickTradeAllWorldMounts"})
LoadKeyboardControls ==
  Reads("number", {"modKeyDik", "skyuiEquipModeKey", "quickTradeKeyDik"})
LoadGamepadControls ==
  Reads("number", {"gamepadModKey", "gamepadRightHandKey", "gamepadLeftHandKey",
                   "quickTradeGamepadKey"})
LoadButtonIndicators ==
  Reads("bool", {"enableModKeyIndicator"})
  ++ Reads("text", {"modKeyIndicatorText", "inclusionIndicatorText",
                    "summonIndicatorText", "equipModeTextOverride"})
LoadIconAppearance ==
  Reads("bool", {"enableIconIndicator", "enableCombatEquipIcon", "enableHeadgearIcon",
                 "enableOutfitSyncIcon", "enableHandItemIcon", "enableCustomization"})
  ++ Reads("number", {"iconSize", "gapAfterText", "gapAfterIcon", "fecIconSpacing"})
LoadEquipModeItems ==
  Reads("bool", {"enable", "enableWeapons", "enableArmor", "enableAmmo",
                 "enableTorches", "enableScrolls"})
LoadEquipModeConsumableMode ==
  Reads("bool", {"enableConsumableMode", "enablePotions", "enableFoods",
                 "enableDrinks", "enableIngredients",
                 "enableIngredientDiscoveryForPlayer"})
LoadEquipModePoisonMode ==
  [mode |-> <<"mode", "poison">>, enablePoisonStacking |-> <<"enableStacking", "bool">>,
   maxPoisonCharges |-> <<"maxCharges", "charges">>]
LoadEquipModeSpellTomeMode ==
  Reads("bool", {"enableSpellTomeMode", "doNotConsumeSpellTomes"})
LoadCombatEquipPreference ==
  Reads("bool", {"enableScoring", "enableInstanceAlign",
                 "enableClearPreferencesOnUnequip",
                 "enableClearLeftHandPreferenceOnUnequip"})
LoadCombatEquipEnforcement ==
  Reads("bool", {"enableMeleeEnforcement", "enableMeleeEnforcementEmptyHand",
                 "enableAmmoPreference"})
LoadCombatEquipRestore ==
  Reads("bool", {"enableRestorePreCombatOnExit", "enableHeadgearAutoEquip",
                 "enableInfiniteAmmo"})
LoadOutfitSync ==
  Reads("bool", {"enableUpdateNpcOutfitSuppression", "enableOutfitSnapshotRestore",
                 "allowOutfitChanges"})
LoadHiddenItems ==
  Reads("bool", {"enableNonPlayableItems", "removeHiddenArmor", "removeHiddenWeapon",
                 "removeHiddenAmmo", "enableOutfitItems",
                 "enableRevealDefaultOutfitItems", "enableRevealExternalOutfitItems"})
LoadItemInjectionBlocking ==
  Reads("bool", {"enableOutfitItemBlocker", "enableLeveledItemBlocker"})
LoadLootBlocking ==
  Reads("bool", {"enablePreventCombatLoot", "enablePreventContainerLoot",
                 "enablePreventPickupObject"})
LoadAutoEquipBlocking ==
  Reads("bool", {"enableNonCombatEquipBlocker", "enableHandItemRestore",
                 "enableBestWeaponAutoEquipSuppressor"})
LoadEquipGate ==
  Reads("bool", {"enableEquipBlocking", "enableUnequipBlocking"})
  ++ [neverBlockTorchEquip |-> <<"enableNeverBlockTorchEquip", "bool">>]
LoadWeaponEnchantmentRecharge ==
  Reads("bool", {"enableRecharge", "enableUIIndicator", "advancedSoulGemDisplay",
                 "showStackCount"})
  ++ [rechargeKeyDik |-> <<"rechargeKeyDik", "number">>,
      gamepadRechargeKey |-> <<"gamepadRechargeKey", "number">>,
      containedSoulDisplayMode |-> <<"containedSoulDisplayMode", "contained">>,
      sourceDisplayMode |-> <<"sourceDisplayMode", "source">>,
      soulGemSortMode |-> <<"soulGemSortMode", "sort">>]
LoadStatsDisplay ==
  [enableFollowerStatsInTradeMenu |-> <<"followerStatsInTradeMenuMode", "stats">>]
LoadCorpseEquipMode ==
  Reads("bool", {"enable"}) ++ Reads("text", {"indicatorText"})
LoadEngineFixes == Reads("bool", {"enableStaleWeightCacheFix"})
LoadSkyUIFixes == Reads("bool", {"enableQuantityMenuBlocker", "enableZeroWeightFix"})

\* The loader each section of the file goes to.
Loaders ==
  [core |-> LoadCore, uiFeedback |-> LoadUIFeedback, logging |-> LoadLogging,
   actorScope |-> LoadActorScope, quickTrade |-> LoadQuickTrade,
   keyboardControls |-> LoadKeyboardControls, gamepadControls |-> LoadGamepadControls,
   buttonIndicators |-> LoadButtonIndicators, iconAppearance |-> LoadIconAppearance,
   equipModeItems |-> LoadEquipModeItems,
   equipModeConsumableMode |-> LoadEquipModeConsumableMode,
   equipModePoisonMode |-> LoadEquipModePoisonMode,
   equipModeSpellTomeMode |-> LoadEquipModeSpellTomeMode,
   combatEquipPreference |-> LoadCombatEquipPreference,
   combatEquipEnforcement |-> LoadCombatEquipEnforcement,
   combatEquipRestore |-> LoadCombatEquipRestore,
   outfitSync |-> LoadOutfitSync, hiddenItems |-> LoadHiddenItems,
   itemInjectionBlocking |-> LoadItemInjectionBlocking,
   lootBlocking |-> LoadLootBlocking, autoEquipBlocking |-> LoadAutoEquipBlocking,
   equipGate |-> LoadEquipGate,
   weaponEnchantmentRecharge |-> LoadWeaponEnchantmentRecharge,
   statsDisplay |-> LoadStatsDisplay, corpseEquipMode |-> LoadCorpseEquipMode,
   engineFixes |-> LoadEngineFixes, skyUIFixes |-> LoadSkyUIFixes]

\* The same tables, by field.
KeyOf ==
  [sec \in Sections |->
    [f \in DOMAIN Defaults[sec] |->
      CHOOSE k \in DOMAIN Loaders[sec] : Loaders[sec][k][1] = f]]

\* A file is a record of sections, each a record of the keys it holds; a file
\* that is not there holds nothing.  A section or key that is missing, and a
\* value that does not parse, leave the default.
NoFile == <<>>

Load(file) ==
  [sec \in Sections |->
    [f \in DOMAIN Defaults[sec] |->
      LET k == KeyOf[sec][f]
          default == Defaults[sec][f]
      IN IF sec \in DOMAIN file /\ k \in DOMAIN file[sec]
         THEN Parsed(Loaders[sec][k][2], file[sec][k], default)
         ELSE default]]

-----------------------------------------------------------------------------
(* The template: the keys of the format string, in its order ...             *)

Keys(section, keys) == [i \in 1..Len(keys) |-> <<section, keys[i]>>]

GeneralKeys ==
  Keys("core", <<"enableMod">>)
  \o Keys("uiFeedback", <<"enableNotifications", "enableUISounds">>)
  \o Keys("logging", <<"logLevel">>)
  \o Keys("actorScope", <<"affectFormerFollowers", "includeInclusionActors",
                          "includePlayerSummons">>)
  \o Keys("quickTrade",
       <<"enableQuickTrade", "enableQuickTradeForFollowers",
         "enableQuickTradeForFormerFollowers", "enableQuickTradeForInclusionActors",
         "enableQuickTradeForPlayerSummons", "enableQuickTradeForKNoneActors",
         "enableQuickTradeForMounts", "quickTradeAllWorldMounts">>)

ControlKeys ==
  Keys("keyboardControls", <<"modKeyDik", "skyuiEquipModeKey", "quickTradeKeyDik">>)
  \o Keys("gamepadControls", <<"gamepadModKey", "gamepadRightHandKey",
                               "gamepadLeftHandKey", "quickTradeGamepadKey">>)
  \o Keys("buttonIndicators",
       <<"enableModKeyIndicator", "modKeyIndicatorText", "inclusionIndicatorText",
         "summonIndicatorText", "equipModeTextOverride">>)
  \o Keys("iconAppearance",
       <<"enableIconIndicator", "enableCombatEquipIcon", "enableHeadgearIcon",
         "enableOutfitSyncIcon", "enableHandItemIcon", "enableCustomization",
         "iconSize", "gapAfterText", "gapAfterIcon", "fecIconSpacing">>)

EquipModeKeys ==
  Keys("equipModeItems", <<"enable", "enableWeapons", "enableArmor", "enableAmmo",
                           "enableTorches", "enableScrolls">>)
  \o Keys("equipModeConsumableMode",
       <<"enableConsumableMode", "enablePotions", "enableFoods", "enableDrinks",
         "enableIngredients", "enableIngredientDiscoveryForPlayer">>)
  \o Keys("equipModePoisonMode",
       <<"mode", "enablePoisonStacking", "maxPoisonCharges">>)
  \o Keys("equipModeSpellTomeMode",
       <<"enableSpellTomeMode", "doNotConsumeSpellTomes">>)

CombatKeys ==
  Keys("combatEquipPreference",
    <<"enableScoring", "enableInstanceAlign", "enableClearPreferencesOnUnequip",
      "enableClearLeftHandPreferenceOnUnequip">>)
  \o Keys("combatEquipEnforcement",
       <<"enableMeleeEnforcement", "enableMeleeEnforcementEmptyHand",
         "enableAmmoPreference">>)
  \o Keys("combatEquipRestore",
       <<"enableRestorePreCombatOnExit", "enableHeadgearAutoEquip",
         "enableInfiniteAmmo">>)
  \o Keys("outfitSync",
       <<"enableUpdateNpcOutfitSuppression", "enableOutfitSnapshotRestore",
         "allowOutfitChanges">>)
  \o Keys("hiddenItems",
       <<"enableNonPlayableItems", "removeHiddenArmor", "removeHiddenWeapon",
         "removeHiddenAmmo", "enableOutfitItems", "enableRevealDefaultOutfitItems",
         "enableRevealExternalOutfitItems">>)

BlockingKeys ==
  Keys("itemInjectionBlocking",
    <<"enableOutfitItemBlocker", "enableLeveledItemBlocker">>)
  \o Keys("lootBlocking",
       <<"enablePreventCombatLoot", "enablePreventContainerLoot",
         "enablePreventPickupObject">>)
  \o Keys("autoEquipBlocking",
       <<"enableNonCombatEquipBlocker", "enableHandItemRestore",
         "enableBestWeaponAutoEquipSuppressor">>)
  \o Keys("equipGate",
       <<"enableEquipBlocking", "enableUnequipBlocking", "neverBlockTorchEquip">>)

ExtraKeys ==
  Keys("weaponEnchantmentRecharge",
    <<"enableRecharge", "rechargeKeyDik", "gamepadRechargeKey", "enableUIIndicator",
      "advancedSoulGemDisplay", "showStackCount", "containedSoulDisplayMode",
      "sourceDisplayMode", "soulGemSortMode">>)
  \o Keys("statsDisplay", <<"enableFollowerStatsInTradeMenu">>)
  \o Keys("corpseEquipMode", <<"enable", "indicatorText">>)
  \o Keys("engineFixes", <<"enableStaleWeightCacheFix">>)
  \o Keys("skyUIFixes", <<"enableQuantityMenuBlocker", "enableZeroWeightFix">>)

IniKeys == GeneralKeys \o ControlKeys \o EquipModeKeys \o CombatKeys
           \o BlockingKeys \o ExtraKeys

(* ... and the arguments that fill it by position, with their printers.      *)

Args(section, printer, fields) ==
  [i \in 1..Len(fields) |-> <<section, fields[i], printer>>]

Flags(section, fields) == Args(section, "bool", fields)

\* Fields of one section with a printer each.
Mixed(section, rows) == [i \in 1..Len(rows) |-> <<section, rows[i][1], rows[i][2]>>]

\* The poison mode, the soul displays and the follower's stats.
EnumTokens ==
  [poison    |-> [disable |-> "disable", consume |-> "consume", apply |-> "applytoweapon"],
   stats     |-> [disable |-> "disable", always |-> "always", follower |-> "follower_side"],
   contained |-> [disable |-> "disable", always |-> "always", lower |-> "lower_only"],
   source    |-> [both |-> "both", follower |-> "follower", player |-> "player",
                  disable |-> "disable"],
   sort      |-> [name |-> "name", desc |-> "soul_desc", asc |-> "soul_asc"]]

GeneralArgs ==
  Flags("core", <<"enableMod">>)
  \o Flags("uiFeedback", <<"enableNotifications", "enableUISounds">>)
  \o Args("logging", "text", <<"logLevel">>)
  \o Flags("actorScope", <<"affectFormerFollowers", "includeInclusionActors",
                           "includePlayerSummons">>)
  \o Flags("quickTrade",
       <<"enableQuickTrade", "enableQuickTradeForFollowers",
         "enableQuickTradeForFormerFollowers", "enableQuickTradeForInclusionActors",
         "enableQuickTradeForPlayerSummons", "enableQuickTradeForKNoneActors",
         "enableQuickTradeForMounts", "quickTradeAllWorldMounts">>)

ControlArgs ==
  Args("keyboardControls", "number",
    <<"modKeyDik", "skyuiEquipModeKey", "quickTradeKeyDik">>)
  \o Args("gamepadControls", "number",
       <<"gamepadModKey", "gamepadRightHandKey", "gamepadLeftHandKey",
         "quickTradeGamepadKey">>)
  \o Mixed("buttonIndicators",
       <<<<"enableModKeyIndicator", "bool">>, <<"modKeyIndicatorText", "text">>,
         <<"inclusionIndicatorText", "text">>, <<"summonIndicatorText", "text">>,
         <<"equipModeTextOverride", "text">>>>)
  \o Mixed("iconAppearance",
       <<<<"enableIconIndicator", "bool">>, <<"enableCombatEquipIcon", "bool">>,
         <<"enableHeadgearIcon", "bool">>, <<"enableOutfitSyncIcon", "bool">>,
         <<"enableHandItemIcon", "bool">>, <<"enableCustomization", "bool">>,
         <<"iconSize", "number">>, <<"gapAfterText", "number">>,
         <<"gapAfterIcon", "number">>, <<"fecIconSpacing", "number">>>>)

EquipModeArgs ==
  Flags("equipModeItems", <<"enable", "enableWeapons", "enableArmor", "enableAmmo",
                            "enableTorches", "enableScrolls">>)
  \o Flags("equipModeConsumableMode",
       <<"enableConsumableMode", "enablePotions", "enableFoods", "enableDrinks",
         "enableIngredients", "enableIngredientDiscoveryForPlayer">>)
  \o Mixed("equipModePoisonMode",
       <<<<"mode", "poison">>, <<"enableStacking", "bool">>, <<"maxCharges", "number">>>>)
  \o Flags("equipModeSpellTomeMode",
       <<"enableSpellTomeMode", "doNotConsumeSpellTomes">>)

CombatArgs ==
  Flags("combatEquipPreference",
    <<"enableScoring", "enableInstanceAlign", "enableClearPreferencesOnUnequip",
      "enableClearLeftHandPreferenceOnUnequip">>)
  \o Flags("combatEquipEnforcement",
       <<"enableMeleeEnforcement", "enableMeleeEnforcementEmptyHand",
         "enableAmmoPreference">>)
  \o Flags("combatEquipRestore",
       <<"enableRestorePreCombatOnExit", "enableHeadgearAutoEquip",
         "enableInfiniteAmmo">>)
  \o Flags("outfitSync",
       <<"enableUpdateNpcOutfitSuppression", "enableOutfitSnapshotRestore",
         "allowOutfitChanges">>)
  \o Flags("hiddenItems",
       <<"enableNonPlayableItems", "removeHiddenArmor", "removeHiddenWeapon",
         "removeHiddenAmmo", "enableOutfitItems", "enableRevealDefaultOutfitItems",
         "enableRevealExternalOutfitItems">>)

BlockingArgs ==
  Flags("itemInjectionBlocking",
    <<"enableOutfitItemBlocker", "enableLeveledItemBlocker">>)
  \o Flags("lootBlocking",
       <<"enablePreventCombatLoot", "enablePreventContainerLoot",
         "enablePreventPickupObject">>)
  \o Flags("autoEquipBlocking",
       <<"enableNonCombatEquipBlocker", "enableHandItemRestore",
         "enableBestWeaponAutoEquipSuppressor">>)
  \o Flags("equipGate",
       <<"enableEquipBlocking", "enableUnequipBlocking", "enableNeverBlockTorchEquip">>)

\* A deviation: an argument moved up one place.
ExtraArgsSlipped ==
  Mixed("weaponEnchantmentRecharge",
    <<<<"enableRecharge", "bool">>, <<"gamepadRechargeKey", "number">>,
      <<"rechargeKeyDik", "number">>, <<"enableUIIndicator", "bool">>,
      <<"advancedSoulGemDisplay", "bool">>, <<"showStackCount", "bool">>,
      <<"containedSoulDisplayMode", "contained">>, <<"sourceDisplayMode", "source">>,
      <<"soulGemSortMode", "sort">>>>)
  \o Args("statsDisplay", "stats", <<"followerStatsInTradeMenuMode">>)
  \o Mixed("corpseEquipMode", <<<<"enable", "bool">>, <<"indicatorText", "text">>>>)
  \o Flags("engineFixes", <<"enableStaleWeightCacheFix">>)
  \o Flags("skyUIFixes", <<"enableQuantityMenuBlocker", "enableZeroWeightFix">>)

ExtraArgs ==
  Mixed("weaponEnchantmentRecharge",
    <<<<"enableRecharge", "bool">>, <<"rechargeKeyDik", "number">>,
      <<"gamepadRechargeKey", "number">>, <<"enableUIIndicator", "bool">>,
      <<"advancedSoulGemDisplay", "bool">>, <<"showStackCount", "bool">>,
      <<"containedSoulDisplayMode", "contained">>, <<"sourceDisplayMode", "source">>,
      <<"soulGemSortMode", "sort">>>>)
  \o Args("statsDisplay", "stats", <<"followerStatsInTradeMenuMode">>)
  \o Mixed("corpseEquipMode", <<<<"enable", "bool">>, <<"indicatorText", "text">>>>)
  \o Flags("engineFixes", <<"enableStaleWeightCacheFix">>)
  \o Flags("skyUIFixes", <<"enableQuantityMenuBlocker", "enableZeroWeightFix">>)

IniArgs == GeneralArgs \o ControlArgs \o EquipModeArgs \o CombatArgs
           \o BlockingArgs \o ExtraArgs

Printed(printer, v) ==
  CASE printer = "bool"   -> Word(IF v THEN "true" ELSE "false")
    [] printer = "number" -> Num(v)
    [] printer = "text"   -> Word(v)
    [] OTHER              -> Word(EnumTokens[printer][v])

\* The argument that fills a key's place.
ArgOf ==
  [sec \in {IniKeys[i][1] : i \in DOMAIN IniKeys} |->
    [k \in {IniKeys[i][2] : i \in {j \in DOMAIN IniKeys : IniKeys[j][1] = sec}} |->
      IniArgs[CHOOSE i \in DOMAIN IniKeys : IniKeys[i] = <<sec, k>>]]]

DefaultIniContents(s) ==
  [sec \in DOMAIN ArgOf |->
    [k \in DOMAIN ArgOf[sec] |->
      Printed(ArgOf[sec][k][3], s[ArgOf[sec][k][1]][ArgOf[sec][k][2]])]]

\* What is left of a file whose writing ended after n keys.
CutAfter(file, n) ==
  LET kept == {IniKeys[i] : i \in 1..n} IN
  [sec \in {k[1] : k \in kept} |->
    [key \in {k[2] : k \in {x \in kept : x[1] = sec}} |-> file[sec][key]]]

\* What a reader finds in a file: nothing when it cannot open it.
Opened(file, opens) == IF opens THEN file ELSE NoFile

\* Loading makes the file first if it is not there; the folder may not let it.
EnsureIniExistsWithDefaults(file) ==
  IF file = NoFile THEN {NoFile, DefaultIniContents(Defaults)} ELSE {file}

\* The log level as it is written: in lower case, and "info" for none.
Normalized(s) ==
  IF s["logging"]["logLevel"] = "" THEN [s EXCEPT !["logging"]["logLevel"] = "info"]
  ELSE s

\* Save writes the whole file over the old one; only a file it cannot open
\* makes it fail, and how far the writing got is not looked at.
SaveOutcomes(file, s, cuts) ==
  LET whole == DefaultIniContents(Normalized(s)) IN
  [saved |-> {[file |-> whole, done |-> TRUE]},
   short |-> {[file |-> CutAfter(whole, n), done |-> TRUE] : n \in cuts},
   refused |-> {[file |-> file, done |-> FALSE]}]

=============================================================================
