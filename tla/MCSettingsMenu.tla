--------------------------- MODULE MCSettingsMenu ---------------------------
(* Small instances of the settings menu: in each behaviour the user plays    *)
(* with the settings of one group; the groups together hold every setting.   *)
EXTENDS SettingsMenu

In(section, fields) == {<<section, f>> : f \in fields}
Mod == In("core", {"enableMod"})

\* Settings that install or configure a feature, each with the mod's switch.
RuntimeGroups ==
  {Mod \cup g : g \in
    {In("logging", {"logLevel"}),
     In("quickTrade", {"enableQuickTrade", "enableQuickTradeForMounts"}),
     In("equipModeConsumableMode", {"enableConsumableMode", "enablePotions"}),
     In("equipModePoisonMode", {"mode"}),
     In("equipModeSpellTomeMode", {"enableSpellTomeMode", "doNotConsumeSpellTomes"}),
     In("equipGate", {"enableEquipBlocking", "enableNeverBlockTorchEquip"}),
     In("equipGate", {"enableUnequipBlocking", "enableNeverBlockTorchEquip"}),
     In("hiddenItems", {"enableNonPlayableItems", "removeHiddenWeapon"}),
     In("combatEquipPreference", {"enableScoring", "enableInstanceAlign"}),
     In("lootBlocking", {"enablePreventCombatLoot", "enablePreventContainerLoot"}),
     In("itemInjectionBlocking", {"enableOutfitItemBlocker", "enableLeveledItemBlocker"}),
     In("engineFixes", {"enableStaleWeightCacheFix"}),
     In("skyUIFixes", {"enableQuantityMenuBlocker", "enableZeroWeightFix"}),
     In("uiFeedback", {"enableNotifications", "enableUISounds"})}}
  \cup {In("outfitSync", {"enableUpdateNpcOutfitSuppression"})
        \cup In("autoEquipBlocking", {"enableNonCombatEquipBlocker",
                                      "enableHandItemRestore"}),
        In("hiddenItems", {"removeHiddenArmor", "removeHiddenWeapon", "removeHiddenAmmo"}),
        In("equipModePoisonMode", {"enableStacking", "maxCharges"})}

\* The others, two or three of one page at a time.
PageGroups ==
  {In("actorScope", {"affectFormerFollowers", "includeInclusionActors"}),
   In("actorScope", {"includePlayerSummons"})
     \cup In("quickTrade", {"enableQuickTradeForFollowers"}),
   In("quickTrade", {"enableQuickTradeForFormerFollowers",
                     "enableQuickTradeForInclusionActors"}),
   In("quickTrade", {"enableQuickTradeForPlayerSummons", "enableQuickTradeForKNoneActors"}),
   In("quickTrade", {"enableQuickTradeForMounts", "quickTradeAllWorldMounts"}),
   In("keyboardControls", {"modKeyDik", "skyuiEquipModeKey"}),
   In("gamepadControls", {"gamepadModKey", "gamepadRightHandKey"}),
   In("gamepadControls", {"gamepadLeftHandKey", "quickTradeGamepadKey"}),
   In("buttonIndicators", {"modKeyIndicatorText", "inclusionIndicatorText"}),
   In("buttonIndicators", {"summonIndicatorText", "equipModeTextOverride"}),
   In("iconAppearance", {"enableIconIndicator", "enableCombatEquipIcon"}),
   In("iconAppearance", {"enableHeadgearIcon", "enableOutfitSyncIcon"}),
   In("iconAppearance", {"enableCustomization", "iconSize"}),
   In("iconAppearance", {"gapAfterText", "gapAfterIcon"}),
   In("equipModeItems", {"enable", "enableWeapons"}),
   In("equipModeItems", {"enableArmor", "enableAmmo"}),
   In("equipModeItems", {"enableTorches", "enableScrolls"}),
   In("equipModeConsumableMode", {"enableFoods", "enableDrinks"}),
   In("equipModeConsumableMode", {"enableIngredients",
                                  "enableIngredientDiscoveryForPlayer"}),
   In("combatEquipPreference", {"enableClearPreferencesOnUnequip",
                                "enableClearLeftHandPreferenceOnUnequip"}),
   In("combatEquipEnforcement", {"enableMeleeEnforcement",
                                 "enableMeleeEnforcementEmptyHand"}),
   In("combatEquipRestore", {"enableRestorePreCombatOnExit", "enableHeadgearAutoEquip"}),
   In("outfitSync", {"enableOutfitSnapshotRestore", "allowOutfitChanges"}),
   In("hiddenItems", {"enableOutfitItems", "enableRevealDefaultOutfitItems"}),
   In("weaponEnchantmentRecharge", {"enableRecharge", "rechargeKeyDik"}),
   In("weaponEnchantmentRecharge", {"advancedSoulGemDisplay", "containedSoulDisplayMode"}),
   In("weaponEnchantmentRecharge", {"soulGemSortMode", "showStackCount"})}

\* Settings of two pages.
CrossGroups ==
  {In("buttonIndicators", {"enableModKeyIndicator"})
     \cup In("corpseEquipMode", {"enable", "indicatorText"}),
   In("keyboardControls", {"quickTradeKeyDik"})
     \cup In("weaponEnchantmentRecharge", {"gamepadRechargeKey"}),
   In("weaponEnchantmentRecharge", {"enableUIIndicator", "sourceDisplayMode"}),
   In("statsDisplay", {"followerStatsInTradeMenuMode"})
     \cup In("iconAppearance", {"fecIconSpacing"}),
   In("iconAppearance", {"enableHandItemIcon"})
     \cup In("combatEquipEnforcement", {"enableAmmoPreference"}),
   In("combatEquipRestore", {"enableInfiniteAmmo"})
     \cup In("lootBlocking", {"enablePreventPickupObject"}),
   In("hiddenItems", {"enableRevealExternalOutfitItems"})
     \cup In("autoEquipBlocking", {"enableBestWeaponAutoEquipSuppressor"})}

MCGroups == RuntimeGroups \cup PageGroups \cup CrossGroups

ASSUME EverySettingIsPlayed ==
  UNION MCGroups = UNION {{<<sec, f>> : f \in DOMAIN Defaults[sec]} : sec \in Sections}

MCTokens ==
  [bool |-> {Word("no"), Word("junk")}, number |-> {Num(0), Num(-1), Word("junk")},
   charges |-> {Num(0), Num(-1)}, text |-> {Word("long"), Word("warning"), Word("")},
   poison |-> {Num(0), Word("junk")}, contained |-> {Num(2)}, source |-> {Num(3)},
   sort |-> {Num(0)}, stats |-> {Num(2)}]
MCCuts == {50}
=============================================================================
