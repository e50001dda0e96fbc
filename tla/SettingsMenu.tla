---------------------------- MODULE SettingsMenu ----------------------------
(* The settings pages of the in-game menu over the settings and their file:  *)
(* the draft the pages edit, the widgets that hold a part of it in a form of *)
(* their own (an index for the log level, signed key codes, text buffers of  *)
(* a fixed size), Revert, Save and Reset all, and what a save switches on    *)
(* and off in the running game.  One step is one frame of one page, with at  *)
(* most one click; every frame ends by writing the widgets back to the draft *)
(* and comparing the draft with the settings in force.                       *)
EXTENDS PluginSettings

CONSTANTS
  Groups,     \* sets of <<section, field>> the user plays with in one behaviour
  Tokens,     \* per parser, what a hand writes into the file: words and numbers
  Cuts,       \* after how many keys a file's writing may end
  MaxEdits    \* bound on changes of the file by hand

ASSUME SettingsConstants ==
  /\ \A g \in Groups : \A c \in g : c[1] \in Sections /\ c[2] \in DOMAIN Defaults[c[1]]
  /\ \A t \in Tokens["text"] : t = Word(t[2])
  /\ \A t \in Tokens["charges"] : t[1] = "number" => t[2] \in Int
  /\ Cuts \subseteq 0..Len(IniKeys) - 1
  /\ MaxEdits \in Nat

VARIABLES
  file,      \* the INI file
  config,    \* g_settings
  ui,        \* g_ui
  runtime,   \* what is installed, and the settings the features cached
  game,      \* "on" or "off"
  group,     \* the group of this behaviour
  reset,     \* the page whose Reset all was the last click, or "none"
  ghost      \* what happened to the file (see Ghosts), and the edits so far

vars == <<file, config, ui, runtime, game, group, reset, ghost>>

\* foreign: the file is not as the plugin wrote it last; unread: nor has it
\* been read since, or it did not open when it was to be; unapplied: the
\* settings come from such a file by Revert, or the logger alone read it.
Ghosts == [foreign : BOOLEAN, unread : BOOLEAN, unapplied : BOOLEAN, edits : 0..MaxEdits]

-----------------------------------------------------------------------------
(* Log levels                                                                *)

LogLevels == <<"trace", "debug", "info", "warn", "error", "critical", "off">>

LogLevelIndexFromString(s) ==
  LET named == {i \in 1..7 : \/ LogLevels[i] = s
                             \/ LogLevels[i] = "warn" /\ s = "warning"
                             \/ LogLevels[i] = "error" /\ s = "err"}
  IN IF named = {} THEN 2 ELSE (CHOOSE i \in named : TRUE) - 1

LogLevelStringFromIndex(idx) == LogLevels[idx + 1]

\* The logger's own reading of a level.
ParseLogLevel(s) ==
  CASE s \in {"warn", "warning"} -> "warn"
    [] s \in {"err", "error"} -> "error"
    [] s \in {"trace", "debug", "info", "critical", "off"} -> s
    [] OTHER -> "info"

\* The logger starts before the settings are loaded and looks into the file
\* itself.
LoadConfiguredLogLevel(f) ==
  IF "logging" \in DOMAIN f /\ "logLevel" \in DOMAIN f["logging"]
  THEN ParseLogLevel(f["logging"]["logLevel"][2])
  ELSE "info"

-----------------------------------------------------------------------------
(* The draft and its widgets                                                 *)

\* The settings the pages edit through a widget.
KeyWidgets ==
  [modKeyDik |-> "keyboardControls", skyuiEquipModeKey |-> "keyboardControls",
   quickTradeKeyDik |-> "keyboardControls",
   gamepadModKey |-> "gamepadControls", gamepadRightHandKey |-> "gamepadControls",
   gamepadLeftHandKey |-> "gamepadControls", quickTradeGamepadKey |-> "gamepadControls",
   rechargeKeyDik |-> "weaponEnchantmentRecharge",
   gamepadRechargeKey |-> "weaponEnchantmentRecharge"]
TextWidgets ==
  [modKeyIndicatorText |-> "buttonIndicators", summonIndicatorText |-> "buttonIndicators",
   inclusionIndicatorText |-> "buttonIndicators",
   equipModeTextOverride |-> "buttonIndicators", indicatorText |-> "corpseEquipMode"]

Widgets == {"logLevel"} \cup DOMAIN KeyWidgets \cup DOMAIN TextWidgets

\* A buffer holds ninety-five characters: of a "long" text it keeps the "cut".
CopyToBuffer(text) == IF text = "long" THEN "cut" ELSE text

RebuildDerivedFromDraft(draft) ==
  [w \in Widgets |->
    IF w = "logLevel" THEN LogLevelIndexFromString(draft["logging"]["logLevel"])
    ELSE IF w \in DOMAIN KeyWidgets THEN draft[KeyWidgets[w]][w]
    ELSE CopyToBuffer(draft[TextWidgets[w]][w])]

ValidateGamepadKey(val, fallback) == IF val \in 266..281 THEN val ELSE fallback
KeyOr(val, fallback) == IF val <= 0 THEN fallback ELSE val

\* What the draft takes from a widget that holds val.
Committed(w, val) ==
  CASE w = "logLevel" -> LogLevelStringFromIndex(val)
    [] w \in DOMAIN TextWidgets -> val
    [] w \in DOMAIN Defaults["keyboardControls"] -> KeyOr(val, 0)
    [] w = "rechargeKeyDik" -> KeyOr(val, Defaults["weaponEnchantmentRecharge"][w])
    [] w = "quickTradeGamepadKey" -> ValidateGamepadKey(val, 0)
    [] OTHER -> ValidateGamepadKey(val, Defaults[KeyWidgets[w]][w])

CommitDerivedToDraft(draft, derived) ==
  [sec \in Sections |->
    [f \in DOMAIN Defaults[sec] |->
      IF f \in Widgets THEN Committed(f, derived[f]) ELSE draft[sec][f]]]

FreshUI == [initialized |-> FALSE, dirty |-> FALSE, draft |-> Defaults,
            derived |-> RebuildDerivedFromDraft(Defaults)]

ApplySettingsToUIState(s) ==
  [initialized |-> TRUE, dirty |-> FALSE, draft |-> s,
   derived |-> RebuildDerivedFromDraft(s)]

\* The menu's state as a frame begins, and as it ends over the settings s.
Begun == IF ui.initialized THEN ui ELSE ApplySettingsToUIState(config)
Ended(u, s) ==
  LET d == CommitDerivedToDraft(u.draft, u.derived)
  IN [u EXCEPT !.draft = d, !.dirty = d # s]

-----------------------------------------------------------------------------
(* The pages: the controls each shows, and under which switches              *)

\* Controls of a section that are always there, and controls drawn only while
\* one of the given settings of each set is on.
Shows(section, fields) == {<<section, f, {}>> : f \in fields}
ShowsUnder(switches, section, fields) == {<<section, f, switches>> : f \in fields}
Switch(section, field) == {<<section, field>>}

RenderSystem ==
  Shows("core", {"enableMod"})
  \cup Shows("uiFeedback", {"enableNotifications", "enableUISounds"})
  \cup Shows("logging", {"logLevel"})

RenderScopeAndAccess ==
  LET trade == Switch("quickTrade", "enableQuickTrade") IN
  Shows("actorScope", {"affectFormerFollowers", "includeInclusionActors",
                       "includePlayerSummons"})
  \cup Shows("quickTrade", {"enableQuickTrade"})
  \cup ShowsUnder({trade}, "quickTrade",
         {"enableQuickTradeForFollowers", "enableQuickTradeForFormerFollowers",
          "enableQuickTradeForInclusionActors", "enableQuickTradeForPlayerSummons",
          "enableQuickTradeForKNoneActors", "enableQuickTradeForMounts"})
  \cup ShowsUnder({trade, Switch("quickTrade", "enableQuickTradeForMounts")},
         "quickTrade", {"quickTradeAllWorldMounts"})

KeyRows ==
  Shows("keyboardControls", {"modKeyDik", "skyuiEquipModeKey", "quickTradeKeyDik"})
  \cup Shows("gamepadControls", {"gamepadModKey", "gamepadRightHandKey",
                                 "gamepadLeftHandKey", "quickTradeGamepadKey"})
IndicatorRows ==
  LET texts == Switch("buttonIndicators", "enableModKeyIndicator")
      icons == Switch("iconAppearance", "enableIconIndicator") IN
  Shows("buttonIndicators", {"enableModKeyIndicator"})
  \cup ShowsUnder({texts}, "buttonIndicators",
         {"modKeyIndicatorText", "inclusionIndicatorText", "summonIndicatorText",
          "equipModeTextOverride"})
  \cup Shows("iconAppearance", {"enableIconIndicator"})
  \cup ShowsUnder({icons}, "iconAppearance",
         {"enableCombatEquipIcon", "enableHeadgearIcon", "enableOutfitSyncIcon",
          "enableHandItemIcon", "enableCustomization"})
  \cup ShowsUnder({icons, Switch("iconAppearance", "enableCustomization")},
         "iconAppearance", {"iconSize", "gapAfterText", "gapAfterIcon", "fecIconSpacing"})

RenderControlsAndUI == KeyRows \cup IndicatorRows

ItemRows ==
  LET items == Switch("equipModeItems", "enable")
      consumables == Switch("equipModeConsumableMode", "enableConsumableMode") IN
  Shows("equipModeItems", {"enable"})
  \cup ShowsUnder({items}, "equipModeItems",
         {"enableWeapons", "enableArmor", "enableAmmo", "enableTorches", "enableScrolls"})
  \cup Shows("equipModeConsumableMode", {"enableConsumableMode"})
  \cup ShowsUnder({consumables}, "equipModeConsumableMode",
         {"enablePotions", "enableFoods", "enableDrinks", "enableIngredients"})
  \cup ShowsUnder({consumables, Switch("equipModeConsumableMode", "enableIngredients")},
         "equipModeConsumableMode", {"enableIngredientDiscoveryForPlayer"})
PoisonAndTomeRows ==
  LET applying == Switch("equipModePoisonMode", "mode") IN
  Shows("equipModePoisonMode", {"mode"})
  \cup ShowsUnder({applying}, "equipModePoisonMode", {"enableStacking"})
  \cup ShowsUnder({applying, Switch("equipModePoisonMode", "enableStacking")},
         "equipModePoisonMode", {"maxCharges"})
  \cup Shows("equipModeSpellTomeMode", {"enableSpellTomeMode"})
  \cup ShowsUnder({Switch("equipModeSpellTomeMode", "enableSpellTomeMode")},
         "equipModeSpellTomeMode", {"doNotConsumeSpellTomes"})

RenderEquipMode == ItemRows \cup PoisonAndTomeRows

RenderCombatEquip ==
  Shows("combatEquipPreference",
    {"enableScoring", "enableInstanceAlign", "enableClearPreferencesOnUnequip",
     "enableClearLeftHandPreferenceOnUnequip"})
  \cup Shows("combatEquipEnforcement", {"enableMeleeEnforcement", "enableAmmoPreference"})
  \cup ShowsUnder({Switch("combatEquipEnforcement", "enableMeleeEnforcement")},
         "combatEquipEnforcement", {"enableMeleeEnforcementEmptyHand"})
  \cup Shows("combatEquipRestore",
         {"enableRestorePreCombatOnExit", "enableHeadgearAutoEquip", "enableInfiniteAmmo"})

OutfitRows ==
  LET suppression == Switch("outfitSync", "enableUpdateNpcOutfitSuppression") IN
  Shows("outfitSync", {"enableUpdateNpcOutfitSuppression"})
  \cup ShowsUnder({suppression}, "outfitSync", {"enableOutfitSnapshotRestore"})
  \cup ShowsUnder({suppression, Switch("outfitSync", "enableOutfitSnapshotRestore")},
         "outfitSync", {"allowOutfitChanges"})
  \cup Shows("hiddenItems", {"enableNonPlayableItems", "enableOutfitItems"})
  \cup ShowsUnder({Switch("hiddenItems", "enableNonPlayableItems")}, "hiddenItems",
         {"removeHiddenArmor", "removeHiddenWeapon", "removeHiddenAmmo"})
  \cup ShowsUnder({Switch("hiddenItems", "enableOutfitItems")}, "hiddenItems",
         {"enableRevealDefaultOutfitItems", "enableRevealExternalOutfitItems"})
BlockingRows ==
  Shows("itemInjectionBlocking", {"enableOutfitItemBlocker", "enableLeveledItemBlocker"})
  \cup Shows("lootBlocking", {"enablePreventCombatLoot", "enablePreventContainerLoot",
                              "enablePreventPickupObject"})
  \cup Shows("autoEquipBlocking", {"enableNonCombatEquipBlocker",
                                   "enableBestWeaponAutoEquipSuppressor"})
  \cup ShowsUnder({Switch("autoEquipBlocking", "enableNonCombatEquipBlocker")},
         "autoEquipBlocking", {"enableHandItemRestore"})
  \cup Shows("equipGate", {"enableEquipBlocking", "enableUnequipBlocking"})
  \cup ShowsUnder({{<<"equipGate", "enableEquipBlocking">>,
                    <<"equipGate", "enableUnequipBlocking">>}},
         "equipGate", {"enableNeverBlockTorchEquip"})

RenderEquipStability == OutfitRows \cup BlockingRows

RechargeRows ==
  LET recharge == Switch("weaponEnchantmentRecharge", "enableRecharge") IN
  Shows("weaponEnchantmentRecharge", {"enableRecharge"})
  \cup ShowsUnder({recharge}, "weaponEnchantmentRecharge",
         {"rechargeKeyDik", "gamepadRechargeKey", "enableUIIndicator",
          "advancedSoulGemDisplay"})
  \cup ShowsUnder({recharge, Switch("weaponEnchantmentRecharge", "advancedSoulGemDisplay")},
         "weaponEnchantmentRecharge",
         {"showStackCount", "containedSoulDisplayMode", "sourceDisplayMode",
          "soulGemSortMode"})
StatsAndCorpseRows ==
  Shows("statsDisplay", {"followerStatsInTradeMenuMode"})
  \cup Shows("corpseEquipMode", {"enable"})
  \cup ShowsUnder({Switch("corpseEquipMode", "enable")}, "corpseEquipMode",
         {"indicatorText"})

RenderExtraFeatures == RechargeRows \cup StatsAndCorpseRows

RenderFixes ==
  Shows("engineFixes", {"enableStaleWeightCacheFix"})
  \cup Shows("skyUIFixes", {"enableQuantityMenuBlocker", "enableZeroWeightFix"})

Page ==
  [system |-> RenderSystem, scope |-> RenderScopeAndAccess,
   controls |-> RenderControlsAndUI, equipMode |-> RenderEquipMode,
   combat |-> RenderCombatEquip, stability |-> RenderEquipStability,
   extra |-> RenderExtraFeatures, fixes |-> RenderFixes]
Pages == DOMAIN Page

\* A dependent block is drawn while its switch is on: for the poison mode,
\* while it applies poisons to weapons.
SwitchedOn(draft, c) ==
  IF c[2] = "mode" THEN draft[c[1]][c[2]] = "apply" ELSE draft[c[1]][c[2]]

Drawn(control, draft) == \A any \in control[3] : \E c \in any : SwitchedOn(draft, c)

-----------------------------------------------------------------------------
(* Reset all                                                                 *)

All(sections) == UNION {{<<sec, f>> : f \in DOMAIN Defaults[sec]} : sec \in sections}

ResetSystem == {<<"core", "enableMod">>} \cup All({"uiFeedback", "logging"})
ResetScopeAndAccess ==
  {<<"actorScope", f>> : f \in {"affectFormerFollowers", "includeInclusionActors",
                                "includePlayerSummons"}}
  \cup {<<"quickTrade", f>> :
          f \in {"enableQuickTrade", "enableQuickTradeForFollowers",
                 "enableQuickTradeForFormerFollowers",
                 "enableQuickTradeForPlayerSummons",
                 "enableQuickTradeForInclusionActors",
                 "enableQuickTradeForKNoneActors", "enableQuickTradeForMounts",
                 "quickTradeAllWorldMounts"}}
ResetControlsAndUI ==
  All({"keyboardControls", "gamepadControls", "buttonIndicators", "iconAppearance"})
ResetEquipMode ==
  All({"equipModeItems", "equipModeConsumableMode", "equipModePoisonMode",
       "equipModeSpellTomeMode"})
ResetCombatEquip ==
  All({"combatEquipPreference", "combatEquipEnforcement", "combatEquipRestore"})
ResetEquipStability ==
  All({"outfitSync", "hiddenItems", "itemInjectionBlocking", "lootBlocking",
       "autoEquipBlocking", "equipGate"})
ResetExtraFeatures == All({"weaponEnchantmentRecharge", "statsDisplay", "corpseEquipMode"})
ResetFixes == All({"engineFixes", "skyUIFixes"})

ResetFields ==
  [system |-> ResetSystem, scope |-> ResetScopeAndAccess,
   controls |-> ResetControlsAndUI, equipMode |-> ResetEquipMode,
   combat |-> ResetCombatEquip, stability |-> ResetEquipStability,
   extra |-> ResetExtraFeatures, fixes |-> ResetFixes]

\* The sections a page compares with the defaults to offer its Reset all.
PageSections ==
  [system |-> {"core", "uiFeedback", "logging"}, scope |-> {"actorScope", "quickTrade"},
   controls |-> {"keyboardControls", "gamepadControls", "buttonIndicators",
                 "iconAppearance"},
   equipMode |-> {"equipModeItems", "equipModeConsumableMode", "equipModePoisonMode",
                  "equipModeSpellTomeMode"},
   combat |-> {"combatEquipPreference", "combatEquipEnforcement", "combatEquipRestore"},
   stability |-> {"outfitSync", "hiddenItems", "itemInjectionBlocking", "lootBlocking",
                  "autoEquipBlocking", "equipGate"},
   extra |-> {"weaponEnchantmentRecharge", "statsDisplay", "corpseEquipMode"},
   fixes |-> {"engineFixes", "skyUIFixes"}]

CanResetAll(page) == \E sec \in PageSections[page] : ui.draft[sec] # Defaults[sec]

\* A deviation: the widgets keep what they show.
ResetDraftOnly(u, fields) ==
  [u EXCEPT !.draft = [sec \in Sections |->
     [f \in DOMAIN @[sec] |->
        IF <<sec, f>> \in fields THEN Defaults[sec][f] ELSE @[sec][f]]]]

ResetToDefaults(u, fields) ==
  LET d == [sec \in Sections |->
             [f \in DOMAIN u.draft[sec] |->
               IF <<sec, f>> \in fields THEN Defaults[sec][f] ELSE u.draft[sec][f]]]
  IN [u EXCEPT !.draft = d, !.derived = RebuildDerivedFromDraft(d)]

-----------------------------------------------------------------------------
(* What is installed, and what is cached                                     *)

\* Features whose Install reads their setting and uninstalls when it is off.
Gated(s) ==
  LET hidden == s["hiddenItems"]
      hands == s["autoEquipBlocking"] IN
  [npcOutfitUpdateHook |->
      \/ s["outfitSync"]["enableUpdateNpcOutfitSuppression"]
      \/ hands["enableNonCombatEquipBlocker"] /\ hands["enableHandItemRestore"],
   bestWeaponAutoEquipSuppressor |-> hands["enableBestWeaponAutoEquipSuppressor"],
   nonPlayableItemSanitizer |->
      /\ hidden["enableNonPlayableItems"]
      /\ \/ hidden["removeHiddenWeapon"]
         \/ hidden["removeHiddenArmor"]
         \/ hidden["removeHiddenAmmo"],
   outfitItemSanitizer |-> hidden["enableOutfitItems"],
   leveledItemBlocker |-> s["itemInjectionBlocking"]["enableLeveledItemBlocker"],
   outfitItemBlocker |-> s["itemInjectionBlocking"]["enableOutfitItemBlocker"],
   combatEquipScore |-> s["combatEquipPreference"]["enableScoring"],
   infiniteAmmo |-> s["combatEquipRestore"]["enableInfiniteAmmo"],
   containerLootBlocker |-> s["lootBlocking"]["enablePreventContainerLoot"],
   combatLootBlocker |-> s["lootBlocking"]["enablePreventCombatLoot"],
   quickTrade |-> s["quickTrade"]["enableQuickTrade"]]

\* Features of the router: their Install leaves an installed one alone.
RouterOwned(s) ==
  [consumableMode |-> s["equipModeConsumableMode"]["enableConsumableMode"],
   poisonMode |-> s["equipModePoisonMode"]["mode"] # "disable",
   spellTomeMode |-> s["equipModeSpellTomeMode"]["enableSpellTomeMode"],
   staleWeightCacheFix |-> s["engineFixes"]["enableStaleWeightCacheFix"],
   quantityMenuBlocker |-> s["skyUIFixes"]["enableQuantityMenuBlocker"],
   zeroWeightTakeAllFix |-> s["skyUIFixes"]["enableZeroWeightFix"]]

Wanted(table) == {f \in DOMAIN table : table[f]}

\* A mode takes its options as it is installed; the gate takes its three
\* toggles at every install.
WithRouter(rt, s) ==
  IF "router" \in rt.installed THEN rt
  ELSE LET new == Wanted(RouterOwned(s)) \ rt.installed IN
       [rt EXCEPT
          !.installed = (@ \cup new \cup {"router"})
                        \ (IF s["engineFixes"]["enableStaleWeightCacheFix"] THEN {}
                           ELSE {"staleWeightCacheFix"}),
          !.consumables = IF "consumableMode" \in new
                          THEN s["equipModeConsumableMode"] ELSE @,
          !.poison = IF "poisonMode" \in new
                     THEN s["equipModePoisonMode"]["mode"] ELSE @]

InstallAllFeatures(rt, s) ==
  IF ~s["core"]["enableMod"] THEN [rt EXCEPT !.installed = {}]
  ELSE LET r == WithRouter(rt, s) IN
       [r EXCEPT !.installed = (@ \ DOMAIN Gated(s)) \cup Wanted(Gated(s)),
                 !.gate = s["equipGate"]]

\* A deviation: modes that are on keep their options, as in Install.
AppliedByInstall(rt, s) ==
  InstallAllFeatures([rt EXCEPT !.level = ParseLogLevel(s["logging"]["logLevel"])], s)

ApplyRuntime(rt, s) ==
  LET levelled == [rt EXCEPT !.level = ParseLogLevel(s["logging"]["logLevel"])]
      owned == RouterOwned(s)
  IN IF ~s["core"]["enableMod"] THEN InstallAllFeatures(levelled, s)
     ELSE InstallAllFeatures(
            [levelled EXCEPT
               !.installed = (@ \ DOMAIN owned) \cup Wanted(owned),
               !.consumables = IF owned["consumableMode"]
                               THEN s["equipModeConsumableMode"] ELSE @,
               !.poison = IF owned["poisonMode"]
                          THEN s["equipModePoisonMode"]["mode"] ELSE @,
               !.gate = s["equipGate"]], s)

NothingRuns ==
  [installed |-> {}, consumables |-> Defaults["equipModeConsumableMode"],
   poison |-> "apply", gate |-> Defaults["equipGate"], level |-> "info"]

-----------------------------------------------------------------------------
(* Clicks on the controls                                                    *)

\* What a control offers: both ways of a checkbox, the segments of an enum,
\* a few keys (0 where the list has a "none" row), the ends of a slider.
Choices ==
  [mode |-> {"disable", "apply", "consume"},
   containedSoulDisplayMode |-> {"disable", "lower", "always"},
   sourceDisplayMode |-> {"disable", "follower", "player", "both"},
   soulGemSortMode |-> {"name", "asc", "desc"},
   followerStatsInTradeMenuMode |-> {"disable", "follower", "always"},
   logLevel |-> 1..3, maxCharges |-> {1, 100},
   iconSize |-> {4, 24}, gapAfterText |-> {0, 20}, gapAfterIcon |-> {0, 20},
   fecIconSpacing |-> {0, 20},
   modKeyDik |-> {30}, rechargeKeyDik |-> {30},
   skyuiEquipModeKey |-> {0, 30}, quickTradeKeyDik |-> {0, 30},
   gamepadModKey |-> {281}, gamepadRightHandKey |-> {281}, gamepadLeftHandKey |-> {281},
   gamepadRechargeKey |-> {281}, quickTradeGamepadKey |-> {0, 281}]
  ++ [t \in DOMAIN TextWidgets |-> {"", "words"}]

Offered(field) == IF field \in DOMAIN Choices THEN Choices[field] ELSE BOOLEAN

\* The "default" button of a control.  A text's button writes the default
\* text of the language, where the setting's own default is none.
ByDefault(section, field) ==
  IF field \in DOMAIN TextWidgets THEN "localized"
  ELSE IF field = "logLevel" THEN LogLevelIndexFromString(Defaults[section][field])
  ELSE Defaults[section][field]

\* A control writes its widget, or else the draft itself.
Written(u, section, field, v) ==
  IF field \in Widgets THEN [u EXCEPT !.derived[field] = v]
  ELSE [u EXCEPT !.draft[section][field] = v]

-----------------------------------------------------------------------------
(* Frames                                                                    *)

InMenu == game = "on"

\* A page, or the page of the actors, is drawn and nothing is clicked.
Draw ==
  /\ InMenu
  /\ ui' = Ended(Begun, config)
  /\ reset' = "none"
  /\ UNCHANGED <<file, config, runtime, game, group, ghost>>

\* A control of a page is used, or its default button.
Use ==
  /\ InMenu
  /\ \E page \in Pages : \E control \in Page[page] :
       /\ <<control[1], control[2]>> \in group
       /\ Drawn(control, Begun.draft)
       /\ \E v \in Offered(control[2]) \cup {ByDefault(control[1], control[2])} :
            ui' = Ended(Written(Begun, control[1], control[2], v), config)
  /\ reset' = "none"
  /\ UNCHANGED <<file, config, runtime, game, group, ghost>>

ResetAll ==
  /\ InMenu
  /\ \E page \in Pages :
       /\ CanResetAll(page)
       /\ ui' = Ended(ResetToDefaults(Begun, ResetFields[page]), config)
       /\ reset' = page
  /\ UNCHANGED <<file, config, runtime, game, group, ghost>>

\* Revert reads the file again, for the settings in force too, and applies
\* nothing.  A file that does not open reads as the defaults.
Revert ==
  /\ InMenu
  /\ Begun.dirty
  /\ file' \in EnsureIniExistsWithDefaults(file)
  /\ \E opens \in BOOLEAN :
       /\ config' = Load(Opened(file', opens))
       /\ ghost' = [ghost EXCEPT !.unread = ~opens,
                                !.unapplied = @ \/ ghost.unread \/ ~opens]
  /\ ui' = Ended(ApplySettingsToUIState(config'), config')
  /\ reset' = "none"
  /\ UNCHANGED <<runtime, game, group>>

SaveAndApply(u, outcome) ==
  IF outcome.done
  THEN /\ config' = u.draft
       /\ runtime' = ApplyRuntime(runtime, u.draft)
       /\ ui' = Ended([u EXCEPT !.dirty = FALSE], config')
  ELSE /\ ui' = Ended(u, config)
       /\ UNCHANGED <<config, runtime>>

Save ==
  /\ InMenu
  /\ Begun.dirty
  /\ LET u == [Begun EXCEPT !.draft = CommitDerivedToDraft(Begun.draft, Begun.derived)]
         outcomes == SaveOutcomes(file, u.draft, Cuts)
     IN \E how \in DOMAIN outcomes : \E outcome \in outcomes[how] :
          /\ file' = outcome.file
          /\ SaveAndApply(u, outcome)
          /\ ghost' = CASE how = "saved"   -> [ghost EXCEPT !.foreign = FALSE,
                                                !.unread = FALSE, !.unapplied = FALSE]
                        [] how = "short"   -> [ghost EXCEPT !.foreign = TRUE,
                                                !.unread = TRUE, !.unapplied = FALSE]
                        [] how = "refused" -> ghost
  /\ reset' = "none"
  /\ UNCHANGED <<game, group>>

-----------------------------------------------------------------------------
(* The game's life, and the file's                                           *)

\* The logger, the settings, and the features once the game's data are loaded.
\* Logger and loader each open the file, and either may fail to.
Launch ==
  /\ game = "off"
  /\ game' = "on"
  /\ file' \in EnsureIniExistsWithDefaults(file)
  /\ \E logs, opens \in BOOLEAN :
       /\ config' = Load(Opened(file', opens))
       /\ runtime' = InstallAllFeatures(
             [NothingRuns EXCEPT !.level = LoadConfiguredLogLevel(Opened(file, logs))], config')
       /\ ghost' = [ghost EXCEPT !.unread = ~opens, !.unapplied = logs # opens]
  /\ UNCHANGED <<ui, group, reset>>

\* A new game is started or a save is loaded.
LoadGame ==
  /\ game = "on"
  /\ runtime' = InstallAllFeatures(runtime, config)
  /\ reset' = "none"
  /\ UNCHANGED <<file, config, ui, game, group, ghost>>

Stopped ==
  /\ game' = "off"
  /\ config' = Defaults
  /\ ui' = FreshUI
  /\ runtime' = NothingRuns
  /\ reset' = "none"

Quit ==
  /\ game = "on"
  /\ Stopped
  /\ ghost' = [ghost EXCEPT !.unapplied = FALSE]
  /\ UNCHANGED <<file, group>>

\* The game goes down with the file half written.
CrashInSave ==
  /\ InMenu
  /\ Begun.dirty
  /\ Stopped
  /\ \E outcome \in SaveOutcomes(file, CommitDerivedToDraft(Begun.draft, Begun.derived),
                                 Cuts).short :
       file' = outcome.file
  /\ ghost' = [ghost EXCEPT !.foreign = TRUE, !.unread = TRUE, !.unapplied = FALSE]
  /\ UNCHANGED group

\* The file is edited, a key of it struck out, or the file deleted.
EditFile ==
  /\ ghost.edits < MaxEdits
  /\ file # NoFile
  /\ \/ file' = NoFile
     \/ \E c \in group :
          LET sec == c[1]
              k == KeyOf[sec][c[2]]
              parser == Loaders[sec][k][2]
          IN /\ sec \in DOMAIN file
             /\ k \in DOMAIN file[sec]
             /\ \/ \E t \in Tokens[parser] : file' = [file EXCEPT ![sec][k] = t]
                \/ file' = [file EXCEPT ![sec] =
                              [x \in DOMAIN @ \ {k} |-> @[x]]]
  /\ ghost' = [ghost EXCEPT !.foreign = TRUE, !.unread = TRUE, !.edits = @ + 1]
  /\ UNCHANGED <<config, ui, runtime, game, group, reset>>

Init ==
  /\ file = NoFile
  /\ config = Defaults
  /\ ui = FreshUI
  /\ runtime = NothingRuns
  /\ game = "off"
  /\ group \in Groups
  /\ reset = "none"
  /\ ghost = [foreign |-> FALSE, unread |-> FALSE, unapplied |-> FALSE, edits |-> 0]

MenuStep == Draw \/ Use \/ ResetAll \/ Revert \/ Save
GameStep == Launch \/ LoadGame \/ Quit \/ CrashInSave

Next == MenuStep \/ GameStep \/ EditFile

Spec == Init /\ [][Next]_vars

-----------------------------------------------------------------------------
(* Properties                                                                *)

\* Every setting keeps its kind, the menu's widgets stay within their ranges,
\* and only features the code knows are ever installed.
TypeOK ==
  /\ \A s \in {config, ui.draft} : \A sec \in Sections : DOMAIN s[sec] = DOMAIN Defaults[sec]
  /\ ui.initialized \in BOOLEAN /\ ui.dirty \in BOOLEAN
  /\ DOMAIN ui.derived = Widgets /\ ui.derived["logLevel"] \in 0..6
  /\ runtime.installed \subseteq
       {"router"} \cup DOMAIN Gated(Defaults) \cup DOMAIN RouterOwned(Defaults)
  /\ game \in {"on", "off"} /\ group \in Groups /\ reset \in Pages \cup {"none"}
  /\ ghost \in Ghosts

\* A menu that shows nothing unsaved shows what the file will give the next
\* game: Save's template and the loader agree on every setting, through every
\* printer and parser, and no edit is dropped without the mark.  (A file that
\* somebody else wrote since, or that did not open, was not read.)
CleanMeansSaved ==
  (InMenu /\ ui.initialized /\ ~ui.dirty /\ ~ghost.unread) => Load(file) = ui.draft

\* The settings in force are what the features run with: which of them are
\* installed, the options the modes and the equip gate cached, the log level.
\* (Revert may read a file that somebody else wrote, or fail to open it, and
\* one of logger and loader may fail to; then they differ until the next save
\* or the next game.)
RuntimeFollowsSettings ==
  (InMenu /\ ~ghost.unapplied) =>
    /\ runtime.level = ParseLogLevel(config["logging"]["logLevel"])
    /\ IF config["core"]["enableMod"]
       THEN /\ runtime.installed = {"router"} \cup Wanted(Gated(config))
                                    \cup Wanted(RouterOwned(config))
            /\ runtime.gate = config["equipGate"]
            /\ RouterOwned(config)["consumableMode"] =>
                 runtime.consumables = config["equipModeConsumableMode"]
            /\ RouterOwned(config)["poisonMode"] =>
                 runtime.poison = config["equipModePoisonMode"]["mode"]
       ELSE runtime.installed = {}

\* Reset all puts every setting of its page at its default, so that the page
\* no longer offers it, whatever the page's widgets held, and keeps what was
\* changed on the other pages and not yet saved.
ResetIsExact ==
  [][reset' # "none" =>
       /\ (~CanResetAll(reset))'
       /\ \A sec \in Sections \ PageSections[reset'] :
            ui'.draft[sec] = ui.draft[sec] \/ reset' = reset]_vars
=============================================================================
