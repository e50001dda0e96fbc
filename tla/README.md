# FollowerEquipControl: a formal model

FollowerEquipControl is an SKSE plugin for Skyrim SE/AE that lets the player decide
what followers wear, hold and fight with. This directory holds TLA+ modules of the
plugin, the TLC configurations that check them, and TLAPS proofs about them. Paths
below are relative to the source directory of the repository, `src/`, unless they say
otherwise.

`PROJECT.json` says which definition models which lines, which run checks which
property, which hazard of the code is covered by what, and what is proved.

## 1. The system

The plugin has no thread of its own. It is called by the game:

- **SKSE tasks.** `AddTask` puts a closure in a queue that the game's main thread drains
  every frame, in order. What a running task queues runs on the next frame. A task
  cannot be taken out again.
- **Hooks.** Vtable and call-site hooks on equipping, unequipping, `UpdateNPCOutfit`,
  item transfer, picking up, `AddObjectToContainer`, `UseAmmo` and the container
  menu's frame. Some run on the game's job threads as well as on the main thread.
- **Event sinks.** Combat state, death, form deletion, menu open and close, input.
- **SKSE messages and serialization.** Save, revert, load, "game loaded".
- **The settings page** (SKSE Menu Framework), which reads and writes settings and
  the per-actor stores.

State is a handful of maps from FormID to records, in file-level variables, most of
them behind a mutex each; settings; and what the game remembers (inventory, worn
items, extra lists). What is hard follows from that: requests, tasks and events
of different features overtake one another; a queued task outlives a load, a death and
the master switch; FormIDs of dynamic actors are recycled; several features restore the
same hands and the same head; state read before an engine call is used after it; copies
are known by the address of an extra list that the engine replaces.

### 1.1 Components

| component | state | operations | talks to | hard | correct means |
|---|---|---|---|---|---|
| Hand-item restore (`features/equip_suppression/equip/HandItemRestore`) | snapshot of right, left, ammo per actor; pending set; menu-close set | capture of a user's equip or unequip, baseline, request, restore task, flush on menu close, save, load, erase, install | equip gate and outfit hook (requests), router (captures), open actions (baseline), serialization, actor cleanup | two sets and a queue kept in step from several threads; one-handed, two-handed, shield, torch and bound items push each other out | recorded hands are wearable; a restore reaches a fixed point and equips nothing that is not there; an accepted request is served |
| Pre-combat restore (`features/combat_equip/restore/PreCombatEquipRestore`) | snapshot, last combat state, pending flag and tries per actor | combat event, restore task, reconcile task, save, load, erase | combat events, serialization, actor cleanup | a fight that ends before, during or after tasks of an older one; retries over frames; a save in the middle of a fight | what is put on is what was worn when this fight began; the last restore wins; retries end |
| Combat headgear (`.../HeadgearAutoEquip`) | worn headgear per actor, preferred headgear | combat event, equip, restore, reconcile | preferences, combat events, outfit sync (same slots) | as above, with slots that the wardrobe restore fills too | the wardrobe's headgear is back after the fight |
| Combat override (`features/combat_equip/override`) | last ammo per actor, actors with a re-equip task | decide an equip or unequip of the AI: allow, block or swap; re-equip ammo later | equip gate, preferences, instance resolver | a swap is itself an equip; each hand is enforced in turn and can empty the other | the AI's choice is overridden only by one the player made, and enforcing it ends |
| Combat preference (`features/combat_equip/preference`) | preferred item per actor and category | record, seed, clear, resolve to a copy | router, override, serialization, icons | categories exclude one another; a seed comes from worn hands | preferences can be worn together |
| Scoring and alignment (`.../scoring`, `.../align`) | hooked vtables, scores | score an item of the AI's inventory; swap the AI's copy for the preferred one | preferences | several copies of one base | the preferred copy is the one equipped |
| Ammo consumption (`.../consumption`) | two hooked vtable slots | keep the count at a shot | scope | none | the last arrow is not lost |
| Equip gate (`features/equip_gate`) | thread-local bypass depth and permits | judge each equip, unequip and spell equip of the engine | override, best-weapon suppressor, non-combat blocker, hand-item restore, outfit snapshot | suppressors, override and gate judge one attempt in turn | nothing of the AI's passes that the player has shut out; nothing of the player's is blocked |
| Equip mode: router, actions, selection (`features/equip_mode/core` ...) | one equip armed per thread, synthetic lists, hand latch | a click or transfer in the trade menu becomes an equip or unequip of one copy | transfer hook, captures, preferences, modes | the item is moved first and equipped after; extra lists are replaced under the rows that name them | exactly the selected copy is equipped, in the hand asked for |
| Equip mode: modes, fixes (`.../modes`, `.../fixes`) | settings of each mode | drink, apply, teach or read on behalf of the follower, in tasks | router | the menu closed, retargeted or the item gone before the task; a second click waiting | one unit is used per effect |
| Suppression: loot, injection, best weapon (`features/equip_suppression/...`) | actors to suppress | veto pick-ups, corpse and container loot, leveled and outfit items; swallow best-weapon equips | hooks | which call belongs to which cause; when the mark may be dropped | only the AI's calls are vetoed, and all of those meant |
| Outfit sanitizer (`.../sanitize/OutfitItemSanitizer`) | pending, running, requeue sets; sanitized, rescan, removal sets | strip the outfit tags its settings reveal, remove the duplicates they hid, in the menu or outside | add-object hook, menu frames, menu close, tasks | triggers during a pass; pointers kept from a frame to a task; hand-over between menu and task | every trigger is followed by a scan; the last copy is never removed |
| Non-playable item sanitizer (`.../sanitize/NonPlayableItemSanitizer`) | one flag per menu session | remove hidden items of the menu's follower, in one deferred task | menu frames, menu close, tasks | none | once per session |
| Outfit sync (`features/outfit_sync`) | armor per slot and actor, pending set, last seen outfit | capture, baseline, reseed, restore after `UpdateNPCOutfit` | outfit hook, router, headgear, serialization | armor that fills several slots; a restore parked until the menu closes | the wardrobe comes back, and an outfit change the user allows is kept |
| Actor state (`core/state`: known followers, exclusions, suppressed spells, cleanup, delete sink, scan) | sets and maps per FormID | enrol, exclude, remove, suppress and restore spells, purge, scan after a load | every feature's store | FormIDs recycled, ends of actors not heard of, stores purged apart | no record outlives its actor; no spell is lost |
| Scope and inclusion (`core/state/ActorScope`, `ActorInclusion`) | lists from ini files, resolved lazily | in scope for this category? admitted to the menu? | all features | lists resolved before the data is there | the tables of the documentation |
| Serialization (`core/serialization`) | none | write and read one record per store | all stores | entries that no longer resolve | what is saved is loaded |
| Engine hooks (`core/hooks`) | listeners with handles, the capture of a transfer | dispatch, veto, capture extra lists | features | re-entrance from a handler | each listener is called once; a veto stops the call |
| Container menu (`core/container_menu`) | listeners, the closing flag, session variables | open actions, close event, refresh | features | a session whose end is not heard | the target is judged, enrolled and seeded once per session |
| Identity (`core/identity`) | none | signature of an extra list, and back | snapshots, preferences | several copies match | the saved copy is found again |
| Input (`core/input`) | held keys, one override | key events | router | key released in a menu | an override is used once |
| Settings (`core/settings`) | settings in force, draft of the page, widgets, file, what features cached | load, save, apply, revert, reset, edit | every feature | four copies of each setting; three lists matched by position | a clean page is a saved one; running features follow the settings |
| Entry and registry (`plugin`) | installed flag | install and uninstall everything in order | all | what is missed while off | see `ActorStores` and `SettingsMenu` |
| Weapon recharge (`features/weapon_recharge`) | picker's selection | pick a gem, apply it | menu | selection from an older frame | a gem is spent exactly when charge was gained |
| Quick trade, statistics | pseudo session | open the menu on a key, show numbers | menu | none | - |
| Indicators, icons, localization, notifications, logging | Scaleform members, tables | draw, translate, log | menu | none | display only |

## 2. The modules

| module | what it is |
|---|---|
| `HandItems` | kinds of hand items, snapshots, captures, the restore of one snapshot, the engine's two hands: pure operators, shared |
| `HandItemRestore` | the hand-item restore with menu, tasks, AI, inventory, saves and the master switch; handlers are steps |
| `ReconcileRequests` | abstract specification: what an accepted restore request promises |
| `ReconcileQueue` | the request protocol at the grain of its critical sections, several threads; implements `ReconcileRequests` |
| `PreCombatEquipRestore` | fights, frames, restore and reconcile chains |
| `ActorStores` | the per-actor stores over an actor's whole life, the trade session, the management page, saves |
| `CombatPreference` | the preference table and its resolution to a copy: pure operators |
| `EquipGate` | what the AI, the player and the engine do to the hands of one follower, through suppressors, override and gate |
| `OutfitSanitizer` | outfit tags, triggers on several threads, passes by task and by menu frame |
| `OutfitSync` | wardrobe snapshot, outfit updates and combat headgear together |
| `PluginSettings` | every setting with its default, parser, printer, place in the file: pure operators |
| `SettingsMenu` | the pages over settings, file and running features |
| `RowPick` | which copy a click on a row means, and what toggling it does: pure operators |
| `TradeMenu` | clicks, transfers, special modes and their tasks |
| `HandItemRestoreProofs`, `PreCombatEquipRestoreProofs`, `ActorStoresProofs`, `EquipGateProofs`, `OutfitSanitizerProofs`, `OutfitSyncProofs`, `TradeMenuProofs` | theorems about the module each is named for |
| `SettingsAndQueueProofs` | theorems about `SettingsMenu` and `PluginSettings`, and about `ReconcileQueue` |
| `MC...` | instances for TLC |

A definition whose comment begins with *Deviation* is no part of the specification: it is
the same operation with a plausible mistake in it, which the properties must reject
(`PROJECT.json`, "mutants").

### 2.1 HandItems and HandItemRestore

`snap` is `g_actorSnapshots` (an empty record is an absent entry, which is what the
code makes of it), `pending` and `menuClose` are the two request sets, `tasks` is
this feature's part of the SKSE queue. `worn` and `inv` stand for the engine.
Items are model values with a kind: one-handed, two-handed, shield, torch, ammo,
and two that are conjured: one-handed (`boundOneHand`) and, like a Bound Bow, two-handed
(`boundTwoHand`). The instance signature beside a base object is left out, since the code
compares base objects and uses the signature only to pick the copy; so are spells and
scrolls. Two engine facts are assumed (and marked external): a two-handed item, conjured or not, fills
both hands and the engine reports it in the left one too; one copy cannot be in both hands.

`RestoreSnapshot` is translated slot by slot: right hand, then left hand unless a
two-handed item is meant for the right, then ammo; each slot leaves a bound weapon, and
each hand a torch, alone. `AiHandAttempt` and `OutfitUpdate` are the two sources of requests:
the gate's hook (`RequestReconcile`, dropped while the menu is open) and the outfit hook
(`RequestReconcileAfterMenuClose`, parked until it closes).

### 2.2 ReconcileRequests and ReconcileQueue

Same code, other question. `HandItemRestore.cpp` checks eligibility and the menu
without the lock, inserts into the pending set under it, and queues the task
after it; requests arrive on any thread. `ReconcileQueue` has one action per
critical section, with the place of each thread in `op` and `at`. What tasks do to the hands is
left out. `ReconcileRequests` states the promise: an accepted request is owed until
it is served, dropped because its actor is no longer admitted, or cancelled by the lifecycle.
The refinement mapping takes as owed what is in either set, in the flush, or in a
thread's hand. The specification is `QueueSpec` (`QueueInit`, `QueueNext`, types in `QueueTypeOK`),
so that its proofs can share a module with those about the settings that switch the feature.

### 2.3 PreCombatEquipRestore

Combat events change an actor between peace, combat and searching. The first event of a
fight takes the snapshot, the last schedules a restore. `frame` is the number of tasks left
to run in this frame, so that what a task queues runs a frame later. `Restored` and
`Reconciled` are the two routines of the code, which differ in what they do about bound
weapons, shields and missing items: the restore puts a shield on over a bound weapon, the
reconcile does not (`ShieldOverConjured`). The rest is history. `before` is what was worn when the
fight began. `Hears` keeps what the combat sink has been told of the fights, from fights,
scope and installation and never from the feature's own `lastState`: actors in a fight it
has heard of (`heard`), and those of whose fight it missed the end (`lost`). The last fight of an
actor in `unseen` began with the feature off or the actor out of scope, or with the actor lost.
`calm` is the last restore, when it came in its turn (`InTurn`: at most one older chain is left, and that
one has run on this frame), put no shield over a conjured two-hander, and nothing else has
followed it.

### 2.4 ActorStores

Everything keyed by FormID, at the grain "there is a record for this form":
`known`, `prefs`, `snapshots` (the four snapshot stores), `suppressed`, `excluded`; the task
queue; the session variables of the trade menu (`cache`); the engine's view of each actor
(`life`, `teammate`, `has`); and the last save. `PurgeActors` is `PurgeActorFromAllStores`
with `RestoreAndEraseActor` in it, and is part of every action whose handler calls it:
removal on the management page, death, deletion and ash-pile events, the scan after a load.

Assumptions, each one a fact about the game: the container menu pauses the game, so
nothing happens to actors while it is open, but frames, tasks and clicks go on; a click on
the management page falls between two tasks; the actors considered can use equipment;
`Guest` are player summons and inclusion actors; a restart of the game clears tasks and
session variables, while a load inside the process keeps them; after a load a dynamic actor may
be missing for good and a persistent one may not be loaded. The restore tasks of one purge
are adjacent in the queue and merged into one.

`ghosts` is history, for the properties alone, and names every exception they make: actors
that ended while the mod was off (`unseen`), sessions that will not enrol their actor any
more (`unenrolled`), restores lost to a load or to an actor not found (`forfeited`), a menu whose close was
not noticed (`stale`).

### 2.5 CombatPreference and EquipGate

A `Copy` is one item with a `Base`, whose `KindOf` says how it is held, and an identity
(`Bare` for a plain one). `CombatPreference` has the categories, the cross-clears,
captures, seeds and `Resolve`, which turns a preference into nothing, the base
alone, or one extra list.

`AiEquip` is one attempt of the engine at bypass depth 0 and goes through
`ActorEquipManagerEquipObjectHook::thunk` in its order: best-weapon suppressor, blocker out of
combat, then in a fight alignment, ammo swap and melee enforcement, then the gate, then the
vanilla equip, whose displaced items pass the unequip hook. Each outcome is an
action (`Suppressed`, `Swapped`, `Gated`, `Allowed`). What the plugin equips itself passes
under a bypass and therefore is part of the step that does it. `Enforced` is
the melee override: four handlers that ask categories in turn (`OrTry`), and empty a hand
that no preference answers for (`Emptied`). `AiUnequip` has a flag for the second half
of an engine swap, which is never refused. The deferred ammo task has its mark (`pending`) and
its place in the queue (`tasks`). `taken` is history: a weapon was taken in this session.

Which unit of a base the engine takes when it is given no extra list is assumed: a plain one
if there is one. The kind `bound` stands for conjured one-handed weapons; a conjured two-hander is
not among the kinds here (it is in `HandItems`, with the restores that tell the two apart).

### 2.6 OutfitSanitizer

One armor per actor, whose default outfit may hold it (`inOutfit`). What a pass strips is `Strippable`:
nothing, or every tag, as the two `enableReveal...` settings (`reveal`) say for armor of the default
outfit and for other armor, except that no default outfit of a commanded actor (scope `"summon"`) is
revealed. All three may change at any time. A copy is the address of its extra list, tagged or not; the
units without a list are the plain stack. `op` and `at` say what each thread is about to do, critical
section by critical section, because the three sets are locked apart. `passing`, `sanitized`, `rescan`
and `removals` belong to the frames of the open menu; closing it hands them over. `Removal` is what
waits at a place: with the frames' own removals or in a queued task. Addresses may be reused, and
`IsXListLive` looks at the address alone. `owed`, `missed` and `disturbed` are history: triggers not yet
followed by a scan; tags that came without a trigger, or that no pass was to strip until a setting, an
outfit or a command changed; actors somebody else took a copy from while a removal waited, or whom a
copy reached at an address that a waiting removal names.

### 2.7 OutfitSync

`UpdateNPCOutfit` is one action with all outcomes of the hook; `RestoreOutcomes` gives every result of
the restore, over the orders the hash map may iterate in. `head` is the entry of `HeadgearAutoEquip`, in
the same module because both features dress the same slots. Its history is that of 2.3 (`before`,
`heard`, `lost`, `unseen`). `cfg` also holds what may happen in a behaviour (saves, outfits, pieces that
come and go), so that one run has several scenes. Copies of one armor and their signatures are
abstracted; `Fits` are the pieces the race may wear.

### 2.8 PluginSettings and SettingsMenu

`PluginSettings` translates all sections of the settings, one definition per structure of the header
with its defaults (`Core`, `ActorScope`, ...) and one per loader (`LoadCore`, ...), the order
of the file's template and of the arguments that fill it by position, and what a
parser and a printer do to a value (ranges, spellings, what junk becomes). A token is a word or a
number. Numbers and texts are represented by the values that the code treats differently.

One step of `SettingsMenu` is one frame of one page with at most one click: load the widgets if they are
stale, act, write them back (`Committed` says what a widget's value becomes), compare. `ui` holds
draft, derived widgets and the dirty mark;
`runtime` is what is installed and what features cached. `group` is
fixed per behaviour: the settings the user touches. A save truncates the file and may be cut by a crash
(`CrashInSave`), hands may edit the file, and a file that is there may fail to open, which reads as
defaults (`Opened`), for the logger and the loader separately at a launch. `ghost` remembers
whether the file in force was read (`unread`), and whether what runs was read apart from it (`unapplied`).

### 2.9 RowPick and TradeMenu

`RowPick` takes a row (the addresses it shows and its count) and the copies there are, and
says which copy is meant and what a toggle does, with the engine's habit of giving an equipped copy a
list, dropping it when it comes off, and joining equal ones.
`TradeMenu` has the detour of the transfer with router and capture as one click, three ways to
click (key and transfer, `AttemptEquip`, gamepad), and the special modes, which
queue a task: coat a weapon, drink, read a tome. A refreshed row takes the
addresses of that moment; until then it has stale ones (`NoList`). A dead address is not used
again in the model. Games are single-copy transfers, of gear that the engine can hold (`WellFormed`).

`last`, `leftover` and `due` are history: the last click with the gear before and after it, whether
`AttemptEquip` has latched a hand that no click has used, and the stock there would be if each effect
had cost its source one unit. What a click asks for (`Asked`) is read from the button and keys of that
click alone, what the router makes of it (`Intent`) from the latch too; `Misled` clicks take up a latch
that was left over.

## 3. What is checked

| run | instance | shows |
|---|---|---|
| `HandItemRestore` | one follower, three scenes: one game with every kind but the conjured bow and ammo, and two swords; one with these beside two swords and a greatsword; the lifecycle with greatsword, shield and arrows; 2 tasks | no snapshot, in memory or in a save, asks for a two-handed item and a left-hand one; a restore is idempotent, wearable, spares torches and bound weapons (`RestoreIsSound`), and reaches its snapshot when nothing is in the way; an accepted request settles the hands |
| `ReconcileQueue` | one follower, main thread and two more, up to 3 tasks when it is cleared | nothing is stranded in the pending set, nothing cleared comes back, `ReconcileRequests` is implemented, no one stays pending for ever |
| `PreCombatEquipRestore` | one sword for the right hand, 1 task, 1 try each, whole lifecycle | a pending restore works from the gear of the fight that has just ended, over changes of scope and setting during fights, saves and loads |
| `PreCombatEquipRestoreChains` | sword, shield, conjured bow; 3 tasks; 1 and 2 tries | overlapping chains: the last restore wins when it comes in its turn, the two routines agree but for a shield over the conjured bow, chains end |
| `ActorStores` | one recyclable summon, one spell, four scenes: a session with 2 tasks, a new actor and one use of the master switch; two uses of it with 1 task and no spells; one save and load with 1 task, of all stores but the spells; the same with spells, no exclusions and no preferences | the next actor with a FormID starts afresh, preferences come from trades, a session enrols its target, a managed actor exists and what a load lost is purged, a snapshot belongs to a managed actor, no spell is lost without a reason the model names, a queued spell restore arrives |
| `EquipGate` | eight bases, eleven copies, four inventories, settings all on, and three of them off | preferences can be worn together, enforcing them settles, only what is wanted gets into a hand, a weapon taken is not replaced |
| `OutfitSanitizer` | one follower, three addresses, one plain unit, one task when the menu opens, three scenes: main thread and one more; two identities; settings, default outfit and command that change | every trigger is scanned, a mark hides no tag, the last copy stays, no actor is stranded in the coalescing set |
| `OutfitSync` | robe over body and feet, boots, hood, helmet; five scenes; 1 task, 1 try each | a restore reaches a coherent snapshot, only one kind of capture makes one incoherent, a drained restore dresses, the helmet of before the fight comes back |
| `SettingsMenu` | every setting in one of the groups (an `ASSUME` says so), one edit by hand, files that may not open | a clean page is a saved one, features run what is in force, a reset is exact |
| `TradeMenu` | two followers, a corpse, one item with up to three copies, or poisons, a potion, a tome; 3 clicks, 2 tasks | a toggle serves its hand, with latches left over in between; what came is what is equipped, one unit per effect, no unfair coat |
| `ActorStoresNote`, `TradeMenuRow` | as above | violations, see 5 |

The runs check no type invariant: `TypeOK` (`QueueTypeOK`) is a theorem of every module that has a
state.

**Why these bounds.** Actors do not share state in any of these features: the maps and sets are indexed
by actor and each operation touches one index, except clears, which touch all. One follower therefore
shows everything but the interleaving of two requests in the sets, and the theorems about
`ReconcileQueue` cover any number. `TradeMenu` has two followers because a task may run with the menu
open on another one. Hands need all seven kinds for the restore rules, and two copies of one item for
"the same in both hands". A scene leaves out what its question does not need: `HandItemRestore` has the
conjured bow in a scene of its own, with the arrows and what it drives out, and its lifecycle scene
keeps swords, torch and conjured weapons in the bag, since saves and loads treat them as they do the
others; `PreCombatEquipRestore` only has to tell gear of different moments apart, for which a hand with
and without its sword does; `PreCombatEquipRestoreChains` has the three items of which each pair pushes
one another out by another rule; `ActorStores` has no recycling in the scenes with loads, and no
exclusions or preferences beside its spells. Two queued tasks are enough for a stale task before a live
one, and three for two stale ones and a live one, as in `ReconcileQueue`, or for three chains. One
recycled form needs one new actor, one save and one load; the master switch has to be used twice for a
session whose end it hid to be followed by another. Tries of 1 and 2 keep the cases "runs out now" and
"once more" (the code has 5 and 3). `EquipGate` needs, per inventory, two copies of a base of which one
is enchanted, or both plain, and one rival for the hand. `OutfitSanitizer`'s three addresses allow a
tagged copy, its duplicate and an address used again; threads matter for triggers and identities for
duplicates, so one scene has two threads and another two identities; settings decide over a tag, so the
third has one copy at a time. `SettingsMenu` splits the settings into groups of two to four because
settings meet only in a gate of a feature or on a page; the groups put those that do together. Three
clicks in `TradeMenu` are enough to equip, transfer and equip again with rows that are not refreshed
yet, or to have two tasks and a third click.

**Fairness.** Liveness assumes that the game goes on draining its task queue frame after frame: weak
fairness of `RunTask` (`FrameStep` in `PreCombatEquipRestore`), and nothing of the player, the AI or the
engine. `ReconcileQueue` and `OutfitSanitizer` cut the draining into critical sections and therefore
assume that a thread finishes the operation it is in, and that the task of each actor gets its turn
among the main thread's other work (strong fairness of starting it): a task at the head of a queue that
is drained every frame does. `OutfitSanitizer` also assumes that an open menu goes on drawing frames.
Deadlock is not checked in the `ActorStores` runs, `CHECK_DEADLOCK FALSE`, because counters bound them
and the last allowed step ends a behaviour.

**What the properties except.** `EnforcementSettles` begins at the third identical attempt, because the
first may put an item in a hand that the second still has to clear, and excepts a shield when both hands
want the same copy (`ShieldTugsCopy`): see 5. `OnlyStrayUnequipSplits` names the one capture that tears
a piece apart: see 5. `PendingRestoreIsFromThisFight` and `HeadgearIsFromBeforeFight` except a fight
that began with the feature off or the follower out of scope, and the fight after one that was heard and
whose end was not, which the code takes for the same fight (`unseen`, `lost`): see 5. `ReconcileIsQuiet`
says what the first reconcile does after a shield was put on over a conjured two-hander, and
`LastRestoreWins` leaves such a restore out: see 5. `SanitizedHasNoTags` excepts tags that came without
a trigger, or that a changed setting, outfit or command reveals only now (`missed`): see 5.
`CleanMeansSaved` and `RuntimeFollowsSettings` except a file somebody else wrote or that did not open.
`ToggleServesHand` speaks of rows that show what is there, leaves two-handers, torches and ammo clicked
with the other key alone, and excepts the click that takes up a latch left over (`Misled`): see 5.

## 4. What is proved

All theorems hold for any values of the constants that satisfy the named assumptions of
the modules; the bounds on tasks, spawns, toggles and loads are constants too.

| theorem | of | says |
|---|---|---|
| `HandsTypeCorrect`, `SnapshotsAlwaysExclusive`, `RestoreAlwaysSound`, `RestoreAlwaysReaches`; `PendingAlwaysQueued`, `PendingAlwaysMovesUp`, `RequestsAlwaysEndAnswered` | `HandItemRestore` | types and every invariant of its run, for any items, kinds, copies and followers; what liveness rests on |
| `TypeCorrect`, `PendingAlwaysHasTask`, `RequestsAlwaysHaveASource`, `QueueImplementsRequests` | `ReconcileQueue` | the two invariants of the run, and the refinement, for any number of threads and followers |
| `PreCombatTypeCorrect`, `PendingRestoreAlwaysFromThisFight`, `ReconcileAlwaysQuiet`, `LastRestoreAlwaysWins`; `RetriesAlwaysRunDown` | `PreCombatEquipRestore` | types and every invariant of its runs, for any actors, items, tries and number of tasks; what liveness rests on |
| `StoresTypeCorrect`, `SnapshotsAlwaysOfManaged`, `ManagedActorsAlwaysExist`, `PreferencesAlwaysFromTrade`, `NextActorAlwaysUnmanaged`, `SpellsAlwaysAccountedFor`, `SessionAlwaysEnrolsTarget`; `StoreTasksAlwaysMoveUp`, `ScansAlwaysEndPurged`, `RestoresAlwaysEndDelivered` | `ActorStores` | types and every invariant of its run, for any number of actors, spells, deaths, loads and uses of the switch; what liveness rests on |
| `GateTypesHold`, `PrefsAlwaysExclusive`, `EnforcementAlwaysSettles`, `FightHandsAlwaysPreferred`, `HandsAlwaysKeptOutOfCombat`, `TakenWeaponNeverReplaced`, `MarkAlwaysHasTask` | `EquipGate` | types, every property of its run, and that the mark of the ammo task stands for exactly one task, for any copies, bases, identities and settings |
| `SanitizerTypeCorrect`, `PendingAlwaysHasTask`, `SanitizedAlwaysHasNoTags`, `LastCopyAlwaysStays`; `SanitizerTasksAlwaysMoveUp`, `OwedTriggersAlwaysWait` | `OutfitSanitizer` | types and every safety property of its run, for any finite set of actors and addresses and any number of identities and threads; what liveness rests on |
| `OutfitTypesHold`, `RestoreAlwaysReaches`, `OnlyStrayAlwaysSplits`, `HeadgearAlwaysFromBeforeFight`; `TasksAlwaysMoveUp`, `DrainsAlwaysAnswered` | `OutfitSync` | types and every safety property of its run, for any armor, slots and outfits; what liveness rests on |
| `TradeTypesHold`, `ToggleAlwaysServesHand`, `TransferAlwaysEquipsWhatCame`, `SourceAlwaysPaysOncePerEffect`, `CoatsAlwaysFairly` | `TradeMenu` | types and every property of its run, for any followers, forms, gear, games and bounds |
| `IniFill`, `RoundTrip` | `PluginSettings` | the three lists of the settings file agree in all hundred keys; what is written is read back unchanged |
| `SettingsTypesHold`, `CleanMenusAreSaved`, `RuntimeAlwaysFollows`, `ResetsAreExact` | `SettingsMenu` | types and every property of its run, for any set of settings touched at once, any tokens written by hand, any cut of a file and any number of edits |

**What is assumed.** The named assumptions say of the constants what the code or the engine does:
names of nothing (`NoItem`, `None`, `NoActor`, `NoForm`) name nothing else; bounds are natural
numbers; actors and addresses are finite where a set of them is queued or counted.
`OutfitAssumption` and `WearableAssumption` say that a piece has its slots, that slots are finite (a
32-bit mask), and that the pieces of an engine outfit can be worn together; `GamesAssumption` of
`TradeMenu` that a game starts with gear the engine can hold. `SettingsConstants` of `SettingsMenu`
says that groups name settings, that what stands at the key of a text is a word (a text is never
parsed as a number), that a number there is an integer, and that a file is cut after fewer keys than
it has. TLC evaluates them in each run.

**HandItemRestore.** `SnapshotsExclusive` is not inductive: a baseline records what is worn, so the
invariant `IInv` adds that what is worn obeys the engine's rules for two-handed items and is carried
in enough copies (`Fits`, `WornGood`), and lemmas show that every capture, load, equip and restore
keeps both. The promises of a restore follow from `IInv` and from what one slot leaves behind
(`SlotDone`: the wanted item, a bound weapon, or nothing when the item is not to be had). Restoring
the left hand can undo the right one in one case only, a single copy recorded for both
(`OneCopyInLeft`), and there the second restore goes through the same two moves and ends where the
first did; everywhere else a done slot is quiet (`HandsEffect`, `QuietRestore`).

**ReconcileQueue.** `PendingHasTask` needs `ThreadsConsistent`: which thread may be where,
and with which actor. The refinement needs both: the step that takes a pending
request is a `Serve` only if the request is owed, and a drop is one only of an actor that was doomed
before.

**PreCombatEquipRestore.** `ReconcileIsQuiet` follows from the types once these say what hands and
snapshots can be (`FormHands`, `SnapHands`: no shield in the right hand, a two-hander in both or
neither, conjured ones too; nothing conjured in a snapshot). `Settled` says what the restore routine
leaves in a slot; equipping one slot may clear another, so the order right, left, ammo matters
(`RestoredSettles`), and the reconcile routine finds nothing to do in settled slots
(`SettledReconciles`). The one exception has lemmas of its own: a shield over a conjured two-hander
empties the right hand (`ShieldEmptiesRight`), and the first reconcile fills it and touches nothing else
(`RightFilled`). `PendingRestoreIsFromThisFight` is not inductive: `FightInv` says of every actor whose
fight was seen to begin that its snapshot is of that beginning and that the last state on record is not
peace while it fights, or the next event of the same fight would capture again; that an actor whose last
state on record is not peace is in a fight that was heard or has lost one, so that the first event that
is heard of any other actor captures; and of every saved snapshot the same, which a load makes the live
one. `LastRestoreWins` says nothing of the time while chains are queued, so `LastInv` says what they can
still do: of the reconciles of a calm actor at most one is the older snapshot's and one the last
restore's (`Chains`), and when both are left either the hands are settled for the last one and the older
one comes first in every frame and runs out of tries no later, or this frame still has the last one to
come. "No later" is what counting gives: the older chain has lost a try when the newer one starts.
Trying this for restores in any order failed, and not for want of an invariant: see 5, out of turn.

**ActorStores.** Every invariant speaks of the live stores, and a load replaces them
by the saved ones, so each is strengthened with the same statement about the save:
`SnapshotsInOrder`, `ManagedInOrder`, `PreferencesInOrder`, `SpellsInOrder`. `TypeInv`
adds types of the save, of the task queue and of the history. `ManagedActorsExist` rests
on the scan: `LoadQueuesScan` (every load leaves one in the queue) and `ScanStays` (only running
it takes it out). `NextActorIsUnmanaged` is the one that puts them together: an actor
is born under a form that does not exist; `ManagedActorsExist` says the form is not managed then,
`SnapshotsOnlyOfManaged` and `PreferencesOnlyFromTrade` say it has no snapshot and no preference either.
`SpellsAreAccountedFor` needs that a spell is owed only while the actor lacks it, and
that nothing is owed to a dynamic actor that is gone. `SessionEnrolsTarget` needs `SessionInOrder`: what the
session variables call enrolled is the actor of this menu and is managed, or was removed
since, and what they call seeded is what they call enrolled. It is not inductive without `stale`: see 5.

**EquipGate.** `PrefsExclusive` is not inductive either: a menu seeds preferences from the hands, so
`IInv` has `HandsGood` (a two-handed item fills both hands, no shield is in the right one) and
`PrefsGood` (a preference names a base of its category, without which enforcing it could put a shield
into the right hand). `From(w, v, S)` says that hands `v` have of `w` or of `S` only what they hold;
lemmas carry it through `Put`, `Freed` and the four handlers (`HandsEnforced`), so that `StepBrings` can
say of every step what it may bring in: nothing, what the preferences name, a base no suppressor and no
enforcement wants out, ammo, or the player's choice. The three action properties are corollaries.

`EnforcementSettles` speaks of two rounds of the four handlers, each of which asks up to four
categories and may change both hands. Its proof rests on three facts. What a preference finds
depends only on the copies carried and on which of them are worn (`Matches`): freeing a hand, or
putting on a copy a preference found, makes no other preference match (`MatchesShrinks`,
`MatchesAfterPut`), so what was lost stays lost. By `PrefsExclusive` a hand has one category to
serve (`CatAt`), so that with one-handed preferences each handler is a `Turn`: serve one hand, then
the other if it is eligible and the two do not want the same copy (`HandlersTurn`). And a hand that
was served `Rests`. What a turn can disturb is the first hand, when the second one takes its copy
away or frees a two-hander; `SharedPick` says when both want one copy, which is when the code's own
test (`SameIs`) stops the second hand, but for the shield. So after one turn, or two when the first
loses what it was serving (`LostSettles`), the hands are `Quiet`. A two-handed preference
(`TwoSettles`), or an attempt with a two-handed weapon (`TwoHandSettles`), settles in one. All of it
needs `Carries`, that what is worn is carried, and of `HandsGood` that no copy is in two places.

**OutfitSanitizer.** `PendingHasTask` needs `ThreadsGood` (only the main thread scans, and whom it scans
is running), and lemmas about the queue (`RunsAppend`, `RunsTail`, `RunsConcat`): what a closing menu
queues for a set of actors has a task for each (`RunTasksOfSet`, which is where the set has to be
finite). `SanitizedHasNoTags` speaks of marks that exist, and a pass that completes makes one out of an
actor that is `passing`. So `MarksInv` speaks of both, passes that a rescan will spoil excepted; it adds
that either exists only for the open menu of an installed mod, and that a marked actor whose scan by
task is about to end was out of scope, so that a tag it still has counts as missed. Both speak of the
tags a pass strips (`Strippable`), and `StrippableFollows` says that a step that strips more than before
without a scan counts the rest as missed. That scan is the one step that takes an actor out of `pending`
without having looked. For `LastCopyStays`, `KeepsInv` says of every actor nobody has disturbed that
what waits to be removed is `Safe`: it names no tagged copy; of the identity of each copy it names there
is an untagged copy that nothing names; plain units wait in one place only, are no more than there are,
and a bare copy stays. A scan that strips nothing names nothing (`HiddenNamesNothing`); any other keeps
it (`RevealedScanSafe`) because it names untagged twins of tagged copies and strips their tags (`Twins`,
`Strips`), so each tagged copy is the one that stays, in whatever place the new removal is put; carrying
out one removal takes none of the copies that stay for another. `NullAssumption` keeps the null actor
out of the identities. The invariant fails where an address is used again: see 5.

**OutfitSync.** The same argument as for the pre-combat restore: `FightInv` adds that the last state on
record is a fight's while it lasts, that it is one only of actors that were heard or lost, and the same
of the save. It needs no types but that the entry is a record.

`RestoreReachesSnapshot` holds in every state, reachable or not, of which the types hold. The
restore visits the pieces in the order of a hash map, so `Visits` is defined by recursion over sets;
that such a function exists and is unique is proved from a smallest set on which it is not
(`MinimalMember`, `VisitsExist`, `VisitsAgree`), since induction is not at hand. The pieces of a
coherent snapshot do not overlap, so a visit puts its piece on or leaves it out for good, and
displaces nothing the snapshot names. `OnlyStrayUnequipSplits` needs `TypeInv`, which is stronger
than `TypeOK` in what can be worn together: worn pieces and recorded headgear are `Wearable`, and a
snapshot has a piece only in slots of that piece (`Snaps`). Captures of single pieces, baselines and
reseeds are then lemmas about one update of a snapshot.

**TradeMenu.** `UseInv` joins the equality of stock and cost to the types of queued tasks, which is what
a task may rely on: everything else it reads when it runs. A unit staged with the target and used there
has cost the source one, and one that came back none (`StagedCosts`), though target and source may be
the same.

What a click on gear does follows from what the gear is. `ClickInv` has `GearInv`: every entry is
one the engine can hold (`WellFormed`: a worn copy has its list to itself, and a hand one copy), no
list is in two places, and a synthetic list stands for copies without data of their own (`Sound`).
Lemmas follow the entry through what the engine and the modes do to it (`IsPutOn`, `IsEquipped`,
`Cleared`, `Grown`, `Got`), so that `ToggleServes` can say of one click, whichever copies are
chosen, that it serves the hand; it takes no history, the theorem adds that the last click is
recorded with the gear before and after. That the hand served is the one asked for needs of the latch
that it is set only while `leftover` says so, and that the router then finds in a click that is not
`Misled` what the click itself asks for. The modes count the copies of a row by a sum over its
lists, a recursive function again: that it exists and is unique comes from a smallest set, too
(`MinimalMember`, `CountsExist`), for which addresses have to be finite. `TypeInv` is where no unit
is spent that is not there.

**Settings.** The first half is about the tables. `Matches` says of a section that its loader has one
row for each field of the structure, with a parser that knows the field's default and whatever its
control offers; it is proved section by section (`LoadersMatch`). `Fill` says of a stretch of the
template that, position by position, the argument prints the field which the loader reads from the
key that stands there, through a printer whose words this parser knows, and that no key of the
loader is missing; it is proved for each section, stretches are joined by `FillJoin`, and `IniFill`
is the whole file. With `PrintedIsRead` (what a printer makes of a value, its parser makes back into
it: the words of the enums are told apart, charges are clamped to a range the value is in) this
gives `RoundTrip`, and `LoadFits`: whatever the file holds, what is loaded are settings that could
be written again.

The second half is the menu. None of its properties is inductive. `SettingsInv` adds the types
(`TypesHold`; a file edited by hand is still a record of readable tokens, and so is one that was cut
short); that the file holds the settings in force unless somebody touched it or it did not open
(`FileIsInForce`; what a reader gets of a file in either case fits, `OpenedFits`); that the mark for
unsaved changes is up exactly when the draft differs from these, and that the draft is `Settled`; that
nothing is in memory while the game is off; and that a page that was just reset has nothing to reset.
`Settled` is what makes a clean menu stay clean: each frame ends by committing the widgets to the draft,
so that a draft whose widgets would commit to something else (a text longer than its buffer, a key code
outside the list, a log level with two spellings) changes without a click. `CommitKeepsSettled` says
that a settled draft does not, `CommittedSettles` that one commit is enough to settle any.
`RuntimeFollowsSettings` rests on lemmas about the installs: from nothing, an install runs what the
settings want (`FreshInstallRuns`), a second one keeps it although the router and its modes leave what
is installed alone (`InstallAgainRuns`), and applying gets there from any runtime (`ApplyFollows`).
`ResetPages` says that the fields a reset names are exactly those of the sections its page compares with
the defaults.

**What liveness rests on.** A liveness argument here has two halves: fairness takes the next step,
and each step that is taken leads somewhere. The first is out of the prover's reach. The second is
about single steps, and is proved, as invariants and action properties that no run lists:

- *What is to be done is queued.* A pending request has its task (`PendingAlwaysQueued`, and
  `PendingAlwaysHasTask` of the queue and of the sanitizer). `OwedTriggersAlwaysWait` goes further:
  a trigger no scan has followed yet has a task that is not past its scan, or is kept as a requeue,
  or is handed to the open menu, which has not marked the actor; and a pass that is still to end
  there has its own task. It needs `PendingInv` (a trigger merged into a pending one finds a task, or
  one that is running and will queue another) and `RescanInv` (the menu's rescans are of its target,
  which is not marked, and leave with the session), and it is why closing the menu may give up
  rescans of pending actors.
- *It moves up.* Tasks run in order, and no event, save or load puts one before another
  (`PendingAlwaysMovesUp`, `TasksAlwaysMoveUp`, `StoreTasksAlwaysMoveUp`,
  `SanitizerTasksAlwaysMoveUp`); only a load that forgets the requests, or the restart of the game,
  takes one away unrun. Chains queue themselves again, so that for them a place in the queue is not
  enough: `Work` counts the tries an actor has left, in its entry and in every queued task of any
  snapshot, and while the actor is at peace each of its tasks that runs makes it less
  (`RetriesAlwaysRunDown`).
- *It ends as promised.* A hand-item request ends with the hands settled or something that voids it
  (`RequestsAlwaysEndAnswered`, from `RestoreAlwaysSound`'s lemmas); a drain leaves the follower
  dressed as recorded, though its own equips may reseed the snapshot midway
  (`DrainsAlwaysAnswered`, `MidwayReseed`); a scan has purged who is gone (`ScansAlwaysEndPurged`); a
  queued restore has given the spell back (`RestoresAlwaysEndDelivered`).

**Model-checked only.** Liveness itself (`RequestsSettleInGame`, `PendingEnds`, `ChainsEnd`,
`MissingIsPurged`, `RestoreIsDeliveredInSession`, `TriggersAreScanned`, `DrainDresses`), as fairness
and `ENABLED` are out of the prover's reach. Every other property of a passing run is a theorem.

## 5. Disagreements between the code and what is said of it

Shown by a run:

1. `ActorStoresNote` (`mod/SKSE/Plugins/FollowerEquipControl/Localization/en.ini:165` of the
   repository). The page says that a removed actor is managed again after the next trade and must be
   excluded again to stay out; the exclusion is in no store the removal empties,
   so it stays excluded.
2. `TradeMenuRow` (`features/equip_mode/core/EquipModeAction.cpp:401`). "Another instance of this
   form is in the desired slot; let the engine replace it": whether the row is worn is judged by the
   form, so a click on the row of the plain copies takes the tempered copy off and puts nothing on.

Seen while modelling, without a run of their own.

*Actor state.*

- `Uninstall` resets two of the five session variables and takes the close listener away
  (`core/container_menu/ContainerMenuOpenActions.cpp:166`). With the mod switched off during a
  session and on after it, the next session with the same actor works from the old admission, and
  does not enrol it if it was removed in between. It came up when `SessionEnrolsTarget` proved not
  inductive; the property now excepts it (`stale`), and the run has the two uses of the switch it
  takes.
- An excluded summon leaves its exclusion to the next actor with its FormID, which
  `FormDeleteEventSink.cpp:105` wants to prevent for the scope ("does not inherit scope").
  `NextActorIsUnmanaged` speaks of the other stores.
- `SpellSuppressionState::RestoreAndEraseActor` erases the record first and gives the spells back in a
  task; `ActorStateCleanup.h:11` puts it the other way round. A load between the two loses them
  (`forfeited`). `ActorStateCleanup.h:9` lists the stores a purge empties without the exclusions.

*Restores.*

- `PreCombatEquipRestore.cpp:421`, "If combat resumed, skip; the next combat-exit event can restore later":
  the new fight takes its own snapshot, of the hands of that moment, so the first one is never made up for.
- A setting switched off at the start of a fight and on at its end has the restore work from an older
  fight's snapshot. So does a follower that leaves the scope in a fight and is back for the next:
  `OnCombatEvent` returns before it updates `lastState` while the follower is out of scope
  (`PreCombatEquipRestore.cpp:552`, `:564`), so that the first event of the next fight is heard as one
  of the old and captures nothing (`:567`), and its end restores the older snapshot (`:613`). The same
  in `HeadgearAutoEquip.cpp:459` (`:471`, `:474`, `:492`) puts an older helmet on.
- The restore puts a shield on over a bound weapon (`PreCombatEquipRestore.cpp:481` has no check for it,
  where `:443` and `TryReconcilePostRestore` have one). If that weapon is two-handed, as a Bound Bow,
  the shield drives it out of both hands, and the right one stays empty until a reconcile fills it
  (`:253`), or for good if the menu is open on all the reconcile frames.
- Out of turn: a restore put off while the menu is open queues itself behind the reconciles of an
  older restore, or between two of them, and nothing cancels those
  (`PreCombatEquipRestore.cpp:495`). With two older chains left, or one that has not run on this
  frame, a reconcile of an older snapshot can be the last to run and undo the restore. It came up in
  the proof of `LastRestoreWins`, which speaks of restores in their turn (`InTurn`).
- One copy named for both hands and an empty left hand: each restore moves the copy to the left.
  The snapshot gets there when the player equips the copy in one hand with the other one
  recorded from a time when there were two.
- A request parked while the menu was open waits for the next menu close if the flush ran before it.

*Combat.*

- The guard that keeps what is preferred in its hand does not stop an equip of a non-melee item,
  which clears the hands first (`CombatEquipOverride.cpp:66`).
- `HandleShield` lacks the check for two hands that want the same copy
  (`CombatEquipOverrideMelee.cpp:360-409`), which the comment at line 91 explains for the others:
  the copy goes to and fro.
- Two identical plain swords preferred in both hands are never wielded together, because the same
  base alone counts as the same copy; a preference for a plain copy is not resolved when only
  enchanted ones are carried.
- A seed with no melee preference may leave both a bow and a crossbow preferred
  (`CombatEquipPreference.cpp:449`).
- Preferences are recorded under the scoring and ammo settings alone, while melee enforcement uses them
  whatever these are. A bound weapon the AI draws is overridden like any other.

*Wardrobe.*

- `OutfitSnapshotRestore.cpp:604` relies on "Engine auto-unequips overlapping armor; remove
  displaced items from all slots", but `:691` clears the slots of the piece taken off alone: with a
  robe over body and feet recorded, boots put on by the AI, taken off by the player and put on by
  the player, the snapshot asks for the boots and for half of the robe.
- `_lastSeenOutfit` is not cleared on load or erasure (`NpcOutfitUpdateHook.cpp:229`), so the first
  update after a load may pass for a change of outfit.
- A restore drained at menu close is dropped when the menu is open again or a fight has begun by the
  time its task runs (`OutfitSnapshotRestore.cpp:297`), and the task does not look at the settings.
  The header's "Called after external armor equip or unequip completes" has no call in the unequip
  hook.
- `EquipCombatHeadgear` does not ask again whether there is a fight; a restore whose tries are spent
  acts with the menu open; a combat helmet may be reseeded into the wardrobe snapshot.

- A setting, a default outfit or a command that changes while the menu is open rescans nobody: a pass
  skips what is not to be stripped (`OutfitItemSanitizer.cpp:637`), marks the actor all the same, and
  frames return at the mark (`:602`). What such a change reveals stays hidden until the next trigger or
  the next menu.
- `OutfitItemSanitizer.cpp:242` (`IsXListLive`) looks at the address of a list alone. Two removals
  may name one list; after the first was carried out, a copy that comes to that address is taken by
  the second, be it the only one. It came up when `LastCopyStays` proved not inductive, and the
  property excepts it (`disturbed`).

*Settings.*

- `Revert` loads the file without applying it (`MenuFrameworkSettings.cpp:2146`). `Save` truncates the
  file in place and takes no notice of write errors (`PluginSettings.cpp:1791`).
- A file that is there but cannot be opened reads as defaults (`PluginSettings.cpp:1557`), and the
  next save writes them over it. The logger reads the file for itself, so that the level and the
  settings may be of different opinion.
- A key written by hand that is out of range is replaced when a page opens; a text over 95
  characters is cut; a log level written as "warning" makes the page dirty.

*Trade menu.*

- The injection after a transfer (`Router.cpp:545`) lacks the guard for a worn synthetic list that
  `EquipModeAction.cpp:692` has, and a refused click may still inject one.
- A hand override stays when `AttemptEquip` is not followed by a transfer (`AttemptEquipHook.cpp:38`),
  and decides the next click that sets none itself: a plain click of the key then goes to the left hand
  (`Router.cpp:57`, `Controls.cpp:295`; `Misled`). The gamepad's right key acts for the left hand while
  the left key is held (`GamepadEquipHook.cpp:87`).
- A row of two-handers with several copies, clicked with the left key, swaps copies instead of taking
  one off, although `WeaponMode.cpp:34` says "Two-handers: always treat as right-hand intent."; so with
  torches and ammo.
- Tasks of the special modes run with the menu closed or open on someone else
  (`ConsumableMode.cpp:131`); two queued poison clicks are each judged against the charge of their
  own moment (`PoisonMode.cpp:208`), two tome clicks teach one spell (`SpellTomeMode.cpp:51`).

## 6. Not modelled

- **Serialization of the stores**: the stores' save and load are steps of the modules, their record
  stream is not: it is written and read in one order by one thread.
- **The removal of non-playable items** (`NonPlayableItemSanitizer.cpp`): its first frame of a
  follower's menu sets `g_processed` (250-253) and queues one task (264-273), which names the items by a
  predicate over item data and removes them in one go (`RemoveNonPlayableItems`, 95-215); the flag is
  reset when the menu closes (237-239) and when the feature goes (296). One pass, one task, nothing kept
  between them but an actor handle. Its install gate is in `SettingsMenu`. `OutfitSanitizer` takes its
  own gate (`enableOutfitItems`) as being installed.
- **Weapon recharge, ammo consumption, quick trade, statistics**: one operation each on the main thread.
- **Scores**: numbers in the AI's inventory. **Loot and injection**: vetoes of a single engine call.
- **Bypass and permits of the gate**: nesting counters of one thread, represented by what passes under them.
- **Scope lists** and their lazy resolution; actors that cannot use equipment.
- **Actor sets without a lock of their own** (`KnownFollowerState`): the management page and tasks are
  taken to run between one another, not in one another.
- **Duplicate keys of the settings file, fractions of pixels, localization**; Scaleform members,
  icon positions and menu rows; logging; relocation and address helpers; the fixes, which patch
  single engine functions.
