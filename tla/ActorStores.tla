----------------------------- MODULE ActorStores -----------------------------
(***************************************************************************)
(* Everything the mod remembers about an actor is keyed by its FormID: who *)
(* is managed, preferences, snapshots, suppressed spells, exclusions.  The *)
(* trade menu enrols an actor; death, deletion, an ash pile, the scan      *)
(* after a load and the management page take it out of every store again.  *)
(* The engine recycles the FormID of a dynamic (0xFF) actor for the next   *)
(* one, so a record that outlives its actor is inherited by a stranger.    *)
(*                                                                         *)
(* Menu frames, events, clicks and SKSE tasks are one step each; tasks run *)
(* in the order they were added.  The container menu pauses the game, so   *)
(* nothing happens to actors while one is open; tasks and clicks go on.    *)
(***************************************************************************)
EXTENDS Integers, Sequences, FiniteSets

CONSTANTS
    Form,           \* FormIDs of the actors other than the player
    Dynamic,        \* those of the form 0xFF......, which are recycled
    Guest,          \* player summons and inclusion actors, when not teammates
    Spell,          \* spells that can be forgotten (not base spells)
    NoForm,         \* FormID 0
    AffectFormer,   \* actorScope.affectFormerFollowers
    MaxTasks,       \* bound: tasks queued when the user adds one
    MaxSpawns,      \* bound: actors that appear
    MaxToggles,     \* bound: uses of the master switch
    MaxLoads        \* bound: saves loaded

ASSUME FormAssumption ==
    /\ NoForm \notin Form
    /\ Dynamic \subseteq Form /\ Guest \subseteq Form
    /\ AffectFormer \in BOOLEAN
    /\ {MaxTasks, MaxSpawns, MaxToggles, MaxLoads} \subseteq Nat

VARIABLES
    known,      \* KnownFollowerState: g_knownFollowers
    prefs,      \* CombatEquipPreference: forms with at least one entry
    snapshots,  \* the four snapshot stores: forms with a snapshot in one
    suppressed, \* SpellSuppressionState: g_data, as <<form, spell>> pairs
    excluded,   \* ActorScopeExcludeState: g_data
    tasks,      \* the SKSE task queue, as far as these stores' tasks go
    cache,      \* what ContainerMenuOpenActions remembers of its session
    modOn,      \* core.enableMod, with the features installed accordingly
    saved,      \* the last save: the co-save's records and the actors' state
    menu,       \* target of the open container menu, or NoForm
    life,       \* what LookupByID finds: "none", "live", "dead" or "ash"
    teammate,   \* IsPlayerTeammate
    has,        \* HasSpell, as <<form, spell>> pairs
    used,       \* counters of the bounded steps
    ghosts      \* history variables, a record: see NoGhosts

stores == <<known, prefs, snapshots, suppressed, excluded>>
actors == <<life, teammate, has>>
plugin == <<tasks, cache, modOn>>
vars == <<stores, plugin, saved, menu, actors, used, ghosts>>

Pair == Form \X Spell
PairsOf(F) == F \X Spell

\* The session variables of ContainerMenuOpenActions when no actor is cached;
\* seeded is also g_outfitTaskQueuedForActor, which is set and reset with it.
NoCache == [processed |-> NoForm, admitted |-> FALSE, enrolled |-> NoForm, seeded |-> NoForm]

(***************************************************************************)
(* History.  owed: spells taken from an actor that still lacks them;       *)
(* forfeited: owed spells whose queued restore is lost to a load or found  *)
(* no actor; unenrolled: forms last traded with in a session that will not *)
(* enrol them any more; unseen: managed forms whose actor ended while the  *)
(* mod was off; inherited: <<store, form>> pairs a new actor was born      *)
(* into; noted: excluded forms that were removed, with the note that comes *)
(* with it; dropped: forms removed since the open menu was opened; stale:  *)
(* the last menu was closed while the mod was off, so that the session     *)
(* variables are still of a session that is over.                          *)
(***************************************************************************)
NoGhosts == [owed |-> {}, forfeited |-> {}, unenrolled |-> {}, unseen |-> {},
             inherited |-> {}, noted |-> {}, dropped |-> {}, stale |-> FALSE]

Kept == [known |-> known, prefs |-> prefs, snapshots |-> snapshots,
         suppressed |-> suppressed, excluded |-> excluded,
         life |-> life, teammate |-> teammate, has |-> has, ghosts |-> ghosts]

QueuedRestores ==
    UNION {tasks[i].pairs : i \in {j \in DOMAIN tasks : tasks[j].kind = "restore"}}

ScanQueued == \E i \in DOMAIN tasks : tasks[i].kind = "scan"

-----------------------------------------------------------------------------
(***************************************************************************)
(* Scope (ActorScope.cpp), for actors that can use equipment.              *)
(***************************************************************************)

\* IsKnownFollowerAdmitted
IsKnownFollowerAdmitted(f) == f \in known /\ (AffectFormer \/ f \in teammate)

\* ResolveEquipPolicy: every category's inScope comes down to this.
IsAffectedFollower(f) ==
    life[f] = "live" /\ f \notin excluded /\ IsKnownFollowerAdmitted(f)

\* ShouldAdmitForContainerMenu
ShouldAdmitForContainerMenu(f) ==
    /\ life[f] = "live" /\ f \notin excluded
    /\ f \in teammate \/ f \in Guest \/ (AffectFormer /\ f \in known)

\* ArmorEquipAllowed, for a piece of armor that fits: an actor in no category
\* is left to the game's own rules.
ArmorEquipAllowed(f) == IsAffectedFollower(f) \/ f \in teammate \/ f \notin Guest

-----------------------------------------------------------------------------
(***************************************************************************)
(* PurgeActorFromAllStores, for the forms of F; queue is the task queue to *)
(* which the restores of their suppressed spells are added (one task per   *)
(* actor in the code; they are adjacent, and merged here).  The exclusion  *)
(* is in no store it empties.                                              *)
(***************************************************************************)
\* Deviation: the spells are not given back.
EraseSpellsOfActor(F, queue) ==
    suppressed' = suppressed \ PairsOf(F) /\ tasks' = queue

RestoreAndEraseActor(F, queue) ==
    LET spells == suppressed \cap PairsOf(F)
    IN  /\ suppressed' = suppressed \ spells
        /\ tasks' = IF spells = {} THEN queue
                    ELSE Append(queue, [kind |-> "restore", pairs |-> spells])

\* Deviation: one store is forgotten.
PurgeButPreferences(F, queue) ==
    /\ known' = known \ F
    /\ snapshots' = snapshots \ F
    /\ RestoreAndEraseActor(F, queue)
    /\ UNCHANGED <<prefs, excluded>>

PurgeActors(F, queue) ==
    /\ known' = known \ F
    /\ prefs' = prefs \ F
    /\ snapshots' = snapshots \ F
    /\ RestoreAndEraseActor(F, queue)
    /\ UNCHANGED excluded

\* What the history variables make of a purge; the enrolled actor of a
\* session is not enrolled again in it.
Purged(g, F) ==
    [g EXCEPT !.unenrolled = (@ \ F) \cup (F \cap {cache.enrolled, cache.processed}),
              !.unseen = @ \ F,
              !.dropped = @ \cup F]

\* The actor f is gone: what it was owed is owed to nobody.
Gone(g, f) == [g EXCEPT !.owed = @ \ PairsOf({f}), !.forfeited = @ \ PairsOf({f})]

\* The mod does not hear of the end of f.
Missed(g, f) == [g EXCEPT !.unseen = IF f \in known THEN @ \cup {f} ELSE @]

-----------------------------------------------------------------------------
Init ==
    /\ known = {} /\ prefs = {} /\ snapshots = {} /\ suppressed = {} /\ excluded = {}
    /\ tasks = <<>> /\ cache = NoCache /\ modOn = TRUE
    /\ menu = NoForm
    /\ life = [f \in Form |-> "live"]
    /\ teammate \in SUBSET Form
    /\ has \in SUBSET Pair
    /\ used = [spawns |-> 0, toggles |-> 0, loads |-> 0]
    /\ ghosts = NoGhosts
    /\ saved = Kept

(***************************************************************************)
(* The trade menu (ContainerMenuOpenActions.cpp).                          *)
(***************************************************************************)
OpenMenu(f) ==
    /\ menu = NoForm /\ life[f] # "none"
    /\ menu' = f
    /\ ghosts' = [ghosts EXCEPT !.dropped = {}]
    /\ UNCHANGED <<stores, plugin, saved, actors, used>>

\* A frame of the open menu: the target is judged, enrolled and seeded, each
\* once as far as the session variables know.
Judged(f) == IF cache.processed = f THEN cache.admitted ELSE ShouldAdmitForContainerMenu(f)

Enrols(f) == cache.enrolled # f
Seeds(f) == cache.seeded # f

DisplayAdmitted(f) ==
    /\ menu = f /\ modOn /\ life[f] = "live" /\ Judged(f)
    /\ Enrols(f) \/ Seeds(f)
    /\ Len(tasks) < MaxTasks
    /\ cache' = [processed |-> f, admitted |-> TRUE, enrolled |-> f, seeded |-> f]
    /\ known' = IF Enrols(f) THEN known \cup {f} ELSE known
    /\ IF Seeds(f)  \* an actor with empty hands and a bare head seeds nothing
       THEN /\ prefs' \in {prefs, prefs \cup {f}}
            /\ tasks' = Append(tasks, [kind |-> "baseline", form |-> f])
       ELSE UNCHANGED <<prefs, tasks>>
    /\ ghosts' = [ghosts EXCEPT !.unenrolled = IF Enrols(f) THEN @ \ {f} ELSE @]
    /\ UNCHANGED <<snapshots, suppressed, excluded, modOn, saved, menu, actors, used>>

\* A frame that turns the target away: not admitted, or dead.
DisplayRefused(f) ==
    /\ menu = f /\ modOn /\ cache.processed # f
    /\ life[f] # "live" \/ ~ShouldAdmitForContainerMenu(f)
    /\ cache' = [cache EXCEPT !.processed = f, !.admitted = FALSE]
    /\ ghosts' = [ghosts EXCEPT !.unenrolled = @ \cup {f}]
    /\ UNCHANGED <<stores, tasks, modOn, saved, menu, actors, used>>

\* Deviation: the enrolled actor is not reset.
CloseMenuEnrolled ==
    /\ menu # NoForm
    /\ menu' = NoForm
    /\ cache' = IF modOn THEN [NoCache EXCEPT !.enrolled = cache.enrolled] ELSE cache
    /\ ghosts' = [ghosts EXCEPT !.stale = ~modOn]
    /\ UNCHANGED <<stores, tasks, modOn, saved, actors, used>>

\* The close listener is there only while the mod is on.
CloseMenu ==
    /\ menu # NoForm
    /\ menu' = NoForm
    /\ cache' = IF modOn THEN NoCache ELSE cache
    /\ ghosts' = [ghosts EXCEPT !.stale = ~modOn]
    /\ UNCHANGED <<stores, tasks, modOn, saved, actors, used>>

(***************************************************************************)
(* Captures.                                                               *)
(***************************************************************************)

\* CaptureEquip and CaptureUnequip, for the target of the open menu.
CaptureEquip(f) ==
    /\ menu = f /\ modOn /\ cache.processed = f
    /\ IsAffectedFollower(f) /\ ShouldAdmitForContainerMenu(f)
    /\ prefs' \in {prefs, prefs \cup {f}, prefs \ {f}}
    /\ snapshots' = snapshots \cup {f}
    /\ UNCHANGED <<known, suppressed, excluded, plugin, saved, menu, actors, used, ghosts>>

\* The secondary click on headgear saves the combat headgear preference, or
\* clears it; it asks whether the target may wear armor, not whether it is
\* in scope.
SecondaryClickHeadgear(f) ==
    /\ menu = f /\ modOn /\ cache.processed = f
    /\ ShouldAdmitForContainerMenu(f) /\ ArmorEquipAllowed(f)
    /\ prefs' \in {prefs \cup {f}} \cup (IF f \in prefs THEN {prefs \ {f}} ELSE {})
    /\ UNCHANGED <<known, snapshots, suppressed, excluded, plugin, saved, menu,
                   actors, used, ghosts>>

\* A fight, or a visit to the wardrobe, of an actor in scope.
CaptureSnapshot(f) ==
    /\ menu = NoForm /\ modOn /\ IsAffectedFollower(f)
    /\ snapshots' = snapshots \cup {f}
    /\ UNCHANGED <<known, prefs, suppressed, excluded, plugin, saved, menu, actors,
                   used, ghosts>>

(***************************************************************************)
(* The management page (MenuFrameworkSettings.cpp).                        *)
(***************************************************************************)
Listed(f) ==
    \/ f \in excluded
    \/ /\ f \in known \cup prefs
       /\ \/ life[f] # "none" /\ (f \in teammate \/ f \in Guest \/ f \in known)
          \/ life[f] = "none" /\ f \in known /\ f \notin Dynamic

Exclude(f) ==
    /\ Listed(f) /\ f \notin excluded
    /\ excluded' = excluded \cup {f}
    /\ ghosts' = [ghosts EXCEPT !.noted = @ \ {f}]
    /\ UNCHANGED <<known, prefs, snapshots, suppressed, plugin, saved, menu, actors, used>>

Include(f) ==
    /\ Listed(f) /\ f \in excluded
    /\ excluded' = excluded \ {f}
    /\ ghosts' = [ghosts EXCEPT !.noted = @ \ {f}]
    /\ UNCHANGED <<known, prefs, snapshots, suppressed, plugin, saved, menu, actors, used>>

RemoveActor(f) ==
    /\ Listed(f) /\ Len(tasks) < MaxTasks
    /\ PurgeActors({f}, tasks)
    /\ ghosts' = [Purged(ghosts, {f}) EXCEPT !.noted =
                     IF f \in excluded THEN @ \cup {f} ELSE @]
    /\ UNCHANGED <<cache, modOn, saved, menu, actors, used>>

\* CollectSpells drops the records of spells learned again before the row and
\* its button are drawn; TryToggleSpellSuppression adds a task.
ToggleSpell(f, s) ==
    /\ Listed(f) /\ f \notin excluded /\ life[f] # "none" /\ Len(tasks) < MaxTasks
    /\ <<f, s>> \in has \cup suppressed
    /\ suppressed' = suppressed \ (has \cap PairsOf({f}))
    /\ tasks' = Append(tasks,
          [kind |-> IF <<f, s>> \in has THEN "suppress" ELSE "unsuppress", pair |-> <<f, s>>])
    /\ UNCHANGED <<known, prefs, snapshots, excluded, cache, modOn, saved, menu, actors,
                   used, ghosts>>

\* FeatureRegistry::InstallAllFeatures after the master switch was used:
\* uninstalling clears the snapshots, and a part of the session variables.
ToggleMod ==
    /\ used.toggles < MaxToggles
    /\ used' = [used EXCEPT !.toggles = @ + 1]
    /\ modOn' = ~modOn
    /\ IF modOn
       THEN /\ snapshots' = {}
            /\ cache' = [cache EXCEPT !.seeded = NoForm]
       ELSE UNCHANGED <<snapshots, cache>>
    /\ UNCHANGED <<known, prefs, suppressed, excluded, tasks, saved, menu, actors, ghosts>>

(***************************************************************************)
(* SKSE tasks.  A task looks its actor up again when it runs.              *)
(***************************************************************************)
NextTask(kind) == tasks # <<>> /\ Head(tasks).kind = kind

\* Deviation: any live actor will do.
MayCaptureLive(f) == modOn /\ life[f] = "live" /\ f \notin excluded

\* CaptureBaselineIfEmpty, twice: IsEligibleActor is asked in each, when the
\* task runs.
MayCaptureBaseline(f) == modOn /\ IsAffectedFollower(f)

RunBaselineTask ==
    /\ NextTask("baseline")
    /\ tasks' = Tail(tasks)
    /\ LET f == Head(tasks).form
       IN  snapshots' = IF MayCaptureBaseline(f)
                        THEN snapshots \cup {f} ELSE snapshots
    /\ UNCHANGED <<known, prefs, suppressed, excluded, cache, modOn, saved, menu, actors,
                   used, ghosts>>

\* SpellSuppressionState::Suppress
Suppress(p) == suppressed \cup {p}

RunSuppressTask ==
    /\ NextTask("suppress")
    /\ tasks' = Tail(tasks)
    /\ LET p == Head(tasks).pair
       IN  \/ /\ life[p[1]] # "none"
              /\ suppressed' = Suppress(p)
              /\ has' = has \ {p}
              /\ ghosts' = [ghosts EXCEPT !.owed = IF p \in has THEN @ \cup {p} ELSE @]
           \/ UNCHANGED <<suppressed, has, ghosts>>  \* casting it, or no actor
    /\ UNCHANGED <<known, prefs, snapshots, excluded, cache, modOn, saved, menu, life,
                   teammate, used>>

\* Spells that come back, in whatever way.
GiveSpells(spells) ==
    /\ has' = has \cup spells
    /\ ghosts' = [ghosts EXCEPT !.owed = @ \ spells, !.forfeited = @ \ spells]

RunUnsuppressTask ==
    /\ NextTask("unsuppress")
    /\ tasks' = Tail(tasks)
    /\ LET p == Head(tasks).pair
       IN  IF life[p[1]] = "none" THEN UNCHANGED <<suppressed, has, ghosts>>
           ELSE suppressed' = suppressed \ {p} /\ GiveSpells({p})
    /\ UNCHANGED <<known, prefs, snapshots, excluded, cache, modOn, saved, menu, life,
                   teammate, used>>

\* Deviation: nothing is given back to an actor that is down.
FoundLive(spells) == {p \in spells : life[p[1]] = "live"}

\* The spells whose actor LookupByID finds.
Found(spells) == {p \in spells : life[p[1]] # "none"}

RunRestoreTask ==
    /\ NextTask("restore")
    /\ tasks' = Tail(tasks)
    /\ LET spells == Head(tasks).pairs
           found == Found(spells)
       IN  /\ has' = has \cup found
           /\ ghosts' = [ghosts EXCEPT !.owed = @ \ found,
                             !.forfeited = (@ \ found) \cup (ghosts.owed \cap (spells \ found))]
    /\ UNCHANGED <<stores, cache, modOn, saved, menu, life, teammate, used>>

\* Deviation: the scan looks for ash piles only.
StaleAshPiles == {f \in known : life[f] = "ash"}

\* PostLoadStateScan::Run
StaleForms == {f \in known : life[f] = "ash" \/ (life[f] = "none" /\ f \in Dynamic)}

RunScanTask ==
    /\ NextTask("scan")
    /\ PurgeActors(StaleForms, Tail(tasks))
    /\ ghosts' = Purged(ghosts, StaleForms)
    /\ UNCHANGED <<cache, modOn, saved, menu, actors, used>>

RunTask == \/ RunBaselineTask \/ RunSuppressTask \/ RunUnsuppressTask
           \/ RunRestoreTask \/ RunScanTask

(***************************************************************************)
(* The engine, and what the mod hears of it while its sinks and hooks are  *)
(* installed.                                                              *)
(***************************************************************************)

\* Purges f if heard holds; g is what the history variables make of the event.
Hears(heard, f, g) ==
    IF heard THEN PurgeActors({f}, tasks) /\ ghosts' = Purged(g, {f})
    ELSE UNCHANGED <<stores, tasks>> /\ ghosts' = g

\* Deviation: only the deaths of teammates are of interest.
HearsTeammateDeath(f) == modOn /\ f \in Dynamic /\ f \in known /\ f \in teammate

\* TESDeathEvent, for a death or for a summon that expires (dead = false).
HearsDeath(f) == modOn /\ f \in Dynamic /\ f \in known

Die(f) ==
    /\ menu = NoForm /\ life[f] = "live"
    /\ life' = [life EXCEPT ![f] = "dead"]
    /\ Hears(HearsDeath(f), f, IF modOn THEN ghosts ELSE Missed(ghosts, f))
    /\ UNCHANGED <<cache, modOn, saved, menu, teammate, has, used>>

\* The AttachAshPile functor; the hook purges whatever actor it is.
TurnToAsh(f) ==
    /\ menu = NoForm /\ life[f] = "dead"
    /\ life' = [life EXCEPT ![f] = "ash"]
    /\ Hears(modOn, f, IF modOn THEN ghosts ELSE Missed(ghosts, f))
    /\ UNCHANGED <<cache, modOn, saved, menu, teammate, has, used>>

\* The record of what remains of a dynamic actor that is gone.
NoActor(f) ==
    /\ life' = [life EXCEPT ![f] = "none"]
    /\ teammate' = teammate \ {f}
    /\ has' = has \ PairsOf({f})

\* TESFormDeleteEvent
HearsDelete(f) == modOn /\ f \in Dynamic

DeleteForm(f) ==
    /\ menu = NoForm /\ f \in Dynamic /\ life[f] # "none"
    /\ NoActor(f)
    /\ Hears(HearsDelete(f), f, Gone(IF modOn THEN ghosts ELSE Missed(ghosts, f), f))
    /\ UNCHANGED <<cache, modOn, saved, menu, used>>

\* The form of a summon that has expired is freed without a delete event.
FreeForm(f) ==
    /\ menu = NoForm /\ f \in Dynamic /\ life[f] \in {"dead", "ash"}
    /\ NoActor(f)
    /\ ghosts' = Gone(ghosts, f)
    /\ UNCHANGED <<stores, plugin, saved, menu, used>>

\* The stores, by name, with the forms they have records of.
StoreOf == [known |-> known, prefs |-> prefs, snapshots |-> snapshots,
            suppressed |-> {p[1] : p \in suppressed}, excluded |-> excluded]

\* Why a new actor may inherit a record.
Excused(name, f) ==
    ScanQueued \/ f \in ghosts.unseen \/ (name = "prefs" /\ f \in ghosts.unenrolled)

\* An actor appears: a new one with spells of its own under a dynamic form,
\* which may be a recycled one, or a persistent one that was not loaded.
Spawn(f) ==
    /\ menu = NoForm /\ life[f] = "none" /\ used.spawns < MaxSpawns
    /\ used' = [used EXCEPT !.spawns = @ + 1]
    /\ life' = [life EXCEPT ![f] = "live"]
    /\ \E S \in SUBSET PairsOf({f} \cap Dynamic) : has' = has \cup S
    /\ ghosts' = [ghosts EXCEPT !.inherited = IF f \notin Dynamic THEN @ ELSE @ \cup
           {<<name, f>> : name \in {n \in DOMAIN StoreOf : f \in StoreOf[n] /\ ~Excused(n, f)}}]
    /\ UNCHANGED <<stores, plugin, saved, menu, teammate>>

Resurrect(f) ==
    /\ menu = NoForm /\ life[f] = "dead"
    /\ life' = [life EXCEPT ![f] = "live"]
    /\ UNCHANGED <<stores, plugin, saved, menu, teammate, has, used, ghosts>>

\* The actor is recruited, or dismissed.
Recruit(f) ==
    /\ menu = NoForm /\ life[f] = "live"
    /\ teammate' = IF f \in teammate THEN teammate \ {f} ELSE teammate \cup {f}
    /\ UNCHANGED <<stores, plugin, saved, menu, life, has, used, ghosts>>

\* The actor learns a spell from something other than this mod.
Learn(p) ==
    /\ menu = NoForm /\ life[p[1]] = "live" /\ p \notin has
    /\ GiveSpells({p})
    /\ UNCHANGED <<stores, plugin, saved, menu, life, teammate, used>>

(***************************************************************************)
(* Saves.  The co-save has every store (OnSave); what a load finds of the  *)
(* restores that were queued when it was made is forfeited.                *)
(***************************************************************************)
SaveGame ==
    /\ menu = NoForm /\ used.loads < MaxLoads
    /\ saved' = [Kept EXCEPT !.ghosts.forfeited = @ \cup (ghosts.owed \cap QueuedRestores)]
    /\ UNCHANGED <<stores, plugin, menu, actors, used, ghosts>>

\* OnRevert, OnLoad, and kPostLoadGame, which installs the features again and
\* queues the scan.  Tasks and session variables survive a load, but not the
\* restart of the game.  Dynamic actors may be missing after it (they are not
\* recreated), and persistent ones not loaded.
LoadGame(restart) ==
    /\ menu = NoForm /\ used.loads < MaxLoads /\ Len(tasks) < MaxTasks
    /\ used' = [used EXCEPT !.loads = @ + 1]
    /\ known' = saved.known /\ prefs' = saved.prefs /\ snapshots' = saved.snapshots
    /\ suppressed' = saved.suppressed /\ excluded' = saved.excluded
    /\ tasks' = Append(IF restart THEN <<>> ELSE tasks, [kind |-> "scan"])
    /\ cache' = IF restart THEN NoCache ELSE cache
    /\ \E missing \in SUBSET Form :
          LET gone == missing \cap Dynamic
          IN  /\ life' = [f \in Form |-> IF f \in missing THEN "none" ELSE saved.life[f]]
              /\ teammate' = saved.teammate \ gone
              /\ has' = saved.has \ PairsOf(gone)
              /\ ghosts' = [saved.ghosts EXCEPT
                     !.owed = @ \ PairsOf(gone), !.forfeited = @ \ PairsOf(gone),
                     !.stale = ghosts.stale /\ ~restart,
                     !.unenrolled = @ \cup ({cache'.enrolled, cache'.processed} \ (saved.known \cup {NoForm}))]
    /\ UNCHANGED <<modOn, saved, menu>>

-----------------------------------------------------------------------------
TradeStep == \/ CloseMenu
             \/ \E f \in Form : \/ OpenMenu(f) \/ DisplayAdmitted(f) \/ DisplayRefused(f)
                                \/ CaptureEquip(f) \/ SecondaryClickHeadgear(f)

PageStep == \/ ToggleMod
            \/ \E f \in Form : \/ Exclude(f) \/ Include(f) \/ RemoveActor(f)
                               \/ \E s \in Spell : ToggleSpell(f, s)

EngineStep == \E f \in Form :
    \/ CaptureSnapshot(f) \/ Die(f) \/ TurnToAsh(f) \/ DeleteForm(f) \/ FreeForm(f)
    \/ Spawn(f) \/ Resurrect(f) \/ Recruit(f) \/ \E s \in Spell : Learn(<<f, s>>)

LifecycleStep == SaveGame \/ \E restart \in BOOLEAN : LoadGame(restart)

Next == TradeStep \/ PageStep \/ RunTask \/ EngineStep \/ LifecycleStep

Spec == Init /\ [][Next]_vars

\* The game drains its task queue frame after frame.
FairSpec == Spec /\ WF_vars(RunTask)

-----------------------------------------------------------------------------
Task == [kind : {"baseline"}, form : Form]
        \cup [kind : {"suppress", "unsuppress"}, pair : Pair]
        \cup [kind : {"restore"}, pairs : SUBSET Pair]
        \cup [kind : {"scan"}]

MaybeForm == Form \cup {NoForm}

\* Every variable has its type.
TypeOK ==
    /\ {known, prefs, snapshots, excluded, teammate} \subseteq SUBSET Form
    /\ suppressed \subseteq Pair /\ has \subseteq Pair
    /\ tasks \in Seq(Task)
    /\ cache \in [processed : MaybeForm, admitted : BOOLEAN,
                  enrolled : MaybeForm, seeded : MaybeForm]
    /\ modOn \in BOOLEAN /\ menu \in MaybeForm
    /\ life \in [Form -> {"none", "live", "dead", "ash"}]
    /\ ghosts.owed \subseteq Pair

\* A snapshot belongs to an actor that is managed: whatever order clicks,
\* tasks, deaths and loads come in, none is left, or made, for an actor that
\* was purged, where only the next purge of the same FormID would find it.
SnapshotsOnlyOfManaged == snapshots \subseteq known

\* A preference of an actor that is not managed comes from a trade session
\* that did not enrol it: it was removed, or excluded, in or before it.
PreferencesOnlyFromTrade == prefs \subseteq known \cup ghosts.unenrolled

\* A managed dynamic actor exists, and no managed actor is an ash pile, except
\* until the scan after a load has run, or when its end came while the mod was
\* switched off (FormDeleteEventSink, AttachAshPileFunctorHook).
ManagedActorsExist ==
    \A f \in known : \/ f \notin Dynamic /\ life[f] = "none"
                    \/ life[f] \in {"live", "dead"}
                    \/ ScanQueued \/ f \in ghosts.unseen

\* A new actor that gets a recycled FormID is not managed, and has no
\* preferences or snapshots, on account of the actor that had it before
\* (FormDeleteEventSink.cpp:105); the exceptions are those of Excused.
NextActorIsUnmanaged ==
    \A f \in Form : {<<"known", f>>, <<"prefs", f>>, <<"snapshots", f>>} \cap ghosts.inherited = {}

\* A spell the mod took from an actor that is still there is on record as
\* suppressed, or in a restore that is queued; lost are only those whose
\* restore found no actor or was still queued when the game was saved.
SpellsAreAccountedFor ==
    ghosts.owed \subseteq suppressed \cup QueuedRestores \cup ghosts.forfeited

\* An admitted target whose menu has been drawn is managed, unless it was
\* removed since the menu was opened (ContainerMenuOpenActions.cpp:102, "Enroll
\* the actor once per menu session"), or the close of the menu before was not
\* noticed: Uninstall leaves the enrolled actor in place (:168), and a target
\* removed in between is then not enrolled again.
SessionEnrolsTarget ==
    \A f \in Form : menu = f /\ cache.seeded = f /\ f \notin ghosts.dropped /\ ~ghosts.stale
                        => f \in known

\* After an actor was removed, trading with it has the mod manage it again,
\* excluded though it was (en.ini:165), unless it is excluded once more.
RemovedIsManagedAgain ==
    \A f \in Form : menu = f /\ cache.processed = f /\ f \notin ghosts.dropped
                        /\ f \in ghosts.noted /\ f \in teammate => f \in known

\* A managed dynamic actor that a load did not bring back is purged in the
\* end, or another actor is there by then.
MissingIsPurged ==
    \A f \in Dynamic : (f \in known /\ life[f] = "none" /\ ScanQueued)
                           ~> (f \notin known \/ life[f] # "none")

\* A spell whose restore is queued is given back, if its actor is there.
RestoreIsDelivered ==
    \A p \in Pair : (p \in QueuedRestores) ~> (p \in has \/ life[p[1]] = "none" \/ p \notin ghosts.owed)
=============================================================================
