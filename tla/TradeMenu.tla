----------------------------- MODULE TradeMenu -----------------------------
(* A click in the trade menu while the modifier key is held: the detour of   *)
(* ContainerMenu::AddObjectToContainer (ContainerMenuTransferHook.cpp), the  *)
(* router (Router.cpp) and its special modes (PoisonMode, ConsumableMode,    *)
(* SpellTomeMode). The detour runs start to end on the game thread, so the   *)
(* equip it arms for after the transfer is a LET of the click, not a         *)
(* variable. What the modes do to an item waits in the SKSE task queue, and  *)
(* there the menu may have closed or changed its target.                     *)
EXTENDS RowPick, Sequences

CONSTANTS
    Followers, Corpses, Player, None,
    Poisons, Potions, Tomes,   \* forms of the special modes; a tome teaches one spell
    Games,                     \* settings and inventories to start from
    MaxTasks,                  \* bound: tasks in the SKSE queue
    MaxClicks                  \* bound: clicks in a game

Actors == Followers \cup Corpses
Holders == Actors \cup {Player}
Forms == Poisons \cup Potions \cup Tomes

ASSUME GamesAssumption ==
    \A g \in Games :
        /\ \A h \in DOMAIN g.stock : \A f \in DOMAIN g.stock[h] : g.stock[h][f] \in Nat
        /\ \A h \in DOMAIN g.gear :
               /\ WellFormed(g.gear[h], g.kind)
               /\ \A i \in DOMAIN g.gear \ {h} : Lists(g.gear[i]) \cap Lists(g.gear[h]) = {}
        /\ g.actors \subseteq Actors
        /\ g.doses \in Nat /\ g.maxCharges \in Nat
        /\ g.stacking \in BOOLEAN /\ g.keepTomes \in BOOLEAN

ASSUME NameAssumption == Player \notin Actors /\ None \notin Actors \cup Hands

ASSUME BoundsAssumption == MaxTasks \in Nat /\ MaxClicks \in Nat

VARIABLES
    game,       \* settings of this game; fixed
    menu,       \* the actor the trade menu is open on, or None
    rows,       \* the rows shown of the actor's copies of the item
    gear,       \* who holds which copies of the item that can be equipped
    synthetics, \* g_synthetics
    stock,      \* units of each other form
    coat,       \* the poison on the weapon in each hand
    spells,     \* what each follower has learned from tomes
    override,   \* g_handOverride
    potionsOn,  \* ConsumableMode's switch for the kind of the potions
    tasks,      \* the SKSE task queue
    clicks,     \* clicks so far
    leftover,   \* history: AttemptEquip has latched a hand, and no click has followed
    last,       \* history: the last click that changed or moved gear
    due         \* history: the stock if each effect had cost its source one unit

menuVars == <<menu, rows, override, leftover>>
items == <<gear, synthetics>>
effects == <<stock, coat, spells, due>>
vars == <<game, menuVars, items, effects, potionsOn, tasks, clicks, last>>

NoClick == [way |-> "none"]
NoCoat == [poison |-> None, n |-> 0]
NoCopies == [plain |-> 0, lists |-> [l \in {} |-> NoList]]
Refresh(a) == [op |-> "refresh", target |-> a]

TypeOK ==
    /\ game \in Games
    /\ menu \in Actors \cup {None}
    /\ \A h \in Holders : /\ WellFormed(gear[h], game.kind)
                          /\ \A g \in Holders \ {h} : Lists(gear[g]) \cap Lists(gear[h]) = {}
                          /\ stock[h] \in [Forms -> Nat]
    /\ synthetics \subseteq Addresses
    /\ \A a \in Followers, h \in Hands : coat[a][h] \in [poison : Poisons \cup {None}, n : Nat]
    /\ override \in Hands \cup {None}
    /\ Len(tasks) <= MaxTasks /\ clicks \in 0..MaxClicks

Init ==
    /\ game \in Games
    /\ menu = None /\ rows = {} /\ override = None /\ leftover = FALSE
    /\ gear = [h \in Holders |-> IF h \in DOMAIN game.gear THEN game.gear[h] ELSE NoCopies]
    /\ synthetics = {}
    /\ stock = [h \in Holders |-> [f \in Forms |->
               IF h \in DOMAIN game.stock /\ f \in DOMAIN game.stock[h] THEN game.stock[h][f] ELSE 0]]
    /\ coat = [a \in Followers |-> [h \in Hands |-> NoCoat]]
    /\ spells = [a \in Followers |-> {}]
    /\ potionsOn = TRUE /\ tasks = <<>> /\ clicks = 0 /\ last = NoClick
    /\ due = stock

----------------------------------------------------------------------------
(* Addresses. A dead one is not used again: it leaves g_synthetics, and rows *)
(* keep 0 in its place, which no list has.                                   *)

Used == UNION {Lists(gear[h]) : h \in Holders}
HasFresh == \E x, y \in Addresses \ Used : x # y
Fresh == CHOOSE x \in Addresses \ Used : TRUE
NextFresh == CHOOSE x \in Addresses \ Used : x # Fresh

(* The gear after a click; synth are the synthetic lists with the new one.   *)
GearBecomes(g, synth) ==
    /\ gear' = g
    /\ synthetics' = synth \cap UNION {Lists(g[h]) : h \in Holders}

Stale(shown, e) ==
    {[r EXCEPT !.lists = {IF l \in Lists(e) THEN l ELSE NoList : l \in r.lists}] : r \in shown}

Queue(task) == Len(tasks) < MaxTasks /\ tasks' = Append(tasks, task)

(* One copy leaves e: the one of list l, or one no list stands for.          *)
TakeOut(e, l) ==
    CASE l = NoList -> [e EXCEPT !.plain = @ - 1]
      [] l # NoList /\ e.lists[l].n = 1 -> [e EXCEPT !.lists = Without(e, l)]
      [] OTHER -> OneLess(e, l)

Give(e, from, l) ==
    IF l # NoList /\ from.lists[l].own
    THEN [e EXCEPT !.lists = With(e, l, [from.lists[l] EXCEPT !.worn = "no"])]
    ELSE [e EXCEPT !.plain = @ + 1]

Moved(g, from, to, l) ==
    [g EXCEPT ![from] = TakeOut(@, l), ![to] = Give(@, g[from], l)]

(* The copies the vanilla transfer may choose for a row: the one of a row    *)
(* with data of its own, of the others any.                                  *)
CopiesOf(e, row) ==
    LET own(l) == e.lists[l].own
        shown == row.lists \cap Lists(e)
    IN  IF \E l \in shown : own(l) THEN shown
        ELSE {l \in Lists(e) : ~own(l)} \cup {x \in {NoList} : e.plain > 0}

----------------------------------------------------------------------------
(* The hand. SkyUI's AttemptEquip on a PC, and the gamepad's keys, latch the *)
(* slot before the transfer starts; the router spends the latch.             *)

AttemptEquipLatch(slot) == slot

(* A gamepad key starts the transfer itself: left latches, right clears.     *)
HandleInputLatch(slot) == IF slot = "left" THEN "left" ELSE None

(* Latched for a click by the trigger; a plain key press latches nothing.    *)
Latch(trigger, slot) ==
    CASE trigger = "attempt" /\ menu \in Followers -> AttemptEquipLatch(slot)
      [] trigger = "pad" /\ menu \in Followers -> HandleInputLatch(slot)
      [] OTHER -> override

GetHandIntent(latched, leftKey) ==
    CASE latched # None -> latched
      [] latched = None /\ leftKey -> "left"
      [] OTHER -> "right"

(* How a click may start, with the modifier key held: slot is the hand the   *)
(* trigger stands for, leftKey whether the key of the left hand is down.     *)
Starts == [trigger : {"attempt", "pad", "key"}, slot : Hands, leftKey : BOOLEAN]

Intent(s) == GetHandIntent(Latch(s.trigger, s.slot), s.leftKey)

(* What the player asks for, whatever has been latched before: on a follower *)
(* SkyUI's button and the left gamepad key are for their hand; any other     *)
(* click is for the left hand when the left key is down with it.             *)
Asked(s) ==
    CASE s.trigger = "attempt" /\ menu \in Followers -> s.slot
      [] s.trigger = "pad" /\ s.slot = "left" /\ menu \in Followers -> "left"
      [] OTHER -> IF s.leftKey THEN "left" ELSE "right"

(* A click that latches nothing itself takes up a latch that was left over.  *)
Misled(s) == leftover /\ (s.trigger = "key" \/ menu \notin Followers)

(* With a bug: the router looks at the latch (GetHandOverrideIsLeft).        *)
LatchStays(routed) ==
    /\ UNCHANGED override
    /\ leftover' = (leftover /\ ~routed)

(* ConsumeHandOverride, by each click the router owns.                       *)
LatchSpent(routed) ==
    /\ override' = IF routed THEN None ELSE override
    /\ leftover' = (leftover /\ ~routed)

(* AttemptEquip latches and then no transfer follows: nothing is selected.   *)
AttemptEquip(slot) ==
    /\ menu \in Followers
    /\ override' = AttemptEquipLatch(slot)
    /\ leftover' = TRUE
    /\ last' = NoClick
    /\ UNCHANGED <<game, menu, rows, items, effects, potionsOn, tasks, clicks>>

----------------------------------------------------------------------------
(* Clicks on gear. start is how the click began, row the row clicked.        *)

GetAffectedTarget(mod) == {a \in Followers : mod /\ a = menu}
GetCorpseEquipTarget(mod) ==
    {a \in Corpses : mod /\ a = menu /\ game.corpse /\ game.kind \notin {"torch", "scroll"}}

(* ActorScope's HandEquipAllowed and ArmorEquipAllowed.                      *)
EquipAllowed == game.kind \in {"torch", "scroll"} \/ game.allowed

Record(way, start, row, copy, before, after) ==
    last' = [way |-> way, row |-> row, fresh |-> rows = Rows(gear[menu]),
             asked |-> Asked(start), hand |-> SlotForObject(game.kind, Asked(start)),
             misled |-> Misled(start), used |-> SlotForObject(game.kind, Intent(start)),
             copy |-> copy, before |-> before, after |-> after]

Owned(a, entries) == {[entry |-> x, made |-> Lists(x) \ Lists(gear[a])] : x \in entries}

(* Capability is checked after the strict entry was looked up, so a refused  *)
(* click may still have added a list.                                        *)
Toggled(a, row, hand) ==
    IF EquipAllowed
    THEN UNION {{[entry |-> x, made |-> Lists(p.entry) \ Lists(gear[a])] :
                 x \in Applied(p.entry, p.pick, NextFresh)} :
                p \in PicksFromSelection(gear[a], row, game.kind, hand, synthetics, game.donor, Fresh)}
    ELSE Owned(a, StrictEntries(gear[a], synthetics, game.donor, Fresh))

(* PerformEquipModeActionStrictFromMenu and PerformCorpseEquipToggleFromMenu. *)
ToggleRow(a, start, row) ==
    \E t \in Toggled(a, row, Intent(start)) :
        /\ GearBecomes([gear EXCEPT ![a] = t.entry], synthetics \cup t.made)
        /\ rows' = Stale(rows, t.entry)
        /\ \/ ~EquipAllowed /\ last' = NoClick /\ UNCHANGED tasks
           \/ /\ EquipAllowed
              /\ Record("toggle", start, row, NoList, gear[a], t.entry)
              /\ Queue(Refresh(IF a \in Followers THEN a ELSE None))

(* The secondary key on headgear sets or clears a preference; setting it     *)
(* looks for a list in the actor's entry.                                    *)
HeadgearPreference(a) ==
    \E t \in Owned(a, {gear[a]} \cup StrictEntries(gear[a], synthetics, game.donor, Fresh)) :
        /\ GearBecomes([gear EXCEPT ![a] = t.entry], synthetics \cup t.made)
        /\ rows' = Stale(rows, t.entry)
        /\ last' = NoClick

(* NPC to player: the router owns the click and toggles the row.             *)
TakeAffected(start, row) ==
    \E a \in GetAffectedTarget(TRUE) :
        LET preference == game.headgear /\ Intent(start) = "left" /\ EquipAllowed
        IN  \/ ~game.supported /\ last' = NoClick /\ UNCHANGED <<rows, items, tasks>>
            \/ game.supported /\ preference /\ HeadgearPreference(a) /\ UNCHANGED tasks
            \/ game.supported /\ ~preference /\ ToggleRow(a, start, row)

(* The vanilla transfer of one copy to the player; t is the actor's entry    *)
(* before it, and what a refused toggle made.                                *)
TakeVanilla(t, row) ==
    \E l \in CopiesOf(t.entry, row) :
        LET g == Moved([gear EXCEPT ![menu] = t.entry], menu, Player, l)
        IN  /\ GearBecomes(g, synthetics \cup t.made)
            /\ rows' = Rows(g[menu])
            /\ last' = NoClick /\ UNCHANGED tasks

(* From a corpse: blocked only when the toggle worked.                       *)
TakeCorpse(start, row) ==
    \E a \in GetCorpseEquipTarget(TRUE) :
        \/ EquipAllowed /\ ToggleRow(a, start, row)
        \/ ~EquipAllowed /\ \E t \in Toggled(a, row, Intent(start)) : TakeVanilla(t, row)

Routed(mod) == GetAffectedTarget(mod) \cup GetCorpseEquipTarget(mod) # {}

Take(start, row, mod) ==
    /\ menu # None /\ row \in rows /\ clicks < MaxClicks /\ HasFresh
    /\ \/ mod /\ TakeAffected(start, row)
       \/ mod /\ TakeCorpse(start, row)
       \/ ~Routed(mod) /\ TakeVanilla([entry |-> gear[menu], made |-> {}], row)
    /\ LatchSpent(Routed(mod))
    /\ clicks' = clicks + 1
    /\ UNCHANGED <<game, menu, effects, potionsOn>>

(* With a bug: the engine's message is not waited for.                       *)
CapturedNever(l) == NoList

(* What the capture of BeginXListCapture and its observer hands on: the list *)
(* the engine added, if it added one. (It may split a count; of one it       *)
(* cannot.)                                                                  *)
Captured(l) == IF l # NoList /\ gear[Player].lists[l].own THEN l ELSE NoList

(* OnTransferPost: the copy that came, or a synthetic list for it; without   *)
(* either a corpse equips whatever copy the engine chooses, and a follower   *)
(* nothing. PerformEquipOnlyStrictByXList, PerformCorpseEquipOnly.           *)
EquipAfterTransfer(a, g, captured, hand) ==
    LET from == IF captured # NoList THEN {[entry |-> g[a], list |-> captured]}
                ELSE EnsureXList(g[a], synthetics, game.donor, Fresh)
        h == SlotForObject(game.kind, hand)
        equips(f) == EquipAllowed /\ (f.list # NoList \/ a \in Corpses)
        after(f) == IF equips(f) THEN EquipObject(f.entry, f.list, h, NextFresh) ELSE {f.entry}
    IN  UNION {{[entry |-> x, made |-> Lists(f.entry) \ Lists(g[a]), equips |-> equips(f)] :
                x \in after(f)} : f \in from}

(* Player to NPC: the transfer goes ahead, and what OnTransferAttempt armed  *)
(* is equipped after it if the modifier key is still down (held).            *)
GiveCopy(start, l, mod, held) ==
    /\ menu # None /\ clicks < MaxClicks /\ HasFresh
    /\ l \in Lists(gear[Player]) \cup {x \in {NoList} : gear[Player].plain > 0}
    /\ LET g == Moved(gear, Player, menu, l)
           armed == Routed(mod) /\ held /\ (menu \in Followers => game.supported)
       IN  IF armed
           THEN \E t \in EquipAfterTransfer(menu, g, Captured(l), Intent(start)) :
                    /\ GearBecomes([g EXCEPT ![menu] = t.entry], synthetics \cup t.made)
                    /\ rows' = Stale(Rows(g[menu]), t.entry)
                    /\ Record("transfer", start, [lists |-> {}, count |-> 1], Captured(l),
                              g[menu], t.entry)
                    /\ IF t.equips THEN Queue(Refresh(IF menu \in Followers THEN menu ELSE None))
                       ELSE UNCHANGED tasks
           ELSE /\ GearBecomes(g, synthetics) /\ rows' = Rows(g[menu])
                /\ last' = NoClick /\ UNCHANGED tasks
    /\ LatchSpent(Routed(mod))
    /\ clicks' = clicks + 1
    /\ UNCHANGED <<game, menu, effects, potionsOn>>

----------------------------------------------------------------------------
(* Clicks on poisons, potions and tomes. source is the side clicked on.      *)

Op(f) ==
    CASE f \in Poisons -> IF game.poison = "drink" THEN "drink" ELSE "coat"
      [] f \in Potions -> "consume"
      [] OTHER -> "learn"

(* Does a special mode own the click?                                        *)
HandledByMode(f) ==
    \/ f \in Poisons /\ game.poison # "off"
    \/ f \in Potions /\ potionsOn
    \/ f \in Tomes /\ game.tomes

Spent(s, holder, f) == [s EXCEPT ![holder][f] = @ - 1]
Gained(s, holder, f) == [s EXCEPT ![holder][f] = @ + 1]
MovedUnit(s, f, from, to) == Gained(Spent(s, from, f), to, f)

(* HandleTransfer of the three modes: the source, the hand and the tome      *)
(* setting are those of the click.                                           *)
UseAffected(start, f, source) ==
    \E a \in GetAffectedTarget(TRUE) :
        IF f \in Tomes /\ f \in spells[a] THEN UNCHANGED tasks
        ELSE Queue([op |-> Op(f), target |-> a, source |-> source, form |-> f,
                    hand |-> Intent(start), keep |-> game.keepTomes])

UseVanilla(f, source) ==
    LET to == IF source = Player THEN menu ELSE Player
    IN  stock' = MovedUnit(stock, f, source, to) /\ due' = MovedUnit(due, f, source, to)

Use(start, f, source, mod) ==
    /\ menu # None /\ source \in {Player, menu} /\ stock[source][f] > 0 /\ clicks < MaxClicks
    /\ LET affected == GetAffectedTarget(mod) # {}
       IN  /\ \/ affected /\ HandledByMode(f) /\ UseAffected(start, f, source) /\ UNCHANGED effects
              \/ affected /\ ~HandledByMode(f) /\ source # Player /\ UNCHANGED <<tasks, effects>>
              \/ /\ ~affected \/ (~HandledByMode(f) /\ source = Player)
                 /\ UseVanilla(f, source) /\ UNCHANGED <<tasks, coat, spells>>
           /\ LatchSpent(affected)
    /\ clicks' = clicks + 1 /\ last' = NoClick
    /\ UNCHANGED <<game, menu, rows, items, potionsOn>>

(* A task acts only while the menu is open on its target and the source      *)
(* still has a unit.                                                         *)
Current(t) == t.target = menu /\ stock[t.source][t.form] > 0

Staged(s, t) == IF t.source # t.target THEN MovedUnit(s, t.form, t.source, t.target) ELSE s

(* With a bug: what the engine refused to consume stays with the target.     *)
UnstagedNever(s, t) == s

Unstaged(s, t) == IF t.source # t.target THEN MovedUnit(s, t.form, t.target, t.source) ELSE s

(* ConsumeNow and ConsumePoisonNow: one unit goes to the target, which       *)
(* consumes it, or it comes back.                                            *)
Consumes(t) == t.op \in {"consume", "drink"} /\ Current(t) /\ (t.op = "consume" => potionsOn)

Consume(t) ==
    /\ Consumes(t)
    /\ stock' = Spent(Staged(stock, t), t.target, t.form)
    /\ due' = Spent(due, t.source, t.form)
    /\ UNCHANGED <<coat, spells>>

(* Only ConsumeNow refreshes the menu for a unit that came back.             *)
Refuse(t) ==
    /\ Consumes(t)
    /\ stock' = Unstaged(Staged(stock, t), t)
    /\ tasks' = IF t.op = "consume" /\ t.source # t.target
                THEN Append(Tail(tasks), Refresh(t.target)) ELSE Tail(tasks)
    /\ UNCHANGED <<coat, spells, due>>

(* ApplyPoisonNow: the left hand gives way to a two-handed weapon.           *)
CoatedHand(t) == IF t.hand = "left" /\ game.hands.right = "twoHander" THEN "right" ELSE t.hand

Cap == IF game.maxCharges = 100 THEN 0 ELSE game.maxCharges

(* With a bug: the poison on the weapon is not compared.                     *)
MayCoatAny(c, p) == c.n = 0 \/ (game.stacking /\ (Cap > 0 => c.n < Cap))

MayCoat(c, p) ==
    \/ c.n = 0
    \/ game.stacking /\ c.poison = p /\ (Cap > 0 => c.n < Cap)

Doses(c) ==
    IF game.stacking /\ Cap > 0 /\ c.n + game.doses > Cap THEN Cap ELSE c.n + game.doses

(* taken: the engine took the unit itself, which only its own PoisonObject,  *)
(* for a weapon without poison, may do.                                      *)
ApplyPoison(t, taken) ==
    LET h == CoatedHand(t)
        c == coat[t.target][h]
        counted == IF taken THEN Spent(stock, t.source, t.form) ELSE stock
    IN  /\ t.op = "coat" /\ Current(t)
        /\ game.hands[h] \in {"weapon", "twoHander"} /\ MayCoat(c, t.form)
        /\ taken => c.n = 0
        /\ coat' = [coat EXCEPT ![t.target][h] = [poison |-> t.form, n |-> Doses(c)]]
        /\ stock' = IF counted[t.source][t.form] >= stock[t.source][t.form]
                    THEN Spent(counted, t.source, t.form) ELSE counted
        /\ due' = Spent(due, t.source, t.form)
        /\ UNCHANGED spells

(* LearnNow. The engine may refuse the spell.                                *)
NotLearned(t) == t.form \notin spells[t.target]

Learn(t) ==
    /\ t.op = "learn" /\ Current(t) /\ NotLearned(t)
    /\ spells' = [spells EXCEPT ![t.target] = @ \cup {t.form}]
    /\ stock' = IF t.keep THEN stock ELSE Spent(stock, t.source, t.form)
    /\ due' = IF t.keep THEN due ELSE Spent(due, t.source, t.form)
    /\ UNCHANGED coat

Effect(t) ==
    \/ Consume(t)
    \/ \E taken \in BOOLEAN : ApplyPoison(t, taken)
    \/ Learn(t)

(* Nothing happens when the menu or the stock has changed, or the engine     *)
(* refuses. The refresh at the end is queued like any other task.            *)
RunUse ==
    LET t == Head(tasks)
    IN  /\ tasks # <<>> /\ t.op # "refresh"
        /\ \/ Effect(t) /\ tasks' = Append(Tail(tasks), Refresh(t.target))
           \/ Refuse(t)
           \/ UNCHANGED effects /\ tasks' = Tail(tasks)
        /\ last' = NoClick
        /\ UNCHANGED <<game, menuVars, items, potionsOn, clicks>>

RunRefresh ==
    /\ tasks # <<>> /\ Head(tasks).op = "refresh"
    /\ rows' = IF menu # None /\ Head(tasks).target \in {menu, None} THEN Rows(gear[menu]) ELSE rows
    /\ tasks' = Tail(tasks) /\ last' = NoClick
    /\ UNCHANGED <<game, menu, override, leftover, items, effects, potionsOn, clicks>>

----------------------------------------------------------------------------
OpenMenu(a) ==
    /\ menu = None
    /\ menu' = a /\ rows' = Rows(gear[a]) /\ last' = NoClick
    /\ UNCHANGED <<game, override, leftover, items, effects, potionsOn, tasks, clicks>>

CloseMenu ==
    /\ menu # None
    /\ menu' = None /\ rows' = {} /\ last' = NoClick
    /\ UNCHANGED <<game, override, leftover, items, effects, potionsOn, tasks, clicks>>

(* SetPotionsEnabled, from the settings page.                                *)
SetPotionsEnabled ==
    /\ potionsOn' = ~potionsOn /\ last' = NoClick
    /\ UNCHANGED <<game, menuVars, items, effects, tasks, clicks>>

(* The engine: a blow uses up one dose.                                      *)
Struck(c) == IF c.n = 1 THEN NoCoat ELSE [c EXCEPT !.n = @ - 1]

Strike(a, h) ==
    /\ menu = None /\ coat[a][h].n > 0
    /\ coat' = [coat EXCEPT ![a][h] = Struck(@)]
    /\ last' = NoClick
    /\ UNCHANGED <<game, menuVars, items, stock, spells, due, potionsOn, tasks, clicks>>

GearClick ==
    \E start \in Starts, mod \in BOOLEAN :
        \/ \E row \in rows : Take(start, row, mod)
        \/ \E l \in Addresses \cup {NoList}, held \in BOOLEAN : GiveCopy(start, l, mod, held)

UseClick ==
    \E start \in Starts, f \in Forms, source \in Holders, mod \in BOOLEAN : Use(start, f, source, mod)

MenuStep == (\E a \in game.actors : OpenMenu(a)) \/ CloseMenu \/ \E slot \in Hands : AttemptEquip(slot)

GameStep == RunUse \/ RunRefresh \/ SetPotionsEnabled \/ \E a \in Followers, h \in Hands : Strike(a, h)

Next == GearClick \/ UseClick \/ MenuStep \/ GameStep

Spec == Init /\ [][Next]_vars

----------------------------------------------------------------------------
(* A toggle of a row that shows the actor as it is, with the hand that was   *)
(* asked for whichever way the click was made: a copy of the row there comes *)
(* off; else the only copy of a row of one goes there; else, unless a copy   *)
(* of another row is there, some copy does, and when the row has copies to   *)
(* spare the other hand keeps its own. (RowIsRespected is about the copy of  *)
(* another row. Two-handers, torches and ammunition have their own hand; a   *)
(* stack of them clicked with the other key is not claimed for.) One click   *)
(* does not get the hand it asks for: the first that the router owns after   *)
(* an AttemptEquip that nothing followed, unless it latches a hand itself.   *)
ToggleServesHand ==
    LET before == last.before
        held == InHand(before, last.hand)
        other == InHand(before, Opposite(last.hand))
        now(h) == InHand(last.after, h)
        single == \E l \in last.row.lists \cap NotWorn(before) : before.lists[l].own
    IN  last.way = "toggle" /\ last.fresh /\ ~last.misled
        /\ (last.asked = last.hand \/ Cardinality(last.row.lists) <= 1 \/ game.kind = "armor")
        => /\ CASE last.row.lists \cap held # {} -> now(last.hand) = {}
                [] last.row.lists \cap held = {} /\ single -> now(last.hand) = last.row.lists
                [] OTHER -> held = {} => now(last.hand) # {}
           /\ game.kind = "weapon" /\ held = {} /\ other # {} /\ last.row.count > 1
              => now(Opposite(last.hand)) = other

(* What is put on after a transfer is what was transferred: the copy with    *)
(* data of its own, or one that has none.                                    *)
TransferEquipsWhatCame ==
    last.way = "transfer"
    => \A l \in InHand(last.after, last.used) \ InHand(last.before, last.used) :
           IF last.copy # NoList THEN l = last.copy ELSE ~last.after.lists[l].own

(* Whatever order clicks, tasks and menus come in, each effect costs the     *)
(* side that was clicked on one unit, and nothing else changes hands.        *)
SourcePaysOncePerEffect == stock = due

(* A dose is never laid over another poison, nor past the cap.               *)
CoatsFairly ==
    [][\A a \in Followers, h \in Hands :
           coat'[a][h].n > coat[a][h].n
           => /\ coat[a][h].n > 0 => game.stacking /\ coat'[a][h].poison = coat[a][h].poison
              /\ game.stacking /\ Cap > 0 => coat'[a][h].n <= Cap]_vars

(* EquipModeAction.cpp:401, "Another instance of this form is in the desired *)
(* slot; let the engine replace it.": a click on the row of the plain copies *)
(* puts one of them into the hand, and never just takes off the copy of      *)
(* another row.                                                              *)
RowIsRespected ==
    last.way = "toggle" /\ last.fresh /\ game.kind = "weapon" /\ last.row.lists = {}
    => EquippedIn(last.after, last.used)
=============================================================================
