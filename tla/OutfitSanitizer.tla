--------------------------- MODULE OutfitSanitizer ---------------------------
(***************************************************************************)
(* OutfitItemSanitizer.cpp: strips the engine's outfit tags from armor of  *)
(* followers, so that the trade menu shows it, and removes the untagged    *)
(* duplicates the tags had hidden.  Items added on any thread trigger a    *)
(* coalesced task; while the actor's menu is open the work is handed to    *)
(* the menu's frames, and back when it closes.                             *)
(*                                                                         *)
(* One armor per actor is followed.  A copy is known by the address of its *)
(* extra list, which a later copy may get again; the units without an      *)
(* extra list are the plain stack.  What a pass strips depends on whether  *)
(* the armor belongs to the actor's default outfit, on two settings, and   *)
(* on whether the actor is commanded by the player.                        *)
(***************************************************************************)
EXTENDS Integers, Sequences, FiniteSets

CONSTANTS
    Actor,      \* actors that can be followers
    NoActor,    \* no actor
    Addr,       \* addresses of extra lists
    Sig,        \* stable identities (NormalizeStableIdentity)
    Bare,       \* the identity of a copy that has none
    Main,       \* the thread of tasks, frames and menu events
    Worker,     \* other threads that add items
    MaxPlain,   \* bound: units in a plain stack
    MaxTasks    \* bound: tasks queued when a menu opens or the mod is switched on

ASSUME FiniteAssumption == IsFiniteSet(Actor) /\ IsFiniteSet(Addr)
ASSUME NullAssumption == NoActor \notin Actor \cup Sig /\ Bare \in Sig
ASSUME SanitizerThreadAssumption == Main \notin Worker
ASSUME SanitizerBoundAssumption == MaxPlain \in Nat /\ MaxTasks \in Nat

VARIABLES
    pending,    \* g_pendingOutfitAddActors
    running,    \* g_runningOutfitAddActors
    requeue,    \* g_requeueOutfitAddActors
    passing,    \* g_pendingRemovalActors
    sanitized,  \* g_sanitizedActors
    rescan,     \* g_rescanRequestedActors
    removals,   \* g_pendingRemovals; None where there is no entry
    tasks,      \* the SKSE queue
    op, at,     \* what each thread is about to do, and for whom
    menu,       \* target of the open container menu
    installed,  \* g_installed, the listeners and the menu sink
    scope,      \* "affected", "summon" (affected too), "other" or "dead"
    reveal,     \* the enableReveal... settings that are on
    inOutfit,   \* actors with the armor in their default outfit
    copies,     \* copies with an extra list
    plain,      \* units without one
    owed,       \* history: actors with a trigger no scan has followed yet
    missed,     \* history: actors with a tag that came without a trigger or lost it,
                \* or that no pass was to strip until now
    disturbed   \* history: actors of whom a waiting removal may name the wrong copies

coalescing == <<pending, running, requeue>>
session == <<passing, sanitized, rescan, removals>>
threads == <<op, at>>
game == <<menu, installed, scope, reveal, inOutfit>>
inventory == <<copies, plain>>
history == <<owed, missed, disturbed>>
vars == <<coalescing, session, tasks, threads, game, inventory, history>>

Scopes == {"affected", "summon", "other", "dead"}
Reveals == {"default", "external"}
Thread == Worker \cup {Main}
Ops == {"idle", "queue", "addTask", "scan", "end"}
None == [lists |-> {}, plain |-> 0]
NoCopy == [tag |-> FALSE, sig |-> NoActor]
Copy == {NoCopy} \cup [tag : BOOLEAN, sig : Sig]
Removals == [lists : SUBSET Addr, plain : Nat]
Task == [kind : {"run", "dedup"}, actor : Actor] \cup [kind : {"detached"}, actor : Actor, rem : Removals]

TypeOK ==
    /\ pending \subseteq Actor /\ running \subseteq Actor /\ requeue \subseteq Actor
    /\ passing \subseteq Actor /\ sanitized \subseteq Actor /\ rescan \subseteq Actor
    /\ removals \in [Actor -> Removals]
    /\ tasks \in Seq(Task)
    /\ op \in [Thread -> Ops] /\ at \in [Thread -> Actor \cup {NoActor}]
    /\ menu \in Actor \cup {NoActor} /\ installed \in BOOLEAN
    /\ scope \in [Actor -> Scopes] /\ reveal \subseteq Reveals /\ inOutfit \subseteq Actor
    /\ copies \in [Actor -> [Addr -> Copy]] /\ plain \in [Actor -> Nat]
    /\ owed \subseteq Actor /\ missed \subseteq Actor /\ disturbed \subseteq Actor

Init ==
    /\ pending = {} /\ running = {} /\ requeue = {}
    /\ passing = {} /\ sanitized = {} /\ rescan = {}
    /\ removals = [a \in Actor |-> None]
    /\ tasks = <<>>
    /\ op = [t \in Thread |-> "idle"] /\ at = [t \in Thread |-> NoActor]
    /\ menu = NoActor /\ installed = TRUE
    /\ scope = [a \in Actor |-> "affected"]
    /\ reveal \in SUBSET Reveals /\ inOutfit \in SUBSET Actor
    /\ copies = [a \in Actor |-> [c \in Addr |-> NoCopy]]
    /\ plain = [a \in Actor |-> 0]
    /\ owed = {} /\ missed = {} /\ disturbed = {}

Affected(a) == scope[a] \in {"affected", "summon"}
Here(a) == {c \in Addr : copies[a][c] # NoCopy}
Tagged(a) == {c \in Here(a) : copies[a][c].tag}

(* Do the settings let a pass strip the armor of an actor?  Of an actor    *)
(* the player commands, no default outfit is revealed.                     *)
Revealed(a) == IF a \in inOutfit THEN "default" \in reveal /\ scope[a] # "summon"
               ELSE "external" \in reveal

Strippable(a) == IF Revealed(a) THEN Tagged(a) ELSE {}

(* Copies with an identity; the plain stack is bare.                       *)
Units(a, s) ==
    Cardinality({c \in Here(a) : copies[a][c].sig = s}) + (IF s = Bare THEN plain[a] ELSE 0)

Goto(t, o, a) ==
    /\ op' = [op EXCEPT ![t] = o]
    /\ at' = [at EXCEPT ![t] = a]
Done(t) == Goto(t, "idle", NoActor)

Detached(a) == {i \in DOMAIN tasks : tasks[i].kind = "detached" /\ tasks[i].actor = a}
Outstanding(a) == removals[a] # None \/ Detached(a) # {}

(* What waits to be removed: place 0 is the entry of g_pendingRemovals.    *)
Places(a) == {0} \cup Detached(a)
Removal(a, p) == IF p = 0 THEN removals[a] ELSE tasks[p].rem
Listed(a) == UNION {Removal(a, p).lists : p \in Places(a)}

----------------------------------------------------------------------------
(* QueueRunForActorTask: the insertion, under the lock, then AddTask.      *)

(* Deviation: a trigger during a pass counts as served by it.              *)
InsertNoRequeue(t, a) ==
    /\ pending' = pending \cup {a}
    /\ IF a \in pending THEN Done(t) ELSE Goto(t, "addTask", a)
    /\ UNCHANGED <<running, requeue>>

Insert(t, a) ==
    /\ pending' = pending \cup {a}
    /\ requeue' = IF a \in pending \cap running THEN requeue \cup {a} ELSE requeue
    /\ IF a \in pending THEN Done(t) ELSE Goto(t, "addTask", a)
    /\ UNCHANGED running

Queue(t, a) ==
    /\ op[t] = "queue" /\ at[t] = a
    /\ Insert(t, a)
    /\ UNCHANGED <<session, tasks, game, inventory, history>>

AddTask(t, a) ==
    /\ op[t] = "addTask" /\ at[t] = a
    /\ tasks' = Append(tasks, [kind |-> "run", actor |-> a])
    /\ Done(t)
    /\ UNCHANGED <<coalescing, session, game, inventory, history>>

(* An added item: the listener of AddObjectToContainer.  The engine and    *)
(* outfit mods add tagged copies; what the player gives has its tag        *)
(* stripped on the way (the transfer listener), while the mod is on.       *)
Added(t, a, tag) ==
    IF installed /\ Affected(a)
    THEN /\ Goto(t, "queue", a)
         /\ owed' = owed \cup {a}
         /\ UNCHANGED missed
    ELSE /\ missed' = IF tag THEN missed \cup {a} ELSE missed
         /\ UNCHANGED <<threads, owed>>

AddCopy(t, a) ==
    /\ op[t] = "idle"
    /\ \E c \in Addr \ Here(a), s \in Sig, tag \in BOOLEAN :
        /\ copies' = [copies EXCEPT ![a][c] = [tag |-> tag, sig |-> s]]
        /\ Added(t, a, tag)
        /\ disturbed' = IF c \in Listed(a) THEN disturbed \cup {a} ELSE disturbed
    /\ UNCHANGED <<coalescing, session, tasks, game, plain>>

AddPlain(t, a) ==
    /\ op[t] = "idle" /\ plain[a] < MaxPlain
    /\ plain' = [plain EXCEPT ![a] = @ + 1]
    /\ Added(t, a, FALSE)
    /\ UNCHANGED <<coalescing, session, tasks, game, copies, disturbed>>

(* The player, the engine or another mod takes a copy; nobody is told.     *)
Lose(a) ==
    /\ op[Main] = "idle"
    /\ \/ \E c \in Here(a) : copies' = [copies EXCEPT ![a][c] = NoCopy] /\ UNCHANGED plain
       \/ plain[a] > 0 /\ plain' = [plain EXCEPT ![a] = @ - 1] /\ UNCHANGED copies
    /\ disturbed' = IF Outstanding(a) THEN disturbed \cup {a} ELSE disturbed
    /\ UNCHANGED <<coalescing, session, tasks, threads, game, owed, missed>>

----------------------------------------------------------------------------
(* SanitizeOutfitItems and the removal of duplicates.                      *)

(* Deviation: a copy that has a tag itself passes for a duplicate.         *)
AnyLike(a, c) == {d \in Here(a) \ {c} : copies[a][d].sig = copies[a][c].sig}

UntaggedLike(a, c) == {d \in Here(a) \ Tagged(a) : copies[a][d].sig = copies[a][c].sig}

(* Every tagged copy with an untagged twin names one twin, the first that  *)
(* matches, so that two may name the same; a bare one without a twin names *)
(* a plain unit, while they last.                                          *)
Duplicates(a) ==
    LET twins == {UntaggedLike(a, c) : c \in Strippable(a)} \ {{}}
        lone == {c \in Strippable(a) : copies[a][c].sig = Bare /\ UntaggedLike(a, c) = {}}
        n == Cardinality(lone)
    IN {[lists |-> ds, plain |-> IF n < plain[a] THEN n ELSE plain[a]] :
            ds \in {d \in SUBSET UNION twins : \A tw \in twins : Cardinality(d \cap tw) = 1}}

Stripped(a) ==
    [c \in Addr |-> IF c \in Strippable(a)
                     THEN [copies[a][c] EXCEPT !.tag = FALSE] ELSE copies[a][c]]

(* IsXListLive: a list that is gone is skipped.  A plain unit is taken     *)
(* without a look; the engine takes a copy with a list when the stack is   *)
(* empty.                                                                  *)
RemoveUnits(a, before, rem) ==
    LET left == [c \in Addr |-> IF c \in rem.lists THEN NoCopy ELSE before[c]]
        live == {c \in Addr : left[c] # NoCopy}
        over == IF rem.plain > plain[a] THEN rem.plain - plain[a] ELSE 0
        n == IF over < Cardinality(live) THEN over ELSE Cardinality(live)
    IN /\ plain' = [plain EXCEPT ![a] = IF rem.plain > @ THEN 0 ELSE @ - rem.plain]
       /\ \E gone \in {g \in SUBSET live : Cardinality(g) = n} :
            copies' = [copies EXCEPT ![a] = [c \in Addr |-> IF c \in gone THEN NoCopy ELSE left[c]]]

(* A scan serves the triggers before it; what the settings kept from it    *)
(* counts as missed when they no longer do.                                *)
Scanned(a) ==
    /\ owed' = owed \ {a}
    /\ missed' = missed \ {a}
    /\ disturbed' = IF Outstanding(a) THEN disturbed ELSE disturbed \ {a}

----------------------------------------------------------------------------
(* The run task, on the main thread.                                       *)

NextTask(kind, a) ==
    /\ op[Main] = "idle"
    /\ tasks # <<>> /\ Head(tasks).kind = kind /\ Head(tasks).actor = a

RunBegin(a) ==
    /\ NextTask("run", a)
    /\ tasks' = Tail(tasks)
    /\ running' = running \cup {a}
    /\ Goto(Main, "scan", a)
    /\ UNCHANGED <<pending, requeue, session, game, inventory, history>>

(* HandoffToOpenMenuSanitizer.                                             *)
Handoff(a) ==
    /\ sanitized' = sanitized \ {a}
    /\ rescan' = rescan \cup {a}
    /\ UNCHANGED <<passing, removals>>

(* RunForActor.  Removing needs the actor's process, which an actor who is *)
(* not loaded lacks; the tags are gone all the same.                       *)
RunForActor(a) ==
    /\ op[Main] = "scan" /\ at[Main] = a
    /\ Goto(Main, "end", a)
    /\ CASE ~installed \/ ~Affected(a) ->
               /\ owed' = owed \ {a}
               /\ missed' = IF Tagged(a) # {} THEN missed \cup {a} ELSE missed
               /\ UNCHANGED <<session, inventory, disturbed>>
         [] installed /\ Affected(a) /\ menu = a ->
               /\ Handoff(a)
               /\ UNCHANGED <<inventory, history>>
         [] OTHER ->
               /\ \E rem \in Duplicates(a) :
                    \/ RemoveUnits(a, Stripped(a), rem)
                    \/ copies' = [copies EXCEPT ![a] = Stripped(a)] /\ UNCHANGED plain
               /\ Scanned(a)
               /\ UNCHANGED session
    /\ UNCHANGED <<coalescing, tasks, game>>

(* Deviation: an actor with a requeued trigger stays in the pending set.   *)
RunEndKeepsPending(a) ==
    /\ op[Main] = "end" /\ at[Main] = a
    /\ running' = running \ {a}
    /\ pending' = IF a \in requeue THEN pending ELSE pending \ {a}
    /\ requeue' = requeue \ {a}
    /\ IF a \in requeue THEN Goto(Main, "queue", a) ELSE Done(Main)
    /\ UNCHANGED <<session, tasks, game, inventory, history>>

RunEnd(a) ==
    /\ op[Main] = "end" /\ at[Main] = a
    /\ running' = running \ {a}
    /\ pending' = pending \ {a}
    /\ requeue' = requeue \ {a}
    /\ IF a \in requeue THEN Goto(Main, "queue", a) ELSE Done(Main)
    /\ UNCHANGED <<session, tasks, game, inventory, history>>

----------------------------------------------------------------------------
(* The menu.                                                               *)

(* Deviation: a pass that completes has seen everything.                   *)
CompleteForgetsRescan(a) ==
    /\ removals' = [removals EXCEPT ![a] = None]
    /\ passing' = passing \ {a}
    /\ sanitized' = IF a \in passing THEN sanitized \cup {a} ELSE sanitized
    /\ UNCHANGED rescan

(* CompleteMenuSanitizePass.                                               *)
Complete(a) ==
    /\ removals' = [removals EXCEPT ![a] = None]
    /\ passing' = passing \ {a}
    /\ sanitized' = IF a \notin passing THEN sanitized
                    ELSE IF a \in rescan THEN sanitized \ {a}
                    ELSE sanitized \cup {a}
    /\ UNCHANGED rescan

(* AbandonMenuSanitizePass.                                                *)
Abandon(a) ==
    /\ passing' = passing \ {a}
    /\ sanitized' = sanitized \ {a}
    /\ removals' = [removals EXCEPT ![a] = None]
    /\ UNCHANGED rescan

(* The listener after ContainerMenu::Display, every frame: strips, and     *)
(* leaves the removals to a task.                                          *)
Frame(a) ==
    /\ op[Main] = "idle"
    /\ installed /\ menu = a /\ Affected(a)
    /\ a \notin sanitized /\ a \notin passing
    /\ rescan' = rescan \ {a}
    /\ copies' = [copies EXCEPT ![a] = Stripped(a)]
    /\ \E rem \in Duplicates(a) :
        IF rem = None
        THEN /\ removals' = [removals EXCEPT ![a] = None]
             /\ sanitized' = sanitized \cup {a}
             /\ UNCHANGED <<passing, tasks>>
        ELSE /\ passing' = passing \cup {a}
             /\ removals' = [removals EXCEPT ![a] = rem]
             /\ tasks' = Append(tasks, [kind |-> "dedup", actor |-> a])
             /\ UNCHANGED sanitized
    /\ Scanned(a)
    /\ UNCHANGED <<coalescing, threads, game, plain>>

(* The removal task of a pass.                                             *)
DedupTask(a) ==
    /\ NextTask("dedup", a)
    /\ IF a \notin passing \/ removals[a] = None
       THEN /\ tasks' = Tail(tasks)
            /\ IF a \in passing THEN Complete(a)
               ELSE removals' = [removals EXCEPT ![a] = None] /\ UNCHANGED <<passing, sanitized, rescan>>
            /\ UNCHANGED inventory
       ELSE IF scope[a] = "dead" \/ menu # a
       THEN /\ tasks' = IF scope[a] # "dead" /\ menu = NoActor
                       THEN Append(Tail(tasks), [kind |-> "detached", actor |-> a, rem |-> removals[a]])
                       ELSE Tail(tasks)
            /\ Abandon(a)
            /\ UNCHANGED inventory
       ELSE /\ tasks' = Tail(tasks)
            /\ RemoveUnits(a, copies[a], removals[a]) \/ UNCHANGED inventory
            /\ Complete(a)
    /\ UNCHANGED <<coalescing, threads, game, history>>

(* QueueDeferredRemovalTask's task: what a closed menu has left over.      *)
DetachedTask(a) ==
    /\ NextTask("detached", a)
    /\ tasks' = Tail(tasks)
    /\ IF installed /\ scope[a] # "dead"
       THEN RemoveUnits(a, copies[a], Head(tasks).rem) \/ UNCHANGED inventory
       ELSE UNCHANGED inventory
    /\ UNCHANGED <<coalescing, session, threads, game, history>>

OpenMenu(a) ==
    /\ op[Main] = "idle" /\ menu = NoActor /\ Len(tasks) < MaxTasks
    /\ menu' = a
    /\ UNCHANGED <<coalescing, session, tasks, threads, installed, scope, reveal, inOutfit, inventory,
                   history>>

(* The elements of a set, in some order.                                   *)
InSomeOrder(S) == CHOOSE q \in [1..Cardinality(S) -> S] : \A x \in S : \E i \in DOMAIN q : q[i] = x

DetachedTasks ==
    LET as == InSomeOrder({a \in Actor : removals[a] # None})
    IN [i \in DOMAIN as |-> [kind |-> "detached", actor |-> as[i], rem |-> removals[as[i]]]]

RunTasks(S) ==
    LET as == InSomeOrder(S) IN [i \in DOMAIN as |-> [kind |-> "run", actor |-> as[i]]]

(* The close sink: outstanding removals go to tasks, then every rescan is  *)
(* a trigger again.                                                        *)
CloseSession ==
    /\ passing' = {} /\ sanitized' = {} /\ rescan' = {}
    /\ removals' = [a \in Actor |-> None]

CloseMenu ==
    /\ op[Main] = "idle" /\ menu # NoActor
    /\ menu' = NoActor
    /\ IF ~installed
       THEN UNCHANGED <<coalescing, session, tasks, threads>>
       ELSE /\ tasks' = tasks \o DetachedTasks \o RunTasks(rescan \ pending)
            /\ pending' = pending \cup rescan
            /\ CloseSession
            /\ UNCHANGED <<running, requeue, threads>>
    /\ UNCHANGED <<installed, scope, reveal, inOutfit, inventory, history>>

----------------------------------------------------------------------------
(* Lifecycle.                                                              *)

Uninstall ==
    /\ op[Main] = "idle" /\ installed
    /\ installed' = FALSE
    /\ pending' = {} /\ running' = {} /\ requeue' = {}
    /\ CloseSession
    /\ owed' = {}
    /\ missed' = {a \in Actor : Tagged(a) # {}}
    /\ UNCHANGED <<tasks, threads, menu, scope, reveal, inOutfit, inventory, disturbed>>

Install ==
    /\ op[Main] = "idle" /\ ~installed /\ Len(tasks) < MaxTasks
    /\ installed' = TRUE
    /\ UNCHANGED <<coalescing, session, tasks, threads, menu, scope, reveal, inOutfit, inventory,
                   history>>

(* What changes in the game, or in the settings, unmarks nobody and        *)
(* triggers nothing, whatever it lets a pass strip that it left before.    *)
Changed ==
    /\ missed' = missed \cup {a \in Actor : Tagged(a) # {} /\ ~Revealed(a) /\ Revealed(a)'}
    /\ UNCHANGED <<coalescing, session, tasks, threads, menu, installed, inventory, owed, disturbed>>

(* An actor enters or leaves the scope, or dies.                           *)
Rescope(a) ==
    /\ op[Main] = "idle" /\ scope[a] # "dead"
    /\ \E s \in Scopes \ {scope[a]} : scope' = [scope EXCEPT ![a] = s]
    /\ UNCHANGED <<reveal, inOutfit>>
    /\ Changed

(* The default outfit, or what its leveled list comes to, changes.         *)
Reoutfit(a) ==
    /\ op[Main] = "idle"
    /\ inOutfit' = IF a \in inOutfit THEN inOutfit \ {a} ELSE inOutfit \cup {a}
    /\ UNCHANGED <<scope, reveal>>
    /\ Changed

(* Saved on the settings page.  Install finds itself installed and returns. *)
SetReveal(r) ==
    /\ op[Main] = "idle"
    /\ reveal' = IF r \in reveal THEN reveal \ {r} ELSE reveal \cup {r}
    /\ UNCHANGED <<scope, inOutfit>>
    /\ Changed

RunTask(a) == RunBegin(a) \/ DedupTask(a) \/ DetachedTask(a)
ThreadStep(t) == \E a \in Actor : Queue(t, a) \/ AddTask(t, a)
MainStep == \E a \in Actor : RunForActor(a) \/ RunEnd(a)

Next ==
    \/ \E a \in Actor :
        \/ RunTask(a)
        \/ Frame(a) \/ OpenMenu(a) \/ Rescope(a) \/ Reoutfit(a) \/ Lose(a)
        \/ \E t \in Thread : AddCopy(t, a) \/ AddPlain(t, a)
    \/ \E t \in Thread : ThreadStep(t)
    \/ MainStep
    \/ CloseMenu \/ Install \/ Uninstall
    \/ \E r \in Reveals : SetReveal(r)

Spec == Init /\ [][Next]_vars

(* Tasks are drained and frames drawn for as long as the game runs, and a  *)
(* thread ends what it has begun; nobody has to close the menu.            *)
Fairness ==
    /\ \A t \in Thread : WF_vars(ThreadStep(t))
    /\ WF_vars(MainStep)
    /\ SF_vars(\E a \in Actor : RunTask(a))
    /\ \A a \in Actor : SF_vars(Frame(a))

FairSpec == Spec /\ Fairness

----------------------------------------------------------------------------
(* Properties.                                                             *)

RunQueued(a) == \E i \in DOMAIN tasks : tasks[i].kind = "run" /\ tasks[i].actor = a

(* An actor in the coalescing set has its task queued, about to be queued  *)
(* or running: QueueRunForActorTask drops every trigger of such an actor,  *)
(* so one without a task would never be sanitized again.                   *)
PendingHasTask ==
    \A a \in pending :
        \/ RunQueued(a)
        \/ \E t \in Thread : at[t] = a /\ op[t] \in {"addTask", "scan", "end"}

(* An actor marked as done for this menu session, whom the frames skip,    *)
(* hides no tag that the settings reveal, unless a trigger that will       *)
(* unmark it is on its way, or the tag came without one, or was not to be  *)
(* stripped when it was scanned: a setting, a default outfit or a          *)
(* summon's command that changes while the menu is open rescans nobody.    *)
SanitizedHasNoTags ==
    \A a \in sanitized :
        Strippable(a) # {} => \/ a \in pending \cup missed
                              \/ \E t \in Thread : at[t] = a /\ op[t] = "queue"

(* The sanitizer's own steps never take the last copy an actor has of an   *)
(* identity, unless somebody else took one while a removal waited, or a    *)
(* copy came to an address that a waiting removal still names (its copy    *)
(* went with another removal): IsXListLive looks at the address alone.     *)
LastCopyStays ==
    [][\A a \in Actor, s \in Sig :
        (\E b \in Actor : RunForActor(b) \/ RunTask(b)) /\ Units(a, s) > 0 /\ a \notin disturbed
            => Units(a, s)' > 0]_vars

(* A trigger is followed by a scan of its actor, by task or by frame, in   *)
(* whatever order triggers, passes and menu events come, as long as the    *)
(* mod is on and the actor in scope.                                       *)
TriggersAreScanned ==
    \A a \in Actor : a \in owed ~> (a \notin owed \/ ~installed \/ ~Affected(a))
=============================================================================
