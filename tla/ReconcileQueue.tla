--------------------------- MODULE ReconcileQueue ---------------------------
(***************************************************************************)
(* The request protocol of the hand-item restore, at the grain of its      *)
(* critical sections (HandItemRestore.cpp: g_pendingRefreshMutex guards    *)
(* both sets; the checks before a section are made without it).  Requests  *)
(* come from equip and outfit hooks on any thread; the task queue, the     *)
(* menu events and the lifecycle run on the main thread.                   *)
(***************************************************************************)
EXTENDS Naturals

CONSTANTS
    Actor,      \* followers
    NoActor,    \* a thread that works for no actor
    Main,       \* the game's main thread
    Worker,     \* other threads the hooks are called on
    MaxTasks    \* bound: restore tasks of one actor queued when it is cleared

ASSUME ThreadAssumption == Main \notin Worker /\ NoActor \notin Actor
ASSUME TaskBoundAssumption == MaxTasks \in Nat

VARIABLES
    pending,    \* g_pendingRefresh
    menuClose,  \* g_menuCloseRefresh
    tasks,      \* restore tasks in the SKSE queue, per actor
    flushing,   \* ids FlushMenuCloseRefreshes has taken and not yet queued
    op,         \* what each thread is about to do
    at,         \* the actor it does it for
    menuOpen,   \* IsContainerMenuOpen
    installed,  \* g_installed, and the menu-close listener with it
    enabled,    \* both settings of IsEnabled are on
    follower,   \* eligible actors
    asked,      \* history: actors with a request since their last clear
    outlived,   \* history: actors whose request has outlived a clear
    cancels     \* history: flips with every clear

queues == <<pending, menuClose, tasks, flushing>>
threads == <<op, at>>
world == <<menuOpen, installed, enabled, follower>>
history == <<asked, outlived, cancels>>
queueVars == <<queues, threads, world, history>>

Thread == Worker \cup {Main}
Ops == {"idle", "park", "queue", "addTask", "drop", "unpend", "take", "restore", "flush"}
MainOps == {"drop", "unpend", "take", "restore", "flush"}

IsEnabled == installed /\ enabled
Admitted == IF IsEnabled THEN follower ELSE {}

QueueTypeOK ==
    /\ pending \subseteq Actor
    /\ menuClose \subseteq Actor
    /\ tasks \in [Actor -> Nat]
    /\ flushing \subseteq Actor
    /\ op \in [Thread -> Ops]
    /\ at \in [Thread -> Actor \cup {NoActor}]
    /\ menuOpen \in BOOLEAN /\ installed \in BOOLEAN /\ enabled \in BOOLEAN
    /\ follower \subseteq Actor
    /\ asked \subseteq Actor /\ outlived \subseteq Actor /\ cancels \in BOOLEAN

QueueInit ==
    /\ pending = {} /\ menuClose = {} /\ flushing = {}
    /\ tasks = [a \in Actor |-> 0]
    /\ op = [t \in Thread |-> "idle"]
    /\ at = [t \in Thread |-> NoActor]
    /\ menuOpen = FALSE /\ installed = TRUE /\ enabled = TRUE
    /\ follower = Actor
    /\ asked = {} /\ outlived = {} /\ cancels = FALSE

Free(t) == op[t] = "idle" /\ (t = Main => flushing = {})
At(t, o, a) == op[t] = o /\ at[t] = a

Goto(t, o, a) ==
    /\ op' = [op EXCEPT ![t] = o]
    /\ at' = [at EXCEPT ![t] = a]

Done(t) == Goto(t, "idle", NoActor)

(* A request a thread carries between two sections, out of a clear's reach. *)
InFlight(a) ==
    \/ a \in flushing
    \/ \E t \in Thread : at[t] = a /\ op[t] \in {"park", "queue", "unpend", "restore"}

----------------------------------------------------------------------------
(* Requests, on any thread.                                                *)

(* RequestReconcile: the checks; it is dropped while the menu is open.     *)
RequestReconcile(t, a) ==
    /\ Free(t)
    /\ a \in Admitted /\ ~menuOpen
    /\ Goto(t, "queue", a)
    /\ asked' = asked \cup {a}
    /\ UNCHANGED <<queues, world, outlived, cancels>>

(* RequestReconcileAfterMenuClose: the checks.                             *)
RequestReconcileAfterMenuClose(t, a) ==
    /\ Free(t)
    /\ a \in Admitted
    /\ Goto(t, IF menuOpen THEN "park" ELSE "queue", a)
    /\ asked' = asked \cup {a}
    /\ UNCHANGED <<queues, world, outlived, cancels>>

AddMenuCloseRefresh(t, a) ==
    /\ At(t, "park", a)
    /\ menuClose' = menuClose \cup {a}
    /\ Done(t)
    /\ UNCHANGED <<pending, tasks, flushing, world, history>>

(* QueuePendingRestore, the insertion: a duplicate ends here.              *)
InsertPending(t, a) ==
    /\ At(t, "queue", a)
    /\ pending' = pending \cup {a}
    /\ IF a \in pending THEN Done(t) ELSE Goto(t, "addTask", a)
    /\ UNCHANGED <<menuClose, tasks, flushing, world, history>>

AddTask(t, a) ==
    /\ At(t, "addTask", a)
    /\ tasks' = [tasks EXCEPT ![a] = @ + 1]
    /\ Done(t)
    /\ UNCHANGED <<pending, menuClose, flushing, world, history>>

----------------------------------------------------------------------------
(* RunRestoreTask, on the main thread.                                     *)

(* Deviation: a task for an actor that is not admitted just ends.          *)
StartTaskForgets(a) ==
    /\ Free(Main) /\ tasks[a] > 0
    /\ tasks' = [tasks EXCEPT ![a] = @ - 1]
    /\ IF a \notin Admitted THEN UNCHANGED threads
       ELSE Goto(Main, IF menuOpen THEN "unpend" ELSE "take", a)
    /\ UNCHANGED <<pending, menuClose, flushing, world, history>>

(* The checks, in the code's order.  The menu-open branch does not look    *)
(* at the pending set, so a task whose request was cleared parks the actor *)
(* all the same.                                                           *)
StartTask(a) ==
    /\ Free(Main) /\ tasks[a] > 0
    /\ tasks' = [tasks EXCEPT ![a] = @ - 1]
    /\ Goto(Main, IF a \notin Admitted THEN "drop" ELSE IF menuOpen THEN "unpend" ELSE "take", a)
    /\ outlived' = IF a \in Admitted /\ menuOpen /\ a \notin pending
                  THEN outlived \cup {a} ELSE outlived
    /\ UNCHANGED <<pending, menuClose, flushing, world, asked, cancels>>

(* Deviation: a request that meets the open menu is not parked.            *)
ClearPendingLoses(a) ==
    /\ At(Main, "drop", a) \/ At(Main, "unpend", a)
    /\ pending' = pending \ {a}
    /\ Done(Main)
    /\ UNCHANGED <<menuClose, tasks, flushing, world, history>>

ClearPending(a) ==
    /\ At(Main, "drop", a) \/ At(Main, "unpend", a)
    /\ pending' = pending \ {a}
    /\ IF op[Main] = "drop" THEN Done(Main) ELSE Goto(Main, "park", a)
    /\ UNCHANGED <<menuClose, tasks, flushing, world, history>>

(* Deviation: the task restores whether or not its request is pending.     *)
TakePendingUnasked(a) ==
    /\ At(Main, "take", a)
    /\ pending' = pending \ {a}
    /\ Goto(Main, "restore", a)
    /\ UNCHANGED <<menuClose, tasks, flushing, world, history>>

TakePending(a) ==
    /\ At(Main, "take", a)
    /\ pending' = pending \ {a}
    /\ IF a \in pending THEN Goto(Main, "restore", a) ELSE Done(Main)
    /\ UNCHANGED <<menuClose, tasks, flushing, world, history>>

(* RestoreSnapshot, or nothing when a fight or a menu is in the way.       *)
FinishRestore(a) ==
    /\ At(Main, "restore", a)
    /\ Done(Main)
    /\ UNCHANGED <<queues, world, history>>

----------------------------------------------------------------------------
(* The menu.                                                               *)

OpenMenu ==
    /\ Free(Main) /\ ~menuOpen
    /\ menuOpen' = TRUE
    /\ UNCHANGED <<queues, threads, installed, enabled, follower, history>>

(* The close event marks the menu as closing and calls the listener.       *)
CloseMenu ==
    /\ Free(Main) /\ menuOpen
    /\ menuOpen' = FALSE
    /\ IF installed THEN Goto(Main, "flush", NoActor) ELSE UNCHANGED threads
    /\ UNCHANGED <<queues, installed, enabled, follower, history>>

(* FlushMenuCloseRefreshes: take the ids, then queue them one by one, or   *)
(* drop them all when the feature is off.                                  *)
TakeMenuCloseRefreshes ==
    /\ op[Main] = "flush"
    /\ flushing' = IF IsEnabled THEN menuClose ELSE {}
    /\ menuClose' = {}
    /\ Done(Main)
    /\ UNCHANGED <<pending, tasks, world, history>>

FlushOne(a) ==
    /\ op[Main] = "idle" /\ a \in flushing
    /\ flushing' = flushing \ {a}
    /\ Goto(Main, "queue", a)
    /\ UNCHANGED <<pending, menuClose, tasks, world, history>>

----------------------------------------------------------------------------
(* Lifecycle.                                                              *)

(* EraseActor, from a death, deletion or ash-pile hook on any thread.      *)
EraseActor(t, a) ==
    /\ Free(t) /\ tasks[a] < MaxTasks
    /\ pending' = pending \ {a}
    /\ menuClose' = menuClose \ {a}
    /\ asked' = asked \ {a}
    /\ outlived' = IF InFlight(a) THEN outlived \cup {a} ELSE outlived \ {a}
    /\ cancels' = ~cancels
    /\ UNCHANGED <<tasks, flushing, threads, world>>

(* ClearSnapshots on OnRevert, and on Uninstall, which also switches off.  *)
ClearAllPendingRestores(uninstall) ==
    /\ Free(Main) /\ \A a \in Actor : tasks[a] < MaxTasks
    /\ pending' = {} /\ menuClose' = {}
    /\ installed' = (installed /\ ~uninstall)
    /\ asked' = {} /\ outlived' = {a \in Actor : InFlight(a)}
    /\ cancels' = ~cancels
    /\ UNCHANGED <<tasks, flushing, threads, menuOpen, enabled, follower>>

Install ==
    /\ Free(Main) /\ ~installed
    /\ installed' = TRUE
    /\ UNCHANGED <<queues, threads, menuOpen, enabled, follower, history>>

ToggleSetting ==
    /\ enabled' = ~enabled
    /\ UNCHANGED <<queues, threads, menuOpen, installed, follower, history>>

ToggleFollower(a) ==
    /\ follower' = IF a \in follower THEN follower \ {a} ELSE follower \cup {a}
    /\ UNCHANGED <<queues, threads, menuOpen, installed, enabled, history>>

----------------------------------------------------------------------------
ThreadStep(t) == \E a \in Actor : AddMenuCloseRefresh(t, a) \/ InsertPending(t, a) \/ AddTask(t, a)

MainStep ==
    \/ \E a \in Actor : ClearPending(a) \/ TakePending(a) \/ FinishRestore(a) \/ FlushOne(a)
    \/ TakeMenuCloseRefreshes

RequestStep ==
    \E t \in Thread, a \in Actor : RequestReconcile(t, a) \/ RequestReconcileAfterMenuClose(t, a)

LifecycleStep ==
    \/ \E t \in Thread, a \in Actor : EraseActor(t, a)
    \/ \E uninstall \in BOOLEAN : ClearAllPendingRestores(uninstall)
    \/ Install \/ ToggleSetting
    \/ \E a \in Actor : ToggleFollower(a)

QueueNext ==
    \/ \E t \in Thread : ThreadStep(t)
    \/ \E a \in Actor : StartTask(a)
    \/ MainStep \/ RequestStep \/ OpenMenu \/ CloseMenu \/ LifecycleStep

QueueSpec == QueueInit /\ [][QueueNext]_queueVars

(* A thread finishes what it is in the middle of, and SKSE drains its task *)
(* queue every frame, however often the main thread does other work.       *)
Fairness ==
    /\ \A t \in Thread : WF_queueVars(ThreadStep(t))
    /\ WF_queueVars(MainStep)
    /\ \A a \in Actor : SF_queueVars(StartTask(a))

FairSpec == QueueSpec /\ Fairness

----------------------------------------------------------------------------
(* A thread has an actor in hand exactly while it works for one, the main  *)
(* thread alone runs tasks and menu events, and one flush ends before the  *)
(* next takes the parked requests.                                         *)
ThreadsConsistent ==
    /\ op[Main] = "flush" => flushing = {}
    /\ \A t \in Thread :
        /\ at[t] = NoActor <=> op[t] \in {"idle", "flush"}
        /\ op[t] \in MainOps => t = Main

(* An actor in the pending set has its task, queued, about to be queued,   *)
(* or just started: the set that merges duplicate requests never holds an  *)
(* actor nobody will take out again.  QueuePendingRestore inserts first    *)
(* and queues later, and clears empty the set under tasks that stay.       *)
HasTask(a) ==
    \/ tasks[a] > 0
    \/ \E t \in Thread : At(t, "addTask", a)
    \/ \E o \in {"drop", "unpend", "take"} : At(Main, o, a)

PendingHasTask == \A a \in pending : HasTask(a)

(* Only a request made since the actor was last cleared leads to a         *)
(* restore, however many tasks of older requests are still queued, except  *)
(* one that was in flight on another thread, or a stale task that found    *)
(* the menu open.                                                          *)
Owed(a) == a \in pending \cup menuClose \/ InFlight(a)
RequestsHaveASource ==
    \A a \in Actor : Owed(a) => a \in asked \cup outlived

(* The pending set empties again for every actor: whatever is cleared,     *)
(* switched off or opened meanwhile, no actor stays marked as pending and  *)
(* so cut off from all later requests.                                     *)
PendingEnds == \A a \in Actor : a \in pending ~> a \notin pending

(* The promise of ReconcileRequests, kept: an accepted request is never    *)
(* forgotten between the two sets, the flush and the threads.              *)
OwedSet ==
    {a \in Actor :
        \/ a \in pending \cup menuClose \cup flushing
        \/ \E t \in Thread : at[t] = a /\ op[t] \in {"park", "queue", "unpend"}}
DoomedSet == {a \in Actor : At(Main, "drop", a)}
ServingSet == {a \in Actor : At(Main, "restore", a)}

Requests ==
    INSTANCE ReconcileRequests WITH
        admitted <- Admitted, owed <- OwedSet, doomed <- DoomedSet, serving <- ServingSet

ImplementsRequests == Requests!Spec
=============================================================================
