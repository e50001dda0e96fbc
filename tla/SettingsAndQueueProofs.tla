------------------------ MODULE SettingsAndQueueProofs ------------------------
(***************************************************************************)
(* Proofs about the hand-item restore's request protocol and about the     *)
(* settings that switch it, for any followers, threads and bounds, any     *)
(* group of settings and any place a write of the file can be cut at.  The *)
(* protocol's `enabled' stands for two of the settings in force.           *)
(***************************************************************************)
EXTENDS SettingsMenu, ReconcileQueue, TLAPS, SequenceTheorems

----------------------------------------------------------------------------
(* Type correctness: every action keeps the sets of actors, the task       *)
(* counts and the thread states in their types.                            *)
THEOREM TypeCorrect == QueueSpec => []QueueTypeOK
<1>1. QueueInit => QueueTypeOK
  <2> SUFFICES ASSUME QueueInit PROVE QueueTypeOK
    OBVIOUS
  <2>1. tasks \in [Actor -> Nat]
    BY DEF QueueInit
  <2>2. op \in [Thread -> Ops] /\ at \in [Thread -> Actor \cup {NoActor}]
    BY DEF QueueInit, Ops
  <2> QED
    BY <2>1, <2>2 DEF QueueInit, QueueTypeOK
<1>2. QueueTypeOK /\ [QueueNext]_queueVars => QueueTypeOK'
  <2> SUFFICES ASSUME QueueTypeOK, [QueueNext]_queueVars PROVE QueueTypeOK'
    OBVIOUS
  <2> USE DEF QueueTypeOK, Thread, Ops, Goto, Done, queues, threads, world, history
  <2>1. ASSUME NEW t \in Thread, NEW a \in Actor, AddMenuCloseRefresh(t, a) PROVE QueueTypeOK'
    BY <2>1 DEF AddMenuCloseRefresh
  <2>2. ASSUME NEW t \in Thread, NEW a \in Actor, InsertPending(t, a) PROVE QueueTypeOK'
    BY <2>2 DEF InsertPending
  <2>3. ASSUME NEW t \in Thread, NEW a \in Actor, AddTask(t, a) PROVE QueueTypeOK'
    BY <2>3 DEF AddTask
  <2>4. ASSUME NEW a \in Actor, StartTask(a) PROVE QueueTypeOK'
    BY <2>4 DEF StartTask
  <2>5. ASSUME NEW a \in Actor, ClearPending(a) PROVE QueueTypeOK'
    BY <2>5 DEF ClearPending
  <2>6. ASSUME NEW a \in Actor, TakePending(a) PROVE QueueTypeOK'
    BY <2>6 DEF TakePending
  <2>7. ASSUME NEW a \in Actor, FinishRestore(a) PROVE QueueTypeOK'
    BY <2>7 DEF FinishRestore
  <2>8. ASSUME NEW a \in Actor, FlushOne(a) PROVE QueueTypeOK'
    BY <2>8 DEF FlushOne
  <2>9. CASE TakeMenuCloseRefreshes
    BY <2>9 DEF TakeMenuCloseRefreshes
  <2>10. ASSUME NEW t \in Thread, NEW a \in Actor,
                RequestReconcile(t, a) \/ RequestReconcileAfterMenuClose(t, a)
         PROVE QueueTypeOK'
    BY <2>10 DEF RequestReconcile, RequestReconcileAfterMenuClose
  <2>11. CASE OpenMenu \/ CloseMenu
    BY <2>11 DEF OpenMenu, CloseMenu
  <2>12. ASSUME NEW t \in Thread, NEW a \in Actor, EraseActor(t, a) PROVE QueueTypeOK'
    BY <2>12 DEF EraseActor
  <2>13. ASSUME NEW uninstall \in BOOLEAN, ClearAllPendingRestores(uninstall) PROVE QueueTypeOK'
    BY <2>13 DEF ClearAllPendingRestores
  <2>14. CASE Install \/ ToggleSetting
    BY <2>14 DEF Install, ToggleSetting
  <2>15. ASSUME NEW a \in Actor, ToggleFollower(a) PROVE QueueTypeOK'
    BY <2>15 DEF ToggleFollower
  <2>16. CASE UNCHANGED queueVars
    BY <2>16 DEF queueVars
  <2> QED
    BY <2>1, <2>2, <2>3, <2>4, <2>5, <2>6, <2>7, <2>8, <2>9, <2>10, <2>11, <2>12, <2>13,
       <2>14, <2>15, <2>16 DEF QueueNext, ThreadStep, MainStep, RequestStep, LifecycleStep
<1> QED
  BY <1>1, <1>2, PTL DEF QueueSpec

----------------------------------------------------------------------------
(* A thread holds an actor exactly while it works for one, and only the    *)
(* main thread runs tasks and menu events.                                 *)
THEOREM ThreadsAlwaysConsistent == QueueSpec => []ThreadsConsistent
<1>1. QueueInit => ThreadsConsistent
  BY ThreadAssumption DEF QueueInit, ThreadsConsistent, MainOps
<1>2. QueueTypeOK /\ ThreadsConsistent /\ [QueueNext]_queueVars => ThreadsConsistent'
  <2> SUFFICES ASSUME QueueTypeOK, ThreadsConsistent, [QueueNext]_queueVars PROVE ThreadsConsistent'
    OBVIOUS
  <2> USE ThreadAssumption DEF ThreadsConsistent, Thread, MainOps, Goto, Done, At, Free, queues,
        threads
  <2> op \in [Thread -> Ops] /\ at \in [Thread -> Actor \cup {NoActor}]
    BY DEF QueueTypeOK
  <2> Main \in Thread
    BY DEF Thread
  <2>1. ASSUME NEW t \in Thread, NEW a \in Actor, AddMenuCloseRefresh(t, a) PROVE ThreadsConsistent'
    BY <2>1 DEF AddMenuCloseRefresh
  <2>2. ASSUME NEW t \in Thread, NEW a \in Actor, InsertPending(t, a) PROVE ThreadsConsistent'
    BY <2>2 DEF InsertPending
  <2>3. ASSUME NEW t \in Thread, NEW a \in Actor, AddTask(t, a) PROVE ThreadsConsistent'
    BY <2>3 DEF AddTask
  <2>4. ASSUME NEW a \in Actor, StartTask(a) PROVE ThreadsConsistent'
    BY <2>4 DEF StartTask
  <2>5. ASSUME NEW a \in Actor, ClearPending(a) PROVE ThreadsConsistent'
    BY <2>5 DEF ClearPending
  <2>6. ASSUME NEW a \in Actor, TakePending(a) PROVE ThreadsConsistent'
    BY <2>6 DEF TakePending
  <2>7. ASSUME NEW a \in Actor, FinishRestore(a) PROVE ThreadsConsistent'
    BY <2>7 DEF FinishRestore
  <2>8. ASSUME NEW a \in Actor, FlushOne(a) PROVE ThreadsConsistent'
    BY <2>8 DEF FlushOne
  <2>9. CASE TakeMenuCloseRefreshes
    BY <2>9 DEF TakeMenuCloseRefreshes
  <2>10. ASSUME NEW t \in Thread, NEW a \in Actor,
                RequestReconcile(t, a) \/ RequestReconcileAfterMenuClose(t, a)
         PROVE ThreadsConsistent'
    BY <2>10 DEF RequestReconcile, RequestReconcileAfterMenuClose
  <2>11. CASE CloseMenu
    BY <2>11 DEF CloseMenu
  <2>12. CASE UNCHANGED <<threads, flushing>>
    BY <2>12
  <2> QED
    <3>1. ASSUME NEW t \in Thread, NEW a \in Actor, EraseActor(t, a)
          PROVE UNCHANGED <<threads, flushing>>
      BY <3>1 DEF EraseActor
    <3>2. ASSUME NEW u \in BOOLEAN, ClearAllPendingRestores(u) PROVE UNCHANGED <<threads, flushing>>
      BY <3>2 DEF ClearAllPendingRestores
    <3>3. ASSUME NEW a \in Actor, ToggleFollower(a) PROVE UNCHANGED <<threads, flushing>>
      BY <3>3 DEF ToggleFollower
    <3>4. OpenMenu \/ Install \/ ToggleSetting \/ UNCHANGED queueVars =>
            UNCHANGED <<threads, flushing>>
      BY DEF OpenMenu, Install, ToggleSetting, queueVars
    <3> QED
      BY <2>1, <2>2, <2>3, <2>4, <2>5, <2>6, <2>7, <2>8, <2>9, <2>10, <2>11, <2>12,
         <3>1, <3>2, <3>3, <3>4 DEF QueueNext, ThreadStep, MainStep, RequestStep, LifecycleStep
<1> QED
  BY <1>1, <1>2, TypeCorrect, PTL DEF QueueSpec

----------------------------------------------------------------------------
(* The set of pending actors never holds one that no task will take out:   *)
(* the insertion comes before the task and clears leave tasks behind, but  *)
(* never the other way round.                                              *)
THEOREM PendingAlwaysHasTask == QueueSpec => []PendingHasTask
<1>1. QueueInit => PendingHasTask
  BY DEF QueueInit, PendingHasTask
<1>2. QueueTypeOK /\ QueueTypeOK' /\ PendingHasTask /\ [QueueNext]_queueVars => PendingHasTask'
  <2> SUFFICES ASSUME QueueTypeOK, QueueTypeOK', PendingHasTask, [QueueNext]_queueVars,
                      NEW b \in Actor, b \in pending'
               PROVE  HasTask(b)'
    BY DEF PendingHasTask, QueueTypeOK
  <2> USE ThreadAssumption DEF HasTask, Thread, Goto, Done, At, Free, queues, threads
  <2> op \in [Thread -> Ops] /\ at \in [Thread -> Actor \cup {NoActor}] /\ tasks \in [Actor -> Nat]
    BY DEF QueueTypeOK
  <2>0. b \in pending => HasTask(b)
    BY DEF PendingHasTask
  <2>1. ASSUME NEW t \in Thread, NEW a \in Actor, AddMenuCloseRefresh(t, a) PROVE HasTask(b)'
    BY <2>0, <2>1 DEF AddMenuCloseRefresh
  <2>2. ASSUME NEW t \in Thread, NEW a \in Actor, InsertPending(t, a) PROVE HasTask(b)'
    BY <2>0, <2>2 DEF InsertPending
  <2>3. ASSUME NEW t \in Thread, NEW a \in Actor, AddTask(t, a) PROVE HasTask(b)'
    BY <2>0, <2>3 DEF AddTask
  <2>4. ASSUME NEW a \in Actor, StartTask(a) PROVE HasTask(b)'
    BY <2>0, <2>4 DEF StartTask
  <2>5. ASSUME NEW a \in Actor, ClearPending(a) PROVE HasTask(b)'
    BY <2>0, <2>5 DEF ClearPending
  <2>6. ASSUME NEW a \in Actor, TakePending(a) PROVE HasTask(b)'
    BY <2>0, <2>6 DEF TakePending
  <2>7. ASSUME NEW a \in Actor, FinishRestore(a) PROVE HasTask(b)'
    BY <2>0, <2>7 DEF FinishRestore
  <2>8. ASSUME NEW a \in Actor, FlushOne(a) PROVE HasTask(b)'
    BY <2>0, <2>8 DEF FlushOne
  <2>9. CASE TakeMenuCloseRefreshes
    BY <2>0, <2>9 DEF TakeMenuCloseRefreshes
  <2>10. ASSUME NEW t \in Thread, NEW a \in Actor,
                RequestReconcile(t, a) \/ RequestReconcileAfterMenuClose(t, a)
         PROVE HasTask(b)'
    BY <2>0, <2>10 DEF RequestReconcile, RequestReconcileAfterMenuClose
  <2>11. CASE CloseMenu
    BY <2>0, <2>11 DEF CloseMenu
  <2>12. CASE pending' \subseteq pending /\ tasks' = tasks /\ UNCHANGED threads
    BY <2>0, <2>12
  <2> QED
    <3> DEFINE Calm == pending' \subseteq pending /\ tasks' = tasks /\ UNCHANGED threads
    <3>1. ASSUME NEW t \in Thread, NEW a \in Actor, EraseActor(t, a) PROVE Calm
      BY <3>1 DEF EraseActor
    <3>2. ASSUME NEW u \in BOOLEAN, ClearAllPendingRestores(u) PROVE Calm
      BY <3>2 DEF ClearAllPendingRestores
    <3>3. ASSUME NEW a \in Actor, ToggleFollower(a) PROVE Calm
      BY <3>3 DEF ToggleFollower
    <3>4. OpenMenu \/ Install \/ ToggleSetting \/ UNCHANGED queueVars => Calm
      BY DEF OpenMenu, Install, ToggleSetting, queueVars
    <3> QED
      BY <2>1, <2>2, <2>3, <2>4, <2>5, <2>6, <2>7, <2>8, <2>9, <2>10, <2>11, <2>12,
         <3>1, <3>2, <3>3, <3>4 DEF QueueNext, ThreadStep, MainStep, RequestStep, LifecycleStep
<1> QED
  BY <1>1, <1>2, TypeCorrect, PTL DEF QueueSpec

----------------------------------------------------------------------------
(* A restore, and everything on the way to one, goes back to a request     *)
(* made since the actor was last cleared, or to one that was in flight at  *)
(* the clear or parked by a stale task: the tasks a load or an erased      *)
(* actor leaves in the queue do nothing else.                              *)
THEOREM RequestsAlwaysHaveASource == QueueSpec => []RequestsHaveASource
<1>1. QueueInit => RequestsHaveASource
  BY DEF QueueInit, RequestsHaveASource, Owed, InFlight
<1>2. QueueTypeOK /\ RequestsHaveASource /\ [QueueNext]_queueVars => RequestsHaveASource'
  <2> SUFFICES ASSUME QueueTypeOK, RequestsHaveASource, [QueueNext]_queueVars,
                      NEW b \in Actor, Owed(b)'
               PROVE  (b \in asked \cup outlived)'
    BY DEF RequestsHaveASource
  <2> USE DEF Owed, InFlight, Goto, Done, At, Free, queues, threads, history
  <2> op \in [Thread -> Ops] /\ at \in [Thread -> Actor \cup {NoActor}]
    BY DEF QueueTypeOK
  <2> Main \in Thread
    BY DEF Thread
  <2> DEFINE Sourced == b \in asked \cup outlived
  <2>0. Owed(b) => Sourced
    BY DEF RequestsHaveASource
  <2>1. ASSUME NEW t \in Thread, NEW a \in Actor, AddMenuCloseRefresh(t, a) PROVE Sourced'
    BY <2>0, <2>1 DEF AddMenuCloseRefresh
  <2>2. ASSUME NEW t \in Thread, NEW a \in Actor, InsertPending(t, a) PROVE Sourced'
    BY <2>0, <2>2 DEF InsertPending
  <2>3. ASSUME NEW t \in Thread, NEW a \in Actor, AddTask(t, a) PROVE Sourced'
    BY <2>0, <2>3 DEF AddTask
  <2>4. ASSUME NEW a \in Actor, StartTask(a) PROVE Sourced'
    BY <2>0, <2>4 DEF StartTask
  <2>5. ASSUME NEW a \in Actor, ClearPending(a) PROVE Sourced'
    BY <2>0, <2>5 DEF ClearPending
  <2>6. ASSUME NEW a \in Actor, TakePending(a) PROVE Sourced'
    BY <2>0, <2>6 DEF TakePending
  <2>7. ASSUME NEW a \in Actor, FinishRestore(a) PROVE Sourced'
    BY <2>0, <2>7 DEF FinishRestore
  <2>8. ASSUME NEW a \in Actor, FlushOne(a) PROVE Sourced'
    BY <2>0, <2>8 DEF FlushOne
  <2>9. CASE TakeMenuCloseRefreshes
    BY <2>0, <2>9 DEF TakeMenuCloseRefreshes
  <2>10. ASSUME NEW t \in Thread, NEW a \in Actor,
                RequestReconcile(t, a) \/ RequestReconcileAfterMenuClose(t, a)
         PROVE Sourced'
    BY <2>0, <2>10 DEF RequestReconcile, RequestReconcileAfterMenuClose
  <2>11. CASE CloseMenu
    BY <2>0, <2>11 DEF CloseMenu
  <2>12. ASSUME NEW t \in Thread, NEW a \in Actor, EraseActor(t, a) PROVE Sourced'
    BY <2>0, <2>12 DEF EraseActor
  <2>13. ASSUME NEW u \in BOOLEAN, ClearAllPendingRestores(u) PROVE Sourced'
    BY <2>0, <2>13 DEF ClearAllPendingRestores
  <2>14. CASE UNCHANGED <<queues, threads, history>>
    BY <2>0, <2>14
  <2> QED
    <3> DEFINE Calm == UNCHANGED <<queues, threads, history>>
    <3>1. ASSUME NEW a \in Actor, ToggleFollower(a) PROVE Calm
      BY <3>1 DEF ToggleFollower
    <3>2. OpenMenu \/ Install \/ ToggleSetting \/ UNCHANGED queueVars => Calm
      BY DEF OpenMenu, Install, ToggleSetting, queueVars
    <3> QED
      BY <2>1, <2>2, <2>3, <2>4, <2>5, <2>6, <2>7, <2>8, <2>9, <2>10, <2>11, <2>12, <2>13,
         <2>14, <3>1, <3>2 DEF QueueNext, ThreadStep, MainStep, RequestStep, LifecycleStep
<1> QED
  BY <1>1, <1>2, TypeCorrect, PTL DEF QueueSpec

----------------------------------------------------------------------------
(* The request protocol implements its abstract promise: every step is an  *)
(* acceptance, a service, a drop of an actor that is not admitted, a       *)
(* cancellation by the lifecycle, or changes nothing that is owed.         *)
THEOREM QueueImplementsRequests == QueueSpec => ImplementsRequests
<1>1. QueueInit => Requests!Init
  <2> SUFFICES ASSUME QueueInit PROVE Requests!Init
    OBVIOUS
  <2>1. Main \in Thread /\ \A t \in Thread : op[t] = "idle"
    BY DEF QueueInit, Thread
  <2>2. OwedSet = {} /\ DoomedSet = {} /\ ServingSet = {}
    BY <2>1 DEF QueueInit, OwedSet, DoomedSet, ServingSet, At
  <2>3. Admitted \subseteq Actor /\ cancels = FALSE
    BY DEF QueueInit, Admitted
  <2> QED
    BY <2>2, <2>3 DEF Requests!Init
<1>2. QueueTypeOK /\ ThreadsConsistent /\ [QueueNext]_queueVars => [Requests!Next]_Requests!vars
  <2> SUFFICES ASSUME QueueTypeOK, ThreadsConsistent, [QueueNext]_queueVars
               PROVE  Requests!Next \/ UNCHANGED Requests!vars
    OBVIOUS
  <2> DEFINE Same == UNCHANGED Requests!vars
             Step(a) == \/ Requests!Accept(a) \/ Requests!Serve(a) \/ Requests!Finish(a)
                        \/ Requests!Doom(a) \/ Requests!Drop(a)
             SetStep == \E S \in SUBSET Actor :
                          Requests!DropParked(S) \/ Requests!Cancel(S) \/ Requests!Admit(S)
  <2> USE DEF Goto, Done, At, Free, queues, threads, history, world,
              Requests!vars, Admitted, IsEnabled, OwedSet, DoomedSet, ServingSet
  <2> op \in [Thread -> Ops] /\ at \in [Thread -> Actor \cup {NoActor}]
    BY DEF QueueTypeOK
  <2> Main \in Thread
    BY DEF Thread
  <2>0. pending \subseteq Actor /\ menuClose \subseteq Actor /\ flushing \subseteq Actor
          /\ follower \subseteq Actor
    BY DEF QueueTypeOK
  <2>a. (OwedSet \ OwedSet') \in SUBSET Actor
    OBVIOUS
  <2>1. ASSUME NEW t \in Thread, NEW a \in Actor, AddMenuCloseRefresh(t, a) PROVE Same
    BY <2>1 DEF AddMenuCloseRefresh
  <2>2. ASSUME NEW t \in Thread, NEW a \in Actor, InsertPending(t, a) PROVE Same
    BY <2>2 DEF InsertPending
  <2>3. ASSUME NEW t \in Thread, NEW a \in Actor, AddTask(t, a) PROVE Same
    BY <2>3 DEF AddTask
  <2>4. ASSUME NEW a \in Actor, StartTask(a) PROVE Step(a) \/ Same
    <3>1. CASE a \notin Admitted
      BY <2>4, <3>1 DEF StartTask, Requests!Doom
    <3>2. CASE a \in Admitted /\ menuOpen
      BY <2>4, <3>2 DEF StartTask, Requests!Accept
    <3>3. CASE a \in Admitted /\ ~menuOpen
      BY <2>4, <3>3 DEF StartTask
    <3> QED
      BY <3>1, <3>2, <3>3
  <2>5. ASSUME NEW a \in Actor, ClearPending(a) PROVE Step(a) \/ Same
    <3>1. CASE op[Main] = "drop"
      BY <2>5, <3>1 DEF ClearPending, Requests!Drop
    <3>2. CASE op[Main] = "unpend"
      BY <2>5, <3>2 DEF ClearPending
    <3> QED
      BY <2>5, <3>1, <3>2 DEF ClearPending
  <2>6. ASSUME NEW a \in Actor, TakePending(a) PROVE Step(a) \/ Same
    <3>1. CASE a \in pending
      BY <2>6, <3>1 DEF TakePending, Requests!Serve
    <3>2. CASE a \notin pending
      BY <2>6, <3>2 DEF TakePending
    <3> QED
      BY <3>1, <3>2
  <2>7. ASSUME NEW a \in Actor, FinishRestore(a) PROVE Step(a)
    BY <2>7 DEF FinishRestore, Requests!Finish
  <2>8. ASSUME NEW a \in Actor, FlushOne(a) PROVE Same
    BY <2>8 DEF FlushOne
  <2>9. CASE TakeMenuCloseRefreshes
    <3>1. CASE IsEnabled
      BY <2>9, <3>1 DEF TakeMenuCloseRefreshes, ThreadsConsistent
    <3>2. CASE ~IsEnabled
      <4>0. OwedSet' \subseteq OwedSet /\ UNCHANGED <<Admitted, DoomedSet, ServingSet, cancels>>
        BY <2>9, <3>2 DEF TakeMenuCloseRefreshes, ThreadsConsistent
      <4>1. Admitted = {}
        BY <3>2
      <4> HIDE DEF OwedSet, Admitted, DoomedSet, ServingSet
      <4>2. Requests!DropParked(OwedSet \ OwedSet')
        BY <4>0, <4>1 DEF Requests!DropParked
      <4> QED
        BY <2>a, <4>2 DEF Requests!Next
    <3> QED
      BY <3>1, <3>2
  <2>10. ASSUME NEW t \in Thread, NEW a \in Actor,
                RequestReconcile(t, a) \/ RequestReconcileAfterMenuClose(t, a)
         PROVE Step(a)
    BY <2>10 DEF RequestReconcile, RequestReconcileAfterMenuClose, Requests!Accept
  <2>11. CASE OpenMenu \/ CloseMenu
    BY <2>11 DEF OpenMenu, CloseMenu
  <2>12. ASSUME NEW t \in Thread, NEW a \in Actor, EraseActor(t, a) PROVE SetStep
    <3>1. Requests!Cancel(OwedSet \ OwedSet')
      BY <2>12 DEF EraseActor, Requests!Cancel
    <3> HIDE DEF OwedSet, Admitted, DoomedSet, ServingSet
    <3> QED
      BY <2>a, <3>1
  <2>13. ASSUME NEW u \in BOOLEAN, ClearAllPendingRestores(u) PROVE SetStep
    <3>1. Requests!Cancel(OwedSet \ OwedSet')
      BY <2>13 DEF ClearAllPendingRestores, Requests!Cancel
    <3> HIDE DEF OwedSet, Admitted, DoomedSet, ServingSet
    <3> QED
      BY <2>a, <3>1
  <2>14. ASSUME Install \/ ToggleSetting PROVE SetStep
    <3>1. Admitted' \in SUBSET Actor
      BY <2>0, <2>14 DEF Install, ToggleSetting
    <3>2. UNCHANGED <<OwedSet, DoomedSet, ServingSet, cancels>>
      BY <2>14 DEF Install, ToggleSetting
    <3> HIDE DEF OwedSet, Admitted, DoomedSet, ServingSet
    <3>3. Requests!Admit(Admitted')
      BY <3>2 DEF Requests!Admit
    <3> QED
      BY <3>1, <3>3
  <2>15. ASSUME NEW a \in Actor, ToggleFollower(a) PROVE SetStep
    <3>1. Admitted' \in SUBSET Actor
      <4>1. follower' \subseteq Actor
        BY <2>0, <2>15 DEF ToggleFollower
      <4> QED
        BY <4>1
    <3>2. UNCHANGED <<OwedSet, DoomedSet, ServingSet, cancels>>
      BY <2>15 DEF ToggleFollower
    <3> HIDE DEF OwedSet, Admitted, DoomedSet, ServingSet
    <3>3. Requests!Admit(Admitted')
      BY <3>2 DEF Requests!Admit
    <3> QED
      BY <3>1, <3>3
  <2>16. CASE UNCHANGED queueVars
    BY <2>16 DEF queueVars
  <2> QED
    <3>1. (\E a \in Actor : Step(a)) \/ SetStep => Requests!Next
      BY DEF Requests!Next
    <3> QED
      BY <2>1, <2>2, <2>3, <2>4, <2>5, <2>6, <2>7, <2>8, <2>9, <2>10, <2>11, <2>12, <2>13,
         <2>14, <2>15, <2>16, <3>1 DEF QueueNext, ThreadStep, MainStep, RequestStep, LifecycleStep
<1> QED
  BY <1>1, <1>2, TypeCorrect, ThreadsAlwaysConsistent, PTL DEF QueueSpec, ImplementsRequests,
     Requests!Spec

----------------------------------------------------------------------------
\* The settings, their loaders and their controls.

\* What a parser can make of a token, given the field's default: one of the
\* words of an enum, a flag, a charge count in range, a text that is blank
\* only by default.
Proper(parser, default, v) ==
  CASE parser = "bool"      -> v \in BOOLEAN
    [] parser = "poison"    -> v \in {"disable", "apply", "consume"}
    [] parser = "contained" -> v \in {"disable", "lower", "always"}
    [] parser = "source"    -> v \in {"disable", "follower", "player", "both"}
    [] parser = "sort"      -> v \in {"name", "asc", "desc"}
    [] parser = "stats"     -> v \in {"disable", "follower", "always"}
    [] parser = "number"    -> TRUE
    [] parser = "charges"   -> v \in 1..100
    [] parser = "text"      -> v = "" => default = ""

\* The parsers of the loader.
Parsers == {"bool", "poison", "contained", "source", "sort", "stats", "number", "charges", "text"}

\* What a control of the menu, or its default button, may store in a field
\* is something the field's parser could have made.
Takes(parser, field, default) ==
  IF field \in Widgets
  THEN field = "logLevel" \/ \A v : Proper(parser, default, v)
  ELSE \A v \in Offered(field) : Proper(parser, default, v)

\* A field, its parser and its default belong together.
Good(parser, field, default) ==
  parser \in Parsers /\ Proper(parser, default, default) /\ Takes(parser, field, default)

\* The loader of a section against its structure.
Matches(loader, defaults) ==
  /\ \A k \in DOMAIN loader :
       /\ loader[k][1] \in DOMAIN defaults
       /\ Good(loader[k][2], loader[k][1], defaults[loader[k][1]])
  /\ \A f \in DOMAIN defaults : \E k \in DOMAIN loader : loader[k][1] = f
  /\ \A k, l \in DOMAIN loader : loader[k][1] = loader[l][1] => k = l

\* The fields the menu keeps in widgets of its own.
LEMMA WidgetsAre ==
  Widgets = {"logLevel", "modKeyDik", "skyuiEquipModeKey", "quickTradeKeyDik", "gamepadModKey",
             "gamepadRightHandKey", "gamepadLeftHandKey", "quickTradeGamepadKey", "rechargeKeyDik",
             "gamepadRechargeKey", "modKeyIndicatorText", "summonIndicatorText",
             "inclusionIndicatorText", "equipModeTextOverride", "indicatorText"}
  BY DEF Widgets, KeyWidgets, TextWidgets

\* The sections of the settings, one by one.
LEMMA SectionsAre == Sections = {"core", "actorScope", "quickTrade",
   "uiFeedback", "logging", "keyboardControls", "gamepadControls", "buttonIndicators",
     "iconAppearance",
   "equipModeItems", "equipModeConsumableMode", "equipModePoisonMode", "equipModeSpellTomeMode",
   "combatEquipPreference", "combatEquipEnforcement", "combatEquipRestore", "outfitSync",
     "hiddenItems",
   "itemInjectionBlocking", "lootBlocking", "autoEquipBlocking", "equipGate",
     "weaponEnchantmentRecharge",
   "statsDisplay", "corpseEquipMode", "engineFixes", "skyUIFixes"}
  BY DEF Defaults, Sections

\* The fields whose controls offer something else than a checkbox.
LEMMA ChoicesAre ==
  DOMAIN Choices =
    {"mode", "containedSoulDisplayMode", "sourceDisplayMode", "soulGemSortMode",
     "followerStatsInTradeMenuMode", "logLevel", "maxCharges", "iconSize", "gapAfterText",
     "gapAfterIcon", "fecIconSpacing", "modKeyDik", "rechargeKeyDik", "skyuiEquipModeKey",
     "quickTradeKeyDik", "gamepadModKey", "gamepadRightHandKey", "gamepadLeftHandKey",
     "gamepadRechargeKey", "quickTradeGamepadKey"} \cup DOMAIN TextWidgets
  BY DEF Choices, ++

\* Every checkbox field with a flag as its default is well served by
\* ParseBool.
LEMMA FlagGood ==
  ASSUME NEW f, f \notin Widgets \cup DOMAIN Choices, NEW d \in BOOLEAN
  PROVE  Good("bool", f, d)
  BY DEF Good, Proper, Takes, Offered, Parsers

\* Numbers are read back as they are, whatever they are.
LEMMA NumberGood ==
  ASSUME NEW f, NEW d PROVE Good("number", f, d)
  BY DEF Good, Proper, Takes, Parsers

\* The texts, blank by default, and the log level, which never is.
LEMMA TextGood ==
  ASSUME NEW f, NEW d,
         \/ f \in DOMAIN TextWidgets /\ d = ""
         \/ f = "logLevel" /\ d = "info"
  PROVE  Good("text", f, d)
  BY DEF Good, Proper, Takes, Parsers, Widgets

\* The five enums: their segments and defaults are among the words their
\* parsers know.
LEMMA EnumGood ==
  /\ Good("poison", "mode", "apply")
  /\ Good("contained", "containedSoulDisplayMode", "lower")
  /\ Good("source", "sourceDisplayMode", "disable")
  /\ Good("sort", "soulGemSortMode", "asc")
  /\ Good("stats", "followerStatsInTradeMenuMode", "follower")
  <1>1. Choices["mode"] = {"disable", "apply", "consume"}
       /\ Choices["containedSoulDisplayMode"] = {"disable", "lower", "always"}
       /\ Choices["sourceDisplayMode"] = {"disable", "follower", "player", "both"}
       /\ Choices["soulGemSortMode"] = {"name", "asc", "desc"}
       /\ Choices["followerStatsInTradeMenuMode"] = {"disable", "follower", "always"}
    BY DEF Choices, ++
  <1> QED BY <1>1, WidgetsAre, ChoicesAre DEF Good, Proper, Takes, Offered, Parsers

\* The ends of the slider of the poison charges are within ParseCharges'
\* bounds.
LEMMA ChargesGood == Good("charges", "maxCharges", 100)
  <1>1. Choices["maxCharges"] = {1, 100}
    BY DEF Choices, ++
  <1>2. Offered("maxCharges") = {1, 100}
    BY <1>1, ChoicesAre DEF Offered
  <1>3. "maxCharges" \notin Widgets
    BY WidgetsAre
  <1>4. 1 \in 1..100 /\ 100 \in 1..100
    OBVIOUS
  <1>5. \A v, d : Proper("charges", d, v) <=> v \in 1..100
    BY DEF Proper
  <1> HIDE DEF Proper
  <1> QED BY <1>2, <1>3, <1>4, <1>5 DEF Good,  Takes, Parsers

\* A section of checkboxes only.
LEMMA FlagSection ==
  ASSUME NEW S, NEW d, DOMAIN d = S, \A f \in S : d[f] \in BOOLEAN,
         S \cap (Widgets \cup DOMAIN Choices) = {}
  PROVE  Matches(Reads("bool", S), d)
<1> QED
  BY FlagGood DEF Matches, Reads

\* A section of numbers only.
LEMMA NumberSection ==
  ASSUME NEW S, NEW d, DOMAIN d = S
  PROVE  Matches(Reads("number", S), d)
<1> QED
  BY NumberGood DEF Matches, Reads

\* The seventeen sections whose loader is LoadBool for every field.
LEMMA FlagSectionsMatch ==
  /\ Matches(LoadCore, Core)
  /\ Matches(LoadActorScope, ActorScope)
  /\ Matches(LoadQuickTrade, QuickTrade)
  /\ Matches(LoadUIFeedback, UIFeedback)
  /\ Matches(LoadEquipModeItems, EquipModeItems)
  /\ Matches(LoadEquipModeConsumableMode, EquipModeConsumableMode)
  /\ Matches(LoadEquipModeSpellTomeMode, EquipModeSpellTomeMode)
  /\ Matches(LoadCombatEquipPreference, CombatEquipPreference)
  /\ Matches(LoadCombatEquipEnforcement, CombatEquipEnforcement)
  /\ Matches(LoadCombatEquipRestore, CombatEquipRestore)
  /\ Matches(LoadOutfitSync, OutfitSync)
  /\ Matches(LoadHiddenItems, HiddenItems)
  /\ Matches(LoadItemInjectionBlocking, ItemInjectionBlocking)
  /\ Matches(LoadLootBlocking, LootBlocking)
  /\ Matches(LoadAutoEquipBlocking, AutoEquipBlocking)
  /\ Matches(LoadEngineFixes, EngineFixes)
  /\ Matches(LoadSkyUIFixes, SkyUIFixes)
<1>1. Matches(LoadCore, Core)
  <2> DEFINE S == {"enableMod"}
  <2>1. LoadCore = Reads("bool", S)
    BY DEF LoadCore, Reads
  <2>2. DOMAIN Core = S /\ \A f \in S : Core[f] \in BOOLEAN
    BY DEF Core, On, Off, ++
  <2>3. S \cap (Widgets \cup DOMAIN Choices) = {}
    BY WidgetsAre, ChoicesAre DEF TextWidgets
  <2> HIDE DEF S
  <2> QED
    BY <2>1, <2>2, <2>3, FlagSection
<1>2. Matches(LoadActorScope, ActorScope)
  <2> DEFINE S == {"affectFormerFollowers", "includeInclusionActors",
             "includePlayerSummons"}
  <2>1. LoadActorScope = Reads("bool", S)
    BY DEF LoadActorScope, Reads
  <2>2. DOMAIN ActorScope = S /\ \A f \in S : ActorScope[f] \in BOOLEAN
    BY DEF ActorScope, On, Off, ++
  <2>3. S \cap (Widgets \cup DOMAIN Choices) = {}
    BY WidgetsAre, ChoicesAre DEF TextWidgets
  <2> HIDE DEF S
  <2> QED
    BY <2>1, <2>2, <2>3, FlagSection
<1>3. Matches(LoadQuickTrade, QuickTrade)
  <2> DEFINE S == {"enableQuickTrade", "enableQuickTradeForFollowers",
             "enableQuickTradeForFormerFollowers",
             "enableQuickTradeForInclusionActors",
             "enableQuickTradeForPlayerSummons", "enableQuickTradeForKNoneActors",
             "enableQuickTradeForMounts", "quickTradeAllWorldMounts"}
  <2>1. LoadQuickTrade = Reads("bool", S)
    BY DEF LoadQuickTrade, Reads
  <2>2. DOMAIN QuickTrade = S /\ \A f \in S : QuickTrade[f] \in BOOLEAN
    BY DEF QuickTrade, On, Off, ++
  <2>3. S \cap (Widgets \cup DOMAIN Choices) = {}
    BY WidgetsAre, ChoicesAre DEF TextWidgets
  <2> HIDE DEF S
  <2> QED
    BY <2>1, <2>2, <2>3, FlagSection
<1>4. Matches(LoadUIFeedback, UIFeedback)
  <2> DEFINE S == {"enableNotifications", "enableUISounds"}
  <2>1. LoadUIFeedback = Reads("bool", S)
    BY DEF LoadUIFeedback, Reads
  <2>2. DOMAIN UIFeedback = S /\ \A f \in S : UIFeedback[f] \in BOOLEAN
    BY DEF UIFeedback, On, Off, ++
  <2>3. S \cap (Widgets \cup DOMAIN Choices) = {}
    BY WidgetsAre, ChoicesAre DEF TextWidgets
  <2> HIDE DEF S
  <2> QED
    BY <2>1, <2>2, <2>3, FlagSection
<1>5. Matches(LoadEquipModeItems, EquipModeItems)
  <2> DEFINE S == {"enable", "enableWeapons", "enableArmor", "enableAmmo",
             "enableTorches", "enableScrolls"}
  <2>1. LoadEquipModeItems = Reads("bool", S)
    BY DEF LoadEquipModeItems, Reads
  <2>2. DOMAIN EquipModeItems = S /\ \A f \in S : EquipModeItems[f] \in BOOLEAN
    BY DEF EquipModeItems, On, Off, ++
  <2>3. S \cap (Widgets \cup DOMAIN Choices) = {}
    BY WidgetsAre, ChoicesAre DEF TextWidgets
  <2> HIDE DEF S
  <2> QED
    BY <2>1, <2>2, <2>3, FlagSection
<1>6. Matches(LoadEquipModeConsumableMode, EquipModeConsumableMode)
  <2> DEFINE S == {"enableConsumableMode", "enablePotions", "enableFoods", "enableDrinks",
             "enableIngredients", "enableIngredientDiscoveryForPlayer"}
  <2>1. LoadEquipModeConsumableMode = Reads("bool", S)
    BY DEF LoadEquipModeConsumableMode, Reads
  <2>2. DOMAIN EquipModeConsumableMode = S /\ \A f \in S : EquipModeConsumableMode[f] \in BOOLEAN
    BY DEF EquipModeConsumableMode, On, Off, ++
  <2>3. S \cap (Widgets \cup DOMAIN Choices) = {}
    BY WidgetsAre, ChoicesAre DEF TextWidgets
  <2> HIDE DEF S
  <2> QED
    BY <2>1, <2>2, <2>3, FlagSection
<1>7. Matches(LoadEquipModeSpellTomeMode, EquipModeSpellTomeMode)
  <2> DEFINE S == {"enableSpellTomeMode", "doNotConsumeSpellTomes"}
  <2>1. LoadEquipModeSpellTomeMode = Reads("bool", S)
    BY DEF LoadEquipModeSpellTomeMode, Reads
  <2>2. DOMAIN EquipModeSpellTomeMode = S /\ \A f \in S : EquipModeSpellTomeMode[f] \in BOOLEAN
    BY DEF EquipModeSpellTomeMode, On, Off, ++
  <2>3. S \cap (Widgets \cup DOMAIN Choices) = {}
    BY WidgetsAre, ChoicesAre DEF TextWidgets
  <2> HIDE DEF S
  <2> QED
    BY <2>1, <2>2, <2>3, FlagSection
<1>8. Matches(LoadCombatEquipPreference, CombatEquipPreference)
  <2> DEFINE S == {"enableScoring", "enableInstanceAlign",
             "enableClearPreferencesOnUnequip",
             "enableClearLeftHandPreferenceOnUnequip"}
  <2>1. LoadCombatEquipPreference = Reads("bool", S)
    BY DEF LoadCombatEquipPreference, Reads
  <2>2. DOMAIN CombatEquipPreference = S /\ \A f \in S : CombatEquipPreference[f] \in BOOLEAN
    BY DEF CombatEquipPreference, On, Off, ++
  <2>3. S \cap (Widgets \cup DOMAIN Choices) = {}
    BY WidgetsAre, ChoicesAre DEF TextWidgets
  <2> HIDE DEF S
  <2> QED
    BY <2>1, <2>2, <2>3, FlagSection
<1>9. Matches(LoadCombatEquipEnforcement, CombatEquipEnforcement)
  <2> DEFINE S == {"enableMeleeEnforcement", "enableAmmoPreference",
             "enableMeleeEnforcementEmptyHand"}
  <2>1. LoadCombatEquipEnforcement = Reads("bool", S)
    BY DEF LoadCombatEquipEnforcement, Reads
  <2>2. DOMAIN CombatEquipEnforcement = S /\ \A f \in S : CombatEquipEnforcement[f] \in BOOLEAN
    BY DEF CombatEquipEnforcement, On, Off, ++
  <2>3. S \cap (Widgets \cup DOMAIN Choices) = {}
    BY WidgetsAre, ChoicesAre DEF TextWidgets
  <2> HIDE DEF S
  <2> QED
    BY <2>1, <2>2, <2>3, FlagSection
<1>10. Matches(LoadCombatEquipRestore, CombatEquipRestore)
  <2> DEFINE S == {"enableRestorePreCombatOnExit", "enableHeadgearAutoEquip",
             "enableInfiniteAmmo"}
  <2>1. LoadCombatEquipRestore = Reads("bool", S)
    BY DEF LoadCombatEquipRestore, Reads
  <2>2. DOMAIN CombatEquipRestore = S /\ \A f \in S : CombatEquipRestore[f] \in BOOLEAN
    BY DEF CombatEquipRestore, On, Off, ++
  <2>3. S \cap (Widgets \cup DOMAIN Choices) = {}
    BY WidgetsAre, ChoicesAre DEF TextWidgets
  <2> HIDE DEF S
  <2> QED
    BY <2>1, <2>2, <2>3, FlagSection
<1>11. Matches(LoadOutfitSync, OutfitSync)
  <2> DEFINE S == {"enableUpdateNpcOutfitSuppression", "enableOutfitSnapshotRestore",
             "allowOutfitChanges"}
  <2>1. LoadOutfitSync = Reads("bool", S)
    BY DEF LoadOutfitSync, Reads
  <2>2. DOMAIN OutfitSync = S /\ \A f \in S : OutfitSync[f] \in BOOLEAN
    BY DEF OutfitSync, On, Off, ++
  <2>3. S \cap (Widgets \cup DOMAIN Choices) = {}
    BY WidgetsAre, ChoicesAre DEF TextWidgets
  <2> HIDE DEF S
  <2> QED
    BY <2>1, <2>2, <2>3, FlagSection
<1>12. Matches(LoadHiddenItems, HiddenItems)
  <2> DEFINE S == {"enableNonPlayableItems", "removeHiddenWeapon", "removeHiddenAmmo",
             "enableOutfitItems", "enableRevealDefaultOutfitItems",
             "enableRevealExternalOutfitItems", "removeHiddenArmor"}
  <2>1. LoadHiddenItems = Reads("bool", S)
    BY DEF LoadHiddenItems, Reads
  <2>2. DOMAIN HiddenItems = S /\ \A f \in S : HiddenItems[f] \in BOOLEAN
    BY DEF HiddenItems, On, Off, ++
  <2>3. S \cap (Widgets \cup DOMAIN Choices) = {}
    BY WidgetsAre, ChoicesAre DEF TextWidgets
  <2> HIDE DEF S
  <2> QED
    BY <2>1, <2>2, <2>3, FlagSection
<1>13. Matches(LoadItemInjectionBlocking, ItemInjectionBlocking)
  <2> DEFINE S == {"enableOutfitItemBlocker", "enableLeveledItemBlocker"}
  <2>1. LoadItemInjectionBlocking = Reads("bool", S)
    BY DEF LoadItemInjectionBlocking, Reads
  <2>2. DOMAIN ItemInjectionBlocking = S /\ \A f \in S : ItemInjectionBlocking[f] \in BOOLEAN
    BY DEF ItemInjectionBlocking, On, Off, ++
  <2>3. S \cap (Widgets \cup DOMAIN Choices) = {}
    BY WidgetsAre, ChoicesAre DEF TextWidgets
  <2> HIDE DEF S
  <2> QED
    BY <2>1, <2>2, <2>3, FlagSection
<1>14. Matches(LoadLootBlocking, LootBlocking)
  <2> DEFINE S == {"enablePreventCombatLoot", "enablePreventContainerLoot",
             "enablePreventPickupObject"}
  <2>1. LoadLootBlocking = Reads("bool", S)
    BY DEF LoadLootBlocking, Reads
  <2>2. DOMAIN LootBlocking = S /\ \A f \in S : LootBlocking[f] \in BOOLEAN
    BY DEF LootBlocking, On, Off, ++
  <2>3. S \cap (Widgets \cup DOMAIN Choices) = {}
    BY WidgetsAre, ChoicesAre DEF TextWidgets
  <2> HIDE DEF S
  <2> QED
    BY <2>1, <2>2, <2>3, FlagSection
<1>15. Matches(LoadAutoEquipBlocking, AutoEquipBlocking)
  <2> DEFINE S == {"enableNonCombatEquipBlocker", "enableHandItemRestore",
             "enableBestWeaponAutoEquipSuppressor"}
  <2>1. LoadAutoEquipBlocking = Reads("bool", S)
    BY DEF LoadAutoEquipBlocking, Reads
  <2>2. DOMAIN AutoEquipBlocking = S /\ \A f \in S : AutoEquipBlocking[f] \in BOOLEAN
    BY DEF AutoEquipBlocking, On, Off, ++
  <2>3. S \cap (Widgets \cup DOMAIN Choices) = {}
    BY WidgetsAre, ChoicesAre DEF TextWidgets
  <2> HIDE DEF S
  <2> QED
    BY <2>1, <2>2, <2>3, FlagSection
<1>16. Matches(LoadEngineFixes, EngineFixes)
  <2> DEFINE S == {"enableStaleWeightCacheFix"}
  <2>1. LoadEngineFixes = Reads("bool", S)
    BY DEF LoadEngineFixes, Reads
  <2>2. DOMAIN EngineFixes = S /\ \A f \in S : EngineFixes[f] \in BOOLEAN
    BY DEF EngineFixes, On, Off, ++
  <2>3. S \cap (Widgets \cup DOMAIN Choices) = {}
    BY WidgetsAre, ChoicesAre DEF TextWidgets
  <2> HIDE DEF S
  <2> QED
    BY <2>1, <2>2, <2>3, FlagSection
<1>17. Matches(LoadSkyUIFixes, SkyUIFixes)
  <2> DEFINE S == {"enableQuantityMenuBlocker", "enableZeroWeightFix"}
  <2>1. LoadSkyUIFixes = Reads("bool", S)
    BY DEF LoadSkyUIFixes, Reads
  <2>2. DOMAIN SkyUIFixes = S /\ \A f \in S : SkyUIFixes[f] \in BOOLEAN
    BY DEF SkyUIFixes, On, Off, ++
  <2>3. S \cap (Widgets \cup DOMAIN Choices) = {}
    BY WidgetsAre, ChoicesAre DEF TextWidgets
  <2> HIDE DEF S
  <2> QED
    BY <2>1, <2>2, <2>3, FlagSection
<1> QED
  BY <1>1, <1>2, <1>3, <1>4, <1>5, <1>6, <1>7, <1>8, <1>9, <1>10, <1>11, <1>12, <1>13, <1>14,
     <1>15, <1>16, <1>17

\* The two sections of key codes.
LEMMA NumberSectionsMatch ==
  /\ Matches(LoadKeyboardControls, KeyboardControls)
  /\ Matches(LoadGamepadControls, GamepadControls)
<1>1. Matches(LoadKeyboardControls, KeyboardControls)
  <2> DEFINE S == {"modKeyDik", "skyuiEquipModeKey", "quickTradeKeyDik"}
  <2>1. LoadKeyboardControls = Reads("number", S)
    BY DEF LoadKeyboardControls, Reads
  <2>2. DOMAIN KeyboardControls = S
    BY DEF KeyboardControls, On, Off, ++
  <2> HIDE DEF S
  <2> QED
    BY <2>1, <2>2, NumberSection
<1>2. Matches(LoadGamepadControls, GamepadControls)
  <2> DEFINE S == {"gamepadModKey", "gamepadRightHandKey", "gamepadLeftHandKey",
             "quickTradeGamepadKey"}
  <2>1. LoadGamepadControls = Reads("number", S)
    BY DEF LoadGamepadControls, Reads
  <2>2. DOMAIN GamepadControls = S
    BY DEF GamepadControls, On, Off, ++
  <2> HIDE DEF S
  <2> QED
    BY <2>1, <2>2, NumberSection
<1> QED
  BY <1>1, <1>2

\* The rows of the loader of [Logging].
LEMMA LoadLoggingRows ==
  /\ DOMAIN LoadLogging =
       {"logLevel"}
  /\ LoadLogging["logLevel"] = <<"logLevel", "text">>
  BY DEF LoadLogging, Reads, ++

\* [Logging]: the loader feeds the structure's one field.
LEMMA LoggingMatches == Matches(LoadLogging, Logging)
<1>1. DOMAIN Logging =
        {"logLevel"}
  BY DEF Logging, On, Off, ++
<1>2. Logging["logLevel"] = "info"
  BY DEF Logging, On, Off, ++
<1>3. Good("text", "logLevel", Logging["logLevel"])
  BY <1>2, TextGood DEF TextWidgets
<1>4. ASSUME NEW k \in DOMAIN LoadLogging
      PROVE  /\ LoadLogging[k][1] \in DOMAIN Logging
             /\ Good(LoadLogging[k][2], LoadLogging[k][1], Logging[LoadLogging[k][1]])
  BY <1>1, <1>3, LoadLoggingRows
<1>5. \A f \in DOMAIN Logging : \E k \in DOMAIN LoadLogging : LoadLogging[k][1] = f
  BY <1>1, LoadLoggingRows
<1>6. \A k, l \in DOMAIN LoadLogging : LoadLogging[k][1] = LoadLogging[l][1] => k = l
  BY LoadLoggingRows
<1> QED
  BY <1>4, <1>5, <1>6 DEF Matches

\* The rows of the loader of [ButtonIndicators].
LEMMA LoadButtonIndicatorsRows ==
  /\ DOMAIN LoadButtonIndicators =
       {"enableModKeyIndicator", "modKeyIndicatorText",
        "inclusionIndicatorText", "summonIndicatorText", "equipModeTextOverride"}
  /\ LoadButtonIndicators["enableModKeyIndicator"] = <<"enableModKeyIndicator", "bool">>
  /\ LoadButtonIndicators["modKeyIndicatorText"] = <<"modKeyIndicatorText", "text">>
  /\ LoadButtonIndicators["inclusionIndicatorText"] = <<"inclusionIndicatorText", "text">>
  /\ LoadButtonIndicators["summonIndicatorText"] = <<"summonIndicatorText", "text">>
  /\ LoadButtonIndicators["equipModeTextOverride"] = <<"equipModeTextOverride", "text">>
  BY DEF LoadButtonIndicators, Reads, ++

\* [ButtonIndicators]: one row for each field, with the parser it needs.
LEMMA ButtonIndicatorsMatches == Matches(LoadButtonIndicators, ButtonIndicators)
<1>1. DOMAIN ButtonIndicators =
        {"enableModKeyIndicator", "modKeyIndicatorText", "inclusionIndicatorText",
         "summonIndicatorText", "equipModeTextOverride"}
  BY DEF ButtonIndicators, On, Off, ++
<1>2. /\ ButtonIndicators["enableModKeyIndicator"] \in BOOLEAN
      /\ ButtonIndicators["modKeyIndicatorText"] = ""
      /\ ButtonIndicators["inclusionIndicatorText"] = ""
      /\ ButtonIndicators["summonIndicatorText"] = ""
      /\ ButtonIndicators["equipModeTextOverride"] = ""
  BY DEF ButtonIndicators, On, Off, ++
<1>3. Good("bool", "enableModKeyIndicator", ButtonIndicators["enableModKeyIndicator"])
  BY <1>2, FlagGood, WidgetsAre, ChoicesAre DEF TextWidgets
<1>4. /\ Good("text", "modKeyIndicatorText", ButtonIndicators["modKeyIndicatorText"])
      /\ Good("text", "inclusionIndicatorText", ButtonIndicators["inclusionIndicatorText"])
      /\ Good("text", "summonIndicatorText", ButtonIndicators["summonIndicatorText"])
      /\ Good("text", "equipModeTextOverride", ButtonIndicators["equipModeTextOverride"])
  BY <1>2, TextGood DEF TextWidgets
<1>5. ASSUME NEW k \in DOMAIN LoadButtonIndicators
      PROVE  /\ LoadButtonIndicators[k][1] \in DOMAIN ButtonIndicators
             /\ Good(LoadButtonIndicators[k][2], LoadButtonIndicators[k][1],
                ButtonIndicators[LoadButtonIndicators[k][1]])
  BY <1>1, <1>3, <1>4, LoadButtonIndicatorsRows
<1>6. \A f \in DOMAIN ButtonIndicators : \E k \in DOMAIN LoadButtonIndicators :
        LoadButtonIndicators[k][1] = f
  BY <1>1, LoadButtonIndicatorsRows
<1>7. \A k, l \in DOMAIN LoadButtonIndicators :
        LoadButtonIndicators[k][1] = LoadButtonIndicators[l][1] => k = l
  BY LoadButtonIndicatorsRows
<1> QED
  BY <1>5, <1>6, <1>7 DEF Matches

\* The rows of the loader of [IconAppearance].
LEMMA LoadIconAppearanceRows ==
  /\ DOMAIN LoadIconAppearance =
       {"enableIconIndicator", "enableCombatEquipIcon", "enableHeadgearIcon",
        "enableOutfitSyncIcon", "enableHandItemIcon", "enableCustomization",
        "iconSize", "gapAfterText", "gapAfterIcon", "fecIconSpacing"}
  /\ LoadIconAppearance["enableIconIndicator"] = <<"enableIconIndicator", "bool">>
  /\ LoadIconAppearance["enableCombatEquipIcon"] = <<"enableCombatEquipIcon", "bool">>
  /\ LoadIconAppearance["enableHeadgearIcon"] = <<"enableHeadgearIcon", "bool">>
  /\ LoadIconAppearance["enableOutfitSyncIcon"] = <<"enableOutfitSyncIcon", "bool">>
  /\ LoadIconAppearance["enableHandItemIcon"] = <<"enableHandItemIcon", "bool">>
  /\ LoadIconAppearance["enableCustomization"] = <<"enableCustomization", "bool">>
  /\ LoadIconAppearance["iconSize"] = <<"iconSize", "number">>
  /\ LoadIconAppearance["gapAfterText"] = <<"gapAfterText", "number">>
  /\ LoadIconAppearance["gapAfterIcon"] = <<"gapAfterIcon", "number">>
  /\ LoadIconAppearance["fecIconSpacing"] = <<"fecIconSpacing", "number">>
  BY DEF LoadIconAppearance, Reads, ++

\* [IconAppearance]: one row for each field, with the parser it needs.
LEMMA IconAppearanceMatches == Matches(LoadIconAppearance, IconAppearance)
<1>1. DOMAIN IconAppearance =
        {"enableIconIndicator", "enableCombatEquipIcon", "enableHeadgearIcon",
         "enableOutfitSyncIcon", "enableHandItemIcon", "enableCustomization",
         "iconSize", "gapAfterText", "gapAfterIcon", "fecIconSpacing"}
  BY DEF IconAppearance, On, Off, ++
<1>2. /\ IconAppearance["enableIconIndicator"] \in BOOLEAN
      /\ IconAppearance["enableCombatEquipIcon"] \in BOOLEAN
      /\ IconAppearance["enableHeadgearIcon"] \in BOOLEAN
      /\ IconAppearance["enableOutfitSyncIcon"] \in BOOLEAN
      /\ IconAppearance["enableHandItemIcon"] \in BOOLEAN
      /\ IconAppearance["enableCustomization"] \in BOOLEAN
      /\ IconAppearance["iconSize"] = 12
      /\ IconAppearance["gapAfterText"] = 8
      /\ IconAppearance["gapAfterIcon"] = 8
      /\ IconAppearance["fecIconSpacing"] = 8
  BY DEF IconAppearance, On, Off, ++
<1>3. /\ Good("bool", "enableIconIndicator", IconAppearance["enableIconIndicator"])
      /\ Good("bool", "enableCombatEquipIcon", IconAppearance["enableCombatEquipIcon"])
      /\ Good("bool", "enableHeadgearIcon", IconAppearance["enableHeadgearIcon"])
      /\ Good("bool", "enableOutfitSyncIcon", IconAppearance["enableOutfitSyncIcon"])
      /\ Good("bool", "enableHandItemIcon", IconAppearance["enableHandItemIcon"])
      /\ Good("bool", "enableCustomization", IconAppearance["enableCustomization"])
  BY <1>2, FlagGood, WidgetsAre, ChoicesAre DEF TextWidgets
<1>4. /\ Good("number", "iconSize", IconAppearance["iconSize"])
      /\ Good("number", "gapAfterText", IconAppearance["gapAfterText"])
      /\ Good("number", "gapAfterIcon", IconAppearance["gapAfterIcon"])
      /\ Good("number", "fecIconSpacing", IconAppearance["fecIconSpacing"])
  BY <1>2, NumberGood
<1>5. ASSUME NEW k \in DOMAIN LoadIconAppearance
      PROVE  /\ LoadIconAppearance[k][1] \in DOMAIN IconAppearance
             /\ Good(LoadIconAppearance[k][2], LoadIconAppearance[k][1],
                IconAppearance[LoadIconAppearance[k][1]])
  BY <1>1, <1>3, <1>4, LoadIconAppearanceRows
<1>6. \A f \in DOMAIN IconAppearance : \E k \in DOMAIN LoadIconAppearance :
        LoadIconAppearance[k][1] = f
  BY <1>1, LoadIconAppearanceRows
<1>7. \A k, l \in DOMAIN LoadIconAppearance :
        LoadIconAppearance[k][1] = LoadIconAppearance[l][1] => k = l
  BY LoadIconAppearanceRows
<1> QED
  BY <1>5, <1>6, <1>7 DEF Matches

\* The rows of the loader of [EquipModePoisonMode], whose keys are named
\* unlike its fields.
LEMMA LoadEquipModePoisonModeRows ==
  /\ DOMAIN LoadEquipModePoisonMode =
       {"mode", "enablePoisonStacking", "maxPoisonCharges"}
  /\ LoadEquipModePoisonMode["mode"] = <<"mode", "poison">>
  /\ LoadEquipModePoisonMode["enablePoisonStacking"] = <<"enableStacking", "bool">>
  /\ LoadEquipModePoisonMode["maxPoisonCharges"] = <<"maxCharges", "charges">>
  BY DEF LoadEquipModePoisonMode, Reads, ++

\* [EquipModePoisonMode]: one row for each field, with the parser it needs.
LEMMA EquipModePoisonModeMatches == Matches(LoadEquipModePoisonMode, EquipModePoisonMode)
<1>1. DOMAIN EquipModePoisonMode =
        {"mode", "enableStacking", "maxCharges"}
  BY DEF EquipModePoisonMode, On, Off, ++
<1>2. /\ EquipModePoisonMode["mode"] = "apply"
      /\ EquipModePoisonMode["enableStacking"] \in BOOLEAN
      /\ EquipModePoisonMode["maxCharges"] = 100
  BY DEF EquipModePoisonMode, On, Off, ++
<1>3. Good("poison", "mode", EquipModePoisonMode["mode"])
  BY <1>2, EnumGood
<1>4. Good("bool", "enableStacking", EquipModePoisonMode["enableStacking"])
  BY <1>2, FlagGood, WidgetsAre, ChoicesAre DEF TextWidgets
<1>5. Good("charges", "maxCharges", EquipModePoisonMode["maxCharges"])
  BY <1>2, ChargesGood
<1>6. ASSUME NEW k \in DOMAIN LoadEquipModePoisonMode
      PROVE  /\ LoadEquipModePoisonMode[k][1] \in DOMAIN EquipModePoisonMode
             /\ Good(LoadEquipModePoisonMode[k][2], LoadEquipModePoisonMode[k][1],
                EquipModePoisonMode[LoadEquipModePoisonMode[k][1]])
  BY <1>1, <1>3, <1>4, <1>5, LoadEquipModePoisonModeRows
<1>7. \A f \in DOMAIN EquipModePoisonMode : \E k \in DOMAIN LoadEquipModePoisonMode :
        LoadEquipModePoisonMode[k][1] = f
  BY <1>1, LoadEquipModePoisonModeRows
<1>8. \A k, l \in DOMAIN LoadEquipModePoisonMode :
        LoadEquipModePoisonMode[k][1] = LoadEquipModePoisonMode[l][1] => k = l
  BY LoadEquipModePoisonModeRows
<1> QED
  BY <1>6, <1>7, <1>8 DEF Matches

\* The rows of the loader of [EquipGate], one of them under another name.
LEMMA LoadEquipGateRows ==
  /\ DOMAIN LoadEquipGate =
       {"enableEquipBlocking", "enableUnequipBlocking", "neverBlockTorchEquip"}
  /\ LoadEquipGate["enableEquipBlocking"] = <<"enableEquipBlocking", "bool">>
  /\ LoadEquipGate["enableUnequipBlocking"] = <<"enableUnequipBlocking", "bool">>
  /\ LoadEquipGate["neverBlockTorchEquip"] = <<"enableNeverBlockTorchEquip", "bool">>
  BY DEF LoadEquipGate, Reads, ++

\* [EquipGate]: one row for each field, with the parser it needs.
LEMMA EquipGateMatches == Matches(LoadEquipGate, EquipGate)
<1>1. DOMAIN EquipGate =
        {"enableNeverBlockTorchEquip", "enableEquipBlocking",
         "enableUnequipBlocking"}
  BY DEF EquipGate, On, Off, ++
<1>2. /\ EquipGate["enableNeverBlockTorchEquip"] \in BOOLEAN
      /\ EquipGate["enableEquipBlocking"] \in BOOLEAN
      /\ EquipGate["enableUnequipBlocking"] \in BOOLEAN
  BY DEF EquipGate, On, Off, ++
<1>3. /\ Good("bool", "enableEquipBlocking", EquipGate["enableEquipBlocking"])
      /\ Good("bool", "enableUnequipBlocking", EquipGate["enableUnequipBlocking"])
      /\ Good("bool", "enableNeverBlockTorchEquip", EquipGate["enableNeverBlockTorchEquip"])
  BY <1>2, FlagGood, WidgetsAre, ChoicesAre DEF TextWidgets
<1>4. ASSUME NEW k \in DOMAIN LoadEquipGate
      PROVE  /\ LoadEquipGate[k][1] \in DOMAIN EquipGate
             /\ Good(LoadEquipGate[k][2], LoadEquipGate[k][1], EquipGate[LoadEquipGate[k][1]])
  BY <1>1, <1>3, LoadEquipGateRows
<1>5. \A f \in DOMAIN EquipGate : \E k \in DOMAIN LoadEquipGate : LoadEquipGate[k][1] = f
  BY <1>1, LoadEquipGateRows
<1>6. \A k, l \in DOMAIN LoadEquipGate : LoadEquipGate[k][1] = LoadEquipGate[l][1] => k = l
  BY LoadEquipGateRows
<1> QED
  BY <1>4, <1>5, <1>6 DEF Matches

\* The rows of the loader of [WeaponEnchantmentRecharge].
LEMMA LoadWeaponEnchantmentRechargeRows ==
  /\ DOMAIN LoadWeaponEnchantmentRecharge =
       {"enableRecharge", "enableUIIndicator", "advancedSoulGemDisplay",
        "showStackCount", "rechargeKeyDik", "gamepadRechargeKey",
        "containedSoulDisplayMode", "sourceDisplayMode", "soulGemSortMode"}
  /\ LoadWeaponEnchantmentRecharge["enableRecharge"] = <<"enableRecharge", "bool">>
  /\ LoadWeaponEnchantmentRecharge["enableUIIndicator"] = <<"enableUIIndicator", "bool">>
  /\ LoadWeaponEnchantmentRecharge["advancedSoulGemDisplay"] = <<"advancedSoulGemDisplay", "bool">>
  /\ LoadWeaponEnchantmentRecharge["showStackCount"] = <<"showStackCount", "bool">>
  /\ LoadWeaponEnchantmentRecharge["rechargeKeyDik"] = <<"rechargeKeyDik", "number">>
  /\ LoadWeaponEnchantmentRecharge["gamepadRechargeKey"] = <<"gamepadRechargeKey", "number">>
  /\ LoadWeaponEnchantmentRecharge["containedSoulDisplayMode"] = <<"containedSoulDisplayMode",
     "contained">>
  /\ LoadWeaponEnchantmentRecharge["sourceDisplayMode"] = <<"sourceDisplayMode", "source">>
  /\ LoadWeaponEnchantmentRecharge["soulGemSortMode"] = <<"soulGemSortMode", "sort">>
  BY DEF LoadWeaponEnchantmentRecharge, Reads, ++

\* [WeaponEnchantmentRecharge]: one row for each field, with the parser it
\* needs.
LEMMA WeaponEnchantmentRechargeMatches == Matches(LoadWeaponEnchantmentRecharge,
  WeaponEnchantmentRecharge)
<1>1. DOMAIN WeaponEnchantmentRecharge =
        {"enableRecharge", "enableUIIndicator", "advancedSoulGemDisplay",
         "showStackCount", "rechargeKeyDik", "gamepadRechargeKey",
         "containedSoulDisplayMode", "sourceDisplayMode", "soulGemSortMode"}
  BY DEF WeaponEnchantmentRecharge, On, Off, ++
<1>2. /\ WeaponEnchantmentRecharge["enableRecharge"] \in BOOLEAN
      /\ WeaponEnchantmentRecharge["enableUIIndicator"] \in BOOLEAN
      /\ WeaponEnchantmentRecharge["advancedSoulGemDisplay"] \in BOOLEAN
      /\ WeaponEnchantmentRecharge["showStackCount"] \in BOOLEAN
      /\ WeaponEnchantmentRecharge["rechargeKeyDik"] = 20
      /\ WeaponEnchantmentRecharge["gamepadRechargeKey"] = 279
      /\ WeaponEnchantmentRecharge["containedSoulDisplayMode"] = "lower"
      /\ WeaponEnchantmentRecharge["sourceDisplayMode"] = "disable"
      /\ WeaponEnchantmentRecharge["soulGemSortMode"] = "asc"
  BY DEF WeaponEnchantmentRecharge, On, Off, ++
<1>3. /\ Good("bool", "enableRecharge", WeaponEnchantmentRecharge["enableRecharge"])
      /\ Good("bool", "enableUIIndicator", WeaponEnchantmentRecharge["enableUIIndicator"])
      /\ Good("bool", "advancedSoulGemDisplay", WeaponEnchantmentRecharge["advancedSoulGemDisplay"])
      /\ Good("bool", "showStackCount", WeaponEnchantmentRecharge["showStackCount"])
  BY <1>2, FlagGood, WidgetsAre, ChoicesAre DEF TextWidgets
<1>4. /\ Good("number", "rechargeKeyDik", WeaponEnchantmentRecharge["rechargeKeyDik"])
      /\ Good("number", "gamepadRechargeKey", WeaponEnchantmentRecharge["gamepadRechargeKey"])
  BY <1>2, NumberGood
<1>5. /\ Good("contained", "containedSoulDisplayMode",
         WeaponEnchantmentRecharge["containedSoulDisplayMode"])
      /\ Good("source", "sourceDisplayMode", WeaponEnchantmentRecharge["sourceDisplayMode"])
      /\ Good("sort", "soulGemSortMode", WeaponEnchantmentRecharge["soulGemSortMode"])
  BY <1>2, EnumGood
<1>6. ASSUME NEW k \in DOMAIN LoadWeaponEnchantmentRecharge
      PROVE  /\ LoadWeaponEnchantmentRecharge[k][1] \in DOMAIN WeaponEnchantmentRecharge
             /\ Good(LoadWeaponEnchantmentRecharge[k][2], LoadWeaponEnchantmentRecharge[k][1],
                WeaponEnchantmentRecharge[LoadWeaponEnchantmentRecharge[k][1]])
  BY <1>1, <1>3, <1>4, <1>5, LoadWeaponEnchantmentRechargeRows
<1>7. \A f \in DOMAIN WeaponEnchantmentRecharge : \E k \in DOMAIN LoadWeaponEnchantmentRecharge :
        LoadWeaponEnchantmentRecharge[k][1] = f
  BY <1>1, LoadWeaponEnchantmentRechargeRows
<1>8. \A k, l \in DOMAIN LoadWeaponEnchantmentRecharge :
        LoadWeaponEnchantmentRecharge[k][1] = LoadWeaponEnchantmentRecharge[l][1] => k = l
  BY LoadWeaponEnchantmentRechargeRows
<1> QED
  BY <1>6, <1>7, <1>8 DEF Matches

\* The row of the loader of [StatsDisplay].
LEMMA LoadStatsDisplayRows ==
  /\ DOMAIN LoadStatsDisplay =
       {"enableFollowerStatsInTradeMenu"}
  /\ LoadStatsDisplay["enableFollowerStatsInTradeMenu"] = <<"followerStatsInTradeMenuMode",
     "stats">>
  BY DEF LoadStatsDisplay, Reads, ++

\* [StatsDisplay]: the key of another name feeds the structure's one field.
LEMMA StatsDisplayMatches == Matches(LoadStatsDisplay, StatsDisplay)
<1>1. DOMAIN StatsDisplay =
        {"followerStatsInTradeMenuMode"}
  BY DEF StatsDisplay, On, Off, ++
<1>2. StatsDisplay["followerStatsInTradeMenuMode"] = "follower"
  BY DEF StatsDisplay, On, Off, ++
<1>3. Good("stats", "followerStatsInTradeMenuMode", StatsDisplay["followerStatsInTradeMenuMode"])
  BY <1>2, EnumGood
<1>4. ASSUME NEW k \in DOMAIN LoadStatsDisplay
      PROVE  /\ LoadStatsDisplay[k][1] \in DOMAIN StatsDisplay
             /\ Good(LoadStatsDisplay[k][2], LoadStatsDisplay[k][1],
                StatsDisplay[LoadStatsDisplay[k][1]])
  BY <1>1, <1>3, LoadStatsDisplayRows
<1>5. \A f \in DOMAIN StatsDisplay : \E k \in DOMAIN LoadStatsDisplay : LoadStatsDisplay[k][1] = f
  BY <1>1, LoadStatsDisplayRows
<1>6. \A k, l \in DOMAIN LoadStatsDisplay : LoadStatsDisplay[k][1] = LoadStatsDisplay[l][1] => k = l
  BY LoadStatsDisplayRows
<1> QED
  BY <1>4, <1>5, <1>6 DEF Matches

\* The rows of the loader of [CorpseEquipMode].
LEMMA LoadCorpseEquipModeRows ==
  /\ DOMAIN LoadCorpseEquipMode =
       {"enable", "indicatorText"}
  /\ LoadCorpseEquipMode["enable"] = <<"enable", "bool">>
  /\ LoadCorpseEquipMode["indicatorText"] = <<"indicatorText", "text">>
  BY DEF LoadCorpseEquipMode, Reads, ++

\* [CorpseEquipMode]: one row for each field, with the parser it needs.
LEMMA CorpseEquipModeMatches == Matches(LoadCorpseEquipMode, CorpseEquipMode)
<1>1. DOMAIN CorpseEquipMode =
        {"enable", "indicatorText"}
  BY DEF CorpseEquipMode, On, Off, ++
<1>2. /\ CorpseEquipMode["enable"] \in BOOLEAN
      /\ CorpseEquipMode["indicatorText"] = ""
  BY DEF CorpseEquipMode, On, Off, ++
<1>3. Good("bool", "enable", CorpseEquipMode["enable"])
  BY <1>2, FlagGood, WidgetsAre, ChoicesAre DEF TextWidgets
<1>4. Good("text", "indicatorText", CorpseEquipMode["indicatorText"])
  BY <1>2, TextGood DEF TextWidgets
<1>5. ASSUME NEW k \in DOMAIN LoadCorpseEquipMode
      PROVE  /\ LoadCorpseEquipMode[k][1] \in DOMAIN CorpseEquipMode
             /\ Good(LoadCorpseEquipMode[k][2], LoadCorpseEquipMode[k][1],
                CorpseEquipMode[LoadCorpseEquipMode[k][1]])
  BY <1>1, <1>3, <1>4, LoadCorpseEquipModeRows
<1>6. \A f \in DOMAIN CorpseEquipMode : \E k \in DOMAIN LoadCorpseEquipMode :
        LoadCorpseEquipMode[k][1] = f
  BY <1>1, LoadCorpseEquipModeRows
<1>7. \A k, l \in DOMAIN LoadCorpseEquipMode :
        LoadCorpseEquipMode[k][1] = LoadCorpseEquipMode[l][1] => k = l
  BY LoadCorpseEquipModeRows
<1> QED
  BY <1>5, <1>6, <1>7 DEF Matches

\* Every section of the settings has a loader that feeds each of its fields
\* from exactly one key, through a parser its defaults and its controls fit.
LEMMA LoadersMatch == \A sec \in Sections : Matches(Loaders[sec], Defaults[sec])
<1>1. /\ Loaders["core"] = LoadCore /\ Defaults["core"] = Core
      /\ Loaders["actorScope"] = LoadActorScope /\ Defaults["actorScope"] = ActorScope
      /\ Loaders["quickTrade"] = LoadQuickTrade /\ Defaults["quickTrade"] = QuickTrade
      /\ Loaders["uiFeedback"] = LoadUIFeedback /\ Defaults["uiFeedback"] = UIFeedback
      /\ Loaders["logging"] = LoadLogging /\ Defaults["logging"] = Logging
      /\ Loaders["keyboardControls"] = LoadKeyboardControls
         /\ Defaults["keyboardControls"] = KeyboardControls
      /\ Loaders["gamepadControls"] = LoadGamepadControls
         /\ Defaults["gamepadControls"] = GamepadControls
      /\ Loaders["buttonIndicators"] = LoadButtonIndicators
         /\ Defaults["buttonIndicators"] = ButtonIndicators
      /\ Loaders["iconAppearance"] = LoadIconAppearance
         /\ Defaults["iconAppearance"] = IconAppearance
      /\ Loaders["equipModeItems"] = LoadEquipModeItems
         /\ Defaults["equipModeItems"] = EquipModeItems
      /\ Loaders["equipModeConsumableMode"] = LoadEquipModeConsumableMode
         /\ Defaults["equipModeConsumableMode"] = EquipModeConsumableMode
      /\ Loaders["equipModePoisonMode"] = LoadEquipModePoisonMode
         /\ Defaults["equipModePoisonMode"] = EquipModePoisonMode
      /\ Loaders["equipModeSpellTomeMode"] = LoadEquipModeSpellTomeMode
         /\ Defaults["equipModeSpellTomeMode"] = EquipModeSpellTomeMode
      /\ Loaders["combatEquipPreference"] = LoadCombatEquipPreference
         /\ Defaults["combatEquipPreference"] = CombatEquipPreference
      /\ Loaders["combatEquipEnforcement"] = LoadCombatEquipEnforcement
         /\ Defaults["combatEquipEnforcement"] = CombatEquipEnforcement
      /\ Loaders["combatEquipRestore"] = LoadCombatEquipRestore
         /\ Defaults["combatEquipRestore"] = CombatEquipRestore
      /\ Loaders["outfitSync"] = LoadOutfitSync /\ Defaults["outfitSync"] = OutfitSync
      /\ Loaders["hiddenItems"] = LoadHiddenItems /\ Defaults["hiddenItems"] = HiddenItems
      /\ Loaders["itemInjectionBlocking"] = LoadItemInjectionBlocking
         /\ Defaults["itemInjectionBlocking"] = ItemInjectionBlocking
      /\ Loaders["lootBlocking"] = LoadLootBlocking /\ Defaults["lootBlocking"] = LootBlocking
      /\ Loaders["autoEquipBlocking"] = LoadAutoEquipBlocking
         /\ Defaults["autoEquipBlocking"] = AutoEquipBlocking
      /\ Loaders["equipGate"] = LoadEquipGate /\ Defaults["equipGate"] = EquipGate
      /\ Loaders["weaponEnchantmentRecharge"] = LoadWeaponEnchantmentRecharge
         /\ Defaults["weaponEnchantmentRecharge"] = WeaponEnchantmentRecharge
      /\ Loaders["statsDisplay"] = LoadStatsDisplay /\ Defaults["statsDisplay"] = StatsDisplay
      /\ Loaders["corpseEquipMode"] = LoadCorpseEquipMode
         /\ Defaults["corpseEquipMode"] = CorpseEquipMode
      /\ Loaders["engineFixes"] = LoadEngineFixes /\ Defaults["engineFixes"] = EngineFixes
      /\ Loaders["skyUIFixes"] = LoadSkyUIFixes /\ Defaults["skyUIFixes"] = SkyUIFixes
  BY DEF Loaders, Defaults
<1> QED
  BY <1>1, SectionsAre, FlagSectionsMatch, NumberSectionsMatch,
     LoggingMatches, ButtonIndicatorsMatches, IconAppearanceMatches,
     EquipModePoisonModeMatches, EquipGateMatches, WeaponEnchantmentRechargeMatches,
     StatsDisplayMatches, CorpseEquipModeMatches

----------------------------------------------------------------------------
\* The template, its keys and its arguments.

\* A printer of the template whose words the parser reads; the charges are
\* printed as a number.
Prints(printer, parser) == printer = IF parser = "charges" THEN "number" ELSE parser

\* A part of the template, its keys and its arguments, against the loaders of
\* the sections it holds.
Fill(keys, args, secs) ==
  /\ \E K : keys \in Seq(K)
  /\ \E A : args \in Seq(A)
  /\ Len(args) = Len(keys)
  /\ \A i \in 1..Len(keys) :
       \E sec \in secs : \E k \in DOMAIN Loaders[sec] :
         /\ keys[i] = <<sec, k>>
         /\ \E p : Prints(p, Loaders[sec][k][2]) /\ args[i] = <<sec, Loaders[sec][k][1], p>>
  /\ \A sec \in secs : \A k \in DOMAIN Loaders[sec] : \E i \in 1..Len(keys) : keys[i] = <<sec, k>>

\* Two stretches of the template that fill their sections, one after the
\* other, fill the sections of both.
LEMMA FillJoin ==
  ASSUME NEW k1, NEW a1, NEW s1, NEW k2, NEW a2, NEW s2,
         Fill(k1, a1, s1), Fill(k2, a2, s2)
  PROVE  Fill(k1 \o k2, a1 \o a2, s1 \cup s2)
<1>1. PICK K1, K2, A1, A2 : k1 \in Seq(K1) /\ k2 \in Seq(K2) /\ a1 \in Seq(A1) /\ a2 \in Seq(A2)
  BY DEF Fill
<1>2. /\ k1 \in Seq(K1 \cup K2) /\ k2 \in Seq(K1 \cup K2)
      /\ a1 \in Seq(A1 \cup A2) /\ a2 \in Seq(A1 \cup A2)
  BY <1>1
<1>3. /\ k1 \o k2 \in Seq(K1 \cup K2) /\ a1 \o a2 \in Seq(A1 \cup A2)
      /\ Len(k1 \o k2) = Len(k1) + Len(k2) /\ Len(a1 \o a2) = Len(a1) + Len(a2)
      /\ Len(k1) \in Nat /\ Len(k2) \in Nat /\ Len(a1) = Len(k1) /\ Len(a2) = Len(k2)
  <2>1. Len(a1) = Len(k1) /\ Len(a2) = Len(k2)
    BY DEF Fill
  <2>2. k1 \o k2 \in Seq(K1 \cup K2) /\ Len(k1 \o k2) = Len(k1) + Len(k2)
    BY <1>2
  <2>3. a1 \o a2 \in Seq(A1 \cup A2) /\ Len(a1 \o a2) = Len(a1) + Len(a2)
    BY <1>2
  <2> QED
    BY <1>2, <2>1, <2>2, <2>3
<1>4. \A i \in 1..Len(k1) + Len(k2) :
        \/ i \in 1..Len(k1) /\ (k1 \o k2)[i] = k1[i] /\ (a1 \o a2)[i] = a1[i]
        \/ /\ i - Len(k1) \in 1..Len(k2)
           /\ (k1 \o k2)[i] = k2[i - Len(k1)] /\ (a1 \o a2)[i] = a2[i - Len(k1)]
  BY <1>2, <1>3
<1>5. ASSUME NEW i \in 1..Len(k1 \o k2)
      PROVE  \E sec \in s1 \cup s2 : \E k \in DOMAIN Loaders[sec] :
               /\ (k1 \o k2)[i] = <<sec, k>>
               /\ \E p : /\ Prints(p, Loaders[sec][k][2])
                         /\ (a1 \o a2)[i] = <<sec, Loaders[sec][k][1], p>>
  <2>1. CASE i \in 1..Len(k1) /\ (k1 \o k2)[i] = k1[i] /\ (a1 \o a2)[i] = a1[i]
    <3>1. PICK sec \in s1 : \E k \in DOMAIN Loaders[sec] :
               /\ k1[i] = <<sec, k>>
               /\ \E p : Prints(p, Loaders[sec][k][2]) /\ a1[i] = <<sec, Loaders[sec][k][1], p>>
      BY <2>1 DEF Fill
    <3> QED
      BY <2>1, <3>1
  <2>2. CASE /\ i - Len(k1) \in 1..Len(k2)
             /\ (k1 \o k2)[i] = k2[i - Len(k1)] /\ (a1 \o a2)[i] = a2[i - Len(k1)]
    <3>1. PICK sec \in s2 : \E k \in DOMAIN Loaders[sec] :
               /\ k2[i - Len(k1)] = <<sec, k>>
               /\ \E p : /\ Prints(p, Loaders[sec][k][2])
                         /\ a2[i - Len(k1)] = <<sec, Loaders[sec][k][1], p>>
      BY <2>2 DEF Fill
    <3> QED
      BY <2>2, <3>1
  <2> QED
    BY <1>3, <1>4, <2>1, <2>2
<1>6. ASSUME NEW sec \in s1 \cup s2, NEW k \in DOMAIN Loaders[sec]
      PROVE  \E i \in 1..Len(k1 \o k2) : (k1 \o k2)[i] = <<sec, k>>
  <2>1. CASE sec \in s1
    <3>1. PICK i \in 1..Len(k1) : k1[i] = <<sec, k>>
      BY <2>1 DEF Fill
    <3>2. i \in 1..Len(k1 \o k2) /\ (k1 \o k2)[i] = k1[i]
      BY <1>2, <1>3
    <3> QED
      BY <3>1, <3>2
  <2>2. CASE sec \in s2
    <3>1. PICK i \in 1..Len(k2) : k2[i] = <<sec, k>>
      BY <2>2 DEF Fill
    <3>2. i + Len(k1) \in 1..Len(k1 \o k2) /\ (k1 \o k2)[i + Len(k1)] = k2[i]
      BY <1>2, <1>3
    <3> QED
      BY <3>1, <3>2
  <2> QED
    BY <2>1, <2>2
<1> QED
  BY <1>3, <1>5, <1>6 DEF Fill

\* One section.
LEMMA FillOne ==
  ASSUME NEW sec, NEW X, NEW T \in Seq(X), NEW A, NEW args \in Seq(A),
         Len(args) = Len(T),
         \A i \in 1..Len(T) :
           /\ T[i] \in DOMAIN Loaders[sec]
           /\ \E p : /\ Prints(p, Loaders[sec][T[i]][2])
                     /\ args[i] = <<sec, Loaders[sec][T[i]][1], p>>,
         \A k \in DOMAIN Loaders[sec] : \E i \in 1..Len(T) : T[i] = k
  PROVE  Fill(Keys(sec, T), args, {sec})
<1>1. /\ Len(T) \in Nat /\ DOMAIN Keys(sec, T) = 1..Len(T) /\ Len(Keys(sec, T)) = Len(T)
      /\ \A i \in 1..Len(T) : Keys(sec, T)[i] = <<sec, T[i]>>
  BY DEF Keys
<1>2. Keys(sec, T) \in Seq({<<sec, T[i]>> : i \in 1..Len(T)})
  BY <1>1 DEF Keys
<1>4. \E K : Keys(sec, T) \in Seq(K)
  BY <1>2
<1>5. ASSUME NEW i \in 1..Len(T)
      PROVE  \E k \in DOMAIN Loaders[sec] :
               /\ Keys(sec, T)[i] = <<sec, k>>
               /\ \E p : Prints(p, Loaders[sec][k][2]) /\ args[i] = <<sec, Loaders[sec][k][1], p>>
  BY <1>1
<1>6. ASSUME NEW k \in DOMAIN Loaders[sec] PROVE \E i \in 1..Len(T) : Keys(sec, T)[i] = <<sec, k>>
  BY <1>1
<1> HIDE DEF Keys
<1> QED
  BY <1>1, <1>4, <1>5, <1>6 DEF Fill

\* A list of arguments printed alike is as long as its fields.
LEMMA ArgsAreSequences ==
  ASSUME NEW sec, NEW p, NEW T, Len(T) \in Nat
  PROVE  /\ \E A : Args(sec, p, T) \in Seq(A)
         /\ Len(Args(sec, p, T)) = Len(T)
<1>1. Args(sec, p, T) \in Seq({<<sec, T[i], p>> : i \in 1..Len(T)})
  BY DEF Args
<1>2. Len(Args(sec, p, T)) = Len(T)
  BY DEF Args
<1> QED
  BY <1>1, <1>2

\* A list of arguments with a printer each is as long as its rows.
LEMMA MixedIsASequence ==
  ASSUME NEW sec, NEW R, Len(R) \in Nat
  PROVE  /\ \E A : Mixed(sec, R) \in Seq(A)
         /\ Len(Mixed(sec, R)) = Len(R)
<1>1. Mixed(sec, R) \in Seq({<<sec, R[i][1], R[i][2]>> : i \in 1..Len(R)})
  BY DEF Mixed
<1>2. Len(Mixed(sec, R)) = Len(R)
  BY DEF Mixed
<1> QED
  BY <1>1, <1>2

\* A section whose keys are named like its fields and printed alike, in the
\* same order in the template and among the arguments.
LEMMA FillUniform ==
  ASSUME NEW sec, NEW p, NEW S, NEW T \in Seq(S), \A x \in S : \E i \in 1..Len(T) : T[i] = x,
         Loaders[sec] = Reads(p, S), p # "charges"
  PROVE  Fill(Keys(sec, T), Args(sec, p, T), {sec})
<1>1. DOMAIN Loaders[sec] = S /\ \A x \in S : Loaders[sec][x] = <<x, p>>
  BY DEF Reads
<1>2. \A i \in 1..Len(T) : T[i] \in S
  OBVIOUS
<1>3. \A i \in 1..Len(T) : Loaders[sec][T[i]][1] = T[i] /\ Loaders[sec][T[i]][2] = p
  BY <1>1, <1>2
<1>4. ASSUME NEW i \in 1..Len(T)
      PROVE  /\ T[i] \in DOMAIN Loaders[sec]
             /\ \E q : /\ Prints(q, Loaders[sec][T[i]][2])
                       /\ Args(sec, p, T)[i] = <<sec, Loaders[sec][T[i]][1], q>>
  <2>1. Prints(p, p)
    BY Zenon DEF Prints
  <2>2. Args(sec, p, T)[i] = <<sec, T[i], p>>
    BY DEF Args
  <2> QED
    BY <1>1, <1>2, <1>3, <2>1, <2>2
<1>5. Len(Args(sec, p, T)) = Len(T) /\ \E A : Args(sec, p, T) \in Seq(A)
  BY ArgsAreSequences
<1>6. \A k \in DOMAIN Loaders[sec] : \E i \in 1..Len(T) : T[i] = k
  BY <1>1
<1> HIDE DEF Args
<1> QED
  BY <1>4, <1>5, <1>6, FillOne

\* A section whose rows differ in their names or their printers: position by
\* position, the argument is the field the key's loader feeds.
LEMMA FillMixed ==
  ASSUME NEW sec, NEW X, NEW T \in Seq(X), NEW R, Len(R) = Len(T),
         \A i \in 1..Len(T) :
           /\ T[i] \in DOMAIN Loaders[sec]
           /\ R[i][1] = Loaders[sec][T[i]][1]
           /\ Prints(R[i][2], Loaders[sec][T[i]][2]),
         \A k \in DOMAIN Loaders[sec] : \E i \in 1..Len(T) : T[i] = k
  PROVE  Fill(Keys(sec, T), Mixed(sec, R), {sec})
<1>1. ASSUME NEW i \in 1..Len(T)
      PROVE  /\ T[i] \in DOMAIN Loaders[sec]
             /\ \E q : /\ Prints(q, Loaders[sec][T[i]][2])
                       /\ Mixed(sec, R)[i] = <<sec, Loaders[sec][T[i]][1], q>>
  <2>1. Mixed(sec, R)[i] = <<sec, R[i][1], R[i][2]>>
    BY DEF Mixed
  <2> QED
    BY <2>1
<1> QED
  BY <1>1, MixedIsASequence, FillOne

\* A section printed alike, whose keys are named unlike its fields.
LEMMA FillRenamed ==
  ASSUME NEW sec, NEW p, p # "charges", NEW X, NEW T \in Seq(X), NEW R,
         Len(R) = Len(T),
         \A i \in 1..Len(T) :
           T[i] \in DOMAIN Loaders[sec] /\ Loaders[sec][T[i]] = <<R[i], p>>,
         \A k \in DOMAIN Loaders[sec] : \E i \in 1..Len(T) : T[i] = k
  PROVE  Fill(Keys(sec, T), Args(sec, p, R), {sec})
<1>1. ASSUME NEW i \in 1..Len(T)
      PROVE  /\ T[i] \in DOMAIN Loaders[sec]
             /\ \E q : /\ Prints(q, Loaders[sec][T[i]][2])
                       /\ Args(sec, p, R)[i] = <<sec, Loaders[sec][T[i]][1], q>>
  <2>1. Args(sec, p, R)[i] = <<sec, R[i], p>>
    BY DEF Args
  <2>2. Prints(p, p)
    BY Zenon DEF Prints
  <2>3. Loaders[sec][T[i]][1] = R[i] /\ Loaders[sec][T[i]][2] = p
    OBVIOUS
  <2> QED
    BY <2>1, <2>2, <2>3
<1>2. Len(Args(sec, p, R)) = Len(T) /\ \E A : Args(sec, p, R) \in Seq(A)
  BY ArgsAreSequences
<1> HIDE DEF Args
<1> QED
  BY <1>1, <1>2, FillOne

\* The template's first five sections.
LEMMA GeneralFill ==
  Fill(GeneralKeys, GeneralArgs,
       {"core"} \cup {"uiFeedback"} \cup {"logging"} \cup {"actorScope"} \cup {"quickTrade"})
<1> DEFINE
  T1 == <<"enableMod">>
  T2 == <<"enableNotifications", "enableUISounds">>
  T3 == <<"logLevel">>
  T4 == <<"affectFormerFollowers", "includeInclusionActors", "includePlayerSummons">>
  T5 == <<"enableQuickTrade", "enableQuickTradeForFollowers",
         "enableQuickTradeForFormerFollowers", "enableQuickTradeForInclusionActors",
         "enableQuickTradeForPlayerSummons", "enableQuickTradeForKNoneActors",
         "enableQuickTradeForMounts", "quickTradeAllWorldMounts">>
  S1 == {"enableMod"}
  S2 == {"enableNotifications", "enableUISounds"}
  S3 == {"logLevel"}
  S4 == {"affectFormerFollowers", "includeInclusionActors", "includePlayerSummons"}
  S5 == {"enableQuickTrade", "enableQuickTradeForFollowers",
         "enableQuickTradeForFormerFollowers", "enableQuickTradeForInclusionActors",
         "enableQuickTradeForPlayerSummons", "enableQuickTradeForKNoneActors",
         "enableQuickTradeForMounts", "quickTradeAllWorldMounts"}
<1>1. /\ Loaders["core"] = Reads("bool", S1)
      /\ Loaders["uiFeedback"] = Reads("bool", S2)
      /\ Loaders["logging"] = Reads("text", S3)
      /\ Loaders["actorScope"] = Reads("bool", S4)
      /\ Loaders["quickTrade"] = Reads("bool", S5)
  BY DEF Loaders, LoadCore, LoadUIFeedback, LoadLogging, LoadActorScope, LoadQuickTrade
<1>2. /\ T1 \in Seq(S1) /\ \A x \in S1 : \E i \in 1..Len(T1) : T1[i] = x
      /\ T2 \in Seq(S2) /\ \A x \in S2 : \E i \in 1..Len(T2) : T2[i] = x
      /\ T3 \in Seq(S3) /\ \A x \in S3 : \E i \in 1..Len(T3) : T3[i] = x
      /\ T4 \in Seq(S4) /\ \A x \in S4 : \E i \in 1..Len(T4) : T4[i] = x
      /\ T5 \in Seq(S5) /\ \A x \in S5 : \E i \in 1..Len(T5) : T5[i] = x
  OBVIOUS
<1> HIDE DEF T1, T2, T3, T4, T5, S1, S2, S3, S4, S5
<1>3. /\ Fill(Keys("core", T1), Args("core", "bool", T1), {"core"})
      /\ Fill(Keys("uiFeedback", T2), Args("uiFeedback", "bool", T2), {"uiFeedback"})
      /\ Fill(Keys("logging", T3), Args("logging", "text", T3), {"logging"})
      /\ Fill(Keys("actorScope", T4), Args("actorScope", "bool", T4), {"actorScope"})
      /\ Fill(Keys("quickTrade", T5), Args("quickTrade", "bool", T5), {"quickTrade"})
  BY <1>1, <1>2, FillUniform
<1>4. /\ GeneralKeys =
              Keys("core", T1)
              \o Keys("uiFeedback", T2)
              \o Keys("logging", T3)
              \o Keys("actorScope", T4)
              \o Keys("quickTrade", T5)
      /\ GeneralArgs =
              Args("core", "bool", T1)
              \o Args("uiFeedback", "bool", T2)
              \o Args("logging", "text", T3)
              \o Args("actorScope", "bool", T4)
              \o Args("quickTrade", "bool", T5)
  BY DEF GeneralKeys, GeneralArgs, Flags, T1, T2, T3, T4, T5, S1, S2, S3, S4, S5
<1> QED
  BY <1>3, <1>4, FillJoin

\* The sections of the controls, the indicators and the icons.
LEMMA ControlFill ==
  Fill(ControlKeys, ControlArgs,
       {"keyboardControls"} \cup {"gamepadControls"} \cup {"buttonIndicators"} \cup
       {"iconAppearance"})
<1> DEFINE
  T1 == <<"modKeyDik", "skyuiEquipModeKey", "quickTradeKeyDik">>
  T2 == <<"gamepadModKey", "gamepadRightHandKey", "gamepadLeftHandKey",
         "quickTradeGamepadKey">>
  T3 == <<"enableModKeyIndicator", "modKeyIndicatorText", "inclusionIndicatorText",
         "summonIndicatorText", "equipModeTextOverride">>
  T4 == <<"enableIconIndicator", "enableCombatEquipIcon", "enableHeadgearIcon",
         "enableOutfitSyncIcon", "enableHandItemIcon", "enableCustomization",
         "iconSize", "gapAfterText", "gapAfterIcon", "fecIconSpacing">>
  S1 == {"modKeyDik", "skyuiEquipModeKey", "quickTradeKeyDik"}
  S2 == {"gamepadModKey", "gamepadRightHandKey", "gamepadLeftHandKey",
         "quickTradeGamepadKey"}
  R3 == <<<<"enableModKeyIndicator", "bool">>, <<"modKeyIndicatorText", "text">>,
          <<"inclusionIndicatorText", "text">>, <<"summonIndicatorText", "text">>,
          <<"equipModeTextOverride", "text">>>>
  R4 == <<<<"enableIconIndicator", "bool">>, <<"enableCombatEquipIcon", "bool">>,
          <<"enableHeadgearIcon", "bool">>, <<"enableOutfitSyncIcon", "bool">>,
          <<"enableHandItemIcon", "bool">>, <<"enableCustomization", "bool">>,
          <<"iconSize", "number">>, <<"gapAfterText", "number">>,
          <<"gapAfterIcon", "number">>, <<"fecIconSpacing", "number">>>>
<1>1. /\ Loaders["keyboardControls"] = Reads("number", S1)
      /\ Loaders["gamepadControls"] = Reads("number", S2)
  BY DEF Loaders, LoadKeyboardControls, LoadGamepadControls
<1>2. /\ T1 \in Seq(S1) /\ \A x \in S1 : \E i \in 1..Len(T1) : T1[i] = x
      /\ T2 \in Seq(S2) /\ \A x \in S2 : \E i \in 1..Len(T2) : T2[i] = x
  OBVIOUS
<1>3. /\ Len(T3) = 5 /\ Len(R3) = 5
      /\ T3 \in Seq(DOMAIN LoadButtonIndicators)
      /\ \A i \in 1..5 : T3[i] \in DOMAIN LoadButtonIndicators
         /\ R3[i][1] = LoadButtonIndicators[T3[i]][1]
      /\ \A k \in DOMAIN LoadButtonIndicators : \E i \in 1..5 : T3[i] = k
      /\ \A i \in 1..5 : Prints(R3[i][2], LoadButtonIndicators[T3[i]][2])
  BY LoadButtonIndicatorsRows DEF Prints
<1>4. /\ Len(T4) = 10 /\ Len(R4) = 10
      /\ T4 \in Seq(DOMAIN LoadIconAppearance)
      /\ \A i \in 1..10 : T4[i] \in DOMAIN LoadIconAppearance
         /\ R4[i][1] = LoadIconAppearance[T4[i]][1]
      /\ \A k \in DOMAIN LoadIconAppearance : \E i \in 1..10 : T4[i] = k
      /\ \A i \in 1..10 : Prints(R4[i][2], LoadIconAppearance[T4[i]][2])
  BY LoadIconAppearanceRows DEF Prints
<1> HIDE DEF T1, T2, T3, T4, S1, S2, R3, R4
<1>5. /\ Fill(Keys("keyboardControls", T1), Args("keyboardControls", "number", T1),
         {"keyboardControls"})
      /\ Fill(Keys("gamepadControls", T2), Args("gamepadControls", "number", T2),
         {"gamepadControls"})
  BY <1>1, <1>2, FillUniform
<1>6. Loaders["buttonIndicators"] = LoadButtonIndicators
  BY DEF Loaders
<1>7. Fill(Keys("buttonIndicators", T3), Mixed("buttonIndicators", R3), {"buttonIndicators"})
  BY <1>3, <1>6, FillMixed
<1>8. Loaders["iconAppearance"] = LoadIconAppearance
  BY DEF Loaders
<1>9. Fill(Keys("iconAppearance", T4), Mixed("iconAppearance", R4), {"iconAppearance"})
  BY <1>4, <1>8, FillMixed
<1>10. /\ ControlKeys =
              Keys("keyboardControls", T1)
              \o Keys("gamepadControls", T2)
              \o Keys("buttonIndicators", T3)
              \o Keys("iconAppearance", T4)
      /\ ControlArgs =
              Args("keyboardControls", "number", T1)
              \o Args("gamepadControls", "number", T2)
              \o Mixed("buttonIndicators", R3)
              \o Mixed("iconAppearance", R4)
  BY DEF ControlKeys, ControlArgs, Flags, T1, T2, T3, T4, S1, S2, R3, R4
<1> QED
  BY <1>5, <1>7, <1>9, <1>10, FillJoin

\* The sections of the equip mode.
LEMMA EquipModeFill ==
  Fill(EquipModeKeys, EquipModeArgs,
       {"equipModeItems"} \cup {"equipModeConsumableMode"} \cup {"equipModePoisonMode"} \cup
       {"equipModeSpellTomeMode"})
<1> DEFINE
  T1 == <<"enable", "enableWeapons", "enableArmor", "enableAmmo", "enableTorches",
         "enableScrolls">>
  T2 == <<"enableConsumableMode", "enablePotions", "enableFoods", "enableDrinks",
         "enableIngredients", "enableIngredientDiscoveryForPlayer">>
  T3 == <<"mode", "enablePoisonStacking", "maxPoisonCharges">>
  T4 == <<"enableSpellTomeMode", "doNotConsumeSpellTomes">>
  S1 == {"enable", "enableWeapons", "enableArmor", "enableAmmo", "enableTorches",
         "enableScrolls"}
  S2 == {"enableConsumableMode", "enablePotions", "enableFoods", "enableDrinks",
         "enableIngredients", "enableIngredientDiscoveryForPlayer"}
  S4 == {"enableSpellTomeMode", "doNotConsumeSpellTomes"}
  R3 == <<<<"mode", "poison">>, <<"enableStacking", "bool">>,
          <<"maxCharges", "number">>>>
<1>1. /\ Loaders["equipModeItems"] = Reads("bool", S1)
      /\ Loaders["equipModeConsumableMode"] = Reads("bool", S2)
      /\ Loaders["equipModeSpellTomeMode"] = Reads("bool", S4)
  BY DEF Loaders, LoadEquipModeItems, LoadEquipModeConsumableMode, LoadEquipModeSpellTomeMode
<1>2. /\ T1 \in Seq(S1) /\ \A x \in S1 : \E i \in 1..Len(T1) : T1[i] = x
      /\ T2 \in Seq(S2) /\ \A x \in S2 : \E i \in 1..Len(T2) : T2[i] = x
      /\ T4 \in Seq(S4) /\ \A x \in S4 : \E i \in 1..Len(T4) : T4[i] = x
  OBVIOUS
<1>3. /\ Len(T3) = 3 /\ Len(R3) = 3
      /\ T3 \in Seq(DOMAIN LoadEquipModePoisonMode)
      /\ \A i \in 1..3 : T3[i] \in DOMAIN LoadEquipModePoisonMode
         /\ R3[i][1] = LoadEquipModePoisonMode[T3[i]][1]
      /\ \A k \in DOMAIN LoadEquipModePoisonMode : \E i \in 1..3 : T3[i] = k
      /\ \A i \in 1..3 : Prints(R3[i][2], LoadEquipModePoisonMode[T3[i]][2])
  BY LoadEquipModePoisonModeRows DEF Prints
<1> HIDE DEF T1, T2, T3, T4, S1, S2, S4, R3
<1>4. /\ Fill(Keys("equipModeItems", T1), Args("equipModeItems", "bool", T1), {"equipModeItems"})
      /\ Fill(Keys("equipModeConsumableMode", T2), Args("equipModeConsumableMode", "bool", T2),
         {"equipModeConsumableMode"})
      /\ Fill(Keys("equipModeSpellTomeMode", T4), Args("equipModeSpellTomeMode", "bool", T4),
         {"equipModeSpellTomeMode"})
  BY <1>1, <1>2, FillUniform
<1>5. Loaders["equipModePoisonMode"] = LoadEquipModePoisonMode
  BY DEF Loaders
<1>6. Fill(Keys("equipModePoisonMode", T3), Mixed("equipModePoisonMode", R3),
        {"equipModePoisonMode"})
  BY <1>3, <1>5, FillMixed
<1>7. /\ EquipModeKeys =
              Keys("equipModeItems", T1)
              \o Keys("equipModeConsumableMode", T2)
              \o Keys("equipModePoisonMode", T3)
              \o Keys("equipModeSpellTomeMode", T4)
      /\ EquipModeArgs =
              Args("equipModeItems", "bool", T1)
              \o Args("equipModeConsumableMode", "bool", T2)
              \o Mixed("equipModePoisonMode", R3)
              \o Args("equipModeSpellTomeMode", "bool", T4)
  BY DEF EquipModeKeys, EquipModeArgs, Flags, T1, T2, T3, T4, S1, S2, S4, R3
<1> QED
  BY <1>4, <1>6, <1>7, FillJoin

\* The sections of combat, the outfit sync and the hidden items.
LEMMA CombatFill ==
  Fill(CombatKeys, CombatArgs,
       {"combatEquipPreference"} \cup {"combatEquipEnforcement"} \cup
       {"combatEquipRestore"} \cup {"outfitSync"} \cup {"hiddenItems"})
<1> DEFINE
  T1 == <<"enableScoring", "enableInstanceAlign", "enableClearPreferencesOnUnequip",
         "enableClearLeftHandPreferenceOnUnequip">>
  T2 == <<"enableMeleeEnforcement", "enableMeleeEnforcementEmptyHand",
         "enableAmmoPreference">>
  T3 == <<"enableRestorePreCombatOnExit", "enableHeadgearAutoEquip",
         "enableInfiniteAmmo">>
  T4 == <<"enableUpdateNpcOutfitSuppression", "enableOutfitSnapshotRestore",
         "allowOutfitChanges">>
  T5 == <<"enableNonPlayableItems", "removeHiddenArmor", "removeHiddenWeapon",
         "removeHiddenAmmo", "enableOutfitItems", "enableRevealDefaultOutfitItems",
         "enableRevealExternalOutfitItems">>
  S1 == {"enableScoring", "enableInstanceAlign", "enableClearPreferencesOnUnequip",
         "enableClearLeftHandPreferenceOnUnequip"}
  S2 == {"enableMeleeEnforcement", "enableMeleeEnforcementEmptyHand",
         "enableAmmoPreference"}
  S3 == {"enableRestorePreCombatOnExit", "enableHeadgearAutoEquip",
         "enableInfiniteAmmo"}
  S4 == {"enableUpdateNpcOutfitSuppression", "enableOutfitSnapshotRestore",
         "allowOutfitChanges"}
  S5 == {"enableNonPlayableItems", "removeHiddenArmor", "removeHiddenWeapon",
         "removeHiddenAmmo", "enableOutfitItems", "enableRevealDefaultOutfitItems",
         "enableRevealExternalOutfitItems"}
<1>1. /\ Loaders["combatEquipPreference"] = Reads("bool", S1)
      /\ Loaders["combatEquipEnforcement"] = Reads("bool", S2)
      /\ Loaders["combatEquipRestore"] = Reads("bool", S3)
      /\ Loaders["outfitSync"] = Reads("bool", S4)
      /\ Loaders["hiddenItems"] = Reads("bool", S5)
  BY DEF Loaders, LoadCombatEquipPreference, LoadCombatEquipEnforcement,
         LoadCombatEquipRestore, LoadOutfitSync, LoadHiddenItems
<1>2. /\ T1 \in Seq(S1) /\ \A x \in S1 : \E i \in 1..Len(T1) : T1[i] = x
      /\ T2 \in Seq(S2) /\ \A x \in S2 : \E i \in 1..Len(T2) : T2[i] = x
      /\ T3 \in Seq(S3) /\ \A x \in S3 : \E i \in 1..Len(T3) : T3[i] = x
      /\ T4 \in Seq(S4) /\ \A x \in S4 : \E i \in 1..Len(T4) : T4[i] = x
      /\ T5 \in Seq(S5) /\ \A x \in S5 : \E i \in 1..Len(T5) : T5[i] = x
  OBVIOUS
<1> HIDE DEF T1, T2, T3, T4, T5, S1, S2, S3, S4, S5
<1>3. /\ Fill(Keys("combatEquipPreference", T1), Args("combatEquipPreference", "bool", T1),
         {"combatEquipPreference"})
      /\ Fill(Keys("combatEquipEnforcement", T2), Args("combatEquipEnforcement", "bool", T2),
         {"combatEquipEnforcement"})
      /\ Fill(Keys("combatEquipRestore", T3), Args("combatEquipRestore", "bool", T3),
         {"combatEquipRestore"})
      /\ Fill(Keys("outfitSync", T4), Args("outfitSync", "bool", T4), {"outfitSync"})
      /\ Fill(Keys("hiddenItems", T5), Args("hiddenItems", "bool", T5), {"hiddenItems"})
  BY <1>1, <1>2, FillUniform
<1>4. /\ CombatKeys =
              Keys("combatEquipPreference", T1)
              \o Keys("combatEquipEnforcement", T2)
              \o Keys("combatEquipRestore", T3)
              \o Keys("outfitSync", T4)
              \o Keys("hiddenItems", T5)
      /\ CombatArgs =
              Args("combatEquipPreference", "bool", T1)
              \o Args("combatEquipEnforcement", "bool", T2)
              \o Args("combatEquipRestore", "bool", T3)
              \o Args("outfitSync", "bool", T4)
              \o Args("hiddenItems", "bool", T5)
  BY DEF CombatKeys, CombatArgs, Flags, T1, T2, T3, T4, T5, S1, S2, S3, S4, S5
<1> QED
  BY <1>3, <1>4, FillJoin

\* The sections of the blockers and of the equip gate.
LEMMA BlockingFill ==
  Fill(BlockingKeys, BlockingArgs,
       {"itemInjectionBlocking"} \cup {"lootBlocking"} \cup {"autoEquipBlocking"} \cup
       {"equipGate"})
<1> DEFINE
  T1 == <<"enableOutfitItemBlocker", "enableLeveledItemBlocker">>
  T2 == <<"enablePreventCombatLoot", "enablePreventContainerLoot",
         "enablePreventPickupObject">>
  T3 == <<"enableNonCombatEquipBlocker", "enableHandItemRestore",
         "enableBestWeaponAutoEquipSuppressor">>
  T4 == <<"enableEquipBlocking", "enableUnequipBlocking", "neverBlockTorchEquip">>
  S1 == {"enableOutfitItemBlocker", "enableLeveledItemBlocker"}
  S2 == {"enablePreventCombatLoot", "enablePreventContainerLoot",
         "enablePreventPickupObject"}
  S3 == {"enableNonCombatEquipBlocker", "enableHandItemRestore",
         "enableBestWeaponAutoEquipSuppressor"}
  R4 == <<"enableEquipBlocking", "enableUnequipBlocking",
          "enableNeverBlockTorchEquip">>
<1>1. /\ Loaders["itemInjectionBlocking"] = Reads("bool", S1)
      /\ Loaders["lootBlocking"] = Reads("bool", S2)
      /\ Loaders["autoEquipBlocking"] = Reads("bool", S3)
  BY DEF Loaders, LoadItemInjectionBlocking, LoadLootBlocking, LoadAutoEquipBlocking
<1>2. /\ T1 \in Seq(S1) /\ \A x \in S1 : \E i \in 1..Len(T1) : T1[i] = x
      /\ T2 \in Seq(S2) /\ \A x \in S2 : \E i \in 1..Len(T2) : T2[i] = x
      /\ T3 \in Seq(S3) /\ \A x \in S3 : \E i \in 1..Len(T3) : T3[i] = x
  OBVIOUS
<1>3. /\ Len(T4) = 3 /\ Len(R4) = 3
      /\ T4 \in Seq(DOMAIN LoadEquipGate)
      /\ \A i \in 1..3 : T4[i] \in DOMAIN LoadEquipGate /\ LoadEquipGate[T4[i]] = <<R4[i], "bool">>
      /\ \A k \in DOMAIN LoadEquipGate : \E i \in 1..3 : T4[i] = k
  BY LoadEquipGateRows
<1> HIDE DEF T1, T2, T3, T4, S1, S2, S3, R4
<1>4. /\ Fill(Keys("itemInjectionBlocking", T1), Args("itemInjectionBlocking", "bool", T1),
         {"itemInjectionBlocking"})
      /\ Fill(Keys("lootBlocking", T2), Args("lootBlocking", "bool", T2), {"lootBlocking"})
      /\ Fill(Keys("autoEquipBlocking", T3), Args("autoEquipBlocking", "bool", T3),
         {"autoEquipBlocking"})
  BY <1>1, <1>2, FillUniform
<1>5. Loaders["equipGate"] = LoadEquipGate
  BY DEF Loaders
<1>6. Fill(Keys("equipGate", T4), Args("equipGate", "bool", R4), {"equipGate"})
  BY <1>3, <1>5, FillRenamed
<1>7. /\ BlockingKeys =
              Keys("itemInjectionBlocking", T1)
              \o Keys("lootBlocking", T2)
              \o Keys("autoEquipBlocking", T3)
              \o Keys("equipGate", T4)
      /\ BlockingArgs =
              Args("itemInjectionBlocking", "bool", T1)
              \o Args("lootBlocking", "bool", T2)
              \o Args("autoEquipBlocking", "bool", T3)
              \o Args("equipGate", "bool", R4)
  BY DEF BlockingKeys, BlockingArgs, Flags, T1, T2, T3, T4, S1, S2, S3, R4
<1> QED
  BY <1>4, <1>6, <1>7, FillJoin

\* The sections of the extra features and of the fixes.
LEMMA ExtraFill ==
  Fill(ExtraKeys, ExtraArgs,
       {"weaponEnchantmentRecharge"} \cup {"statsDisplay"} \cup {"corpseEquipMode"} \cup
       {"engineFixes"} \cup {"skyUIFixes"})
<1> DEFINE
  T1 == <<"enableRecharge", "rechargeKeyDik", "gamepadRechargeKey",
         "enableUIIndicator", "advancedSoulGemDisplay", "showStackCount",
         "containedSoulDisplayMode", "sourceDisplayMode", "soulGemSortMode">>
  T2 == <<"enableFollowerStatsInTradeMenu">>
  T3 == <<"enable", "indicatorText">>
  T4 == <<"enableStaleWeightCacheFix">>
  T5 == <<"enableQuantityMenuBlocker", "enableZeroWeightFix">>
  S4 == {"enableStaleWeightCacheFix"}
  S5 == {"enableQuantityMenuBlocker", "enableZeroWeightFix"}
  R1 == <<<<"enableRecharge", "bool">>, <<"rechargeKeyDik", "number">>,
          <<"gamepadRechargeKey", "number">>, <<"enableUIIndicator", "bool">>,
          <<"advancedSoulGemDisplay", "bool">>, <<"showStackCount", "bool">>,
          <<"containedSoulDisplayMode", "contained">>,
          <<"sourceDisplayMode", "source">>, <<"soulGemSortMode", "sort">>>>
  R2 == <<"followerStatsInTradeMenuMode">>
  R3 == <<<<"enable", "bool">>, <<"indicatorText", "text">>>>
<1>1. /\ Loaders["engineFixes"] = Reads("bool", S4)
      /\ Loaders["skyUIFixes"] = Reads("bool", S5)
  BY DEF Loaders, LoadEngineFixes, LoadSkyUIFixes
<1>2. /\ T4 \in Seq(S4) /\ \A x \in S4 : \E i \in 1..Len(T4) : T4[i] = x
      /\ T5 \in Seq(S5) /\ \A x \in S5 : \E i \in 1..Len(T5) : T5[i] = x
  OBVIOUS
<1>3. /\ Len(T1) = 9 /\ Len(R1) = 9
      /\ T1 \in Seq(DOMAIN LoadWeaponEnchantmentRecharge)
      /\ \A i \in 1..9 : T1[i] \in DOMAIN LoadWeaponEnchantmentRecharge
         /\ R1[i][1] = LoadWeaponEnchantmentRecharge[T1[i]][1]
      /\ \A k \in DOMAIN LoadWeaponEnchantmentRecharge : \E i \in 1..9 : T1[i] = k
      /\ \A i \in 1..9 : Prints(R1[i][2], LoadWeaponEnchantmentRecharge[T1[i]][2])
  BY LoadWeaponEnchantmentRechargeRows DEF Prints
<1>4. /\ Len(T2) = 1 /\ Len(R2) = 1
      /\ T2 \in Seq(DOMAIN LoadStatsDisplay)
      /\ \A i \in 1..1 : T2[i] \in DOMAIN LoadStatsDisplay
         /\ LoadStatsDisplay[T2[i]] = <<R2[i], "stats">>
      /\ \A k \in DOMAIN LoadStatsDisplay : \E i \in 1..1 : T2[i] = k
  BY LoadStatsDisplayRows
<1>5. /\ Len(T3) = 2 /\ Len(R3) = 2
      /\ T3 \in Seq(DOMAIN LoadCorpseEquipMode)
      /\ \A i \in 1..2 : T3[i] \in DOMAIN LoadCorpseEquipMode
         /\ R3[i][1] = LoadCorpseEquipMode[T3[i]][1]
      /\ \A k \in DOMAIN LoadCorpseEquipMode : \E i \in 1..2 : T3[i] = k
      /\ \A i \in 1..2 : Prints(R3[i][2], LoadCorpseEquipMode[T3[i]][2])
  BY LoadCorpseEquipModeRows DEF Prints
<1> HIDE DEF T1, T2, T3, T4, T5, S4, S5, R1, R2, R3
<1>6. /\ Fill(Keys("engineFixes", T4), Args("engineFixes", "bool", T4), {"engineFixes"})
      /\ Fill(Keys("skyUIFixes", T5), Args("skyUIFixes", "bool", T5), {"skyUIFixes"})
  BY <1>1, <1>2, FillUniform
<1>7. Loaders["weaponEnchantmentRecharge"] = LoadWeaponEnchantmentRecharge
  BY DEF Loaders
<1>8. Fill(Keys("weaponEnchantmentRecharge", T1), Mixed("weaponEnchantmentRecharge", R1),
        {"weaponEnchantmentRecharge"})
  BY <1>3, <1>7, FillMixed
<1>9. Loaders["statsDisplay"] = LoadStatsDisplay
  BY DEF Loaders
<1>10. Fill(Keys("statsDisplay", T2), Args("statsDisplay", "stats", R2), {"statsDisplay"})
  BY <1>4, <1>9, FillRenamed
<1>11. Loaders["corpseEquipMode"] = LoadCorpseEquipMode
  BY DEF Loaders
<1>12. Fill(Keys("corpseEquipMode", T3), Mixed("corpseEquipMode", R3), {"corpseEquipMode"})
  BY <1>5, <1>11, FillMixed
<1>13. /\ ExtraKeys =
              Keys("weaponEnchantmentRecharge", T1)
              \o Keys("statsDisplay", T2)
              \o Keys("corpseEquipMode", T3)
              \o Keys("engineFixes", T4)
              \o Keys("skyUIFixes", T5)
      /\ ExtraArgs =
              Mixed("weaponEnchantmentRecharge", R1)
              \o Args("statsDisplay", "stats", R2)
              \o Mixed("corpseEquipMode", R3)
              \o Args("engineFixes", "bool", T4)
              \o Args("skyUIFixes", "bool", T5)
  BY DEF ExtraKeys, ExtraArgs, Flags, T1, T2, T3, T4, T5, S4, S5, R1, R2, R3
<1> QED
  BY <1>6, <1>8, <1>10, <1>12, <1>13, FillJoin

\* The whole file: each of the hundred keys stands at the place of the
\* argument that prints the field this key's loader feeds, and no field is
\* left out.
LEMMA IniFill == Fill(IniKeys, IniArgs, Sections)
<1> DEFINE
  G == {"core"} \cup {"uiFeedback"} \cup {"logging"} \cup {"actorScope"} \cup {"quickTrade"}
  C == {"keyboardControls"} \cup {"gamepadControls"} \cup {"buttonIndicators"} \cup
       {"iconAppearance"}
  M == {"equipModeItems"} \cup {"equipModeConsumableMode"} \cup {"equipModePoisonMode"} \cup
       {"equipModeSpellTomeMode"}
  F == {"combatEquipPreference"} \cup {"combatEquipEnforcement"} \cup
       {"combatEquipRestore"} \cup {"outfitSync"} \cup {"hiddenItems"}
  B == {"itemInjectionBlocking"} \cup {"lootBlocking"} \cup {"autoEquipBlocking"} \cup
       {"equipGate"}
  X == {"weaponEnchantmentRecharge"} \cup {"statsDisplay"} \cup {"corpseEquipMode"} \cup
       {"engineFixes"} \cup {"skyUIFixes"}
<1>1. Sections = G \cup C \cup M \cup F \cup B \cup X
  BY SectionsAre
<1>2. /\ Fill(GeneralKeys, GeneralArgs, G) /\ Fill(ControlKeys, ControlArgs, C)
      /\ Fill(EquipModeKeys, EquipModeArgs, M) /\ Fill(CombatKeys, CombatArgs, F)
      /\ Fill(BlockingKeys, BlockingArgs, B) /\ Fill(ExtraKeys, ExtraArgs, X)
  BY GeneralFill, ControlFill, EquipModeFill, CombatFill, BlockingFill, ExtraFill
<1> HIDE DEF G, C, M, F, B, X
<1> QED
  BY <1>1, <1>2, FillJoin DEF IniKeys, IniArgs

----------------------------------------------------------------------------
\* The key and the argument of a field.

\* The parser a field is read with.
ParserOf(sec, f) == Loaders[sec][KeyOf[sec][f]][2]

\* The key a field is found under feeds that field and no other.
LEMMA KeyOfReads ==
  ASSUME NEW sec \in Sections, NEW f \in DOMAIN Defaults[sec]
  PROVE  /\ KeyOf[sec][f] \in DOMAIN Loaders[sec]
         /\ Loaders[sec][KeyOf[sec][f]][1] = f
         /\ Good(ParserOf(sec, f), f, Defaults[sec][f])
<1>1. KeyOf[sec][f] = CHOOSE k \in DOMAIN Loaders[sec] : Loaders[sec][k][1] = f
  BY DEF KeyOf
<1>2. \E k \in DOMAIN Loaders[sec] : Loaders[sec][k][1] = f
  BY LoadersMatch DEF Matches
<1>3. KeyOf[sec][f] \in DOMAIN Loaders[sec] /\ Loaders[sec][KeyOf[sec][f]][1] = f
  BY <1>1, <1>2
<1> QED
  BY <1>3, LoadersMatch DEF Matches, ParserOf

\* The argument printed at a key is its field, through a printer the key's
\* parser reads.
LEMMA ArgOfKey ==
  ASSUME NEW sec \in Sections, NEW k \in DOMAIN Loaders[sec]
  PROVE  /\ sec \in DOMAIN ArgOf
         /\ DOMAIN ArgOf[sec] = DOMAIN Loaders[sec]
         /\ \E p : /\ Prints(p, Loaders[sec][k][2])
                   /\ ArgOf[sec][k] = <<sec, Loaders[sec][k][1], p>>
<1>1. PICK K : IniKeys \in Seq(K)
  BY IniFill DEF Fill
<1>2. DOMAIN IniKeys = 1..Len(IniKeys)
  BY <1>1
<1>3. \A i \in DOMAIN IniKeys :
        \E s \in Sections : \E l \in DOMAIN Loaders[s] :
          /\ IniKeys[i] = <<s, l>>
          /\ \E p : Prints(p, Loaders[s][l][2]) /\ IniArgs[i] = <<s, Loaders[s][l][1], p>>
  BY <1>2, IniFill DEF Fill
<1>4. \A s \in Sections : \A l \in DOMAIN Loaders[s] :
        \E i \in DOMAIN IniKeys : IniKeys[i] = <<s, l>>
  BY <1>2, IniFill DEF Fill
<1>5. sec \in {IniKeys[i][1] : i \in DOMAIN IniKeys}
  <2>1. PICK i \in DOMAIN IniKeys : IniKeys[i] = <<sec, k>>
    BY <1>4
  <2> QED
    BY <2>1
<1>6. {IniKeys[i][2] : i \in {j \in DOMAIN IniKeys : IniKeys[j][1] = sec}}
        = DOMAIN Loaders[sec]
  <2>1. ASSUME NEW i \in DOMAIN IniKeys, IniKeys[i][1] = sec
        PROVE  IniKeys[i][2] \in DOMAIN Loaders[sec]
    BY <1>3, <2>1
  <2>2. ASSUME NEW l \in DOMAIN Loaders[sec]
        PROVE  \E i \in DOMAIN IniKeys : IniKeys[i][1] = sec /\ l = IniKeys[i][2]
    <3>1. PICK i \in DOMAIN IniKeys : IniKeys[i] = <<sec, l>>
      BY <1>4
    <3> QED
      BY <3>1
  <2> QED
    BY <2>1, <2>2
<1>7. \E p : /\ Prints(p, Loaders[sec][k][2])
            /\ ArgOf[sec][k] = <<sec, Loaders[sec][k][1], p>>
  <2> DEFINE i == CHOOSE j \in DOMAIN IniKeys : IniKeys[j] = <<sec, k>>
  <2>1. i \in DOMAIN IniKeys /\ IniKeys[i] = <<sec, k>>
    BY <1>4
  <2>2. ArgOf[sec][k] = IniArgs[i]
    BY <1>5, <1>6 DEF ArgOf
  <2> HIDE DEF i
  <2>3. \E p : Prints(p, Loaders[sec][k][2]) /\ IniArgs[i] = <<sec, Loaders[sec][k][1], p>>
    BY <1>3, <2>1
  <2> QED
    BY <2>2, <2>3
<1>8. sec \in DOMAIN ArgOf /\ DOMAIN ArgOf[sec] = DOMAIN Loaders[sec]
  BY <1>5, <1>6 DEF ArgOf
<1> QED
  BY <1>7, <1>8

----------------------------------------------------------------------------
\* Parsers and printers.

\* What the parsers of texts and of charges are ever given.
Readable(parser, t) ==
  /\ parser = "text" => t = Word(t[2])
  /\ parser = "charges" /\ t[1] = "number" => t[2] \in Int

\* What Meaning makes of a token that one value knows, and of any token.
LEMMA MeaningOf ==
  ASSUME NEW words, NEW m \in DOMAIN words, NEW t \in words[m], NEW default,
         \A n \in DOMAIN words : t \in words[n] => n = m
  PROVE  Meaning(t, default, words) = m
  BY DEF Meaning

\* An enum's parser never leaves the enum.
LEMMA MeaningIn ==
  ASSUME NEW words, NEW t, NEW default \in DOMAIN words
  PROVE  Meaning(t, default, words) \in DOMAIN words
  BY DEF Meaning

\* Whatever stands in the file, a parser makes a proper value of it.
LEMMA ParsedIsProper ==
  ASSUME NEW parser \in Parsers, NEW d, NEW t, Proper(parser, d, d), Readable(parser, t)
  PROVE  Proper(parser, d, Parsed(parser, t, d))
<1>1. CASE parser = "bool"
  BY <1>1 DEF Proper, Parsed, ParseBool
<1>2. CASE parser = "poison"
  BY <1>2, MeaningIn DEF Proper, Parsed, ParsePoisonMode
<1>3. CASE parser = "contained"
  BY <1>3, MeaningIn DEF Proper, Parsed, ParseContainedSoulDisplayMode
<1>4. CASE parser = "source"
  BY <1>4, MeaningIn DEF Proper, Parsed, ParseSoulGemSourceDisplayMode
<1>5. CASE parser = "sort"
  BY <1>5, MeaningIn DEF Proper, Parsed, ParseSoulGemSortMode
<1>6. CASE parser = "stats"
  BY <1>6, MeaningIn DEF Proper, Parsed, ParseFollowerStatsInTradeMenuMode
<1>7. CASE parser = "number"
  BY <1>7 DEF Proper
<1>8. CASE parser = "charges"
  BY <1>8 DEF Proper, Parsed, ParseCharges, ParseU32, Readable
<1>9. CASE parser = "text"
  BY <1>9 DEF Proper, Parsed, ParseText
<1> QED
  BY <1>1, <1>2, <1>3, <1>4, <1>5, <1>6, <1>7, <1>8, <1>9 DEF Parsers

\* What the template prints is a token its parser may be given.
LEMMA PrintedIsReadable ==
  ASSUME NEW parser \in Parsers, NEW printer, Prints(printer, parser), NEW d, NEW v,
         Proper(parser, d, v)
  PROVE  Readable(parser, Printed(printer, v))
<1>1. CASE parser = "text"
  BY <1>1 DEF Prints, Printed, Readable, Word
<1>2. CASE parser = "charges"
  BY <1>2 DEF Prints, Printed, Readable, Num, Word, Proper
<1> QED
  BY <1>1, <1>2 DEF Readable

\* A proper value printed and parsed again is the same value: the words the
\* printers write are among those their parsers know, with the same meaning.
LEMMA PrintedIsRead ==
  ASSUME NEW parser \in Parsers, NEW printer, Prints(printer, parser), NEW d, NEW v,
         Proper(parser, d, v)
  PROVE  Parsed(parser, Printed(printer, v), d) = v
<1>1. CASE parser = "bool"
  <2>1. Printed(printer, v) = Word(IF v THEN "true" ELSE "false")
    BY <1>1 DEF Prints, Printed
  <2>2. ParseBool(Word("true"), d) = TRUE /\ ParseBool(Word("false"), d) = FALSE
    BY DEF ParseBool, Word, Words, Num
  <2>3. v \in BOOLEAN
    BY <1>1 DEF Proper
  <2>4. Parsed(parser, Printed(printer, v), d) = ParseBool(Printed(printer, v), d)
    BY <1>1 DEF Parsed
  <2> QED
    BY <2>1, <2>2, <2>3, <2>4
<1>2. CASE parser = "poison"
  BY <1>2, MeaningOf DEF Prints, Printed, Proper, Parsed, ParsePoisonMode, EnumTokens, Word, Words,
     Num, OffWords
<1>3. CASE parser = "contained"
  BY <1>3, MeaningOf DEF Prints, Printed, Proper, Parsed, ParseContainedSoulDisplayMode,
     EnumTokens, Word, Words, Num, OffWords
<1>4. CASE parser = "source"
  <2>1. /\ v \in {"disable", "follower", "player", "both"}
        /\ printer = "source" /\ Printed(printer, v) = Word(v)
    BY <1>4 DEF Prints, Printed, Proper, EnumTokens
  <2>2. ParseSoulGemSourceDisplayMode(Word(v), d) = v
    BY <2>1, MeaningOf DEF ParseSoulGemSourceDisplayMode, Word, Words, Num, OffWords
  <2> QED
    BY <1>4, <2>1, <2>2 DEF Parsed
<1>5. CASE parser = "sort"
  BY <1>5, MeaningOf DEF Prints, Printed, Proper, Parsed, ParseSoulGemSortMode, EnumTokens, Word,
     Words, Num, OffWords
<1>6. CASE parser = "stats"
  BY <1>6, MeaningOf DEF Prints, Printed, Proper, Parsed, ParseFollowerStatsInTradeMenuMode,
     EnumTokens, Word, Words, Num, OffWords
<1>7. CASE parser = "number"
  BY <1>7 DEF Prints, Printed, Parsed, ParseU32, Num
<1>8. CASE parser = "charges"
  BY <1>8 DEF Prints, Printed, Proper, Parsed, ParseCharges, ParseU32, Num
<1>9. CASE parser = "text"
  BY <1>9 DEF Prints, Printed, Proper, Parsed, ParseText, Word
<1> QED
  BY <1>1, <1>2, <1>3, <1>4, <1>5, <1>6, <1>7, <1>8, <1>9 DEF Parsers

----------------------------------------------------------------------------
\* Settings and files that fit.

\* A value of the settings' shape, and one whose every field its parser could
\* have made.
IsSettings(s) == s = [sec \in Sections |-> [f \in DOMAIN Defaults[sec] |-> s[sec][f]]]

\* IsSettings, and every field holds a value its parser could have made.
Fit(s) ==
  /\ IsSettings(s)
  /\ \A sec \in Sections : \A f \in DOMAIN Defaults[sec] :
       Proper(ParserOf(sec, f), Defaults[sec][f], s[sec][f])

\* A file as a record of sections of keys, with readable tokens at the keys
\* that the loader knows.
FileFits(f) ==
  /\ f = [sec \in DOMAIN f |-> [k \in DOMAIN f[sec] |-> f[sec][k]]]
  /\ \A sec \in Sections \cap DOMAIN f : \A k \in DOMAIN Loaders[sec] \cap DOMAIN f[sec] :
       Readable(Loaders[sec][k][2], f[sec][k])

\* The parser of a field is one of the parsers, and fits the field's default
\* and its control.
LEMMA ParserOfIs ==
  ASSUME NEW sec \in Sections, NEW f \in DOMAIN Defaults[sec]
  PROVE  /\ ParserOf(sec, f) \in Parsers
         /\ Proper(ParserOf(sec, f), Defaults[sec][f], Defaults[sec][f])
         /\ Takes(ParserOf(sec, f), f, Defaults[sec][f])
  BY KeyOfReads DEF Good

\* A function on its own domain.
Table(d) == d = [f \in DOMAIN d |-> d[f]]

\* The defaults have the shape of settings.
LEMMA DefaultsAreSettings == IsSettings(Defaults)
<1>1. Defaults = [sec \in Sections |-> Defaults[sec]]
  BY DEF Sections, Defaults
<1>2. ASSUME NEW sec \in Sections
      PROVE  Defaults[sec] = [f \in DOMAIN Defaults[sec] |-> Defaults[sec][f]]
  <2>1. /\ Table(Core)
        /\ Table(ActorScope)
        /\ Table(QuickTrade)
        /\ Table(UIFeedback)
        /\ Table(Logging)
    BY DEF Table, On, Off, ++, Core, ActorScope, QuickTrade, UIFeedback, Logging
  <2>2. /\ Table(KeyboardControls)
        /\ Table(GamepadControls)
        /\ Table(ButtonIndicators)
        /\ Table(IconAppearance)
    BY DEF Table, On, Off, ++, KeyboardControls, GamepadControls, ButtonIndicators, IconAppearance
  <2>3. /\ Table(EquipModeItems)
        /\ Table(EquipModeConsumableMode)
        /\ Table(EquipModePoisonMode)
        /\ Table(EquipModeSpellTomeMode)
    BY DEF Table, On, Off, ++, EquipModeItems, EquipModeConsumableMode, EquipModePoisonMode,
       EquipModeSpellTomeMode
  <2>4. /\ Table(CombatEquipPreference)
        /\ Table(CombatEquipEnforcement)
        /\ Table(CombatEquipRestore)
        /\ Table(OutfitSync)
        /\ Table(HiddenItems)
    BY DEF Table, On, Off, ++, CombatEquipPreference, CombatEquipEnforcement, CombatEquipRestore,
       OutfitSync, HiddenItems
  <2>5. /\ Table(ItemInjectionBlocking)
        /\ Table(LootBlocking)
        /\ Table(AutoEquipBlocking)
        /\ Table(EquipGate)
    BY DEF Table, On, Off, ++, ItemInjectionBlocking, LootBlocking, AutoEquipBlocking, EquipGate
  <2>6. /\ Table(WeaponEnchantmentRecharge)
        /\ Table(StatsDisplay)
        /\ Table(CorpseEquipMode)
        /\ Table(EngineFixes)
        /\ Table(SkyUIFixes)
    BY DEF Table, On, Off, ++, WeaponEnchantmentRecharge, StatsDisplay, CorpseEquipMode,
       EngineFixes, SkyUIFixes
  <2>7. Table(Defaults[sec])
    BY <2>1, <2>2, <2>3, <2>4, <2>5, <2>6, SectionsAre DEF Defaults
  <2> QED
    BY <2>7 DEF Table
<1> QED
  BY <1>1, <1>2 DEF IsSettings

\* The defaults could have been parsed.
LEMMA DefaultsFit == Fit(Defaults)
  BY DefaultsAreSettings, ParserOfIs DEF Fit

\* Whatever the file holds or lacks, the settings read from it are settings.
LEMMA LoadFits ==
  ASSUME NEW f, FileFits(f)
  PROVE  Fit(Load(f))
<1>1. ASSUME NEW sec \in Sections, NEW x \in DOMAIN Defaults[sec]
      PROVE  Proper(ParserOf(sec, x), Defaults[sec][x], Load(f)[sec][x])
  <2> DEFINE k == KeyOf[sec][x]
  <2>1. k \in DOMAIN Loaders[sec] /\ ParserOf(sec, x) = Loaders[sec][k][2]
    BY KeyOfReads DEF ParserOf
  <2>2. CASE sec \in DOMAIN f /\ k \in DOMAIN f[sec]
    <3>1. Load(f)[sec][x] = Parsed(ParserOf(sec, x), f[sec][k], Defaults[sec][x])
      BY <2>1, <2>2 DEF Load
    <3>2. Readable(ParserOf(sec, x), f[sec][k])
      BY <2>1, <2>2 DEF FileFits
    <3> QED
      BY <3>1, <3>2, ParserOfIs, ParsedIsProper
  <2>3. CASE ~(sec \in DOMAIN f /\ k \in DOMAIN f[sec])
    <3>1. Load(f)[sec][x] = Defaults[sec][x]
      BY <2>3 DEF Load
    <3> QED
      BY <3>1, ParserOfIs
  <2> QED
    BY <2>2, <2>3
<1>2. IsSettings(Load(f))
  BY DEF Load, IsSettings
<1> QED
  BY <1>1, <1>2 DEF Fit

\* Without a file the settings are the defaults.
LEMMA NoFileGivesDefaults == FileFits(NoFile) /\ Load(NoFile) = Defaults
<1>1. DOMAIN NoFile = {}
  BY DEF NoFile
<1>2. Load(NoFile) = [sec \in Sections |-> [f \in DOMAIN Defaults[sec] |-> Defaults[sec][f]]]
  BY <1>1 DEF Load
<1>3. FileFits(NoFile)
  BY DEF NoFile, FileFits
<1> QED
  BY <1>2, <1>3, DefaultsAreSettings DEF IsSettings

\* A written file has each of the loader's keys, with the printed value of
\* the field it feeds.
LEMMA IniContents ==
  ASSUME NEW s, Fit(s), NEW sec \in Sections, NEW k \in DOMAIN Loaders[sec]
  PROVE  LET f == Loaders[sec][k][1]
             c == DefaultIniContents(s) IN
         /\ sec \in DOMAIN c /\ k \in DOMAIN c[sec]
         /\ f \in DOMAIN Defaults[sec]
         /\ \E p : Prints(p, Loaders[sec][k][2]) /\ c[sec][k] = Printed(p, s[sec][f])
<1> DEFINE f == Loaders[sec][k][1]
           c == DefaultIniContents(s)
<1>1. f \in DOMAIN Defaults[sec]
  BY LoadersMatch DEF Matches
<1>2. PICK p : Prints(p, Loaders[sec][k][2]) /\ ArgOf[sec][k] = <<sec, f, p>>
  BY ArgOfKey
<1>3. sec \in DOMAIN ArgOf /\ k \in DOMAIN ArgOf[sec]
  BY ArgOfKey
<1>4. sec \in DOMAIN c /\ k \in DOMAIN c[sec]
      /\ c[sec][k] = Printed(ArgOf[sec][k][3], s[ArgOf[sec][k][1]][ArgOf[sec][k][2]])
  BY <1>3 DEF DefaultIniContents
<1>5. c[sec][k] = Printed(p, s[sec][f])
  BY <1>2, <1>4
<1> QED
  BY <1>1, <1>2, <1>4, <1>5

----------------------------------------------------------------------------
\* What a save writes.

\* The normalisation before a save changes nothing in settings that could
\* have been parsed: the log level is not blank.
LEMMA NormalizedIsSame ==
  ASSUME NEW s, Fit(s)
  PROVE  Normalized(s) = s
<1>1. "logging" \in Sections /\ DOMAIN Defaults["logging"] = {"logLevel"}
  BY SectionsAre DEF Defaults, Logging
<1>2. Defaults["logging"]["logLevel"] # ""
  BY DEF Defaults, Logging
<1>3. ParserOf("logging", "logLevel") = "text"
  <2>1. Loaders["logging"] = [f \in {"logLevel"} |-> <<f, "text">>]
    BY DEF Loaders, LoadLogging, Reads
  <2>2. KeyOf["logging"]["logLevel"] \in DOMAIN Loaders["logging"]
    BY <1>1, KeyOfReads
  <2> QED
    BY <2>1, <2>2 DEF ParserOf
<1>4. s["logging"]["logLevel"] # ""
  BY <1>1, <1>2, <1>3 DEF Fit, Proper
<1> QED
  BY <1>4, Zenon DEF Normalized

\* A written file is readable.
LEMMA IniContentsFit ==
  ASSUME NEW s, Fit(s)
  PROVE  FileFits(DefaultIniContents(s))
<1> DEFINE c == DefaultIniContents(s)
<1>1. c = [sec \in DOMAIN c |-> [k \in DOMAIN c[sec] |-> c[sec][k]]]
  BY DEF DefaultIniContents
<1>2. ASSUME NEW sec \in Sections \cap DOMAIN c, NEW k \in DOMAIN Loaders[sec] \cap DOMAIN c[sec]
      PROVE  Readable(Loaders[sec][k][2], c[sec][k])
  <2> DEFINE f == Loaders[sec][k][1]
  <2>1. f \in DOMAIN Defaults[sec]
    BY LoadersMatch DEF Matches
  <2>2. PICK p : Prints(p, Loaders[sec][k][2]) /\ c[sec][k] = Printed(p, s[sec][f])
    BY IniContents
  <2>3. Loaders[sec][k][2] \in Parsers
    BY LoadersMatch DEF Matches, Good
  <2>4. KeyOf[sec][f] = k
    BY <2>1, KeyOfReads, LoadersMatch DEF Matches
  <2>5. Proper(Loaders[sec][k][2], Defaults[sec][f], s[sec][f])
    BY <2>1, <2>4 DEF Fit, ParserOf
  <2> HIDE DEF c, f
  <2> QED
    BY <2>2, <2>3, <2>5, PrintedIsReadable
<1> HIDE DEF c
<1>3. FileFits(c)
  BY <1>1, <1>2 DEF FileFits
<1> QED
  BY <1>3 DEF c

\* What Save writes, the loader reads.
LEMMA RoundTrip ==
  ASSUME NEW s, Fit(s)
  PROVE  Load(DefaultIniContents(s)) = s
<1> DEFINE c == DefaultIniContents(s)
<1>1. ASSUME NEW sec \in Sections, NEW f \in DOMAIN Defaults[sec]
      PROVE  Load(c)[sec][f] = s[sec][f]
  <2> DEFINE k == KeyOf[sec][f]
  <2>1. /\ k \in DOMAIN Loaders[sec] /\ Loaders[sec][k][1] = f
        /\ ParserOf(sec, f) = Loaders[sec][k][2]
    BY KeyOfReads DEF ParserOf
  <2>2. /\ sec \in DOMAIN c /\ k \in DOMAIN c[sec]
        /\ \E p : Prints(p, ParserOf(sec, f)) /\ c[sec][k] = Printed(p, s[sec][f])
    BY <2>1, IniContents
  <2>3. Load(c)[sec][f] = Parsed(ParserOf(sec, f), c[sec][k], Defaults[sec][f])
    BY <2>1, <2>2 DEF Load
  <2>4. Proper(ParserOf(sec, f), Defaults[sec][f], s[sec][f])
    BY DEF Fit
  <2> HIDE DEF c, k
  <2> QED
    BY <2>2, <2>3, <2>4, ParserOfIs, PrintedIsRead
<1>2. Load(c) = [sec \in Sections |-> [f \in DOMAIN Defaults[sec] |-> Load(c)[sec][f]]]
  BY DEF Load
<1>3. s = [sec \in Sections |-> [f \in DOMAIN Defaults[sec] |-> s[sec][f]]]
  BY DEF Fit, IsSettings
<1> HIDE DEF c
<1>4. [sec \in Sections |-> [f \in DOMAIN Defaults[sec] |-> Load(c)[sec][f]]]
        = [sec \in Sections |-> [f \in DOMAIN Defaults[sec] |-> s[sec][f]]]
  BY <1>1
<1>5. Load(c) = s
  BY <1>2, <1>3, <1>4
<1> QED
  BY <1>5 DEF c

\* So is what a write that was cut short has left of it.
LEMMA CutFits ==
  ASSUME NEW s, Fit(s), NEW n \in Cuts
  PROVE  FileFits(CutAfter(DefaultIniContents(s), n))
<1> DEFINE c == DefaultIniContents(s)
           d == CutAfter(c, n)
<1>1. d = [sec \in DOMAIN d |-> [k \in DOMAIN d[sec] |-> d[sec][k]]]
  BY DEF CutAfter
<1>2. ASSUME NEW sec \in Sections \cap DOMAIN d, NEW k \in DOMAIN Loaders[sec] \cap DOMAIN d[sec]
      PROVE  Readable(Loaders[sec][k][2], d[sec][k])
  <2>1. d[sec][k] = c[sec][k]
    BY DEF CutAfter
  <2>2. sec \in DOMAIN c /\ k \in DOMAIN c[sec]
    BY IniContents
  <2> QED
    BY <2>1, <2>2, IniContentsFit DEF FileFits
<1> HIDE DEF c, d
<1>3. FileFits(d)
  BY <1>1, <1>2 DEF FileFits
<1> QED
  BY <1>3 DEF c, d

----------------------------------------------------------------------------
\* The menu's widgets.

\* What a widget shows of its setting.
Shown(w, v) ==
  IF w = "logLevel" THEN LogLevelIndexFromString(v)
  ELSE IF w \in DOMAIN KeyWidgets THEN v
  ELSE CopyToBuffer(v)

\* Widgets within their ranges: the log level is an index, and no buffer
\* holds more than it has room for.
Widgetry(derived) ==
  /\ derived = [w \in Widgets |-> derived[w]]
  /\ derived["logLevel"] \in 0..6
  /\ \A t \in DOMAIN TextWidgets : derived[t] # "long"

\* Committing the widgets that show these settings would change nothing.
Settled(s) ==
  \A sec \in Sections : \A f \in DOMAIN Defaults[sec] \cap Widgets :
    Committed(f, Shown(f, s[sec][f])) = s[sec][f]

\* The list of log levels, there and back: an index names a level, and the
\* level that index.
LEMMA LogLevelIndexIs ==
  /\ \A s : LogLevelIndexFromString(s) \in 0..6
  /\ \A i \in 0..6 : LogLevelIndexFromString(LogLevelStringFromIndex(i)) = i
  /\ \A i \in 0..6 : LogLevelStringFromIndex(i) # ""
<1> DEFINE Named(s) == {i \in 1..7 : \/ LogLevels[i] = s
                                     \/ LogLevels[i] = "warn" /\ s = "warning"
                                     \/ LogLevels[i] = "error" /\ s = "err"}
<1>1. \A s : LogLevelIndexFromString(s) = IF Named(s) = {} THEN 2 ELSE (CHOOSE i \in Named(s) :
        TRUE) - 1
  BY DEF LogLevelIndexFromString
<1>2. ASSUME NEW i \in 0..6
      PROVE Named(LogLevelStringFromIndex(i)) = {i + 1}
  BY DEF LogLevelStringFromIndex, LogLevels
<1>3. \A s : Named(s) \subseteq 1..7
  OBVIOUS
<1>4. ASSUME NEW i \in 0..6 PROVE LogLevelStringFromIndex(i) # ""
  <2>1. LogLevelStringFromIndex(i)
          \in {"trace", "debug", "info", "warn", "error", "critical", "off"}
    BY DEF LogLevelStringFromIndex, LogLevels
  <2> QED
    BY <2>1, Zenon
<1> HIDE DEF Named
<1>5. ASSUME NEW s PROVE LogLevelIndexFromString(s) \in 0..6
  BY <1>1, <1>3
<1>6. ASSUME NEW i \in 0..6
      PROVE LogLevelIndexFromString(LogLevelStringFromIndex(i)) = i
  <2>1. (CHOOSE j \in {i + 1} : TRUE) = i + 1
    OBVIOUS
  <2> QED
    BY <1>1, <1>2, <2>1
<1> QED
  BY <1>4, <1>5, <1>6

\* Each widget stands for the field of one section.
LEMMA WidgetSections ==
  ASSUME NEW sec \in Sections, NEW f \in DOMAIN Defaults[sec] \cap Widgets
  PROVE  \/ f = "logLevel" /\ sec = "logging"
         \/ f \in DOMAIN KeyWidgets /\ sec = KeyWidgets[f]
         \/ f \in DOMAIN TextWidgets /\ sec = TextWidgets[f]
<1> DEFINE Within(d, s) ==
      \A x \in DOMAIN d \cap Widgets :
         \/ x = "logLevel" /\ s = "logging"
         \/ x \in DOMAIN KeyWidgets /\ s = KeyWidgets[x]
         \/ x \in DOMAIN TextWidgets /\ s = TextWidgets[x]
<1>1. /\ Within(Core, "core") /\ Within(ActorScope, "actorScope")
      /\ Within(QuickTrade, "quickTrade") /\ Within(UIFeedback, "uiFeedback")
      /\ Within(Logging, "logging")
  BY WidgetsAre DEF On, Off, ++, Core, ActorScope, QuickTrade, UIFeedback, Logging
<1>2. /\ Within(KeyboardControls, "keyboardControls")
      /\ Within(GamepadControls, "gamepadControls")
  BY WidgetsAre DEF On, Off, ++, KeyboardControls, GamepadControls, KeyWidgets
<1>3. /\ Within(ButtonIndicators, "buttonIndicators")
      /\ Within(IconAppearance, "iconAppearance")
  BY WidgetsAre DEF On, Off, ++, ButtonIndicators, IconAppearance, TextWidgets
<1>4. /\ Within(EquipModeItems, "equipModeItems")
      /\ Within(EquipModeConsumableMode, "equipModeConsumableMode")
      /\ Within(EquipModePoisonMode, "equipModePoisonMode")
      /\ Within(EquipModeSpellTomeMode, "equipModeSpellTomeMode")
  BY WidgetsAre DEF On, Off, ++, EquipModeItems, EquipModeConsumableMode, EquipModePoisonMode,
     EquipModeSpellTomeMode
<1>5. /\ Within(CombatEquipPreference, "combatEquipPreference")
      /\ Within(CombatEquipEnforcement, "combatEquipEnforcement")
      /\ Within(CombatEquipRestore, "combatEquipRestore")
      /\ Within(OutfitSync, "outfitSync") /\ Within(HiddenItems, "hiddenItems")
  BY WidgetsAre DEF On, Off, ++, CombatEquipPreference, CombatEquipEnforcement, CombatEquipRestore,
     OutfitSync, HiddenItems
<1>6. /\ Within(ItemInjectionBlocking, "itemInjectionBlocking")
      /\ Within(LootBlocking, "lootBlocking")
      /\ Within(AutoEquipBlocking, "autoEquipBlocking") /\ Within(EquipGate, "equipGate")
  BY WidgetsAre DEF On, Off, ++, ItemInjectionBlocking, LootBlocking, AutoEquipBlocking, EquipGate
<1>7. /\ Within(WeaponEnchantmentRecharge, "weaponEnchantmentRecharge")
      /\ Within(StatsDisplay, "statsDisplay") /\ Within(CorpseEquipMode, "corpseEquipMode")
      /\ Within(EngineFixes, "engineFixes") /\ Within(SkyUIFixes, "skyUIFixes")
  BY WidgetsAre DEF On, Off, ++, WeaponEnchantmentRecharge, StatsDisplay, CorpseEquipMode,
     EngineFixes, SkyUIFixes, KeyWidgets, TextWidgets
<1> HIDE DEF Within
<1>8. Within(Defaults[sec], sec)
  BY <1>1, <1>2, <1>3, <1>4, <1>5, <1>6, <1>7, SectionsAre DEF Defaults
<1> QED
  BY <1>8 DEF Within

\* The widgets made from a draft show its fields.
LEMMA RebuildShows ==
  ASSUME NEW s, NEW sec \in Sections, NEW f \in DOMAIN Defaults[sec] \cap Widgets
  PROVE  RebuildDerivedFromDraft(s)[f] = Shown(f, s[sec][f])
<1>1. "logLevel" \notin DOMAIN KeyWidgets /\ "logLevel" \notin DOMAIN TextWidgets
      /\ DOMAIN KeyWidgets \cap DOMAIN TextWidgets = {}
  BY DEF KeyWidgets, TextWidgets
<1> QED
  BY <1>1, WidgetSections DEF RebuildDerivedFromDraft, Shown

\* The widgets made from a draft are within their ranges.
LEMMA RebuildIsWidgetry ==
  ASSUME NEW s
  PROVE  Widgetry(RebuildDerivedFromDraft(s))
<1>1. /\ "logLevel" \in Widgets
      /\ \A t \in DOMAIN TextWidgets : t \in Widgets /\ t \notin DOMAIN KeyWidgets /\ t # "logLevel"
  BY DEF KeyWidgets, TextWidgets, Widgets
<1>2. \A t : CopyToBuffer(t) # "long"
  BY DEF CopyToBuffer
<1> QED
  BY <1>1, <1>2, LogLevelIndexIs DEF RebuildDerivedFromDraft, Widgetry

\* The widgets of keys and of texts, one by one.
LEMMA KeyWidgetsAre ==
  /\ DOMAIN KeyWidgets =
       {"modKeyDik", "skyuiEquipModeKey", "quickTradeKeyDik", "gamepadModKey",
        "gamepadRightHandKey", "gamepadLeftHandKey", "quickTradeGamepadKey",
        "rechargeKeyDik", "gamepadRechargeKey"}
  /\ DOMAIN TextWidgets =
       {"modKeyIndicatorText", "summonIndicatorText", "inclusionIndicatorText",
        "equipModeTextOverride", "indicatorText"}
  BY DEF KeyWidgets, TextWidgets

\* The default key codes.
LEMMA KeyDefaults ==
  /\ DOMAIN Defaults["keyboardControls"] =
       {"modKeyDik", "skyuiEquipModeKey", "quickTradeKeyDik"}
  /\ Defaults["keyboardControls"]["modKeyDik"] = 29
  /\ Defaults["keyboardControls"]["skyuiEquipModeKey"] = 0
  /\ Defaults["keyboardControls"]["quickTradeKeyDik"] = 0
  /\ Defaults["gamepadControls"]["gamepadModKey"] = 280
  /\ Defaults["gamepadControls"]["gamepadRightHandKey"] = 276
  /\ Defaults["gamepadControls"]["gamepadLeftHandKey"] = 278
  /\ Defaults["gamepadControls"]["quickTradeGamepadKey"] = 0
  /\ Defaults["weaponEnchantmentRecharge"]["rechargeKeyDik"] = 20
  /\ Defaults["weaponEnchantmentRecharge"]["gamepadRechargeKey"] = 279
<1>1. /\ Defaults["keyboardControls"] = KeyboardControls
      /\ Defaults["gamepadControls"] = GamepadControls
      /\ Defaults["weaponEnchantmentRecharge"] = WeaponEnchantmentRecharge
  BY DEF Defaults
<1> QED
  BY <1>1 DEF KeyboardControls, GamepadControls, WeaponEnchantmentRecharge, On, ++

\* What a commit stores for each widget.
LEMMA CommittedIs ==
  ASSUME NEW v
  PROVE  /\ Committed("logLevel", v) = LogLevelStringFromIndex(v)
         /\ \A w \in DOMAIN TextWidgets : Committed(w, v) = v
         /\ \A w \in {"modKeyDik", "skyuiEquipModeKey", "quickTradeKeyDik"} :
              Committed(w, v) = KeyOr(v, 0)
         /\ Committed("rechargeKeyDik", v) = KeyOr(v, 20)
         /\ Committed("quickTradeGamepadKey", v) = ValidateGamepadKey(v, 0)
         /\ Committed("gamepadModKey", v) = ValidateGamepadKey(v, 280)
         /\ Committed("gamepadRightHandKey", v) = ValidateGamepadKey(v, 276)
         /\ Committed("gamepadLeftHandKey", v) = ValidateGamepadKey(v, 278)
         /\ Committed("gamepadRechargeKey", v) = ValidateGamepadKey(v, 279)
<1>1. /\ Committed("logLevel", v) = LogLevelStringFromIndex(v)
      /\ \A w \in DOMAIN TextWidgets : Committed(w, v) = v
  BY KeyDefaults, KeyWidgetsAre DEF Committed
<1>2. /\ \A w \in {"modKeyDik", "skyuiEquipModeKey", "quickTradeKeyDik"} :
              Committed(w, v) = KeyOr(v, 0)
      /\ Committed("rechargeKeyDik", v) = KeyOr(v, 20)
      /\ Committed("quickTradeGamepadKey", v) = ValidateGamepadKey(v, 0)
  BY KeyDefaults, KeyWidgetsAre DEF Committed
<1>3. \A w \in {"gamepadModKey", "gamepadRightHandKey", "gamepadLeftHandKey",
        "gamepadRechargeKey"} :
        Committed(w, v) = ValidateGamepadKey(v, Defaults[KeyWidgets[w]][w])
  BY KeyDefaults, KeyWidgetsAre DEF Committed
<1> QED
  BY <1>1, <1>2, <1>3, KeyDefaults DEF KeyWidgets

\* A committed value is shown and committed again unchanged: a buffer cuts a
\* text once, a key code outside the list is replaced once.
LEMMA CommittedSettles ==
  ASSUME NEW w \in Widgets, NEW val,
         w = "logLevel" => val \in 0..6,
         w \in DOMAIN TextWidgets => val # "long"
  PROVE  Committed(w, Shown(w, Committed(w, val))) = Committed(w, val)
<1>1. CASE w = "logLevel"
  <2>1. \A v : Shown(w, v) = LogLevelIndexFromString(v)
    BY <1>1, Zenon DEF Shown
  <2>2. LogLevelIndexFromString(LogLevelStringFromIndex(val)) = val
    BY <1>1, LogLevelIndexIs
  <2> QED
    BY <1>1, <2>1, <2>2, CommittedIs
<1>2. CASE w \in DOMAIN TextWidgets
  <2>1. w # "logLevel" /\ w \notin DOMAIN KeyWidgets
    BY <1>2, KeyWidgetsAre
  <2>2. Shown(w, val) = val
    BY <1>2, <2>1 DEF Shown, CopyToBuffer
  <2> QED
    BY <1>2, <2>2, CommittedIs
<1>3. CASE w \in DOMAIN KeyWidgets
  <2>1. \A v : Shown(w, v) = v
    BY <1>3, KeyWidgetsAre DEF Shown
  <2>2. \A v, d : KeyOr(KeyOr(v, d), d) = KeyOr(v, d)
    BY DEF KeyOr
  <2>3. \A v, d : ValidateGamepadKey(ValidateGamepadKey(v, d), d) = ValidateGamepadKey(v, d)
    BY DEF ValidateGamepadKey
  <2>4. Committed(w, Committed(w, val)) = Committed(w, val)
    BY <1>3, <2>2, <2>3, CommittedIs, KeyWidgetsAre
  <2> QED
    BY <2>1, <2>4
<1> QED
  BY <1>1, <1>2, <1>3 DEF Widgets

\* The defaults are settled.
LEMMA DefaultsSettle == Settled(Defaults)
<1> SUFFICES ASSUME NEW sec \in Sections, NEW f \in DOMAIN Defaults[sec] \cap Widgets
             PROVE  Committed(f, Shown(f, Defaults[sec][f])) = Defaults[sec][f]
  BY DEF Settled
<1>1. CASE f = "logLevel" /\ sec = "logging"
  <2>1. Defaults["logging"]["logLevel"] = LogLevelStringFromIndex(2)
    BY DEF Defaults, Logging, LogLevelStringFromIndex, LogLevels
  <2>2. \A v : Shown(f, v) = LogLevelIndexFromString(v)
    BY <1>1, Zenon DEF Shown
  <2>3. 2 \in 0..6
    OBVIOUS
  <2>4. LogLevelIndexFromString(LogLevelStringFromIndex(2)) = 2
    BY <2>3, LogLevelIndexIs
  <2> QED
    BY <1>1, <2>1, <2>2, <2>4, CommittedIs
<1>2. CASE f \in DOMAIN TextWidgets /\ sec = TextWidgets[f]
  <2>1. f # "logLevel" /\ f \notin DOMAIN KeyWidgets
    BY <1>2 DEF KeyWidgets, TextWidgets
  <2>2. Defaults[sec][f] = ""
    <3>1. Defaults["buttonIndicators"] = ButtonIndicators
          /\ Defaults["corpseEquipMode"] = CorpseEquipMode
      BY DEF Defaults
    <3>2. /\ ButtonIndicators["modKeyIndicatorText"] = ""
          /\ ButtonIndicators["summonIndicatorText"] = ""
          /\ ButtonIndicators["inclusionIndicatorText"] = ""
          /\ ButtonIndicators["equipModeTextOverride"] = ""
          /\ CorpseEquipMode["indicatorText"] = ""
      BY DEF ButtonIndicators, CorpseEquipMode
    <3>3. /\ TextWidgets["modKeyIndicatorText"] = "buttonIndicators"
          /\ TextWidgets["summonIndicatorText"] = "buttonIndicators"
          /\ TextWidgets["inclusionIndicatorText"] = "buttonIndicators"
          /\ TextWidgets["equipModeTextOverride"] = "buttonIndicators"
          /\ TextWidgets["indicatorText"] = "corpseEquipMode"
      BY DEF TextWidgets
    <3> QED
      BY <1>2, <3>1, <3>2, <3>3, KeyWidgetsAre, Zenon
  <2>3. \A v : Committed(f, v) = v
    BY <1>2, CommittedIs
  <2>4. \A v : Shown(f, v) = CopyToBuffer(v)
    BY <2>1, Zenon DEF Shown
  <2>5. CopyToBuffer("") = ""
    BY DEF CopyToBuffer
  <2> QED
    BY <2>2, <2>3, <2>4, <2>5, Zenon
<1>3. CASE f \in DOMAIN KeyWidgets /\ sec = KeyWidgets[f]
  <2>1. Shown(f, Defaults[sec][f]) = Defaults[sec][f]
    BY <1>3, KeyWidgetsAre DEF Shown
  <2>2. Committed(f, Defaults[sec][f]) = Defaults[sec][f]
    BY <1>3, KeyDefaults, CommittedIs, KeyWidgetsAre DEF KeyWidgets, KeyOr, ValidateGamepadKey
  <2> QED
    BY <2>1, <2>2
<1> QED
  BY <1>1, <1>2, <1>3, WidgetSections

----------------------------------------------------------------------------
\* The menu's frames.

\* The log level is read as a text.
LEMMA LogLevelIsText ==
  /\ "logging" \in Sections /\ "logLevel" \in DOMAIN Defaults["logging"]
  /\ ParserOf("logging", "logLevel") = "text"
<1>1. "logging" \in Sections /\ DOMAIN Defaults["logging"] = {"logLevel"}
  BY SectionsAre DEF Defaults, Logging
<1>2. Loaders["logging"] = [f \in {"logLevel"} |-> <<f, "text">>]
  BY DEF Loaders, LoadLogging, Reads
<1>3. KeyOf["logging"]["logLevel"] \in DOMAIN Loaders["logging"]
  BY <1>1, KeyOfReads
<1> QED
  BY <1>1, <1>2, <1>3 DEF ParserOf

\* A commit keeps the draft's shape and leaves it settled.
LEMMA CommitFits ==
  ASSUME NEW s, Fit(s), NEW w, Widgetry(w)
  PROVE  /\ Fit(CommitDerivedToDraft(s, w))
         /\ Settled(CommitDerivedToDraft(s, w))
<1> DEFINE c == CommitDerivedToDraft(s, w)
<1>1. IsSettings(c)
  BY DEF CommitDerivedToDraft, IsSettings
<1>2. \A sec \in Sections : \A f \in DOMAIN Defaults[sec] :
        c[sec][f] = IF f \in Widgets THEN Committed(f, w[f]) ELSE s[sec][f]
  BY DEF CommitDerivedToDraft
<1> HIDE DEF c
<1>3. ASSUME NEW sec \in Sections, NEW f \in DOMAIN Defaults[sec]
      PROVE  Proper(ParserOf(sec, f), Defaults[sec][f], c[sec][f])
  <2>1. CASE f \notin Widgets
    BY <1>2, <2>1 DEF Fit
  <2>2. CASE f \in Widgets /\ f = "logLevel"
    <3>1. sec = "logging"
      BY <2>2, WidgetSections, KeyWidgetsAre
    <3>2. c[sec][f] = LogLevelStringFromIndex(w["logLevel"])
      BY <1>2, <2>2, CommittedIs
    <3>3. c[sec][f] # ""
      BY <3>2, LogLevelIndexIs DEF Widgetry
    <3> QED
      BY <2>2, <3>1, <3>3, LogLevelIsText DEF Proper
  <2>3. CASE f \in Widgets /\ f # "logLevel"
    BY <2>3, ParserOfIs DEF Takes
  <2> QED
    BY <2>1, <2>2, <2>3
<1>4. ASSUME NEW sec \in Sections, NEW f \in DOMAIN Defaults[sec] \cap Widgets
      PROVE  Committed(f, Shown(f, c[sec][f])) = c[sec][f]
  <2>1. c[sec][f] = Committed(f, w[f])
    BY <1>2
  <2>2. /\ f = "logLevel" => w[f] \in 0..6
        /\ f \in DOMAIN TextWidgets => w[f] # "long"
    BY DEF Widgetry
  <2> QED
    BY <2>1, <2>2, CommittedSettles
<1>5. Fit(c) /\ Settled(c)
  BY <1>1, <1>3, <1>4 DEF Fit, Settled
<1> QED
  BY <1>5 DEF c

\* A commit of the widgets that show a settled draft leaves the draft alone.
LEMMA CommitKeepsSettled ==
  ASSUME NEW s, IsSettings(s), Settled(s)
  PROVE  CommitDerivedToDraft(s, RebuildDerivedFromDraft(s)) = s
<1> DEFINE c == CommitDerivedToDraft(s, RebuildDerivedFromDraft(s))
<1>1. ASSUME NEW sec \in Sections, NEW f \in DOMAIN Defaults[sec]
      PROVE  c[sec][f] = s[sec][f]
  <2>1. CASE f \in Widgets
    BY <2>1, RebuildShows DEF CommitDerivedToDraft, Settled
  <2>2. CASE f \notin Widgets
    BY <2>2 DEF CommitDerivedToDraft
  <2> QED
    BY <2>1, <2>2
<1>2. IsSettings(c)
  BY DEF CommitDerivedToDraft, IsSettings
<1> HIDE DEF c
<1>3. [sec \in Sections |-> [f \in DOMAIN Defaults[sec] |-> c[sec][f]]]
        = [sec \in Sections |-> [f \in DOMAIN Defaults[sec] |-> s[sec][f]]]
  BY <1>1
<1>4. c = s
  BY <1>2, <1>3 DEF IsSettings
<1> QED
  BY <1>4 DEF c

\* The menu's record: a draft that could have been parsed, widgets within
\* their ranges.
MenuFits(u) ==
  /\ u = [initialized |-> u.initialized, dirty |-> u.dirty, draft |-> u.draft,
          derived |-> u.derived]
  /\ u.initialized \in BOOLEAN /\ u.dirty \in BOOLEAN
  /\ Fit(u.draft)
  /\ Widgetry(u.derived)

\* The end of a frame commits the widgets and compares the draft with the
\* settings in force: the mark for unsaved changes is up exactly when they
\* differ.
LEMMA EndedIs ==
  ASSUME NEW u, MenuFits(u), NEW s
  PROVE  /\ MenuFits(Ended(u, s))
         /\ Ended(u, s).initialized = u.initialized
         /\ Ended(u, s).dirty <=> Ended(u, s).draft # s
         /\ Ended(u, s).draft = CommitDerivedToDraft(u.draft, u.derived)
         /\ Settled(Ended(u, s).draft)
<1> DEFINE d == CommitDerivedToDraft(u.draft, u.derived)
           e == Ended(u, s)
<1>1. Fit(d) /\ Settled(d)
  BY CommitFits DEF MenuFits
<1>2. e = [[u EXCEPT !.draft = d] EXCEPT !.dirty = d # s]
  BY Zenon DEF Ended
<1>3. DOMAIN u = {"initialized", "dirty", "draft", "derived"}
  BY DEF MenuFits
<1> HIDE DEF d, e
<1>4. PICK b \in BOOLEAN : b <=> d # s
  OBVIOUS
<1>5. e = [initialized |-> u.initialized, dirty |-> b, draft |-> d, derived |-> u.derived]
  <2>1. CASE d = s
    <3>1. (d # s) = FALSE /\ b = FALSE
      BY <2>1, <1>4
    <3>2. e = [[u EXCEPT !.draft = d] EXCEPT !.dirty = FALSE]
      BY <1>2, <3>1, Zenon
    <3> QED
      BY <3>1, <3>2 DEF MenuFits
  <2>2. CASE d # s
    <3>1. (d # s) = TRUE /\ b = TRUE
      BY <2>2, <1>4
    <3>2. e = [[u EXCEPT !.draft = d] EXCEPT !.dirty = TRUE]
      BY <1>2, <3>1, Zenon
    <3> QED
      BY <3>1, <3>2 DEF MenuFits
  <2> QED
    BY <2>1, <2>2
<1>6. /\ e.initialized = u.initialized
      /\ e.draft = d
      /\ e.derived = u.derived
      /\ e.dirty = b
  BY <1>5
<1>7. MenuFits(e)
  BY <1>1, <1>4, <1>5, <1>6 DEF MenuFits
<1> QED
  BY <1>1, <1>4, <1>6, <1>7 DEF d, e

\* A menu made from settings shows them, unmarked.
LEMMA AppliedFits ==
  ASSUME NEW s, Fit(s)
  PROVE  /\ MenuFits(ApplySettingsToUIState(s))
         /\ ApplySettingsToUIState(s).initialized
         /\ ApplySettingsToUIState(s).draft = s
         /\ ~ApplySettingsToUIState(s).dirty
  BY RebuildIsWidgetry DEF ApplySettingsToUIState, MenuFits

\* The menu before its first frame.
LEMMA FreshFits ==
  /\ MenuFits(FreshUI)
  /\ ~FreshUI.initialized
  /\ FreshUI.draft = Defaults
  BY RebuildIsWidgetry, DefaultsFit DEF FreshUI, MenuFits

\* The start of a frame makes a menu from the settings in force once, and
\* keeps it from then on.
LEMMA BegunFits ==
  ASSUME MenuFits(ui), Fit(config)
  PROVE  /\ MenuFits(Begun)
         /\ Begun.initialized
         /\ ui.initialized => Begun = ui
         /\ Begun.dirty => ui.initialized
  BY AppliedFits DEF Begun, MenuFits

----------------------------------------------------------------------------
\* Clicks and resets.

\* What the controls with a widget offer is within the widget's range.
LEMMA WidgetChoices ==
  ASSUME NEW sec \in Sections, NEW f \in DOMAIN Defaults[sec] \cap Widgets,
         NEW v \in Offered(f) \cup {ByDefault(sec, f)}
  PROVE  /\ f = "logLevel" => v \in 0..6
         /\ f \in DOMAIN TextWidgets => v # "long"
<1>1. ASSUME f = "logLevel" PROVE v \in 0..6
  <2>1. Choices["logLevel"] = 1..3
    BY KeyWidgetsAre DEF Choices, ++
  <2>2. Offered(f) = 1..3
    BY <1>1, <2>1, ChoicesAre DEF Offered
  <2>3. ByDefault(sec, f) = LogLevelIndexFromString(Defaults[sec][f])
    BY <1>1, KeyWidgetsAre DEF ByDefault
  <2>4. ByDefault(sec, f) \in 0..6
    BY <2>3, LogLevelIndexIs
  <2> QED
    BY <2>2, <2>4
<1>2. ASSUME f \in DOMAIN TextWidgets PROVE v # "long"
  <2>1. Choices[f] = {"", "words"}
    BY <1>2, KeyWidgetsAre DEF Choices, ++
  <2>2. Offered(f) = {"", "words"}
    BY <1>2, <2>1, ChoicesAre DEF Offered
  <2>3. ByDefault(sec, f) = "localized"
    BY <1>2 DEF ByDefault
  <2> QED
    BY <2>2, <2>3, Zenon
<1> QED
  BY <1>1, <1>2

\* What the other controls offer could have been parsed.
LEMMA DraftChoices ==
  ASSUME NEW sec \in Sections, NEW f \in DOMAIN Defaults[sec], f \notin Widgets,
         NEW v \in Offered(f) \cup {ByDefault(sec, f)}
  PROVE  Proper(ParserOf(sec, f), Defaults[sec][f], v)
<1>1. ByDefault(sec, f) = Defaults[sec][f]
  BY DEF ByDefault, Widgets
<1> QED
  BY <1>1, ParserOfIs DEF Takes

\* A click keeps the menu well formed.
LEMMA WrittenFits ==
  ASSUME NEW u, MenuFits(u), NEW sec \in Sections, NEW f \in DOMAIN Defaults[sec],
         NEW v \in Offered(f) \cup {ByDefault(sec, f)}
  PROVE  /\ MenuFits(Written(u, sec, f, v))
         /\ Written(u, sec, f, v).initialized = u.initialized
<1> DEFINE w == Written(u, sec, f, v)
<1>1. CASE f \in Widgets
  <2> DEFINE e == [u.derived EXCEPT ![f] = v]
  <2>1. w = [initialized |-> u.initialized, dirty |-> u.dirty, draft |-> u.draft,
             derived |-> e]
    BY <1>1 DEF Written, MenuFits
  <2>2. e = [x \in Widgets |-> e[x]]
    BY DEF MenuFits, Widgetry
  <2>3. \A x \in Widgets : e[x] = IF x = f THEN v ELSE u.derived[x]
    BY DEF MenuFits, Widgetry
  <2>4. "logLevel" \in Widgets /\ DOMAIN TextWidgets \subseteq Widgets
    BY DEF Widgets
  <2>5. Widgetry(e)
    BY <1>1, <2>2, <2>3, <2>4, WidgetChoices DEF MenuFits, Widgetry
  <2> HIDE DEF e
  <2> QED
    BY <2>1, <2>5 DEF MenuFits
<1>2. CASE f \notin Widgets
  <2> DEFINE d == [u.draft EXCEPT ![sec] = [u.draft[sec] EXCEPT ![f] = v]]
  <2>1. w = [initialized |-> u.initialized, dirty |-> u.dirty, draft |-> d,
             derived |-> u.derived]
    BY <1>2 DEF Written, MenuFits
  <2>2. u.draft = [s \in Sections |-> [x \in DOMAIN Defaults[s] |-> u.draft[s][x]]]
    BY DEF MenuFits, Fit, IsSettings
  <2>3. IsSettings(d)
    BY <2>2 DEF IsSettings
  <2>4. \A s \in Sections : \A x \in DOMAIN Defaults[s] :
          d[s][x] = IF s = sec /\ x = f THEN v ELSE u.draft[s][x]
    BY <2>2
  <2>5. Fit(d)
    BY <1>2, <2>3, <2>4, DraftChoices DEF MenuFits, Fit
  <2> HIDE DEF d
  <2> QED
    BY <2>1, <2>5 DEF MenuFits
<1> QED
  BY <1>1, <1>2

\* A reset puts the named fields at their defaults, keeps the others, and
\* shows both; a settled draft stays settled.
LEMMA ResetFits ==
  ASSUME NEW u, MenuFits(u), NEW fields
  PROVE  LET r == ResetToDefaults(u, fields) IN
         /\ MenuFits(r)
         /\ r.initialized = u.initialized
         /\ \A sec \in Sections : \A f \in DOMAIN Defaults[sec] :
              r.draft[sec][f] = IF <<sec, f>> \in fields THEN Defaults[sec][f]
                                ELSE u.draft[sec][f]
         /\ r.derived = RebuildDerivedFromDraft(r.draft)
         /\ Settled(u.draft) => Settled(r.draft)
<1> DEFINE r == ResetToDefaults(u, fields)
           d == [sec \in Sections |->
                  [f \in DOMAIN u.draft[sec] |->
                    IF <<sec, f>> \in fields THEN Defaults[sec][f] ELSE u.draft[sec][f]]]
           e == RebuildDerivedFromDraft(d)
<1>1. r = [initialized |-> u.initialized, dirty |-> u.dirty, draft |-> d, derived |-> e]
  <2>1. r = [u EXCEPT !.draft = d, !.derived = e]
    BY Zenon DEF ResetToDefaults
  <2> HIDE DEF r, d, e
  <2> QED
    BY <2>1 DEF MenuFits
<1>2. \A sec \in Sections : DOMAIN u.draft[sec] = DOMAIN Defaults[sec]
  BY DEF MenuFits, Fit, IsSettings
<1>3. d = [sec \in Sections |->
            [f \in DOMAIN Defaults[sec] |->
              IF <<sec, f>> \in fields THEN Defaults[sec][f] ELSE u.draft[sec][f]]]
  BY <1>2
<1>4. \A sec \in Sections : \A f \in DOMAIN Defaults[sec] :
        d[sec][f] = IF <<sec, f>> \in fields THEN Defaults[sec][f] ELSE u.draft[sec][f]
  BY <1>3
<1>5. IsSettings(d)
  BY <1>3 DEF IsSettings
<1> HIDE DEF d
<1>6. Fit(d)
  BY <1>4, <1>5, ParserOfIs DEF MenuFits, Fit
<1>7. Widgetry(e)
  BY RebuildIsWidgetry
<1>8. Settled(u.draft) => Settled(d)
  BY <1>4, DefaultsSettle DEF Settled
<1> HIDE DEF e, r
<1>9. /\ r.initialized = u.initialized /\ r.dirty = u.dirty
      /\ r.draft = d /\ r.derived = e
  BY <1>1
<1>10. MenuFits(r)
  BY <1>1, <1>6, <1>7, <1>9 DEF MenuFits
<1> QED
  BY <1>4, <1>8, <1>9, <1>10 DEF e, r

\* The fields a page's reset names are those of the sections its offer looks
\* at, no more and no fewer.
LEMMA ResetPages ==
  ASSUME NEW page \in Pages
  PROVE  /\ PageSections[page] \subseteq Sections
         /\ \A sec \in Sections : \A f \in DOMAIN Defaults[sec] :
              <<sec, f>> \in ResetFields[page] <=> sec \in PageSections[page]
<1> DEFINE Covers(fields, sections) ==
      /\ sections \subseteq Sections
      /\ \A sec \in Sections : \A f \in DOMAIN Defaults[sec] :
           <<sec, f>> \in fields <=> sec \in sections
<1>1. ASSUME NEW S \in SUBSET Sections PROVE Covers(All(S), S)
  BY DEF All
<1>2. Covers(ResetSystem, PageSections["system"])
  <2>1. DOMAIN Defaults["core"] = {"enableMod"}
    BY DEF Defaults, Core, On
  <2>2. ResetSystem = All({"core", "uiFeedback", "logging"})
    BY <2>1 DEF ResetSystem, All
  <2> QED
    BY <1>1, <2>2, SectionsAre DEF PageSections
<1>3. Covers(ResetScopeAndAccess, PageSections["scope"])
  <2>1. /\ Defaults["actorScope"] = ActorScope
        /\ Defaults["quickTrade"] = QuickTrade
    BY DEF Defaults
  <2>2. DOMAIN ActorScope = {"affectFormerFollowers", "includeInclusionActors",
                             "includePlayerSummons"}
    BY DEF ActorScope, On
  <2>3. DOMAIN QuickTrade = {"enableQuickTrade", "enableQuickTradeForFollowers",
                 "enableQuickTradeForFormerFollowers",
                 "enableQuickTradeForPlayerSummons",
                 "enableQuickTradeForInclusionActors",
                 "enableQuickTradeForKNoneActors", "enableQuickTradeForMounts",
                 "quickTradeAllWorldMounts"}
    BY DEF QuickTrade, On, Off, ++
  <2>4. ResetScopeAndAccess = All({"actorScope", "quickTrade"})
    BY <2>1, <2>2, <2>3 DEF ResetScopeAndAccess, All
  <2> QED
    BY <1>1, <2>4, SectionsAre DEF PageSections
<1>4. /\ Covers(ResetControlsAndUI, PageSections["controls"])
      /\ Covers(ResetEquipMode, PageSections["equipMode"])
  BY <1>1, SectionsAre DEF PageSections, ResetControlsAndUI, ResetEquipMode
<1>5. /\ Covers(ResetCombatEquip, PageSections["combat"])
      /\ Covers(ResetEquipStability, PageSections["stability"])
  BY <1>1, SectionsAre DEF PageSections, ResetCombatEquip, ResetEquipStability
<1>6. /\ Covers(ResetExtraFeatures, PageSections["extra"])
      /\ Covers(ResetFixes, PageSections["fixes"])
  BY <1>1, SectionsAre DEF PageSections, ResetExtraFeatures, ResetFixes
<1> HIDE DEF Covers
<1>7. Pages = {"system", "scope", "controls", "equipMode", "combat", "stability", "extra", "fixes"}
  BY DEF Pages, Page
<1>8. Covers(ResetFields[page], PageSections[page])
  BY <1>2, <1>3, <1>4, <1>5, <1>6, <1>7 DEF ResetFields
<1> QED
  BY <1>8 DEF Covers

----------------------------------------------------------------------------
\* The features.

\* The features whose Install looks at their own setting.
GatedNames == DOMAIN Gated(Defaults)

\* The features the equip-mode router installs.
OwnedNames == DOMAIN RouterOwned(Defaults)

\* The runtime record, with known features only.
RuntimeFits(rt) ==
  /\ rt = [installed |-> rt.installed, consumables |-> rt.consumables,
           poison |-> rt.poison, gate |-> rt.gate, level |-> rt.level]
  /\ rt.installed \subseteq {"router"} \cup GatedNames \cup OwnedNames

\* The features and the options they cached are those of the settings.
Runs(rt, s) ==
  IF s["core"]["enableMod"]
  THEN /\ rt.installed = {"router"} \cup Wanted(Gated(s)) \cup Wanted(RouterOwned(s))
       /\ rt.gate = s["equipGate"]
       /\ RouterOwned(s)["consumableMode"] => rt.consumables = s["equipModeConsumableMode"]
       /\ RouterOwned(s)["poisonMode"] => rt.poison = s["equipModePoisonMode"]["mode"]
  ELSE rt.installed = {}

\* With the log level.
Follows(rt, s) == rt.level = ParseLogLevel(s["logging"]["logLevel"]) /\ Runs(rt, s)

\* The two kinds of features, and the router, are apart.
LEMMA FeatureTables ==
  /\ \A s : DOMAIN Gated(s) = GatedNames /\ DOMAIN RouterOwned(s) = OwnedNames
  /\ GatedNames \cap OwnedNames = {}
  /\ "router" \notin GatedNames \cup OwnedNames
  /\ {"consumableMode", "poisonMode", "staleWeightCacheFix"} \subseteq OwnedNames
  BY DEF GatedNames, OwnedNames, Gated, RouterOwned

\* Which features settings ask for.
LEMMA WantedFeatures ==
  ASSUME NEW s
  PROVE  /\ Wanted(Gated(s)) \subseteq GatedNames
         /\ Wanted(RouterOwned(s)) \subseteq OwnedNames
         /\ "consumableMode" \in Wanted(RouterOwned(s)) <=> RouterOwned(s)["consumableMode"]
         /\ "poisonMode" \in Wanted(RouterOwned(s)) <=> RouterOwned(s)["poisonMode"]
         /\ "staleWeightCacheFix" \in Wanted(RouterOwned(s))
              <=> s["engineFixes"]["enableStaleWeightCacheFix"]
<1>1. Wanted(Gated(s)) \subseteq GatedNames /\ Wanted(RouterOwned(s)) \subseteq OwnedNames
  BY FeatureTables DEF Wanted
<1>2. \A f \in OwnedNames : f \in Wanted(RouterOwned(s)) <=> RouterOwned(s)[f]
  BY FeatureTables, Zenon DEF Wanted
<1>3. RouterOwned(s)["staleWeightCacheFix"] = s["engineFixes"]["enableStaleWeightCacheFix"]
  BY DEF RouterOwned
<1> QED
  BY <1>1, <1>2, <1>3, FeatureTables, Zenon

\* The router's first install, and its later ones that change nothing.
LEMMA WithRouterIs ==
  ASSUME NEW rt, RuntimeFits(rt), NEW s
  PROVE  LET r == WithRouter(rt, s)
             new == Wanted(RouterOwned(s)) \ rt.installed IN
         /\ RuntimeFits(r)
         /\ r.level = rt.level /\ r.gate = rt.gate
         /\ "router" \in rt.installed => r = rt
         /\ "router" \notin rt.installed =>
              /\ r.installed = (rt.installed \cup new \cup {"router"})
                               \ (IF s["engineFixes"]["enableStaleWeightCacheFix"] THEN {}
                                  ELSE {"staleWeightCacheFix"})
              /\ r.consumables = IF "consumableMode" \in new
                                 THEN s["equipModeConsumableMode"] ELSE rt.consumables
              /\ r.poison = IF "poisonMode" \in new
                            THEN s["equipModePoisonMode"]["mode"] ELSE rt.poison
<1> DEFINE r == WithRouter(rt, s)
           new == Wanted(RouterOwned(s)) \ rt.installed
           i == (rt.installed \cup new \cup {"router"})
                               \ (IF s["engineFixes"]["enableStaleWeightCacheFix"] THEN {}
                                  ELSE {"staleWeightCacheFix"})
           c == IF "consumableMode" \in new
                                 THEN s["equipModeConsumableMode"] ELSE rt.consumables
           p == IF "poisonMode" \in new
                            THEN s["equipModePoisonMode"]["mode"] ELSE rt.poison
<1>1. CASE "router" \in rt.installed
  <2>1. r = rt
    BY <1>1, Zenon DEF WithRouter
  <2> QED
    BY <1>1, <2>1
<1>2. CASE "router" \notin rt.installed
  <2>1. r = [rt EXCEPT !.installed = i, !.consumables = c, !.poison = p]
    BY <1>2, Zenon DEF WithRouter
  <2>2. i \subseteq {"router"} \cup GatedNames \cup OwnedNames
    BY WantedFeatures DEF RuntimeFits
  <2> HIDE DEF r, i, c, p
  <2>3. r = [installed |-> i, consumables |-> c, poison |-> p, gate |-> rt.gate,
             level |-> rt.level]
    BY <2>1 DEF RuntimeFits
  <2>4. /\ r.installed = i /\ r.consumables = c /\ r.poison = p
        /\ r.gate = rt.gate /\ r.level = rt.level
    BY <2>3
  <2>5. RuntimeFits(r)
    BY <2>2, <2>3, <2>4 DEF RuntimeFits
  <2> QED
    BY <1>2, <2>4, <2>5 DEF r, i, c, p
<1> QED
  BY <1>1, <1>2

\* Installing all features, in terms of the router's install.
LEMMA InstallIs ==
  ASSUME NEW rt, RuntimeFits(rt), NEW s
  PROVE  LET n == InstallAllFeatures(rt, s)
             r == WithRouter(rt, s) IN
         /\ RuntimeFits(n)
         /\ n.level = rt.level
         /\ s["core"]["enableMod"] =>
              /\ n.installed = (r.installed \ GatedNames) \cup Wanted(Gated(s))
              /\ n.gate = s["equipGate"]
              /\ n.consumables = r.consumables /\ n.poison = r.poison
         /\ ~s["core"]["enableMod"] => n.installed = {}
<1> DEFINE n == InstallAllFeatures(rt, s)
           r == WithRouter(rt, s)
           i == (r.installed \ GatedNames) \cup Wanted(Gated(s))
<1>1. CASE s["core"]["enableMod"]
  <2>1. n = [r EXCEPT !.installed = (@ \ DOMAIN Gated(s)) \cup Wanted(Gated(s)),
                      !.gate = s["equipGate"]]
    BY <1>1, Zenon DEF InstallAllFeatures
  <2>2. RuntimeFits(r) /\ r.level = rt.level
    BY WithRouterIs
  <2>3. DOMAIN Gated(s) = GatedNames
    BY FeatureTables
  <2>4. i \subseteq {"router"} \cup GatedNames \cup OwnedNames
    BY <2>2, WantedFeatures DEF RuntimeFits
  <2> HIDE DEF n, r
  <2>5. n = [installed |-> i, consumables |-> r.consumables, poison |-> r.poison,
             gate |-> s["equipGate"], level |-> rt.level]
    BY <2>1, <2>2, <2>3 DEF RuntimeFits
  <2> HIDE DEF i
  <2>6. /\ n.installed = i /\ n.consumables = r.consumables /\ n.poison = r.poison
        /\ n.gate = s["equipGate"] /\ n.level = rt.level
    BY <2>5
  <2>7. RuntimeFits(n)
    BY <2>4, <2>5, <2>6 DEF RuntimeFits
  <2> QED
    BY <1>1, <2>6, <2>7 DEF n, r, i
<1>2. CASE ~s["core"]["enableMod"]
  <2>1. n = [rt EXCEPT !.installed = {}]
    BY <1>2, Zenon DEF InstallAllFeatures
  <2> HIDE DEF n
  <2>2. n = [installed |-> {}, consumables |-> rt.consumables, poison |-> rt.poison,
             gate |-> rt.gate, level |-> rt.level]
    BY <2>1 DEF RuntimeFits
  <2>3. n.installed = {} /\ n.level = rt.level
    BY <2>2
  <2>4. RuntimeFits(n)
    BY <2>2 DEF RuntimeFits
  <2> QED
    BY <1>2, <2>3, <2>4 DEF n
<1> QED
  BY <1>1, <1>2

\* From nothing installed, an install runs what the settings ask for.
LEMMA FreshInstallRuns ==
  ASSUME NEW rt, RuntimeFits(rt), rt.installed = {}, NEW s
  PROVE  Runs(InstallAllFeatures(rt, s), s)
<1> DEFINE r == WithRouter(rt, s)
           n == InstallAllFeatures(rt, s)
           owned == Wanted(RouterOwned(s))
<1>1. CASE s["core"]["enableMod"]
  <2>1. /\ n.installed = (r.installed \ GatedNames) \cup Wanted(Gated(s))
        /\ n.gate = s["equipGate"]
        /\ n.consumables = r.consumables /\ n.poison = r.poison
    BY <1>1, InstallIs
  <2>2. owned \ rt.installed = owned /\ rt.installed \cup owned = owned
    OBVIOUS
  <2>3. /\ r.installed = (owned \cup {"router"})
                         \ (IF s["engineFixes"]["enableStaleWeightCacheFix"] THEN {}
                            ELSE {"staleWeightCacheFix"})
        /\ r.consumables = IF "consumableMode" \in owned
                           THEN s["equipModeConsumableMode"] ELSE rt.consumables
        /\ r.poison = IF "poisonMode" \in owned
                      THEN s["equipModePoisonMode"]["mode"] ELSE rt.poison
    BY <2>2, WithRouterIs
  <2> HIDE DEF r, n, owned
  <2>4. /\ owned \subseteq OwnedNames
        /\ "consumableMode" \in owned <=> RouterOwned(s)["consumableMode"]
        /\ "poisonMode" \in owned <=> RouterOwned(s)["poisonMode"]
        /\ "staleWeightCacheFix" \in owned <=> s["engineFixes"]["enableStaleWeightCacheFix"]
    BY WantedFeatures DEF owned
  <2>5. r.installed = owned \cup {"router"}
    BY <2>3, <2>4
  <2>6. n.installed = {"router"} \cup Wanted(Gated(s)) \cup owned
    BY <2>1, <2>4, <2>5, FeatureTables, WantedFeatures
  <2>7. /\ RouterOwned(s)["consumableMode"] => n.consumables = s["equipModeConsumableMode"]
        /\ RouterOwned(s)["poisonMode"] => n.poison = s["equipModePoisonMode"]["mode"]
    BY <2>1, <2>3, <2>4
  <2> QED
    BY <1>1, <2>1, <2>6, <2>7 DEF Runs, n, owned
<1>2. CASE ~s["core"]["enableMod"]
  BY <1>2, InstallIs DEF Runs
<1> QED
  BY <1>1, <1>2

\* A second install under the same settings keeps what runs.
LEMMA InstallAgainRuns ==
  ASSUME NEW rt, RuntimeFits(rt), NEW s, Runs(rt, s)
  PROVE  Runs(InstallAllFeatures(rt, s), s)
<1> DEFINE n == InstallAllFeatures(rt, s)
<1>1. CASE s["core"]["enableMod"]
  <2>1. rt.installed = {"router"} \cup Wanted(Gated(s)) \cup Wanted(RouterOwned(s))
    BY <1>1 DEF Runs
  <2>2. WithRouter(rt, s) = rt
    BY <2>1, WithRouterIs
  <2>3. /\ n.installed = (rt.installed \ GatedNames) \cup Wanted(Gated(s))
        /\ n.gate = s["equipGate"]
        /\ n.consumables = rt.consumables /\ n.poison = rt.poison
    BY <1>1, <2>2, InstallIs
  <2> HIDE DEF n
  <2>4. n.installed = rt.installed
    BY <2>1, <2>3, FeatureTables, WantedFeatures
  <2> QED
    BY <1>1, <2>3, <2>4 DEF Runs, n
<1>2. CASE ~s["core"]["enableMod"]
  BY <1>2, InstallIs DEF Runs
<1> QED
  BY <1>1, <1>2

\* Applying settings runs what they ask for, whatever ran before.
LEMMA ApplyFollows ==
  ASSUME NEW rt, RuntimeFits(rt), NEW s
  PROVE  /\ RuntimeFits(ApplyRuntime(rt, s))
         /\ Follows(ApplyRuntime(rt, s), s)
<1> DEFINE level == ParseLogLevel(s["logging"]["logLevel"])
           l == [rt EXCEPT !.level = level]
           owned == RouterOwned(s)
           i == (rt.installed \ OwnedNames) \cup Wanted(owned)
           c == IF owned["consumableMode"] THEN s["equipModeConsumableMode"]
                ELSE rt.consumables
           p == IF owned["poisonMode"] THEN s["equipModePoisonMode"]["mode"] ELSE rt.poison
           a == [installed |-> i, consumables |-> c, poison |-> p, gate |-> s["equipGate"],
                 level |-> level]
<1> HIDE DEF level, owned, c, p
<1>1. l = [installed |-> rt.installed, consumables |-> rt.consumables, poison |-> rt.poison,
           gate |-> rt.gate, level |-> level]
  BY DEF RuntimeFits
<1>2. RuntimeFits(l) /\ l.level = level
  BY <1>1 DEF RuntimeFits
<1>3. CASE ~s["core"]["enableMod"]
  <2>1. ApplyRuntime(rt, s) = InstallAllFeatures(l, s)
    BY <1>3, Zenon DEF ApplyRuntime, level
  <2> HIDE DEF l
  <2>2. RuntimeFits(InstallAllFeatures(l, s)) /\ InstallAllFeatures(l, s).level = level
    BY <1>2, InstallIs
  <2>3. InstallAllFeatures(l, s).installed = {}
    BY <1>2, <1>3, InstallIs
  <2>4. Runs(InstallAllFeatures(l, s), s)
    BY <1>3, <2>3, Zenon DEF Runs
  <2> QED
    BY <2>1, <2>2, <2>4, Zenon DEF Follows, level
<1>4. CASE s["core"]["enableMod"]
  <2> DEFINE b == [l EXCEPT !.installed = (@ \ DOMAIN owned) \cup Wanted(owned),
                            !.consumables = IF owned["consumableMode"]
                                            THEN s["equipModeConsumableMode"] ELSE @,
                            !.poison = IF owned["poisonMode"]
                                       THEN s["equipModePoisonMode"]["mode"] ELSE @,
                            !.gate = s["equipGate"]]
  <2>1. ApplyRuntime(rt, s) = InstallAllFeatures(b, s)
    BY <1>4, Zenon DEF ApplyRuntime, level, owned
  <2>2. DOMAIN owned = OwnedNames
    BY FeatureTables DEF owned
  <2>3. b = a
    <3>1. l.consumables = rt.consumables /\ l.poison = rt.poison
          /\ l.installed = rt.installed
      BY <1>1
    <3>2. b = [l EXCEPT !.installed = i, !.consumables = c, !.poison = p,
                        !.gate = s["equipGate"]]
      BY <2>2, <3>1, Zenon DEF c, p
    <3> HIDE DEF b, l, i
    <3> QED
      BY <1>1, <3>2
  <2>4. ApplyRuntime(rt, s) = InstallAllFeatures(a, s)
    BY <2>1, <2>3, Zenon
  <2>5. /\ a.installed = i /\ a.consumables = c /\ a.poison = p
        /\ a.gate = s["equipGate"] /\ a.level = level
    OBVIOUS
  <2>6. RuntimeFits(a)
    BY WantedFeatures DEF RuntimeFits, owned
  <2> DEFINE r == WithRouter(a, s)
             n == InstallAllFeatures(a, s)
  <2>7. /\ RuntimeFits(n) /\ n.level = level /\ n.gate = s["equipGate"]
        /\ n.installed = (r.installed \ GatedNames) \cup Wanted(Gated(s))
        /\ n.consumables = r.consumables /\ n.poison = r.poison
    <3>1. a.level = level
      BY <2>5
    <3> HIDE DEF a
    <3> QED
      BY <1>4, <2>6, <3>1, InstallIs
  <2>8. /\ r.installed = i \cup {"router"}
        /\ r.consumables = c /\ r.poison = p
    <3>1. CASE "router" \in i
      <4>1. r = a
        BY <2>5, <2>6, <3>1, WithRouterIs
      <4> QED
        BY <2>5, <3>1, <4>1
    <3>2. CASE "router" \notin i
      <4>1. Wanted(RouterOwned(s)) \ i = {}
        BY DEF owned
      <4>2. "staleWeightCacheFix" \in i <=> s["engineFixes"]["enableStaleWeightCacheFix"]
        BY WantedFeatures, FeatureTables DEF owned
      <4>3. "staleWeightCacheFix" # "router"
        OBVIOUS
      <4>4. "consumableMode" \notin {} /\ "poisonMode" \notin {}
        OBVIOUS
      <4>5. a.installed = i /\ a.consumables = c /\ a.poison = p
        OBVIOUS
      <4> HIDE DEF i, a, r
      <4>6. /\ r.installed = (i \cup {} \cup {"router"})
                               \ (IF s["engineFixes"]["enableStaleWeightCacheFix"] THEN {}
                                  ELSE {"staleWeightCacheFix"})
            /\ r.consumables = IF "consumableMode" \in {}
                               THEN s["equipModeConsumableMode"] ELSE c
            /\ r.poison = IF "poisonMode" \in {}
                          THEN s["equipModePoisonMode"]["mode"] ELSE p
        BY <2>6, <3>2, <4>1, <4>5, WithRouterIs, Zenon DEF r
      <4> QED
        BY <4>2, <4>3, <4>6
    <3> QED
      BY <3>1, <3>2
  <2>9. n.installed = {"router"} \cup Wanted(Gated(s)) \cup Wanted(RouterOwned(s))
    BY <2>7, <2>8, FeatureTables, WantedFeatures DEF RuntimeFits, owned
  <2> HIDE DEF r, n, a, i
  <2>10. Follows(n, s)
    BY <1>4, <2>7, <2>8, <2>9 DEF Follows, Runs, level, c, p, owned
  <2> QED
    BY <2>4, <2>7, <2>10 DEF n
<1> QED
  BY <1>3, <1>4

----------------------------------------------------------------------------
\* The inductive invariant of the settings menu.

\* The key of the log level, and its default.
LEMMA LogLevelKey ==
  /\ KeyOf["logging"]["logLevel"] = "logLevel"
  /\ Loaders["logging"]["logLevel"] = <<"logLevel", "text">>
  /\ "logLevel" \in DOMAIN Loaders["logging"]
  /\ Defaults["logging"]["logLevel"] = "info"
<1>1. Loaders["logging"] = [f \in {"logLevel"} |-> <<f, "text">>]
  BY DEF Loaders, LoadLogging, Reads
<1>2. KeyOf["logging"]["logLevel"] \in DOMAIN Loaders["logging"]
  BY LogLevelIsText, KeyOfReads
<1>3. Defaults["logging"]["logLevel"] = "info"
  BY DEF Defaults, Logging
<1> QED
  BY <1>1, <1>2, <1>3

\* No log level means the default one.
LEMMA ParseLogLevelOfNothing == ParseLogLevel("info") = "info" /\ ParseLogLevel("") = "info"
<1>1. ParseLogLevel("info") = "info"
  BY DEF ParseLogLevel
<1>2. "" \notin {"warn", "warning"} /\ "" \notin {"err", "error"}
      /\ "" \notin {"trace", "debug", "info", "critical", "off"}
  BY Zenon
<1>3. ParseLogLevel("") = "info"
  BY <1>2, Zenon DEF ParseLogLevel
<1> QED
  BY <1>1, <1>3

\* The logger's look into the file.
LEMMA LoggerReadsTheSame ==
  ASSUME NEW f, FileFits(f)
  PROVE  LoadConfiguredLogLevel(f) = ParseLogLevel(Load(f)["logging"]["logLevel"])
<1> DEFINE t == f["logging"]["logLevel"]
           l == Load(f)["logging"]["logLevel"]
<1>1. CASE "logging" \in DOMAIN f /\ "logLevel" \in DOMAIN f["logging"]
  <2>1. l = Parsed("text", t, "info")
    BY <1>1, LogLevelKey, LogLevelIsText DEF Load
  <2>2. l = ParseText(t, "info")
    BY <2>1 DEF Parsed
  <2>3. t = Word(t[2])
    BY <1>1, LogLevelKey, LogLevelIsText DEF FileFits, Readable
  <2>4. LoadConfiguredLogLevel(f) = ParseLogLevel(t[2])
    BY <1>1, Zenon DEF LoadConfiguredLogLevel
  <2> HIDE DEF t, l
  <2>5. t[1] = "word"
    BY <2>3 DEF Word
  <2>6. CASE t[2] # ""
    BY <2>2, <2>4, <2>5, <2>6, Zenon DEF ParseText, l
  <2>7. CASE t[2] = ""
    BY <2>2, <2>4, <2>7, ParseLogLevelOfNothing, Zenon DEF ParseText, l
  <2> QED
    BY <2>6, <2>7
<1>2. CASE ~("logging" \in DOMAIN f /\ "logLevel" \in DOMAIN f["logging"])
  <2>1. l = "info"
    BY <1>2, LogLevelKey, LogLevelIsText DEF Load
  <2>2. LoadConfiguredLogLevel(f) = "info"
    BY <1>2, Zenon DEF LoadConfiguredLogLevel
  <2> QED
    BY <2>1, <2>2, ParseLogLevelOfNothing, Zenon
<1> QED
  BY <1>1, <1>2

\* What a load finds after it made the file if it could.
LEMMA EnsuredFile ==
  ASSUME NEW f, FileFits(f), NEW g \in EnsureIniExistsWithDefaults(f)
  PROVE  FileFits(g) /\ Load(g) = Load(f)
<1>1. CASE f = NoFile
  <2>1. g = NoFile \/ g = DefaultIniContents(Defaults)
    BY <1>1 DEF EnsureIniExistsWithDefaults
  <2> QED
    BY <1>1, <2>1, NoFileGivesDefaults, DefaultsFit, IniContentsFit, RoundTrip
<1>2. CASE f # NoFile
  BY <1>2 DEF EnsureIniExistsWithDefaults
<1> QED
  BY <1>1, <1>2

\* A file that does not open is as good as none.
LEMMA OpenedFits ==
  ASSUME NEW f, FileFits(f), NEW opens \in BOOLEAN
  PROVE  FileFits(Opened(f, opens)) /\ (opens => Opened(f, opens) = f)
  BY NoFileGivesDefaults DEF Opened

\* The shapes of everything: settings that could have been parsed, a
\* readable file, a well-formed menu, known features.
TypesHold ==
  /\ Fit(config) /\ FileFits(file) /\ MenuFits(ui) /\ RuntimeFits(runtime)
  /\ game \in {"on", "off"} /\ group \in Groups /\ reset \in Pages \cup {"none"}
  /\ ghost \in Ghosts

\* Unless the file was touched by others or cut short, it holds the settings
\* in force.
FileIsInForce == (InMenu /\ ~ghost.unread) => Load(file) = config

\* The mark for unsaved changes is up exactly when the draft differs from
\* the settings in force, and a commit of the widgets that show the draft
\* would leave it alone.
MenuShows ==
  IF ui.initialized
  THEN /\ ui.dirty <=> ui.draft # config
       /\ Settled(ui.draft)
  ELSE ui = FreshUI

\* While the game is off nothing is in memory.
OffIsFresh ==
  game = "off" =>
    config = Defaults /\ ui = FreshUI /\ runtime = NothingRuns /\ reset = "none"

\* After a reset its page has nothing left to reset.
ResetHolds == reset # "none" => ~CanResetAll(reset)

\* The inductive invariant.
SettingsInv ==
  TypesHold /\ FileIsInForce /\ MenuShows /\ OffIsFresh /\ ResetHolds
  /\ RuntimeFollowsSettings

----------------------------------------------------------------------------
\* The steps of the menu.

\* The property, in the terms of the lemmas.
LEMMA RuntimeFollowsIs ==
  RuntimeFollowsSettings <=> ((InMenu /\ ~ghost.unapplied) => Follows(runtime, config))
  BY DEF RuntimeFollowsSettings, Follows, Runs

\* The runtime before the first install.
LEMMA NothingRunsFits ==
  ASSUME NEW level
  PROVE  LET rt == [NothingRuns EXCEPT !.level = level] IN
         RuntimeFits(NothingRuns) /\ RuntimeFits(rt) /\ rt.installed = {} /\ rt.level = level
  BY DEF NothingRuns, RuntimeFits

\* What every frame of the menu that ends has to show.
LEMMA FrameKeeps ==
  ASSUME SettingsInv, InMenu, game' = game, group' = group,
         \E u : MenuFits(u) /\ u.initialized /\ ui' = Ended(u, config'),
         Fit(config'), FileFits(file'), RuntimeFits(runtime'), ghost' \in Ghosts,
         reset' \in Pages \cup {"none"},
         FileIsInForce', ResetHolds', RuntimeFollowsSettings'
  PROVE  SettingsInv'
<1>1. PICK u : MenuFits(u) /\ u.initialized /\ ui' = Ended(u, config')
  OBVIOUS
<1>2. /\ MenuFits(ui') /\ ui'.initialized
      /\ ui'.dirty <=> ui'.draft # config'
      /\ Settled(ui'.draft)
  BY <1>1, EndedIs
<1>3. MenuShows'
  BY <1>2 DEF MenuShows
<1>4. TypesHold'
  BY <1>2 DEF SettingsInv, TypesHold
<1>5. OffIsFresh'
  BY DEF InMenu, OffIsFresh
<1> QED
  BY <1>3, <1>4, <1>5 DEF SettingsInv

\* A frame without a click keeps the invariant: the commit at its end finds
\* the draft settled.
LEMMA DrawKeeps ==
  ASSUME SettingsInv, Draw
  PROVE  SettingsInv'
<1>1. MenuFits(Begun) /\ Begun.initialized
  BY BegunFits DEF SettingsInv, TypesHold
<1>2. \E u : MenuFits(u) /\ u.initialized /\ ui' = Ended(u, config')
  BY <1>1 DEF Draw
<1>3. FileIsInForce' /\ ResetHolds' /\ RuntimeFollowsSettings'
  BY DEF SettingsInv, Draw, FileIsInForce, ResetHolds, RuntimeFollowsSettings, InMenu
<1> QED
  BY <1>2, <1>3, FrameKeeps DEF SettingsInv, TypesHold, Draw

\* The controls of a page that are modelled stand for settings.
LEMMA PagesHaveSettings ==
  \A page \in Pages : \A c \in Page[page] : \A g \in Groups :
    <<c[1], c[2]>> \in g => c[1] \in Sections /\ c[2] \in DOMAIN Defaults[c[1]]
  BY SettingsConstants

\* A click keeps the invariant.
LEMMA UseKeeps ==
  ASSUME SettingsInv, Use
  PROVE  SettingsInv'
<1>1. MenuFits(Begun) /\ Begun.initialized
  BY BegunFits DEF SettingsInv, TypesHold
<1>2. PICK page \in Pages : \E control \in Page[page] :
        /\ <<control[1], control[2]>> \in group
        /\ \E v \in Offered(control[2]) \cup {ByDefault(control[1], control[2])} :
             ui' = Ended(Written(Begun, control[1], control[2], v), config)
  BY DEF Use
<1>3. PICK control \in Page[page] :
        /\ <<control[1], control[2]>> \in group
        /\ \E v \in Offered(control[2]) \cup {ByDefault(control[1], control[2])} :
             ui' = Ended(Written(Begun, control[1], control[2], v), config)
  BY <1>2
<1>4. PICK v \in Offered(control[2]) \cup {ByDefault(control[1], control[2])} :
        ui' = Ended(Written(Begun, control[1], control[2], v), config)
  BY <1>3
<1>5. control[1] \in Sections /\ control[2] \in DOMAIN Defaults[control[1]]
  BY <1>3, PagesHaveSettings DEF SettingsInv, TypesHold
<1>6. /\ MenuFits(Written(Begun, control[1], control[2], v))
      /\ Written(Begun, control[1], control[2], v).initialized
  BY <1>1, <1>5, WrittenFits
<1>7. \E u : MenuFits(u) /\ u.initialized /\ ui' = Ended(u, config')
  BY <1>4, <1>6 DEF Use
<1>8. FileIsInForce' /\ ResetHolds' /\ RuntimeFollowsSettings'
  BY DEF SettingsInv, Use, FileIsInForce, ResetHolds, RuntimeFollowsSettings, InMenu
<1> QED
  BY <1>7, <1>8, FrameKeeps DEF SettingsInv, TypesHold, Use

\* What Reset all does to the draft, under the invariant.
LEMMA ResetAllIs ==
  ASSUME SettingsInv, NEW page \in Pages, CanResetAll(page)
  PROVE  LET r == ResetToDefaults(Begun, ResetFields[page])
             e == Ended(r, config) IN
         /\ MenuFits(r) /\ r.initialized
         /\ \A sec \in Sections :
              e.draft[sec] = IF sec \in PageSections[page] THEN Defaults[sec]
                             ELSE ui.draft[sec]
<1> DEFINE r == ResetToDefaults(Begun, ResetFields[page])
           e == Ended(r, config)
<1>1. MenuFits(ui) /\ Fit(config)
  BY DEF SettingsInv, TypesHold
<1>2. ui.initialized
  BY FreshFits, ResetPages DEF SettingsInv, MenuShows, CanResetAll
<1>3. Begun = ui
  BY <1>1, <1>2, BegunFits
<1>4. Settled(ui.draft)
  BY <1>2 DEF SettingsInv, MenuShows
<1>5. /\ MenuFits(r) /\ r.initialized
      /\ \A sec \in Sections : \A f \in DOMAIN Defaults[sec] :
           r.draft[sec][f] = IF <<sec, f>> \in ResetFields[page] THEN Defaults[sec][f]
                             ELSE ui.draft[sec][f]
      /\ r.derived = RebuildDerivedFromDraft(r.draft)
      /\ Settled(r.draft)
  BY <1>1, <1>2, <1>3, <1>4, ResetFits
<1> HIDE DEF r
<1>6. e.draft = r.draft
  <2>1. e.draft = CommitDerivedToDraft(r.draft, r.derived)
    BY <1>5, EndedIs
  <2>2. IsSettings(r.draft)
    BY <1>5 DEF MenuFits, Fit
  <2> HIDE DEF e
  <2> QED
    BY <1>5, <2>1, <2>2, CommitKeepsSettled
<1>7. ASSUME NEW sec \in Sections
      PROVE  e.draft[sec] = IF sec \in PageSections[page] THEN Defaults[sec]
                            ELSE ui.draft[sec]
  <2>1. /\ r.draft[sec] = [f \in DOMAIN Defaults[sec] |-> r.draft[sec][f]]
        /\ ui.draft[sec] = [f \in DOMAIN Defaults[sec] |-> ui.draft[sec][f]]
        /\ Defaults[sec] = [f \in DOMAIN Defaults[sec] |-> Defaults[sec][f]]
    BY <1>1, <1>5, DefaultsAreSettings DEF MenuFits, Fit, IsSettings
  <2>2. CASE sec \in PageSections[page]
    <3>1. [f \in DOMAIN Defaults[sec] |-> r.draft[sec][f]]
            = [f \in DOMAIN Defaults[sec] |-> Defaults[sec][f]]
      BY <1>5, <2>2, ResetPages
    <3> QED
      BY <1>6, <2>1, <2>2, <3>1
  <2>3. CASE sec \notin PageSections[page]
    <3>1. [f \in DOMAIN Defaults[sec] |-> r.draft[sec][f]]
            = [f \in DOMAIN Defaults[sec] |-> ui.draft[sec][f]]
      BY <1>5, <2>3, ResetPages
    <3> QED
      BY <1>6, <2>1, <2>3, <3>1
  <2> QED
    BY <2>2, <2>3
<1> QED
  BY <1>5, <1>7 DEF r

\* Reset all keeps the invariant, leaves its page nothing to reset, and the
\* draft's other sections as they were.
LEMMA ResetAllKeeps ==
  ASSUME SettingsInv, ResetAll
  PROVE  /\ SettingsInv'
         /\ (~CanResetAll(reset))'
         /\ \A sec \in Sections \ PageSections[reset'] : ui'.draft[sec] = ui.draft[sec]
<1>1. PICK page \in Pages :
        /\ CanResetAll(page)
        /\ ui' = Ended(ResetToDefaults(Begun, ResetFields[page]), config)
        /\ reset' = page
  BY DEF ResetAll
<1>2. \A sec \in Sections :
        ui'.draft[sec] = IF sec \in PageSections[page] THEN Defaults[sec]
                         ELSE ui.draft[sec]
  BY <1>1, ResetAllIs
<1>3. (~CanResetAll(reset))'
  BY <1>1, <1>2, ResetPages DEF CanResetAll
<1>4. \A sec \in Sections \ PageSections[reset'] : ui'.draft[sec] = ui.draft[sec]
  BY <1>1, <1>2
<1>5. \E u : MenuFits(u) /\ u.initialized /\ ui' = Ended(u, config')
  BY <1>1, ResetAllIs DEF ResetAll
<1>6. FileIsInForce' /\ RuntimeFollowsSettings'
  BY DEF SettingsInv, ResetAll, FileIsInForce, RuntimeFollowsSettings, InMenu
<1>7. ResetHolds'
  BY <1>3 DEF ResetHolds
<1>8. SettingsInv'
  BY <1>1, <1>5, <1>6, <1>7, FrameKeeps DEF SettingsInv, TypesHold, ResetAll
<1> QED
  BY <1>3, <1>4, <1>8

\* Revert keeps the invariant: the file's settings are in force and shown.
LEMMA RevertKeeps ==
  ASSUME SettingsInv, Revert
  PROVE  SettingsInv'
<1>1. FileFits(file') /\ Load(file') = Load(file)
  BY EnsuredFile DEF SettingsInv, TypesHold, Revert
<1>2. PICK opens \in BOOLEAN :
        /\ config' = Load(Opened(file', opens))
        /\ ghost' = [ghost EXCEPT !.unread = ~opens,
                                 !.unapplied = @ \/ ghost.unread \/ ~opens]
  BY Zenon DEF Revert
<1>3. Fit(config') /\ (opens => config' = Load(file'))
  BY <1>1, <1>2, OpenedFits, LoadFits
<1>4. \E u : MenuFits(u) /\ u.initialized /\ ui' = Ended(u, config')
  BY <1>3, AppliedFits DEF Revert
<1>5. ghost \in Ghosts
  BY DEF SettingsInv, TypesHold
<1>6. PICK b \in BOOLEAN : b <=> ghost.unapplied \/ ghost.unread \/ ~opens
  OBVIOUS
<1>7. PICK u \in BOOLEAN : u <=> ~opens
  OBVIOUS
<1>8. ghost' = [ghost EXCEPT !.unread = u, !.unapplied = b]
  <2>1. (ghost.unapplied \/ ghost.unread \/ ~opens) = b /\ (~opens) = u
    BY <1>6, <1>7, Zenon
  <2> QED
    BY <1>2, <2>1, Zenon
<1>9. ghost' \in Ghosts /\ (ghost'.unapplied <=> b) /\ (ghost'.unread <=> u)
  BY <1>5, <1>8 DEF Ghosts
<1>10. FileIsInForce'
  BY <1>3, <1>7, <1>9 DEF FileIsInForce
<1>11. ResetHolds'
  BY DEF Revert, ResetHolds
<1>12. RuntimeFollowsSettings'
  <2>1. CASE b
    BY <1>9, <2>1 DEF RuntimeFollowsSettings
  <2>2. CASE ~b
    <3>1. config' = config
      BY <1>1, <1>3, <1>6, <2>2 DEF SettingsInv, FileIsInForce, Revert
    <3>2. runtime' = runtime /\ InMenu
      BY DEF Revert
    <3> QED
      BY <1>6, <2>2, <3>1, <3>2 DEF SettingsInv, RuntimeFollowsSettings
  <2> QED
    BY <2>1, <2>2
<1> QED
  BY <1>1, <1>3, <1>4, <1>9, <1>10, <1>11, <1>12, FrameKeeps DEF SettingsInv, TypesHold, Revert

\* A menu's state with another draft, and marked as saved.
LEMMA WithDraftFits ==
  ASSUME NEW u, MenuFits(u), NEW d, Fit(d)
  PROVE  LET r == [u EXCEPT !.draft = d] IN
         MenuFits(r) /\ r.initialized = u.initialized /\ r.draft = d
<1> DEFINE r == [u EXCEPT !.draft = d]
<1>1. u = [initialized |-> u.initialized, dirty |-> u.dirty, draft |-> u.draft,
           derived |-> u.derived]
  BY DEF MenuFits
<1>2. r = [initialized |-> u.initialized, dirty |-> u.dirty, draft |-> d,
           derived |-> u.derived]
  BY <1>1
<1> HIDE DEF r
<1>3. /\ r.initialized = u.initialized /\ r.dirty = u.dirty
      /\ r.draft = d /\ r.derived = u.derived
  BY <1>2
<1>4. MenuFits(r)
  BY <1>2, <1>3 DEF MenuFits
<1> QED
  BY <1>3, <1>4 DEF r

\* Taking the mark down keeps the menu well formed.
LEMMA MarkedSavedFits ==
  ASSUME NEW u, MenuFits(u)
  PROVE  LET r == [u EXCEPT !.dirty = FALSE] IN
         MenuFits(r) /\ r.initialized = u.initialized
<1> DEFINE r == [u EXCEPT !.dirty = FALSE]
<1>1. u = [initialized |-> u.initialized, dirty |-> u.dirty, draft |-> u.draft,
           derived |-> u.derived]
  BY DEF MenuFits
<1>2. PICK b \in BOOLEAN : b = FALSE
  BY Zenon
<1>3. r = [u EXCEPT !.dirty = b]
  BY <1>2, Zenon
<1> HIDE DEF r
<1>4. r = [initialized |-> u.initialized, dirty |-> b, draft |-> u.draft,
           derived |-> u.derived]
  BY <1>1, <1>3
<1>5. /\ r.initialized = u.initialized /\ r.dirty = b
      /\ r.draft = u.draft /\ r.derived = u.derived
  BY <1>4
<1>6. MenuFits(r)
  BY <1>2, <1>4, <1>5 DEF MenuFits
<1> QED
  BY <1>5, <1>6 DEF r

\* What Save writes, and how far.
SavedDraft == CommitDerivedToDraft(Begun.draft, Begun.derived)

\* The draft a save writes could have been parsed.
LEMMA SavedDraftFits ==
  ASSUME SettingsInv
  PROVE  /\ MenuFits(Begun) /\ Begun.initialized /\ Fit(SavedDraft)
         /\ MenuFits([Begun EXCEPT !.draft = SavedDraft])
         /\ [Begun EXCEPT !.draft = SavedDraft].initialized
         /\ [Begun EXCEPT !.draft = SavedDraft].draft = SavedDraft
<1>1. MenuFits(Begun) /\ Begun.initialized
  BY BegunFits DEF SettingsInv, TypesHold
<1>2. Fit(SavedDraft)
  BY <1>1, CommitFits DEF MenuFits, SavedDraft
<1> QED
  BY <1>1, <1>2, WithDraftFits

\* The ways a save can end.
LEMMA OutcomesAre ==
  ASSUME NEW f, NEW s, Fit(s)
  PROVE  LET o == SaveOutcomes(f, s, Cuts) IN
         /\ DOMAIN o = {"saved", "short", "refused"}
         /\ o["saved"] = {[file |-> DefaultIniContents(s), done |-> TRUE]}
         /\ o["short"] = {[file |-> CutAfter(DefaultIniContents(s), n), done |-> TRUE] :
                            n \in Cuts}
         /\ o["refused"] = {[file |-> f, done |-> FALSE]}
<1> DEFINE whole == DefaultIniContents(s)
           saved == {[file |-> whole, done |-> TRUE]}
           short == {[file |-> CutAfter(whole, n), done |-> TRUE] : n \in Cuts}
           refused == {[file |-> f, done |-> FALSE]}
<1>1. Normalized(s) = s
  BY NormalizedIsSame
<1>2. SaveOutcomes(f, s, Cuts) = [saved |-> saved, short |-> short, refused |-> refused]
  BY <1>1, Zenon DEF SaveOutcomes
<1> HIDE DEF saved, short, refused
<1>3. LET o == [saved |-> saved, short |-> short, refused |-> refused] IN
      /\ DOMAIN o = {"saved", "short", "refused"}
      /\ o["saved"] = saved /\ o["short"] = short /\ o["refused"] = refused
  OBVIOUS
<1> QED
  BY <1>2, <1>3, Zenon DEF saved, short, refused

\* A save writes the draft, whole or cut short, and puts it in force, or is
\* refused and changes nothing.
LEMMA SaveIs ==
  ASSUME SettingsInv, Save
  PROVE  LET u == [Begun EXCEPT !.draft = SavedDraft] IN
         \/ /\ \/ /\ file' = DefaultIniContents(SavedDraft)
                  /\ ghost' = [ghost EXCEPT !.foreign = FALSE, !.unread = FALSE,
                                            !.unapplied = FALSE]
               \/ /\ \E n \in Cuts : file' = CutAfter(DefaultIniContents(SavedDraft), n)
                  /\ ghost' = [ghost EXCEPT !.foreign = TRUE, !.unread = TRUE,
                                            !.unapplied = FALSE]
            /\ config' = SavedDraft
            /\ runtime' = ApplyRuntime(runtime, SavedDraft)
            /\ ui' = Ended([u EXCEPT !.dirty = FALSE], config')
         \/ /\ UNCHANGED <<file, config, runtime, ghost>>
            /\ ui' = Ended(u, config)
<1> DEFINE u == [Begun EXCEPT !.draft = SavedDraft]
           o == SaveOutcomes(file, SavedDraft, Cuts)
<1>1. u.draft = SavedDraft /\ Fit(SavedDraft)
  BY SavedDraftFits
<1>2. \E how \in DOMAIN o : \E outcome \in o[how] :
        /\ file' = outcome.file
        /\ SaveAndApply(u, outcome)
        /\ ghost' = CASE how = "saved"   -> [ghost EXCEPT !.foreign = FALSE,
                                              !.unread = FALSE, !.unapplied = FALSE]
                      [] how = "short"   -> [ghost EXCEPT !.foreign = TRUE,
                                              !.unread = TRUE, !.unapplied = FALSE]
                      [] how = "refused" -> ghost
  BY <1>1, Zenon DEF Save, SavedDraft
<1>3. /\ DOMAIN o = {"saved", "short", "refused"}
      /\ o["saved"] = {[file |-> DefaultIniContents(SavedDraft), done |-> TRUE]}
      /\ o["short"] = {[file |-> CutAfter(DefaultIniContents(SavedDraft), n), done |-> TRUE] :
                         n \in Cuts}
      /\ o["refused"] = {[file |-> file, done |-> FALSE]}
  BY <1>1, OutcomesAre
<1> HIDE DEF o, u
<1>4. PICK how \in {"saved", "short", "refused"} : \E outcome \in o[how] :
        /\ file' = outcome.file
        /\ SaveAndApply(u, outcome)
        /\ ghost' = CASE how = "saved"   -> [ghost EXCEPT !.foreign = FALSE,
                                              !.unread = FALSE, !.unapplied = FALSE]
                      [] how = "short"   -> [ghost EXCEPT !.foreign = TRUE,
                                              !.unread = TRUE, !.unapplied = FALSE]
                      [] how = "refused" -> ghost
  BY <1>2, <1>3, Zenon
<1>5. PICK outcome \in o[how] : file' = outcome.file /\ SaveAndApply(u, outcome)
  BY <1>4, Zenon
<1>6. ASSUME outcome.done
      PROVE  /\ config' = SavedDraft
             /\ runtime' = ApplyRuntime(runtime, SavedDraft)
             /\ ui' = Ended([u EXCEPT !.dirty = FALSE], config')
  BY <1>1, <1>5, <1>6, Zenon DEF SaveAndApply
<1>7. ASSUME ~outcome.done
      PROVE  UNCHANGED <<config, runtime>> /\ ui' = Ended(u, config)
  BY <1>5, <1>7, Zenon DEF SaveAndApply
<1>8. CASE how = "saved"
  <2>1. ghost' = [ghost EXCEPT !.foreign = FALSE, !.unread = FALSE, !.unapplied = FALSE]
    BY <1>4, <1>8
  <2>2. outcome = [file |-> DefaultIniContents(SavedDraft), done |-> TRUE]
    BY <1>3, <1>5, <1>8
  <2>3. outcome.done /\ outcome.file = DefaultIniContents(SavedDraft)
    BY <2>2
  <2> QED
    BY <1>5, <1>6, <2>1, <2>3, Zenon DEF u
<1>9. CASE how = "short"
  <2>1. ghost' = [ghost EXCEPT !.foreign = TRUE, !.unread = TRUE, !.unapplied = FALSE]
    BY <1>4, <1>9
  <2>2. PICK n \in Cuts :
          outcome = [file |-> CutAfter(DefaultIniContents(SavedDraft), n), done |-> TRUE]
    BY <1>3, <1>5, <1>9
  <2>3. outcome.done /\ outcome.file = CutAfter(DefaultIniContents(SavedDraft), n)
    BY <2>2
  <2> QED
    BY <1>5, <1>6, <2>1, <2>3, Zenon DEF u
<1>10. CASE how = "refused"
  <2>1. ghost' = ghost
    BY <1>4, <1>10
  <2>2. outcome = [file |-> file, done |-> FALSE]
    BY <1>3, <1>5, <1>10
  <2>3. ~outcome.done /\ outcome.file = file
    BY <2>2
  <2> QED
    BY <1>5, <1>7, <2>1, <2>3 DEF u
<1> QED
  BY <1>8, <1>9, <1>10

\* A save keeps the invariant: the file written whole gives the draft back.
LEMMA SaveKeeps ==
  ASSUME SettingsInv, Save
  PROVE  SettingsInv'
<1> DEFINE u == [Begun EXCEPT !.draft = SavedDraft]
           v == [u EXCEPT !.dirty = FALSE]
<1>1. MenuFits(u) /\ u.initialized /\ Fit(SavedDraft)
  BY SavedDraftFits
<1>2. MenuFits(v) /\ v.initialized
  <2> HIDE DEF u
  <2> QED
    BY <1>1, MarkedSavedFits
<1>3. ghost \in Ghosts /\ RuntimeFits(runtime)
  BY DEF SettingsInv, TypesHold
<1> HIDE DEF v, u
<1>4. /\ InMenu /\ game' = game /\ group' = group /\ reset' = "none"
      /\ ResetHolds'
  BY DEF Save, ResetHolds
<1>5. ASSUME config' = SavedDraft, runtime' = ApplyRuntime(runtime, SavedDraft)
      PROVE  Fit(config') /\ RuntimeFits(runtime') /\ RuntimeFollowsSettings'
  BY <1>1, <1>3, <1>5, ApplyFollows DEF RuntimeFollowsSettings, Follows, Runs
<1>6. CASE /\ file' = DefaultIniContents(SavedDraft)
           /\ ghost' = [ghost EXCEPT !.foreign = FALSE, !.unread = FALSE,
                                     !.unapplied = FALSE]
           /\ config' = SavedDraft
           /\ runtime' = ApplyRuntime(runtime, SavedDraft)
           /\ ui' = Ended(v, config')
  <2>1. FileFits(file') /\ Load(file') = config'
    BY <1>1, <1>6, IniContentsFit, RoundTrip
  <2>2. ghost' \in Ghosts
    BY <1>3, <1>6 DEF Ghosts
  <2>3. FileIsInForce'
    BY <2>1 DEF FileIsInForce
  <2>4. \E w : MenuFits(w) /\ w.initialized /\ ui' = Ended(w, config')
    BY <1>2, <1>6
  <2> QED
    BY <1>4, <1>5, <1>6, <2>1, <2>2, <2>3, <2>4, FrameKeeps
<1>7. CASE /\ \E n \in Cuts : file' = CutAfter(DefaultIniContents(SavedDraft), n)
           /\ ghost' = [ghost EXCEPT !.foreign = TRUE, !.unread = TRUE,
                                     !.unapplied = FALSE]
           /\ config' = SavedDraft
           /\ runtime' = ApplyRuntime(runtime, SavedDraft)
           /\ ui' = Ended(v, config')
  <2>1. FileFits(file')
    BY <1>1, <1>7, CutFits
  <2>2. ghost' \in Ghosts /\ ghost'.unread
    BY <1>3, <1>7 DEF Ghosts
  <2>3. FileIsInForce'
    BY <2>2 DEF FileIsInForce
  <2>4. \E w : MenuFits(w) /\ w.initialized /\ ui' = Ended(w, config')
    BY <1>2, <1>7
  <2> QED
    BY <1>4, <1>5, <1>7, <2>1, <2>2, <2>3, <2>4, FrameKeeps
<1>8. CASE UNCHANGED <<file, config, runtime, ghost>> /\ ui' = Ended(u, config)
  <2>1. \E w : MenuFits(w) /\ w.initialized /\ ui' = Ended(w, config')
    BY <1>1, <1>8
  <2>2. FileIsInForce' /\ RuntimeFollowsSettings'
    BY <1>4, <1>8 DEF SettingsInv, FileIsInForce, RuntimeFollowsSettings, InMenu
  <2> QED
    BY <1>4, <1>8, <2>1, <2>2, FrameKeeps DEF SettingsInv, TypesHold
<1> QED
  BY <1>6, <1>7, <1>8, SaveIs DEF u, v

----------------------------------------------------------------------------
\* The game's life, and the file's.

\* A launch keeps the invariant: the logger and the loader read the same
\* level from the same file, if both can open it or neither can.
LEMMA LaunchKeeps ==
  ASSUME SettingsInv, Launch
  PROVE  SettingsInv'
<1>1. FileFits(file) /\ FileFits(file') /\ Load(file') = Load(file)
  BY EnsuredFile DEF SettingsInv, TypesHold, Launch
<1>2. PICK logs \in BOOLEAN, opens \in BOOLEAN :
        /\ config' = Load(Opened(file', opens))
        /\ runtime' = InstallAllFeatures(
              [NothingRuns EXCEPT !.level = LoadConfiguredLogLevel(Opened(file, logs))], config')
        /\ ghost' = [ghost EXCEPT !.unread = ~opens, !.unapplied = logs # opens]
  BY Zenon DEF Launch
<1> DEFINE level == LoadConfiguredLogLevel(Opened(file, logs))
           fresh == [NothingRuns EXCEPT !.level = level]
<1>3. Fit(config') /\ (opens => config' = Load(file'))
  BY <1>1, <1>2, OpenedFits, LoadFits
<1>4. RuntimeFits(fresh) /\ fresh.installed = {} /\ fresh.level = level
  <2>1. FileFits(Opened(file, logs))
    BY <1>1, OpenedFits
  <2> QED
    BY <2>1, NothingRunsFits
<1>5. runtime' = InstallAllFeatures(fresh, config')
  BY <1>2
<1> HIDE DEF fresh
<1>6. RuntimeFits(runtime') /\ runtime'.level = level /\ Runs(runtime', config')
  BY <1>3, <1>4, <1>5, InstallIs, FreshInstallRuns
<1>7. logs = opens => level = ParseLogLevel(config'["logging"]["logLevel"])
  <2>1. SUFFICES ASSUME logs = opens
                 PROVE  level = ParseLogLevel(config'["logging"]["logLevel"])
    OBVIOUS
  <2>2. Load(Opened(file, logs)) = config'
    <3>1. CASE opens
      BY <1>1, <1>3, <2>1, <3>1, OpenedFits
    <3>2. CASE ~opens
      BY <1>2, <2>1, <3>2 DEF Opened
    <3> QED
      BY <3>1, <3>2
  <2> QED
    BY <1>1, <2>2, OpenedFits, LoggerReadsTheSame
<1>8. PICK u \in BOOLEAN, b \in BOOLEAN : (u <=> ~opens) /\ (b <=> logs # opens)
  OBVIOUS
<1>9. ghost' = [ghost EXCEPT !.unread = u, !.unapplied = b]
  <2>1. (~opens) = u /\ (logs # opens) = b
    BY <1>8, Zenon
  <2> QED
    BY <1>2, <2>1, Zenon
<1>10. ghost' \in Ghosts /\ (ghost'.unread <=> u) /\ (ghost'.unapplied <=> b)
  <2>1. ghost \in Ghosts
    BY DEF SettingsInv, TypesHold
  <2> QED
    BY <1>9, <2>1 DEF Ghosts
<1>11. RuntimeFollowsSettings'
  <2>1. CASE b
    BY <1>10, <2>1 DEF RuntimeFollowsSettings
  <2>2. CASE ~b
    BY <1>6, <1>7, <1>8, <2>2 DEF RuntimeFollowsSettings, Runs
  <2> QED
    BY <2>1, <2>2
<1>12. ui = FreshUI /\ reset = "none" /\ ui' = ui /\ reset' = reset
  BY DEF SettingsInv, OffIsFresh, Launch
<1>13. MenuShows'
  BY <1>12, FreshFits DEF MenuShows
<1>14. OffIsFresh' /\ FileIsInForce' /\ ResetHolds'
  BY <1>3, <1>8, <1>10, <1>12 DEF OffIsFresh, FileIsInForce, ResetHolds, Launch
<1>15. TypesHold'
  BY <1>1, <1>3, <1>6, <1>10, <1>12 DEF SettingsInv, TypesHold, Launch
<1> QED
  BY <1>11, <1>13, <1>14, <1>15 DEF SettingsInv

\* Loading a game keeps the invariant: the features are installed again
\* under the same settings.
LEMMA LoadGameKeeps ==
  ASSUME SettingsInv, LoadGame
  PROVE  SettingsInv'
<1>1. RuntimeFits(runtime) /\ runtime' = InstallAllFeatures(runtime, config)
  BY DEF SettingsInv, TypesHold, LoadGame
<1>2. RuntimeFits(runtime') /\ runtime'.level = runtime.level
  BY <1>1, InstallIs
<1>3. /\ game = "on" /\ game' = game /\ reset' = "none"
      /\ UNCHANGED <<file, config, ui, group, ghost>>
  BY DEF LoadGame
<1>4. RuntimeFollowsSettings'
  <2>1. CASE ghost.unapplied
    BY <1>3, <2>1 DEF RuntimeFollowsSettings
  <2>2. CASE ~ghost.unapplied
    <3>1. Follows(runtime, config)
      BY <1>3, <2>2, RuntimeFollowsIs DEF SettingsInv, InMenu
    <3>2. Follows(runtime', config)
      BY <1>1, <1>2, <3>1, InstallAgainRuns DEF Follows
    <3> QED
      BY <1>3, <3>2 DEF RuntimeFollowsSettings, Follows, Runs
  <2> QED
    BY <2>1, <2>2
<1>5. TypesHold'
  BY <1>2, <1>3 DEF SettingsInv, TypesHold
<1>6. FileIsInForce' /\ MenuShows' /\ OffIsFresh' /\ ResetHolds'
  BY <1>3 DEF SettingsInv, FileIsInForce, InMenu, MenuShows, OffIsFresh, ResetHolds
<1> QED
  BY <1>4, <1>5, <1>6 DEF SettingsInv

\* A game that has stopped has nothing in memory.
LEMMA StoppedKeeps ==
  ASSUME SettingsInv, Stopped, group' = group, FileFits(file'), ghost' \in Ghosts
  PROVE  SettingsInv'
<1>1. TypesHold'
  BY DefaultsFit, FreshFits, NothingRunsFits DEF SettingsInv, TypesHold, Stopped
<1>2. MenuShows'
  BY FreshFits DEF MenuShows, Stopped
<1>3. FileIsInForce' /\ OffIsFresh' /\ ResetHolds' /\ RuntimeFollowsSettings'
  BY DEF Stopped, FileIsInForce, InMenu, OffIsFresh, ResetHolds, RuntimeFollowsSettings
<1> QED
  BY <1>1, <1>2, <1>3 DEF SettingsInv

\* Quitting keeps the invariant.
LEMMA QuitKeeps ==
  ASSUME SettingsInv, Quit
  PROVE  SettingsInv'
<1>1. ghost' \in Ghosts
  BY DEF SettingsInv, TypesHold, Quit, Ghosts
<1> QED
  BY <1>1, StoppedKeeps DEF SettingsInv, TypesHold, Quit

\* A crash in the middle of a save keeps the invariant: the half-written
\* file is readable.
LEMMA CrashInSaveKeeps ==
  ASSUME SettingsInv, CrashInSave
  PROVE  SettingsInv'
<1>1. Fit(SavedDraft)
  BY SavedDraftFits
<1>2. PICK outcome \in SaveOutcomes(file, SavedDraft, Cuts).short : file' = outcome.file
  BY Zenon DEF CrashInSave, SavedDraft
<1>3. PICK n \in Cuts :
        outcome = [file |-> CutAfter(DefaultIniContents(SavedDraft), n), done |-> TRUE]
  BY <1>1, <1>2, OutcomesAre
<1>4. FileFits(file')
  BY <1>1, <1>2, <1>3, CutFits
<1>5. ghost' \in Ghosts
  BY DEF SettingsInv, TypesHold, CrashInSave, Ghosts
<1> QED
  BY <1>4, <1>5, StoppedKeeps DEF CrashInSave

\* A file with a key rewritten or struck out is still readable.
LEMMA EditedFileFits ==
  ASSUME NEW f, FileFits(f), NEW sec \in Sections \cap DOMAIN f,
         NEW k \in DOMAIN Loaders[sec] \cap DOMAIN f[sec]
  PROVE  /\ \A t \in Tokens[Loaders[sec][k][2]] : FileFits([f EXCEPT ![sec][k] = t])
         /\ FileFits([f EXCEPT ![sec] = [x \in DOMAIN @ \ {k} |-> @[x]]])
<1>1. ASSUME NEW t \in Tokens[Loaders[sec][k][2]]
      PROVE  FileFits([f EXCEPT ![sec][k] = t])
  <2> DEFINE g == [f EXCEPT ![sec][k] = t]
  <2>1. Readable(Loaders[sec][k][2], t)
    BY SettingsConstants DEF Readable
  <2>2. /\ g = [s \in DOMAIN g |-> [x \in DOMAIN g[s] |-> g[s][x]]]
        /\ DOMAIN g = DOMAIN f
        /\ \A s \in DOMAIN f : DOMAIN g[s] = DOMAIN f[s]
        /\ \A s \in DOMAIN f : \A x \in DOMAIN f[s] :
             g[s][x] = IF s = sec /\ x = k THEN t ELSE f[s][x]
    BY DEF FileFits
  <2> HIDE DEF g
  <2> QED
    BY <2>1, <2>2 DEF FileFits, g
<1>2. FileFits([f EXCEPT ![sec] = [x \in DOMAIN @ \ {k} |-> @[x]]])
  <2> DEFINE g == [f EXCEPT ![sec] = [x \in DOMAIN f[sec] \ {k} |-> f[sec][x]]]
  <2>1. /\ g = [s \in DOMAIN g |-> [x \in DOMAIN g[s] |-> g[s][x]]]
        /\ DOMAIN g = DOMAIN f
        /\ \A s \in DOMAIN f : DOMAIN g[s] \subseteq DOMAIN f[s]
        /\ \A s \in DOMAIN f : \A x \in DOMAIN g[s] : g[s][x] = f[s][x]
    BY DEF FileFits
  <2> HIDE DEF g
  <2>2. FileFits(g)
    BY <2>1 DEF FileFits
  <2> QED
    BY <2>2, Zenon DEF g
<1> QED
  BY <1>1, <1>2

\* An edit of the file keeps the invariant: it is marked as not read.
LEMMA EditFileKeeps ==
  ASSUME SettingsInv, EditFile
  PROVE  SettingsInv'
<1>1. FileFits(file')
  <2>1. CASE file' = NoFile
    BY <2>1, NoFileGivesDefaults
  <2>2. ASSUME NEW c \in group,
               c[1] \in DOMAIN file,
               KeyOf[c[1]][c[2]] \in DOMAIN file[c[1]],
               \/ \E t \in Tokens[Loaders[c[1]][KeyOf[c[1]][c[2]]][2]] :
                    file' = [file EXCEPT ![c[1]][KeyOf[c[1]][c[2]]] = t]
               \/ file' = [file EXCEPT ![c[1]] =
                             [x \in DOMAIN @ \ {KeyOf[c[1]][c[2]]} |-> @[x]]]
        PROVE  FileFits(file')
    <3>1. c[1] \in Sections /\ c[2] \in DOMAIN Defaults[c[1]]
      BY SettingsConstants DEF SettingsInv, TypesHold
    <3>2. KeyOf[c[1]][c[2]] \in DOMAIN Loaders[c[1]]
      BY <3>1, KeyOfReads
    <3>3. FileFits(file)
      BY DEF SettingsInv, TypesHold
    <3> DEFINE sec == c[1]
               k == KeyOf[sec][c[2]]
    <3>4. /\ sec \in Sections \cap DOMAIN file
          /\ k \in DOMAIN Loaders[sec] \cap DOMAIN file[sec]
      BY <2>2, <3>1, <3>2
    <3>5. /\ \A t \in Tokens[Loaders[sec][k][2]] : FileFits([file EXCEPT ![sec][k] = t])
          /\ FileFits([file EXCEPT ![sec] = [x \in DOMAIN @ \ {k} |-> @[x]]])
      BY <3>3, <3>4, EditedFileFits, Zenon
    <3> QED
      BY <2>2, <3>5, Zenon
  <2> QED
    BY <2>1, <2>2 DEF EditFile
<1>2. ghost' \in Ghosts /\ ghost'.unread /\ (ghost'.unapplied <=> ghost.unapplied)
  <2>1. ghost \in Ghosts
    BY DEF SettingsInv, TypesHold
  <2>2. ghost' = [ghost EXCEPT !.foreign = TRUE, !.unread = TRUE, !.edits = ghost.edits + 1]
    BY DEF EditFile
  <2>3. ghost.edits + 1 \in 0..MaxEdits
    <3>1. ghost.edits \in 0..MaxEdits
      BY <2>1 DEF Ghosts
    <3>2. ghost.edits < MaxEdits /\ MaxEdits \in Nat
      BY SettingsConstants DEF EditFile
    <3> QED
      BY <3>1, <3>2
  <2>4. ghost.unapplied \in BOOLEAN
    BY <2>1 DEF Ghosts
  <2>5. PICK n \in 0..MaxEdits : n = ghost.edits + 1
    BY <2>3
  <2>6. ghost' = [ghost EXCEPT !.foreign = TRUE, !.unread = TRUE, !.edits = n]
    BY <2>2, <2>5, Zenon
  <2> QED
    BY <2>1, <2>4, <2>6 DEF Ghosts
<1>3. UNCHANGED <<config, ui, runtime, game, group, reset>>
  BY DEF EditFile
<1>4. TypesHold'
  BY <1>1, <1>2, <1>3 DEF SettingsInv, TypesHold
<1>5. FileIsInForce' /\ MenuShows' /\ OffIsFresh' /\ ResetHolds'
  BY <1>2, <1>3
  DEF SettingsInv, FileIsInForce, MenuShows, OffIsFresh, ResetHolds, CanResetAll
<1>6. RuntimeFollowsSettings'
  BY <1>2, <1>3 DEF SettingsInv, RuntimeFollowsSettings, InMenu
<1> QED
  BY <1>4, <1>5, <1>6 DEF SettingsInv

\* A stuttering step keeps the invariant.
LEMMA UnchangedKeeps ==
  ASSUME SettingsInv, UNCHANGED vars
  PROVE  SettingsInv'
  BY DEF vars, SettingsInv, TypesHold, FileIsInForce, InMenu, MenuShows, OffIsFresh,
         ResetHolds, CanResetAll, RuntimeFollowsSettings

\* The invariant holds before the first launch.
LEMMA InitHolds ==
  ASSUME Init
  PROVE  SettingsInv
<1>1. ghost \in Ghosts
  BY SettingsConstants DEF Init, Ghosts
<1>2. TypesHold
  BY <1>1, DefaultsFit, FreshFits, NothingRunsFits, NoFileGivesDefaults DEF Init, TypesHold
<1>3. MenuShows
  BY FreshFits DEF Init, MenuShows
<1>4. FileIsInForce /\ OffIsFresh /\ ResetHolds /\ RuntimeFollowsSettings
  BY DEF Init, FileIsInForce, InMenu, OffIsFresh, ResetHolds, RuntimeFollowsSettings
<1> QED
  BY <1>2, <1>3, <1>4 DEF SettingsInv

\* Every step keeps the invariant.
LEMMA StepKeeps ==
  ASSUME SettingsInv, [Next]_vars
  PROVE  SettingsInv'
<1>1. CASE MenuStep
  BY <1>1, DrawKeeps, UseKeeps, ResetAllKeeps, RevertKeeps, SaveKeeps DEF MenuStep
<1>2. CASE GameStep
  BY <1>2, LaunchKeeps, LoadGameKeeps, QuitKeeps, CrashInSaveKeeps DEF GameStep
<1>3. CASE EditFile
  BY <1>3, EditFileKeeps
<1>4. CASE UNCHANGED vars
  BY <1>4, UnchangedKeeps
<1> QED
  BY <1>1, <1>2, <1>3, <1>4 DEF Next

----------------------------------------------------------------------------
\* The theorems about the settings menu.

\* The settings, the file, the menu and the features keep to the invariant
\* for any group of settings, any texts and charges in the file, and any
\* place a write can be cut at.
THEOREM SettingsInvHolds == Spec => []SettingsInv
<1>1. Init => SettingsInv
  BY InitHolds
<1>2. SettingsInv /\ [Next]_vars => SettingsInv'
  BY StepKeeps
<1> QED
  BY <1>1, <1>2, PTL DEF Spec

\* Type correctness of the settings menu.
THEOREM SettingsTypesHold == Spec => []TypeOK
<1>1. SettingsInv => TypeOK
  <2> SUFFICES ASSUME SettingsInv PROVE TypeOK
    OBVIOUS
  <2>1. \A s \in {config, ui.draft} : \A sec \in Sections : DOMAIN s[sec] = DOMAIN Defaults[sec]
    BY DEF SettingsInv, TypesHold, MenuFits, Fit, IsSettings
  <2>2. /\ ui.initialized \in BOOLEAN /\ ui.dirty \in BOOLEAN
        /\ DOMAIN ui.derived = Widgets /\ ui.derived["logLevel"] \in 0..6
    BY DEF SettingsInv, TypesHold, MenuFits, Widgetry
  <2> QED
    BY <2>1, <2>2
    DEF SettingsInv, TypesHold, TypeOK, RuntimeFits, GatedNames, OwnedNames
<1> QED
  BY <1>1, SettingsInvHolds, PTL

\* A menu without the mark for unsaved changes shows what the file will give
\* the next game: nothing that was clicked is lost between the widgets, the
\* draft, the template, the file and the loader.
THEOREM CleanMenusAreSaved == Spec => []CleanMeansSaved
<1>1. SettingsInv => CleanMeansSaved
  BY DEF SettingsInv, FileIsInForce, MenuShows, CleanMeansSaved
<1> QED
  BY <1>1, SettingsInvHolds, PTL

\* The features that run, and the options they cached, are those of the
\* settings in force after every launch, load and save.
THEOREM RuntimeAlwaysFollows == Spec => []RuntimeFollowsSettings
<1>1. SettingsInv => RuntimeFollowsSettings
  BY DEF SettingsInv
<1> QED
  BY <1>1, SettingsInvHolds, PTL

\* Reset all leaves its page at the defaults and the other pages as they
\* were.
THEOREM ResetsAreExact == Spec => ResetIsExact
<1> DEFINE Exact ==
      reset' # "none" =>
        /\ (~CanResetAll(reset))'
        /\ \A sec \in Sections \ PageSections[reset'] :
             ui'.draft[sec] = ui.draft[sec] \/ reset' = reset
<1>1. ASSUME SettingsInv, [Next]_vars PROVE [Exact]_vars
  <2>1. CASE ResetAll
    BY <1>1, <2>1, ResetAllKeeps
  <2>2. CASE Draw \/ Use \/ Revert \/ Save
    BY <2>2 DEF Draw, Use, Revert, Save
  <2>3. CASE LoadGame \/ Quit \/ CrashInSave
    BY <2>3 DEF LoadGame, Quit, CrashInSave, Stopped
  <2>4. CASE Launch
    BY <1>1, <2>4 DEF SettingsInv, OffIsFresh, Launch
  <2>5. CASE EditFile
    BY <1>1, <2>5 DEF SettingsInv, ResetHolds, CanResetAll, EditFile
  <2>6. CASE UNCHANGED vars
    BY <2>6
  <2> QED
    BY <1>1, <2>1, <2>2, <2>3, <2>4, <2>5, <2>6 DEF Next, MenuStep, GameStep
<1>2. Spec => [][Exact]_vars
  BY <1>1, SettingsInvHolds, PTL DEF Spec
<1> QED
  BY <1>2 DEF ResetIsExact
=============================================================================
