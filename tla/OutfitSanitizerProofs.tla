------------------------ MODULE OutfitSanitizerProofs ------------------------
(***************************************************************************)
(* Proofs about OutfitSanitizer, for any actors, threads and copies.       *)
(***************************************************************************)
EXTENDS OutfitSanitizer, FiniteSetTheorems, TLAPS

----------------------------------------------------------------------------
(* Orders, removals, duplicates.                                           *)

LEMMA OrderOfSet ==
    ASSUME NEW S, IsFiniteSet(S)
    PROVE /\ Cardinality(S) \in Nat
          /\ InSomeOrder(S) \in [1..Cardinality(S) -> S]
          /\ DOMAIN InSomeOrder(S) = 1..Cardinality(S)
          /\ \A x \in S : \E i \in 1..Cardinality(S) : InSomeOrder(S)[i] = x
          /\ \A i, j \in 1..Cardinality(S) : InSomeOrder(S)[i] = InSomeOrder(S)[j] => i = j
<1>1. Cardinality(S) \in Nat /\ ExistsBijection(1..Cardinality(S), S)
  BY FS_CardinalityType
<1> DEFINE Orders == [1..Cardinality(S) -> S]
<1>2. PICK q \in Orders : \A x \in S : \E i \in 1..Cardinality(S) : q[i] = x
  BY <1>1 DEF ExistsBijection, Bijection, Surjection
<1>3. DOMAIN q = 1..Cardinality(S)
  BY <1>2
<1>4. \E r \in Orders : \A x \in S : \E i \in DOMAIN r : r[i] = x
  BY <1>2, <1>3
<1>5. InSomeOrder(S) \in Orders /\ \A x \in S : \E i \in DOMAIN InSomeOrder(S) : InSomeOrder(S)[i] = x
  BY <1>4 DEF InSomeOrder
<1> DEFINE q1 == InSomeOrder(S)
           n == Cardinality(S)
<1> HIDE DEF q1
<1>6. q1 \in Surjection(1..n, S)
  BY <1>5 DEF Surjection, q1
<1>7. IsFiniteSet(1..n) /\ Cardinality(1..n) = n
  BY <1>1, FS_Interval
<1>8. q1 \in Injection(1..n, S)
  BY <1>6, <1>7, FS_SurjSameCardinalityImpliesInj
<1> QED
  BY <1>1, <1>5, <1>8 DEF Injection, IsInjective, q1

LEMMA TasksOfFunction ==
    ASSUME NEW n \in Nat, NEW q \in [1..n -> Task]
    PROVE q \in Seq(Task) /\ DOMAIN q = 1..n
OBVIOUS

LEMMA RunTaskFields ==
    ASSUME NEW k, NEW a, k = [kind |-> "run", actor |-> a]
    PROVE k.kind = "run" /\ k.actor = a
OBVIOUS

LEMMA RunTasksOfSet ==
    ASSUME NEW S \in SUBSET Actor
    PROVE /\ RunTasks(S) \in Seq(Task)
          /\ \A a \in S : \E i \in DOMAIN RunTasks(S) : RunTasks(S)[i].kind = "run" /\ RunTasks(S)[i].actor = a
          /\ \A i \in DOMAIN RunTasks(S) : RunTasks(S)[i].kind = "run"
<1> DEFINE as == InSomeOrder(S)
           n == Cardinality(S)
<1>1. IsFiniteSet(S)
  BY FiniteAssumption, FS_Subset
<1>2. n \in Nat /\ as \in [1..n -> S] /\ DOMAIN as = 1..n /\ \A x \in S : \E i \in 1..n : as[i] = x
  BY <1>1, OrderOfSet
<1> HIDE DEF as, n
<1>3. RunTasks(S) = [i \in 1..n |-> [kind |-> "run", actor |-> as[i]]]
  BY <1>2 DEF RunTasks, as
<1>4. \A i \in 1..n : [kind |-> "run", actor |-> as[i]] \in Task
  BY <1>2 DEF Task
<1>5. RunTasks(S) \in [1..n -> Task]
  BY <1>3, <1>4
<1>6. RunTasks(S) \in Seq(Task) /\ DOMAIN RunTasks(S) = 1..n
  BY <1>2, <1>5, TasksOfFunction
<1>7. \A i \in 1..n : RunTasks(S)[i].kind = "run" /\ RunTasks(S)[i].actor = as[i]
  <2>1. \A i \in 1..n : RunTasks(S)[i] = [kind |-> "run", actor |-> as[i]]
    BY <1>3
  <2> QED
    BY <2>1, RunTaskFields
<1>8. ASSUME NEW a \in S
      PROVE \E i \in DOMAIN RunTasks(S) : RunTasks(S)[i].kind = "run" /\ RunTasks(S)[i].actor = a
  BY <1>2, <1>6, <1>7
<1> QED
  BY <1>6, <1>7, <1>8

LEMMA DetachedTasksTyped ==
    ASSUME removals \in [Actor -> Removals]
    PROVE DetachedTasks \in Seq(Task)
<1> DEFINE S == {a \in Actor : removals[a] # None}
           as == InSomeOrder(S)
           n == Cardinality(S)
<1>1. IsFiniteSet(S)
  BY FiniteAssumption, FS_Subset
<1>2. n \in Nat /\ as \in [1..n -> S] /\ DOMAIN as = 1..n
  BY <1>1, OrderOfSet
<1>3. DetachedTasks = [i \in DOMAIN as |-> [kind |-> "detached", actor |-> as[i], rem |-> removals[as[i]]]]
  BY DEF DetachedTasks
<1>4. \A x \in S : x \in Actor /\ removals[x] \in Removals
  OBVIOUS
<1> HIDE DEF S, as, n
<1>5. \A i \in 1..n : [kind |-> "detached", actor |-> as[i], rem |-> removals[as[i]]] \in Task
  BY <1>2, <1>4 DEF Task
<1>6. DetachedTasks \in [1..n -> Task]
  BY <1>2, <1>3, <1>5
<1> QED
  BY <1>2, <1>6, TasksOfFunction

LEMMA DuplicatesTyped ==
    ASSUME TypeOK, NEW a \in Actor, NEW rem \in Duplicates(a)
    PROVE rem \in Removals
<1> DEFINE twins == {UntaggedLike(a, c) : c \in Strippable(a)} \ {{}}
           lone == {c \in Strippable(a) : copies[a][c].sig = Bare /\ UntaggedLike(a, c) = {}}
           n == Cardinality(lone)
<1>1. \A c : UntaggedLike(a, c) \subseteq Addr
  BY DEF UntaggedLike, Here
<1>2. IsFiniteSet(lone)
  BY FiniteAssumption, FS_Subset DEF Strippable, Tagged, Here
<1>3. n \in Nat
  BY <1>2, FS_CardinalityType
<1>4. plain[a] \in Nat
  BY DEF TypeOK
<1>5. UNION twins \subseteq Addr
  BY <1>1
<1> DEFINE k == IF n < plain[a] THEN n ELSE plain[a]
<1>6. k \in Nat
  BY <1>3, <1>4
<1>7. PICK ds \in SUBSET UNION twins : rem = [lists |-> ds, plain |-> k]
  BY DEF Duplicates
<1> HIDE DEF twins, k
<1> QED
  BY <1>5, <1>6, <1>7 DEF Removals

(* A removal makes no copy and tags none.                                  *)
LEMMA RemoveUnitsShrinks ==
    ASSUME TypeOK, NEW a \in Actor, NEW before \in [Addr -> Copy], NEW rem \in Removals,
           RemoveUnits(a, before, rem)
    PROVE /\ copies' \in [Actor -> [Addr -> Copy]]
          /\ plain' \in [Actor -> Nat]
          /\ \A b \in Actor \ {a} : copies'[b] = copies[b]
          /\ \A c \in Addr : copies'[a][c] \in {before[c], NoCopy}
<1> DEFINE left == [c \in Addr |-> IF c \in rem.lists THEN NoCopy ELSE before[c]]
           after(gone) == [c \in Addr |-> IF c \in gone THEN NoCopy ELSE left[c]]
<1>1. plain' = [plain EXCEPT ![a] = IF rem.plain > @ THEN 0 ELSE @ - rem.plain]
  BY DEF RemoveUnits
<1>2. PICK gone : copies' = [copies EXCEPT ![a] = after(gone)]
  BY DEF RemoveUnits
<1>3. left \in [Addr -> Copy]
  BY DEF Copy
<1>4. after(gone) \in [Addr -> Copy] /\ \A c \in Addr : after(gone)[c] \in {before[c], NoCopy}
  BY <1>3 DEF Copy
<1> HIDE DEF after
<1>5. plain' \in [Actor -> Nat]
  <2>1. plain \in [Actor -> Nat] /\ rem.plain \in Nat
    BY DEF TypeOK, Removals
  <2> QED
    BY <1>1, <2>1
<1>6. copies \in [Actor -> [Addr -> Copy]]
  BY DEF TypeOK
<1> QED
  BY <1>2, <1>4, <1>5, <1>6

LEMMA StrippedTyped ==
    ASSUME TypeOK, NEW a \in Actor
    PROVE /\ Stripped(a) \in [Addr -> Copy]
          /\ Revealed(a) => \A c \in Addr : ~Stripped(a)[c].tag
          /\ ~Revealed(a) => Stripped(a) = copies[a]
<1>0. copies[a] \in [Addr -> Copy]
  BY DEF TypeOK
<1>1. \A c \in Here(a) : copies[a][c] \in [tag : BOOLEAN, sig : Sig]
  BY DEF TypeOK, Here, Copy
<1>2. \A c \in Here(a) : [copies[a][c] EXCEPT !.tag = FALSE] \in [tag : BOOLEAN, sig : Sig]
                         /\ ~[copies[a][c] EXCEPT !.tag = FALSE].tag
  BY <1>1
<1>3. CASE ~Revealed(a)
  BY <1>0, <1>3 DEF Stripped, Strippable
<1>4. CASE Revealed(a)
  <2>1. Stripped(a) = [c \in Addr |-> IF c \in Tagged(a) THEN [copies[a][c] EXCEPT !.tag = FALSE]
                                      ELSE copies[a][c]]
    BY <1>4 DEF Stripped, Strippable
  <2>2. \A c \in Addr \ Tagged(a) : copies[a][c] \in Copy /\ ~copies[a][c].tag
    BY <1>0 DEF Tagged, Here, NoCopy
  <2>3. Tagged(a) \subseteq Here(a)
    BY DEF Tagged
  <2> QED
    BY <1>2, <1>4, <2>1, <2>2, <2>3 DEF Copy
<1> QED
  BY <1>3, <1>4

----------------------------------------------------------------------------
(* Types.                                                                  *)

LEMMA InitTypes == Init => TypeOK
BY NullAssumption DEF Init, TypeOK, None, Removals, Ops, Copy, Scopes

LEMMA GotoTyped ==
    ASSUME TypeOK, NEW t \in Thread, NEW o \in Ops, NEW a \in Actor \cup {NoActor}, Goto(t, o, a)
    PROVE op' \in [Thread -> Ops] /\ at' \in [Thread -> Actor \cup {NoActor}]
BY DEF TypeOK, Goto

LEMMA AppendTask ==
    ASSUME NEW s \in Seq(Task), NEW k \in Task
    PROVE Append(s, k) \in Seq(Task)
OBVIOUS

LEMMA TailTask ==
    ASSUME NEW s \in Seq(Task), s # <<>>
    PROVE Tail(s) \in Seq(Task) /\ Head(s) \in Task
OBVIOUS

LEMMA AddedTyped ==
    ASSUME TypeOK, NEW t \in Thread, NEW a \in Actor, NEW tag, Added(t, a, tag)
    PROVE /\ op' \in [Thread -> Ops] /\ at' \in [Thread -> Actor \cup {NoActor}]
          /\ owed' \subseteq Actor /\ missed' \subseteq Actor
<1>1. "queue" \in Ops
  BY DEF Ops
<1> QED
  BY <1>1, GotoTyped DEF Added, TypeOK, threads

LEMMA NextTypes == TypeOK /\ [Next]_vars => TypeOK'
<1> SUFFICES ASSUME TypeOK, [Next]_vars PROVE TypeOK'
  OBVIOUS
<1> USE DEF coalescing, session, threads, game, inventory, history
<1>0. Main \in Thread /\ {"idle", "queue", "addTask", "scan", "end"} \subseteq Ops
  BY DEF Thread, Ops
<1>1. ASSUME NEW t \in Thread, NEW a \in Actor, Queue(t, a)
      PROVE TypeOK'
  <2>1. op' \in [Thread -> Ops] /\ at' \in [Thread -> Actor \cup {NoActor}]
    BY <1>0, <1>1, GotoTyped DEF Queue, Insert, Done
  <2> QED
    BY <1>1, <2>1 DEF Queue, Insert, TypeOK
<1>2. ASSUME NEW t \in Thread, NEW a \in Actor, AddTask(t, a)
      PROVE TypeOK'
  <2>1. op' \in [Thread -> Ops] /\ at' \in [Thread -> Actor \cup {NoActor}]
    BY <1>0, <1>2, GotoTyped DEF AddTask, Done
  <2>2. tasks' \in Seq(Task)
    BY <1>2 DEF AddTask, TypeOK, Task
  <2> QED
    BY <1>2, <2>1, <2>2 DEF AddTask, TypeOK
<1>3. ASSUME NEW t \in Thread, NEW a \in Actor, AddCopy(t, a)
      PROVE TypeOK'
  <2>1. PICK c \in Addr, s \in Sig, tag \in BOOLEAN :
            copies' = [copies EXCEPT ![a][c] = [tag |-> tag, sig |-> s]] /\ Added(t, a, tag)
    BY <1>3 DEF AddCopy
  <2>3. disturbed' \subseteq Actor
    BY <1>3 DEF AddCopy, TypeOK
  <2>2. copies' \in [Actor -> [Addr -> Copy]]
    <3>1. [tag |-> tag, sig |-> s] \in Copy
      BY DEF Copy
    <3>2. [copies[a] EXCEPT ![c] = [tag |-> tag, sig |-> s]] \in [Addr -> Copy]
      BY <3>1 DEF TypeOK
    <3> QED
      BY <2>1, <3>2 DEF TypeOK
  <2> QED
    BY <1>3, <2>1, <2>2, <2>3, AddedTyped DEF AddCopy, TypeOK
<1>4. ASSUME NEW t \in Thread, NEW a \in Actor, AddPlain(t, a)
      PROVE TypeOK'
  <2>1. plain' \in [Actor -> Nat]
    BY <1>4 DEF AddPlain, TypeOK
  <2> QED
    BY <1>4, <2>1, AddedTyped DEF AddPlain, TypeOK
<1>5. ASSUME NEW a \in Actor, Lose(a)
      PROVE TypeOK'
  <2>1. copies' \in [Actor -> [Addr -> Copy]]
    <3>1. \A c \in Addr : [copies[a] EXCEPT ![c] = NoCopy] \in [Addr -> Copy]
      BY DEF TypeOK, Copy
    <3> QED
      BY <1>5, <3>1 DEF Lose, TypeOK, Here
  <2>2. plain' \in [Actor -> Nat]
    <3>1. plain' = plain \/ (plain[a] > 0 /\ plain' = [plain EXCEPT ![a] = @ - 1])
      BY <1>5 DEF Lose
    <3>2. plain \in [Actor -> Nat]
      BY DEF TypeOK
    <3> QED
      BY <3>1, <3>2
  <2>3. /\ disturbed' \subseteq Actor
        /\ UNCHANGED <<coalescing, session, tasks, threads, game, owed, missed>>
    BY <1>5 DEF Lose, TypeOK
  <2> QED
    BY <2>1, <2>2, <2>3 DEF TypeOK
<1>6. ASSUME NEW a \in Actor, RunBegin(a)
      PROVE TypeOK'
  <2>1. op' \in [Thread -> Ops] /\ at' \in [Thread -> Actor \cup {NoActor}]
    BY <1>0, <1>6, GotoTyped DEF RunBegin
  <2>2. tasks' \in Seq(Task)
    BY <1>6, TailTask DEF RunBegin, NextTask, TypeOK
  <2> QED
    BY <1>6, <2>1, <2>2 DEF RunBegin, TypeOK
<1>7. ASSUME NEW a \in Actor, RunForActor(a)
      PROVE TypeOK'
  <2>1. op' \in [Thread -> Ops] /\ at' \in [Thread -> Actor \cup {NoActor}]
    BY <1>0, <1>7, GotoTyped DEF RunForActor
  <2>2. \/ UNCHANGED inventory
        \/ \E rem \in Duplicates(a) :
              \/ RemoveUnits(a, Stripped(a), rem)
              \/ copies' = [copies EXCEPT ![a] = Stripped(a)] /\ UNCHANGED plain
    BY <1>7 DEF RunForActor
  <2>3. copies' \in [Actor -> [Addr -> Copy]] /\ plain' \in [Actor -> Nat]
    BY <2>2, StrippedTyped, DuplicatesTyped, RemoveUnitsShrinks DEF TypeOK
  <2>4. owed' \subseteq Actor /\ missed' \subseteq Actor /\ disturbed' \subseteq Actor
    BY <1>7 DEF RunForActor, Scanned, TypeOK
  <2>5. passing' \subseteq Actor /\ sanitized' \subseteq Actor /\ rescan' \subseteq Actor
        /\ removals' \in [Actor -> Removals]
    BY <1>7 DEF RunForActor, Handoff, TypeOK
  <2> QED
    BY <1>7, <2>1, <2>3, <2>4, <2>5 DEF RunForActor, TypeOK
<1>8. ASSUME NEW a \in Actor, RunEnd(a)
      PROVE TypeOK'
  <2>1. op' \in [Thread -> Ops] /\ at' \in [Thread -> Actor \cup {NoActor}]
    BY <1>0, <1>8, GotoTyped DEF RunEnd, Done
  <2> QED
    BY <1>8, <2>1 DEF RunEnd, TypeOK
<1>9. None \in Removals
  BY DEF None, Removals
<1>10. ASSUME NEW a \in Actor, Frame(a)
       PROVE TypeOK'
  <2>1. PICK rem \in Duplicates(a) :
          IF rem = None
          THEN /\ removals' = [removals EXCEPT ![a] = None]
               /\ sanitized' = sanitized \cup {a}
               /\ UNCHANGED <<passing, tasks>>
          ELSE /\ passing' = passing \cup {a}
               /\ removals' = [removals EXCEPT ![a] = rem]
               /\ tasks' = Append(tasks, [kind |-> "dedup", actor |-> a])
               /\ UNCHANGED sanitized
    BY <1>10 DEF Frame
  <2>2. rem \in Removals
    BY DuplicatesTyped
  <2>3. [kind |-> "dedup", actor |-> a] \in Task
    BY DEF Task
  <2>4. removals' \in [Actor -> Removals] /\ passing' \subseteq Actor /\ sanitized' \subseteq Actor
        /\ tasks' \in Seq(Task)
    <3>1. removals' \in [Actor -> Removals]
      BY <1>9, <2>1, <2>2 DEF TypeOK
    <3> DEFINE k == [kind |-> "dedup", actor |-> a]
    <3>2. tasks \in Seq(Task) /\ k \in Task
      BY <2>3 DEF TypeOK
    <3>3. tasks' = tasks \/ tasks' = Append(tasks, k)
      BY <2>1
    <3> HIDE DEF k
    <3>4. tasks' \in Seq(Task)
      BY <3>2, <3>3, AppendTask
    <3> QED
      BY <2>1, <3>1, <3>4 DEF TypeOK
  <2>5. copies' \in [Actor -> [Addr -> Copy]]
    BY <1>10, StrippedTyped DEF Frame, TypeOK
  <2> QED
    BY <1>10, <2>4, <2>5 DEF Frame, Scanned, TypeOK
<1>11. ASSUME NEW a \in Actor, DedupTask(a)
       PROVE TypeOK'
  <2>1. Tail(tasks) \in Seq(Task)
    BY <1>11, TailTask DEF DedupTask, NextTask, TypeOK
  <2>2. removals[a] \in Removals /\ copies[a] \in [Addr -> Copy]
    BY DEF TypeOK
  <2>3. [kind |-> "detached", actor |-> a, rem |-> removals[a]] \in Task
    BY <2>2 DEF Task
  <2>4. tasks' \in Seq(Task)
    BY <1>11, <2>1, <2>3, AppendTask DEF DedupTask
  <2>5. copies' \in [Actor -> [Addr -> Copy]] /\ plain' \in [Actor -> Nat]
    <3>1. UNCHANGED inventory \/ RemoveUnits(a, copies[a], removals[a])
      BY <1>11 DEF DedupTask
    <3> QED
      BY <2>2, <3>1, RemoveUnitsShrinks DEF TypeOK
  <2>6. passing' \subseteq Actor /\ sanitized' \subseteq Actor /\ rescan' \subseteq Actor
        /\ removals' \in [Actor -> Removals]
    BY <1>9, <1>11 DEF DedupTask, Complete, Abandon, TypeOK
  <2> QED
    BY <1>11, <2>4, <2>5, <2>6 DEF DedupTask, TypeOK
<1>12. ASSUME NEW a \in Actor, DetachedTask(a)
       PROVE TypeOK'
  <2>1. tasks' \in Seq(Task) /\ Head(tasks) \in Task /\ Head(tasks).kind = "detached"
    BY <1>12, TailTask DEF DetachedTask, NextTask, TypeOK
  <2>2. Head(tasks).rem \in Removals
    BY <2>1 DEF Task
  <2>3. copies[a] \in [Addr -> Copy]
    BY DEF TypeOK
  <2>4. UNCHANGED inventory \/ RemoveUnits(a, copies[a], Head(tasks).rem)
    BY <1>12 DEF DetachedTask
  <2>5. copies' \in [Actor -> [Addr -> Copy]] /\ plain' \in [Actor -> Nat]
    BY <2>2, <2>3, <2>4, RemoveUnitsShrinks DEF TypeOK
  <2> QED
    BY <1>12, <2>1, <2>5 DEF DetachedTask, TypeOK
<1>13. CASE CloseMenu
  <2>1. rescan \ pending \in SUBSET Actor /\ removals \in [Actor -> Removals]
    BY DEF TypeOK
  <2>2. tasks \o DetachedTasks \o RunTasks(rescan \ pending) \in Seq(Task)
    <3>1. DetachedTasks \in Seq(Task) /\ RunTasks(rescan \ pending) \in Seq(Task)
      BY <2>1, DetachedTasksTyped, RunTasksOfSet
    <3> HIDE DEF DetachedTasks
    <3> QED
      BY <3>1 DEF TypeOK
  <2> QED
    BY <1>9, <1>13, <2>2 DEF CloseMenu, CloseSession, TypeOK
<1>14. ASSUME NEW a \in Actor, OpenMenu(a)
       PROVE TypeOK'
  BY <1>14 DEF OpenMenu, TypeOK
<1>17. ASSUME NEW a \in Actor, Rescope(a) \/ Reoutfit(a)
       PROVE TypeOK'
  BY <1>17 DEF Rescope, Reoutfit, Changed, TypeOK
<1>18. ASSUME NEW r \in Reveals, SetReveal(r)
       PROVE TypeOK'
  BY <1>18 DEF SetReveal, Changed, TypeOK
<1>15. CASE Install \/ Uninstall
  BY <1>9, <1>15 DEF Install, Uninstall, CloseSession, TypeOK
<1>16. CASE UNCHANGED vars
  BY <1>16 DEF vars, TypeOK
<1> QED
  BY <1>1, <1>2, <1>3, <1>4, <1>5, <1>6, <1>7, <1>8, <1>10, <1>11, <1>12, <1>13, <1>14, <1>15, <1>16,
     <1>17, <1>18
     DEF Next, RunTask, ThreadStep, MainStep

(* Types of the sanitizer's sets, queue, threads and copies, for any       *)
(* actors, threads, addresses and identities.                              *)
THEOREM SanitizerTypeCorrect == Spec => []TypeOK
BY InitTypes, NextTypes, PTL DEF Spec

----------------------------------------------------------------------------
(* The queue.                                                              *)

Runs(s, a) == \E i \in DOMAIN s : s[i].kind = "run" /\ s[i].actor = a

LEMMA RunsAppend ==
    ASSUME NEW s \in Seq(Task), NEW k \in Task, NEW a,
           Runs(s, a) \/ (k.kind = "run" /\ k.actor = a)
    PROVE Runs(Append(s, k), a)
<1> DEFINE t == Append(s, k)
<1>1. /\ Len(t) = Len(s) + 1 /\ Len(s) \in Nat /\ DOMAIN s = 1..Len(s) /\ DOMAIN t = 1..Len(t)
      /\ t[Len(s) + 1] = k /\ \A i \in 1..Len(s) : t[i] = s[i]
  OBVIOUS
<1> HIDE DEF t
<1> QED
  BY <1>1 DEF Runs, t

LEMMA RunsTail ==
    ASSUME NEW s \in Seq(Task), s # <<>>, NEW a, Runs(s, a),
           ~(Head(s).kind = "run" /\ Head(s).actor = a)
    PROVE Runs(Tail(s), a)
<1>1. PICK i \in 1..Len(s) : s[i].kind = "run" /\ s[i].actor = a
  BY DEF Runs
<1>2. i # 1
  BY <1>1
<1>3. i - 1 \in DOMAIN Tail(s) /\ Tail(s)[i - 1] = s[i]
  BY <1>2
<1> QED
  BY <1>1, <1>3 DEF Runs

LEMMA RunsConcat ==
    ASSUME NEW s \in Seq(Task), NEW t \in Seq(Task), NEW a, Runs(s, a) \/ Runs(t, a)
    PROVE Runs(s \o t, a)
<1>1. /\ Len(s) \in Nat /\ Len(t) \in Nat /\ Len(s \o t) = Len(s) + Len(t)
      /\ DOMAIN (s \o t) = 1..Len(s) + Len(t) /\ DOMAIN s = 1..Len(s) /\ DOMAIN t = 1..Len(t)
  OBVIOUS
<1>2. ASSUME NEW i \in 1..Len(s) PROVE i \in DOMAIN (s \o t) /\ (s \o t)[i] = s[i]
  BY <1>1
<1>3. ASSUME NEW i \in 1..Len(t) PROVE Len(s) + i \in DOMAIN (s \o t) /\ (s \o t)[Len(s) + i] = t[i]
  BY <1>1
<1> QED
  BY <1>1, <1>2, <1>3 DEF Runs

----------------------------------------------------------------------------
(* Triggers are never stranded.                                            *)

(* Only the main thread scans, and whom it scans is marked as running.     *)
ThreadsGood ==
    \A t \in Thread : op[t] \in {"scan", "end"} => t = Main /\ at[t] \in running

Busy(t, a) == at[t] = a /\ op[t] \in {"addTask", "scan", "end"}

Served(a) == Runs(tasks, a) \/ \E t \in Thread : Busy(t, a)

PendingInv == TypeOK /\ ThreadsGood /\ \A a \in pending : Served(a)

(* A thread that goes somewhere else leaves the others where they are.     *)
LEMMA OthersStay ==
    ASSUME TypeOK, NEW t \in Thread, NEW o, NEW a, Goto(t, o, a), NEW u \in Thread, u # t
    PROVE op'[u] = op[u] /\ at'[u] = at[u]
BY DEF TypeOK, Goto

LEMMA Arrives ==
    ASSUME TypeOK, NEW t \in Thread, NEW o, NEW a, Goto(t, o, a)
    PROVE op'[t] = o /\ at'[t] = a
BY DEF TypeOK, Goto

(* A thread that served nobody may go anywhere.                            *)
LEMMA ServedStays ==
    ASSUME TypeOK, NEW t \in Thread, NEW o, NEW b, Goto(t, o, b), op[t] \in {"idle", "queue"},
           NEW a, Served(a), Runs(tasks, a) => Runs(tasks', a)
    PROVE Served(a)'
<1>1. CASE Runs(tasks, a)
  BY <1>1 DEF Served
<1>2. ASSUME NEW u \in Thread, Busy(u, a) PROVE Busy(u, a)'
  <2>1. u # t
    BY <1>2 DEF Busy
  <2> QED
    BY <1>2, <2>1, OthersStay DEF Busy
<1> QED
  BY <1>1, <1>2 DEF Served

LEMMA PendingNext ==
    ASSUME PendingInv, [Next]_vars
    PROVE ThreadsGood' /\ \A a \in pending' : Served(a)'
<1> USE DEF coalescing, session, threads, game, inventory, history
<1>a. TypeOK /\ TypeOK' /\ ThreadsGood /\ Main \in Thread
  BY NextTypes DEF PendingInv, Thread
<1>b. \A a \in pending : Served(a)
  BY DEF PendingInv
<1>c. UNCHANGED <<op, at, running>> => ThreadsGood'
  BY <1>a DEF ThreadsGood
<1>d. ASSUME UNCHANGED <<op, at>>, NEW a, Served(a), Runs(tasks, a) => Runs(tasks', a)
      PROVE Served(a)'
  BY <1>d DEF Served, Busy
<1>1. ASSUME NEW t \in Thread, NEW a \in Actor, Queue(t, a)
      PROVE ThreadsGood' /\ \A b \in pending' : Served(b)'
  <2>1. PICK o \in {"idle", "addTask"}, c \in {a, NoActor} :
             Goto(t, o, c) /\ (a \notin pending => o = "addTask" /\ c = a)
    BY <1>1 DEF Queue, Insert, Done
  <2>2. op[t] = "queue" /\ tasks' = tasks /\ running' = running /\ pending' = pending \cup {a}
    BY <1>1 DEF Queue, Insert
  <2>3. ThreadsGood'
    BY <1>a, <2>1, <2>2, OthersStay, Arrives DEF ThreadsGood
  <2>4. a \notin pending => Served(a)'
    BY <1>a, <2>1, Arrives DEF Served, Busy
  <2>5. \A b \in pending : Served(b)'
    BY <1>a, <1>b, <2>1, <2>2, ServedStays
  <2> QED
    BY <2>2, <2>3, <2>4, <2>5
<1>2. ASSUME NEW t \in Thread, NEW a \in Actor, AddTask(t, a)
      PROVE ThreadsGood' /\ \A b \in pending' : Served(b)'
  <2>1. Goto(t, "idle", NoActor) /\ at[t] = a /\ pending' = pending /\ running' = running
    BY <1>2 DEF AddTask, Done
  <2>2. ThreadsGood'
    BY <1>a, <2>1, OthersStay, Arrives DEF ThreadsGood
  <2> DEFINE k == [kind |-> "run", actor |-> a]
  <2>3. k \in Task /\ k.kind = "run" /\ k.actor = a /\ tasks' = Append(tasks, k) /\ tasks \in Seq(Task)
    BY <1>2, <1>a DEF AddTask, Task, TypeOK
  <2> HIDE DEF k
  <2>4. Runs(tasks', a) /\ \A b : Runs(tasks, b) => Runs(tasks', b)
    BY <2>3, RunsAppend
  <2>5. ASSUME NEW b \in pending PROVE Served(b)'
    <3>1. CASE b = a \/ Runs(tasks, b)
      BY <2>4, <3>1 DEF Served
    <3>2. CASE b # a /\ ~Runs(tasks, b)
      <4>1. PICK u \in Thread : Busy(u, b)
        BY <1>b, <3>2 DEF Served
      <4>2. u # t
        BY <2>1, <3>2, <4>1 DEF Busy
      <4> QED
        BY <1>a, <2>1, <4>1, <4>2, OthersStay DEF Served, Busy
    <3> QED
      BY <3>1, <3>2
  <2> QED
    BY <2>1, <2>2, <2>5
<1>3. ASSUME NEW t \in Thread, NEW a \in Actor, AddCopy(t, a) \/ AddPlain(t, a)
      PROVE ThreadsGood' /\ \A b \in pending' : Served(b)'
  <2>1. UNCHANGED <<op, at>> \/ Goto(t, "queue", a)
    BY <1>3 DEF AddCopy, AddPlain, Added
  <2>2. op[t] = "idle" /\ UNCHANGED <<pending, running, tasks>>
    BY <1>3 DEF AddCopy, AddPlain
  <2>3. ThreadsGood'
    BY <1>a, <1>c, <2>1, <2>2, OthersStay, Arrives DEF ThreadsGood
  <2>4. \A b \in pending : Served(b)'
    BY <1>a, <1>b, <1>d, <2>1, <2>2, ServedStays
  <2> QED
    BY <2>2, <2>3, <2>4
<1>4. ASSUME NEW a \in Actor, RunBegin(a)
      PROVE ThreadsGood' /\ \A b \in pending' : Served(b)'
  <2>1. Goto(Main, "scan", a) /\ op[Main] = "idle" /\ running' = running \cup {a} /\ pending' = pending
    BY <1>4 DEF RunBegin, NextTask
  <2>2. ThreadsGood'
    BY <1>a, <2>1, OthersStay, Arrives DEF ThreadsGood
  <2>3. Served(a)'
    BY <1>a, <2>1, Arrives DEF Served, Busy
  <2>4. ASSUME NEW b, b # a, Runs(tasks, b) PROVE Runs(tasks', b)
    BY <1>4, <1>a, <2>4, RunsTail DEF RunBegin, NextTask, TypeOK
  <2>5. \A b \in pending : b # a => Served(b)'
    BY <1>a, <1>b, <2>1, <2>4, ServedStays
  <2> QED
    BY <2>1, <2>2, <2>3, <2>5
<1>5. ASSUME NEW a \in Actor, RunForActor(a)
      PROVE ThreadsGood' /\ \A b \in pending' : Served(b)'
  <2>1. /\ Goto(Main, "end", a) /\ op[Main] = "scan" /\ at[Main] = a
        /\ UNCHANGED <<pending, running, tasks>>
    BY <1>5 DEF RunForActor
  <2>2. ThreadsGood'
    BY <1>a, <2>1, OthersStay, Arrives DEF ThreadsGood
  <2>3. ASSUME NEW b, NEW u \in Thread, Busy(u, b) PROVE Busy(u, b)'
    BY <1>a, <2>1, <2>3, OthersStay, Arrives DEF Busy
  <2> QED
    BY <1>b, <2>1, <2>2, <2>3 DEF Served
<1>6. ASSUME NEW a \in Actor, RunEnd(a)
      PROVE ThreadsGood' /\ \A b \in pending' : Served(b)'
  <2>1. PICK o \in {"idle", "queue"}, c \in {a, NoActor} : Goto(Main, o, c)
    BY <1>6 DEF RunEnd, Done
  <2>2. op[Main] = "end" /\ at[Main] = a /\ running' = running \ {a} /\ pending' = pending \ {a}
        /\ tasks' = tasks
    BY <1>6 DEF RunEnd
  <2>3. ThreadsGood'
    BY <1>a, <2>1, <2>2, OthersStay, Arrives DEF ThreadsGood
  <2>4. ASSUME NEW b, b # a, NEW u \in Thread, Busy(u, b) PROVE Busy(u, b)'
    BY <1>a, <2>1, <2>2, <2>4, OthersStay DEF Busy
  <2> QED
    BY <1>b, <2>2, <2>3, <2>4 DEF Served
<1>7. ASSUME NEW a \in Actor, DedupTask(a) \/ DetachedTask(a) \/ Frame(a)
      PROVE ThreadsGood' /\ \A b \in pending' : Served(b)'
  <2>1. UNCHANGED <<op, at, running, pending>>
    BY <1>7 DEF DedupTask, DetachedTask, Frame
  <2>2. ASSUME NEW b, Runs(tasks, b) PROVE Runs(tasks', b)
    <3>1. tasks \in Seq(Task) /\ removals \in [Actor -> Removals]
      BY <1>a DEF TypeOK
    <3>2. CASE Frame(a)
      <4>1. [kind |-> "dedup", actor |-> a] \in Task
        BY DEF Task
      <4>2. tasks' = tasks \/ tasks' = Append(tasks, [kind |-> "dedup", actor |-> a])
        BY <3>2 DEF Frame
      <4> QED
        BY <2>2, <3>1, <4>1, <4>2, RunsAppend
    <3>3. CASE DedupTask(a) \/ DetachedTask(a)
      <4>1. tasks # <<>> /\ Head(tasks).kind # "run"
        BY <3>3 DEF DedupTask, DetachedTask, NextTask
      <4>2. Tail(tasks) \in Seq(Task) /\ Runs(Tail(tasks), b)
        BY <2>2, <3>1, <4>1, RunsTail, TailTask
      <4>3. [kind |-> "detached", actor |-> a, rem |-> removals[a]] \in Task
        BY <3>1 DEF Task
      <4>4. tasks' = Tail(tasks)
            \/ tasks' = Append(Tail(tasks), [kind |-> "detached", actor |-> a, rem |-> removals[a]])
        BY <3>3 DEF DedupTask, DetachedTask
      <4> QED
        BY <4>2, <4>3, <4>4, RunsAppend
    <3> QED
      BY <1>7, <3>2, <3>3
  <2> QED
    BY <1>b, <1>c, <1>d, <2>1, <2>2
<1>8. CASE CloseMenu
  <2>1. UNCHANGED <<op, at, running>>
    BY <1>8 DEF CloseMenu
  <2>2. CASE ~installed
    BY <1>8, <1>b, <1>c, <1>d, <2>1, <2>2 DEF CloseMenu
  <2>3. CASE installed
    <3> DEFINE S == rescan \ pending
               detached == DetachedTasks
               runs == RunTasks(S)
    <3>1. tasks' = (tasks \o detached) \o runs /\ pending' = pending \cup rescan
      BY <1>8, <2>3 DEF CloseMenu
    <3>2. S \in SUBSET Actor /\ tasks \in Seq(Task)
      BY <1>a DEF TypeOK
    <3>3. runs \in Seq(Task) /\ \A b \in S : Runs(runs, b)
      BY <3>2, RunTasksOfSet DEF Runs
    <3>4. detached \in Seq(Task)
      BY <1>a, DetachedTasksTyped DEF TypeOK
    <3> HIDE DEF detached, runs
    <3>5. tasks \o detached \in Seq(Task)
      BY <3>2, <3>4
    <3>6. ASSUME NEW b, Runs(tasks, b) PROVE Runs(tasks', b)
      <4>1. Runs(tasks \o detached, b)
        BY <3>2, <3>4, <3>6, RunsConcat
      <4> QED
        BY <3>1, <3>3, <3>5, <4>1, RunsConcat
    <3>7. ASSUME NEW b \in S PROVE Runs(tasks', b)
      BY <3>1, <3>3, <3>5, RunsConcat
    <3>8. \A b \in pending : Served(b)'
      BY <1>b, <1>d, <2>1, <3>6
    <3>9. \A b \in S : Served(b)'
      BY <3>7 DEF Served
    <3> QED
      BY <1>c, <2>1, <3>1, <3>8, <3>9
  <2> QED
    BY <2>2, <2>3
<1>9. CASE Uninstall
  <2>1. UNCHANGED <<op, at>> /\ op[Main] = "idle" /\ pending' = {}
    BY <1>9 DEF Uninstall
  <2>2. ThreadsGood'
    BY <1>a, <2>1 DEF ThreadsGood
  <2> QED
    BY <2>1, <2>2
<1>10. ASSUME NEW a \in Actor, Lose(a) \/ OpenMenu(a) \/ Rescope(a) \/ Reoutfit(a)
       PROVE ThreadsGood' /\ \A b \in pending' : Served(b)'
  <2>1. UNCHANGED <<op, at, running, pending, tasks>>
    BY <1>10 DEF Lose, OpenMenu, Rescope, Reoutfit, Changed
  <2> QED
    BY <1>b, <1>c, <1>d, <2>1
<1>12. ASSUME NEW r \in Reveals, SetReveal(r)
       PROVE ThreadsGood' /\ \A b \in pending' : Served(b)'
  <2>1. UNCHANGED <<op, at, running, pending, tasks>>
    BY <1>12 DEF SetReveal, Changed
  <2> QED
    BY <1>b, <1>c, <1>d, <2>1
<1>11. CASE Install \/ UNCHANGED vars
  <2>1. UNCHANGED <<op, at, running, pending, tasks>>
    BY <1>11 DEF Install, vars
  <2> QED
    BY <1>b, <1>c, <1>d, <2>1
<1> QED
  BY <1>1, <1>2, <1>3, <1>4, <1>5, <1>6, <1>7, <1>8, <1>9, <1>10, <1>11, <1>12
     DEF Next, RunTask, ThreadStep, MainStep

LEMMA PendingAlways == Spec => []PendingInv
<1>1. Init => PendingInv
  BY InitTypes DEF Init, PendingInv, ThreadsGood
<1>2. PendingInv /\ [Next]_vars => PendingInv'
  BY NextTypes, PendingNext DEF PendingInv
<1> QED
  BY <1>1, <1>2, PTL DEF Spec

(* Whatever order triggers, passes and menu events come in, on any number  *)
(* of threads, an actor in the coalescing set has its task queued, about   *)
(* to be queued or running: no trigger is dropped for a task that is not.  *)
THEOREM PendingAlwaysHasTask == Spec => []PendingHasTask
<1>1. PendingInv => PendingHasTask
  BY DEF PendingInv, PendingHasTask, Served, Runs, RunQueued, Busy
<1> QED
  BY <1>1, PendingAlways, PTL

----------------------------------------------------------------------------
(* The marks of a session hide nothing.                                    *)

QueueFor(a) == \E t \in Thread : at[t] = a /\ op[t] = "queue"

(* Actors whose pass, over or to be over, leaves the mark.                 *)
Marked == sanitized \cup (passing \ rescan)

MarksInv ==
    /\ \A a \in sanitized \cup passing : menu = a /\ installed
    /\ \A a \in Marked : Strippable(a) # {} => a \in pending \cup missed \/ QueueFor(a)
    /\ \A a \in Marked : op[Main] = "end" /\ at[Main] = a
                         => ~Affected(a) /\ (Strippable(a) # {} => a \in missed)

LEMMA NoMarks ==
    ASSUME sanitized' = {}, passing' = {}
    PROVE MarksInv'
BY DEF MarksInv, Marked

(* A step that marks nobody, leaves nothing more to strip, loses no        *)
(* trigger and does not end a scan.                                        *)
LEMMA MarksShrink ==
    ASSUME TypeOK, MarksInv, UNCHANGED <<menu, installed>>,
           sanitized' \cup passing' \subseteq sanitized \cup passing,
           Marked' \subseteq Marked,
           \A a \in Actor : Strippable(a)' \subseteq Strippable(a) \/ a \in missed',
           missed \subseteq missed',
           \A a \in Actor : a \in pending \/ QueueFor(a) => a \in pending' \/ QueueFor(a)',
           op'[Main] = "end" => op[Main] = "end" /\ at'[Main] = at[Main] /\ scope' = scope
    PROVE MarksInv'
<1>1. Marked \subseteq Actor
  BY DEF TypeOK, Marked
<1>2. \A a \in sanitized' \cup passing' : menu' = a /\ installed'
  BY DEF MarksInv
<1>3. ASSUME NEW a \in Marked', Strippable(a)' # {}
      PROVE a \in pending' \cup missed' \/ QueueFor(a)'
  BY <1>1, <1>3 DEF MarksInv
<1>4. ASSUME NEW a \in Marked', op'[Main] = "end", at'[Main] = a
      PROVE ~Affected(a)' /\ (Strippable(a)' # {} => a \in missed')
  BY <1>1, <1>4 DEF MarksInv, Affected
<1> QED
  BY <1>2, <1>3, <1>4 DEF MarksInv

(* Threads that leave anything but "queue" leave every queued trigger.     *)
LEMMA QueueForStays ==
    ASSUME TypeOK, NEW t \in Thread, NEW o, NEW b, Goto(t, o, b), NEW a, QueueFor(a),
           op[t] # "queue" \/ at[t] # a
    PROVE QueueFor(a)'
BY OthersStay DEF QueueFor

LEMMA SameTags ==
    ASSUME NEW a, copies'[a] = copies[a]
    PROVE Tagged(a)' = Tagged(a)
BY DEF Tagged, Here

LEMMA TagsShrink ==
    ASSUME NEW a, \A c \in Addr : copies'[a][c] \in {copies[a][c], NoCopy}
    PROVE Tagged(a)' \subseteq Tagged(a)
BY DEF Tagged, Here

(* While settings, outfits and scope stay, what a pass may strip follows   *)
(* the tags.                                                               *)
LEMMA StrippableFollows ==
    ASSUME NEW a, UNCHANGED <<scope, reveal, inOutfit>>
    PROVE /\ Revealed(a)' = Revealed(a)
          /\ Tagged(a)' \subseteq Tagged(a) => Strippable(a)' \subseteq Strippable(a)
          /\ Tagged(a)' = Tagged(a) => Strippable(a)' = Strippable(a)
<1>1. Revealed(a)' = Revealed(a)
  BY DEF Revealed
<1> QED
  BY <1>1 DEF Strippable

LEMMA AddCopyMarks ==
    ASSUME TypeOK, MarksInv, NEW t \in Thread, NEW a \in Actor, AddCopy(t, a)
    PROVE MarksInv'
<1> USE DEF coalescing, session, threads, game, inventory, history
<1>1. op[t] = "idle" /\ UNCHANGED <<pending, sanitized, passing, rescan, menu, installed, scope, reveal, inOutfit>>
  BY DEF AddCopy
<1>2. PICK c \in Addr \ Here(a), s \in Sig, tag \in BOOLEAN :
          copies' = [copies EXCEPT ![a][c] = [tag |-> tag, sig |-> s]] /\ Added(t, a, tag)
  BY DEF AddCopy
<1>3. missed \subseteq missed'
  BY <1>2 DEF Added
<1>4. \A b \in Actor \ {a} : Strippable(b)' = Strippable(b)
  BY <1>1, <1>2, SameTags, StrippableFollows DEF TypeOK
<1>5. ~tag => Strippable(a)' \subseteq Strippable(a)
  <2>1. copies[a] \in [Addr -> Copy] /\ copies'[a] = [copies[a] EXCEPT ![c] = [tag |-> tag, sig |-> s]]
    BY <1>2 DEF TypeOK
  <2>2. \A d \in Addr \ {c} : copies'[a][d] = copies[a][d]
    BY <2>1
  <2>3. copies'[a][c] = [tag |-> tag, sig |-> s]
    BY <2>1
  <2>4. ~tag => ~copies'[a][c].tag
    BY <2>3
  <2>5. ~tag => Tagged(a)' \subseteq Tagged(a)
    BY <2>2, <2>4 DEF Tagged, Here
  <2> QED
    BY <1>1, <2>5, StrippableFollows
<1>6. Marked' = Marked /\ Marked \subseteq Actor
  BY <1>1 DEF Marked, TypeOK
<1>7. CASE installed /\ Affected(a)
  <2>1. Goto(t, "queue", a)
    BY <1>2, <1>7 DEF Added
  <2>2. QueueFor(a)'
    BY <2>1, Arrives DEF QueueFor
  <2>3. \A b \in Actor : QueueFor(b) => QueueFor(b)'
    BY <1>1, <2>1, QueueForStays
  <2>4. \A b \in Marked' : Strippable(b)' # {} => b \in pending' \cup missed' \/ QueueFor(b)'
    BY <1>1, <1>3, <1>4, <1>6, <2>2, <2>3 DEF MarksInv
  <2>5. ASSUME NEW b \in Marked', op'[Main] = "end", at'[Main] = b
        PROVE ~Affected(b)' /\ (Strippable(b)' # {} => b \in missed')
    <3>1. Main # t /\ op[Main] = "end" /\ at[Main] = b
      BY <2>1, <2>5, Arrives, OthersStay DEF Thread
    <3>2. ~Affected(b) /\ (Strippable(b) # {} => b \in missed)
      BY <1>6, <2>5, <3>1 DEF MarksInv
    <3>3. b # a /\ b \in Actor
      BY <1>6, <1>7, <2>5, <3>2
    <3> QED
      BY <1>1, <1>3, <1>4, <3>2, <3>3 DEF Affected
  <2> QED
    BY <1>1, <2>4, <2>5 DEF MarksInv
<1>8. CASE ~(installed /\ Affected(a))
  <2>1. UNCHANGED <<op, at>> /\ (tag => a \in missed')
    BY <1>2, <1>8 DEF Added
  <2>2. ASSUME NEW b \in Actor, Strippable(b)' # {} PROVE Strippable(b) # {} \/ b \in missed'
    BY <1>4, <1>5, <2>1, <2>2
  <2>3. \A b \in Marked' : Strippable(b)' # {} => b \in pending' \cup missed' \/ QueueFor(b)'
    BY <1>1, <1>3, <1>6, <2>1, <2>2 DEF MarksInv, QueueFor
  <2>4. \A b \in Marked' : op'[Main] = "end" /\ at'[Main] = b
                          => ~Affected(b)' /\ (Strippable(b)' # {} => b \in missed')
    BY <1>1, <1>3, <1>6, <2>1, <2>2 DEF MarksInv, Affected
  <2> QED
    BY <1>1, <2>3, <2>4 DEF MarksInv
<1> QED
  BY <1>7, <1>8

LEMMA ScanMarks ==
    ASSUME TypeOK, MarksInv, NEW a \in Actor, RunForActor(a)
    PROVE MarksInv'
<1> USE DEF coalescing, session, threads, game, inventory, history
<1>1. /\ Goto(Main, "end", a) /\ op[Main] = "scan" /\ Main \in Thread
      /\ UNCHANGED <<pending, menu, installed, scope, reveal, inOutfit>>
  BY DEF RunForActor, Thread
<1>2. op'[Main] = "end" /\ at'[Main] = a
  BY <1>1, Arrives
<1>3. \A b : QueueFor(b) => QueueFor(b)'
  BY <1>1, QueueForStays
<1>4. Marked \subseteq Actor
  BY DEF Marked, TypeOK
<1>5. CASE ~installed \/ ~Affected(a)
  <2>1. /\ missed' = IF Tagged(a) # {} THEN missed \cup {a} ELSE missed
        /\ UNCHANGED <<sanitized, passing, rescan, copies>>
    BY <1>5 DEF RunForActor
  <2>2. Marked' = Marked /\ \A b : Strippable(b)' = Strippable(b)
    BY <1>1, <2>1, SameTags, StrippableFollows DEF Marked
  <2>3. \A b \in Marked' : Strippable(b)' # {} => b \in pending' \cup missed' \/ QueueFor(b)'
    BY <1>1, <1>3, <2>1, <2>2 DEF MarksInv
  <2>4. Marked \subseteq sanitized \cup passing
    BY DEF Marked
  <2>5. a \in Marked => ~Affected(a)
    BY <1>5, <2>4 DEF MarksInv
  <2>6. \A b \in Marked' : op'[Main] = "end" /\ at'[Main] = b
                          => ~Affected(b)' /\ (Strippable(b)' # {} => b \in missed')
    BY <1>1, <1>2, <2>1, <2>2, <2>5 DEF Affected, Strippable
  <2> QED
    BY <1>1, <2>1, <2>3, <2>6 DEF MarksInv
<1>6. CASE installed /\ Affected(a) /\ menu = a
  <2>1. Handoff(a) /\ UNCHANGED <<copies, missed>>
    BY <1>6 DEF RunForActor
  <2>2. Marked' \subseteq Marked \ {a} /\ \A b : Strippable(b)' = Strippable(b)
    BY <1>1, <2>1, SameTags, StrippableFollows DEF Marked, Handoff
  <2>3. sanitized' \cup passing' \subseteq sanitized \cup passing
    BY <2>1 DEF Handoff
  <2> QED
    BY <1>1, <1>2, <1>3, <2>1, <2>2, <2>3 DEF MarksInv
<1>7. CASE installed /\ Affected(a) /\ menu # a
  <2>1. /\ UNCHANGED <<sanitized, passing, rescan>>
        /\ missed' = missed \ {a}
        /\ \E rem \in Duplicates(a) :
             \/ RemoveUnits(a, Stripped(a), rem)
             \/ copies' = [copies EXCEPT ![a] = Stripped(a)] /\ UNCHANGED plain
    BY <1>7 DEF RunForActor, Scanned
  <2>2. \A b \in Actor \ {a} : copies'[b] = copies[b]
    BY <2>1, StrippedTyped, DuplicatesTyped, RemoveUnitsShrinks DEF TypeOK
  <2>3. a \notin Marked /\ Marked' = Marked
    BY <1>7, <2>1 DEF Marked, MarksInv
  <2>4. \A b \in Marked : b \in Actor \ {a} /\ Strippable(b)' = Strippable(b)
    BY <1>1, <1>4, <2>2, <2>3, SameTags, StrippableFollows
  <2> QED
    BY <1>1, <1>2, <1>3, <2>1, <2>3, <2>4 DEF MarksInv
<1> QED
  BY <1>5, <1>6, <1>7

LEMMA FrameMarks ==
    ASSUME TypeOK, MarksInv, NEW a \in Actor, Frame(a)
    PROVE MarksInv'
<1> USE DEF coalescing, session, threads, game, inventory, history
<1>1. /\ op[Main] = "idle" /\ installed /\ menu = a
      /\ copies' = [copies EXCEPT ![a] = Stripped(a)]
      /\ UNCHANGED <<op, at, menu, installed, scope, reveal, inOutfit>>
  BY DEF Frame
<1>2. sanitized' \cup passing' \subseteq sanitized \cup passing \cup {a}
  BY DEF Frame
<1>3. sanitized' \cup passing' \subseteq {a}
  BY <1>1, <1>2 DEF MarksInv
<1>4. Strippable(a)' = {}
  <2>1. copies'[a] = Stripped(a) /\ Revealed(a)' = Revealed(a)
    BY <1>1, StrippableFollows DEF TypeOK
  <2>2. Revealed(a) => Tagged(a)' = {}
    BY <2>1, StrippedTyped DEF Tagged, Here
  <2> QED
    BY <2>1, <2>2 DEF Strippable
<1>5. \A b \in Marked' : b = a
  BY <1>3 DEF Marked
<1> QED
  BY <1>1, <1>3, <1>4, <1>5 DEF MarksInv

LEMMA RunEndMarks ==
    ASSUME TypeOK, MarksInv, NEW a \in Actor, RunEnd(a)
    PROVE MarksInv'
<1> USE DEF coalescing, session, threads, game, inventory, history
<1>1. /\ op[Main] = "end" /\ at[Main] = a /\ pending' = pending \ {a} /\ Main \in Thread
      /\ UNCHANGED <<sanitized, passing, rescan, menu, installed, scope, reveal, inOutfit, copies,
                     missed>>
  BY DEF RunEnd, Thread
<1>2. PICK o \in {"idle", "queue"}, c \in {a, NoActor} : Goto(Main, o, c)
  BY DEF RunEnd, Done
<1>3. op'[Main] # "end" /\ \A b : QueueFor(b) => QueueFor(b)'
  BY <1>1, <1>2, Arrives, QueueForStays
<1>4. Marked' = Marked /\ \A b : Strippable(b)' = Strippable(b)
  BY <1>1, SameTags, StrippableFollows DEF Marked
<1>5. a \in Marked /\ Strippable(a) # {} => a \in missed
  BY <1>1 DEF MarksInv
<1> QED
  BY <1>1, <1>3, <1>4, <1>5 DEF MarksInv

LEMMA DedupMarks ==
    ASSUME TypeOK, MarksInv, NEW a \in Actor, DedupTask(a)
    PROVE MarksInv'
<1> USE DEF coalescing, session, threads, game, inventory, history
<1>1. UNCHANGED <<op, at, menu, installed, scope, reveal, inOutfit, pending, missed, rescan>>
  BY DEF DedupTask, Complete, Abandon
<1>2. UNCHANGED inventory \/ RemoveUnits(a, copies[a], removals[a])
  BY DEF DedupTask
<1>3. \A b \in Actor : Tagged(b)' \subseteq Tagged(b)
  <2>1. copies[a] \in [Addr -> Copy] /\ removals[a] \in Removals
    BY DEF TypeOK
  <2>2. CASE RemoveUnits(a, copies[a], removals[a])
    BY <2>1, <2>2, RemoveUnitsShrinks, SameTags, TagsShrink
  <2>3. CASE UNCHANGED inventory
    BY <2>3, SameTags
  <2> QED
    BY <1>2, <2>2, <2>3
<1>5. \A b \in Actor : Strippable(b)' \subseteq Strippable(b)
  BY <1>1, <1>3, StrippableFollows
<1>4. /\ sanitized' \cup passing' \subseteq sanitized \cup passing
      /\ Marked' \subseteq Marked
  BY DEF DedupTask, Complete, Abandon, Marked
<1> QED
  BY <1>1, <1>4, <1>5, MarksShrink DEF QueueFor

LEMMA MarksNext ==
    ASSUME TypeOK, MarksInv, [Next]_vars
    PROVE MarksInv'
<1> USE DEF coalescing, session, threads, game, inventory, history
<1>a. ASSUME UNCHANGED <<sanitized, passing, rescan>> PROVE Marked' = Marked
  BY <1>a DEF Marked
<1>b. ASSUME UNCHANGED <<copies, scope, reveal, inOutfit>>
      PROVE \A a \in Actor : Strippable(a)' \subseteq Strippable(a)
  BY <1>b, SameTags, StrippableFollows
<1>c. ASSUME UNCHANGED <<op, at>>, NEW a PROVE QueueFor(a)' = QueueFor(a)
  BY <1>c DEF QueueFor
<1>1. ASSUME NEW t \in Thread, NEW a \in Actor, Queue(t, a)
      PROVE MarksInv'
  <2>1. PICK o \in {"idle", "addTask"}, c \in {a, NoActor} : Goto(t, o, c)
    BY <1>1 DEF Queue, Insert, Done
  <2>2. /\ op[t] = "queue" /\ at[t] = a /\ pending' = pending \cup {a}
        /\ UNCHANGED <<sanitized, passing, rescan, copies, menu, installed, scope, reveal, inOutfit, missed>>
    BY <1>1 DEF Queue, Insert
  <2>3. \A b \in Actor : b \in pending \/ QueueFor(b) => b \in pending' \/ QueueFor(b)'
    BY <2>1, <2>2, QueueForStays
  <2>4. op'[Main] = "end" => op[Main] = "end" /\ at'[Main] = at[Main]
    BY <2>1, Arrives, OthersStay DEF Thread
  <2> QED
    BY <1>a, <1>b, <2>2, <2>3, <2>4, MarksShrink
<1>2. ASSUME NEW t \in Thread, NEW a \in Actor, AddTask(t, a)
      PROVE MarksInv'
  <2>1. /\ Goto(t, "idle", NoActor) /\ op[t] = "addTask"
        /\ UNCHANGED <<pending, sanitized, passing, rescan, copies, menu, installed, scope, reveal, inOutfit, missed>>
    BY <1>2 DEF AddTask, Done
  <2>2. \A b \in Actor : QueueFor(b) => QueueFor(b)'
    BY <2>1, QueueForStays
  <2>3. op'[Main] = "end" => op[Main] = "end" /\ at'[Main] = at[Main]
    BY <2>1, Arrives, OthersStay DEF Thread
  <2> QED
    BY <1>a, <1>b, <2>1, <2>2, <2>3, MarksShrink
<1>3. ASSUME NEW t \in Thread, NEW a \in Actor, AddPlain(t, a)
      PROVE MarksInv'
  <2>1. /\ UNCHANGED <<op, at>> \/ Goto(t, "queue", a)
        /\ op[t] = "idle" /\ missed \subseteq missed'
        /\ UNCHANGED <<pending, sanitized, passing, rescan, copies, menu, installed, scope, reveal, inOutfit>>
    BY <1>3 DEF AddPlain, Added
  <2>2. \A b \in Actor : QueueFor(b) => QueueFor(b)'
    BY <1>c, <2>1, QueueForStays
  <2>3. op'[Main] = "end" => op[Main] = "end" /\ at'[Main] = at[Main]
    BY <2>1, Arrives, OthersStay DEF Thread
  <2> QED
    BY <1>a, <1>b, <2>1, <2>2, <2>3, MarksShrink
<1>4. ASSUME NEW a \in Actor, Lose(a)
      PROVE MarksInv'
  <2>1. UNCHANGED <<pending, op, at, sanitized, passing, rescan, menu, installed, scope, reveal, inOutfit, missed>>
    BY <1>4 DEF Lose
  <2>2. \A b \in Actor : Tagged(b)' \subseteq Tagged(b)
    <3>1. CASE UNCHANGED copies
      BY <3>1, SameTags
    <3>2. ASSUME NEW c \in Here(a), copies' = [copies EXCEPT ![a][c] = NoCopy]
          PROVE \A b \in Actor : Tagged(b)' \subseteq Tagged(b)
      <4>1. copies[a] \in [Addr -> Copy] /\ copies'[a] = [copies[a] EXCEPT ![c] = NoCopy]
            /\ \A b \in Actor \ {a} : copies'[b] = copies[b]
        BY <3>2 DEF TypeOK
      <4>2. \A d \in Addr : copies'[a][d] \in {copies[a][d], NoCopy}
        BY <4>1
      <4> QED
        BY <4>1, <4>2, SameTags, TagsShrink
    <3> QED
      BY <1>4, <3>1, <3>2 DEF Lose
  <2> QED
    BY <1>a, <1>c, <2>1, <2>2, StrippableFollows, MarksShrink
<1>5. ASSUME NEW a \in Actor, RunBegin(a)
      PROVE MarksInv'
  <2>1. /\ Goto(Main, "scan", a) /\ op[Main] = "idle" /\ Main \in Thread
        /\ UNCHANGED <<pending, sanitized, passing, rescan, copies, menu, installed, scope, reveal, inOutfit, missed>>
    BY <1>5 DEF RunBegin, NextTask, Thread
  <2>2. \A b \in Actor : QueueFor(b) => QueueFor(b)'
    BY <2>1, QueueForStays
  <2>3. op'[Main] # "end"
    BY <2>1, Arrives
  <2> QED
    BY <1>a, <1>b, <2>1, <2>2, <2>3, MarksShrink
<1>6. ASSUME NEW a \in Actor, DetachedTask(a)
      PROVE MarksInv'
  <2>1. UNCHANGED <<pending, op, at, sanitized, passing, rescan, menu, installed, scope, reveal, inOutfit, missed>>
    BY <1>6 DEF DetachedTask
  <2>2. UNCHANGED inventory \/ RemoveUnits(a, copies[a], Head(tasks).rem)
    BY <1>6 DEF DetachedTask
  <2>3. copies[a] \in [Addr -> Copy] /\ Head(tasks).rem \in Removals
    <3>1. Head(tasks) \in Task /\ Head(tasks).kind = "detached"
      BY <1>6, TailTask DEF DetachedTask, NextTask, TypeOK
    <3> QED
      BY <3>1 DEF Task, TypeOK
  <2>4. \A b \in Actor : Tagged(b)' \subseteq Tagged(b)
    <3>1. CASE RemoveUnits(a, copies[a], Head(tasks).rem)
      BY <2>3, <3>1, RemoveUnitsShrinks, SameTags, TagsShrink
    <3> QED
      BY <2>2, <3>1, SameTags
  <2> QED
    BY <1>a, <1>c, <2>1, <2>4, StrippableFollows, MarksShrink
<1>7. ASSUME Changed, op[Main] = "idle"
      PROVE MarksInv'
  <2>1. UNCHANGED <<pending, op, at, sanitized, passing, rescan, copies, menu, installed>>
    BY <1>7 DEF Changed
  <2>2. missed' = missed \cup {a \in Actor : Tagged(a) # {} /\ ~Revealed(a) /\ Revealed(a)'}
    BY <1>7 DEF Changed
  <2>3. ASSUME NEW a \in Actor
        PROVE Strippable(a)' \subseteq Strippable(a) \/ a \in missed'
    <3>1. Tagged(a)' = Tagged(a)
      BY <2>1, SameTags
    <3>2. CASE Tagged(a) # {} /\ ~Revealed(a) /\ Revealed(a)'
      BY <2>2, <3>2
    <3> QED
      BY <3>1, <3>2 DEF Strippable
  <2> QED
    BY <1>7, <1>a, <1>c, <2>1, <2>2, <2>3, MarksShrink
<1>13. ASSUME NEW a \in Actor, Rescope(a) \/ Reoutfit(a)
       PROVE MarksInv'
  BY <1>7, <1>13 DEF Rescope, Reoutfit
<1>14. ASSUME NEW r \in Reveals, SetReveal(r)
       PROVE MarksInv'
  BY <1>7, <1>14 DEF SetReveal
<1>8. CASE UNCHANGED vars
  <2>1. UNCHANGED <<pending, op, at, sanitized, passing, rescan, copies, menu, installed, scope, reveal, inOutfit, missed>>
    BY <1>8 DEF vars
  <2> QED
    BY <1>a, <1>b, <1>c, <2>1, MarksShrink
<1>9. ASSUME menu = NoActor \/ ~installed PROVE sanitized = {} /\ passing = {}
  BY <1>9, NullAssumption DEF MarksInv, TypeOK
<1>10. ASSUME NEW a \in Actor, OpenMenu(a) PROVE MarksInv'
  BY <1>9, <1>10, NoMarks DEF OpenMenu
<1>11. CASE CloseMenu
  BY <1>9, <1>11, NoMarks DEF CloseMenu, CloseSession
<1>12. CASE Install \/ Uninstall
  BY <1>9, <1>12, NoMarks DEF Install, Uninstall, CloseSession
<1> QED
  BY <1>1, <1>2, <1>3, <1>4, <1>5, <1>6, <1>8, <1>10, <1>11, <1>12, <1>13, <1>14,
     AddCopyMarks, ScanMarks, FrameMarks, RunEndMarks, DedupMarks
     DEF Next, RunTask, ThreadStep, MainStep

(* However triggers, tasks and frames interleave, an actor whose menu      *)
(* session is marked as sanitized, and whom the frames therefore skip, has *)
(* no tag left that nothing will bring the frames back to.                 *)
THEOREM SanitizedAlwaysHasNoTags == Spec => []SanitizedHasNoTags
<1>1. Init => MarksInv
  BY DEF Init, MarksInv, Marked
<1>2. TypeOK /\ MarksInv /\ [Next]_vars => MarksInv'
  BY MarksNext
<1>3. MarksInv => SanitizedHasNoTags
  BY DEF MarksInv, Marked, SanitizedHasNoTags, QueueFor
<1> QED
  BY <1>1, <1>2, <1>3, SanitizerTypeCorrect, PTL DEF Spec

----------------------------------------------------------------------------
(* What waits to be removed never names the last copy of an identity.      *)
(*                                                                         *)
(* cs are the copies of an actor, n the plain units, and R what waits to   *)
(* be removed, by place.                                                   *)

Present(cs) == {c \in Addr : cs[c] # NoCopy}
WithTag(cs) == {c \in Present(cs) : cs[c].tag}
Names(R) == UNION {R[p].lists : p \in DOMAIN R}

(* An untagged copy of the identity that nothing names.                    *)
Stays(cs, R, s) == \E d \in Present(cs) \ (WithTag(cs) \cup Names(R)) : cs[d].sig = s

Safe(cs, n, R) ==
    /\ Names(R) \cap WithTag(cs) = {}
    /\ \A c \in Names(R) \cap Present(cs) : Stays(cs, R, cs[c].sig)
    /\ \A p \in DOMAIN R : R[p].plain > 0 =>
          /\ R[p].plain <= n
          /\ Stays(cs, R, Bare)
          /\ \A q \in DOMAIN R \ {p} : R[q].plain = 0

(* after is before without its tags.                                       *)
Strips(before, after) ==
    \A c \in Addr : /\ after[c] = NoCopy <=> before[c] = NoCopy
                    /\ before[c] # NoCopy => after[c].sig = before[c].sig
                    /\ ~after[c].tag

(* What a scan of the copies names: untagged twins of tagged copies, and   *)
(* plain units in place of tagged copies that are bare and have no twin.   *)
Twins(cs, n, rem) ==
    /\ rem.lists \subseteq Present(cs) \ WithTag(cs)
    /\ \A d \in rem.lists : \E c \in WithTag(cs) : cs[c].sig = cs[d].sig
    /\ rem.plain <= n
    /\ rem.plain > 0 => /\ \E c \in WithTag(cs) : cs[c].sig = Bare
                        /\ \A d \in Present(cs) \ WithTag(cs) : cs[d].sig # Bare

Less(cs, rem) == [c \in Addr |-> IF c \in rem.lists THEN NoCopy ELSE cs[c]]

(* Both hold a copy of the same identities, the plain stack's included.    *)
SameSigs(cs, n, after, k) ==
    /\ \A c \in Present(cs) : \E d \in Present(after) : after[d].sig = cs[c].sig
    /\ n > 0 => k > 0 \/ \E d \in Present(after) : after[d].sig = Bare

LEMMA NoneNames == None \in Removals /\ None.lists = {} /\ None.plain = 0
BY DEF None, Removals

(* Nothing waits: anything is safe.                                        *)
LEMMA NothingWaits ==
    ASSUME NEW cs, NEW n, NEW R, \A p \in DOMAIN R : R[p] = None
    PROVE Safe(cs, n, R)
BY NoneNames DEF Safe, Names

(* Removals may move and be dropped.                                       *)
LEMMA SafeMoves ==
    ASSUME NEW cs, NEW n \in Nat, NEW P, NEW R \in [P -> Removals], NEW Q, NEW T \in [Q -> Removals],
           NEW m,
           \A p \in Q : T[p] = None \/ (m[p] \in P /\ T[p] = R[m[p]]),
           \A p, q \in Q : p # q /\ T[p] # None /\ T[q] # None => m[p] # m[q],
           Safe(cs, n, R)
    PROVE Safe(cs, n, T)
<1>1. Names(T) \subseteq Names(R)
  BY NoneNames DEF Names
<1>2. \A s : Stays(cs, R, s) => Stays(cs, T, s)
  BY <1>1 DEF Stays
<1>3. ASSUME NEW p \in Q, T[p].plain > 0
      PROVE /\ T[p].plain <= n /\ Stays(cs, T, Bare)
            /\ \A q \in Q \ {p} : T[q].plain = 0
  <2>1. T[p] # None
    BY <1>3, NoneNames
  <2>2. m[p] \in P /\ T[p] = R[m[p]]
    BY <2>1
  <2>3. R[m[p]].plain <= n /\ Stays(cs, R, Bare) /\ \A q \in P \ {m[p]} : R[q].plain = 0
    BY <1>3, <2>2 DEF Safe
  <2>4. ASSUME NEW q \in Q \ {p} PROVE T[q].plain = 0
    <3>1. CASE T[q] = None
      BY <3>1, NoneNames
    <3>2. CASE T[q] # None
      BY <2>1, <2>3, <3>2
    <3> QED
      BY <3>1, <3>2
  <2> QED
    BY <1>2, <2>2, <2>3, <2>4
<1> QED
  BY <1>1, <1>2, <1>3 DEF Safe

(* What waits may be carried out: what is left holds the same identities,  *)
(* and is safe from what still waits.                                      *)
LEMMA SafeRemoval ==
    ASSUME NEW cs, NEW n \in Nat, NEW P, NEW R \in [P -> Removals], NEW p \in P, Safe(cs, n, R)
    PROVE LET rem == R[p]
              k == n - rem.plain
          IN  /\ rem.plain <= n
              /\ Safe(Less(cs, rem), k, [R EXCEPT ![p] = None])
              /\ SameSigs(cs, n, Less(cs, rem), k)
<1> DEFINE rem == R[p]
           k == n - rem.plain
           left == Less(cs, rem)
           T == [R EXCEPT ![p] = None]
<1>1. rem \in Removals /\ rem.plain \in Nat
  BY DEF Removals
<1>2. /\ T \in [P -> Removals] /\ T[p] = None
      /\ \A q \in P \ {p} : T[q] = R[q]
  BY NoneNames
<1>3. Names(T) \subseteq Names(R) /\ rem.lists \subseteq Names(R)
  BY <1>2, NoneNames DEF Names
<1>4. \A c \in Addr : left[c] = IF c \in rem.lists THEN NoCopy ELSE cs[c]
  BY DEF Less
<1> HIDE DEF rem, left, T
<1>5. Present(left) = Present(cs) \ rem.lists
  BY <1>4 DEF Present
<1>6. WithTag(left) \subseteq WithTag(cs)
  BY <1>4, <1>5 DEF WithTag, Present
<1>7. ASSUME NEW s, Stays(cs, R, s)
      PROVE Stays(left, T, s) /\ \E d \in Present(left) : left[d].sig = s
  <2>1. PICK d \in Present(cs) \ (WithTag(cs) \cup Names(R)) : cs[d].sig = s
    BY <1>7 DEF Stays
  <2>2. d \in Present(left) /\ left[d] = cs[d]
    BY <1>3, <1>4, <1>5, <2>1 DEF Present
  <2>3. d \notin WithTag(left) /\ d \notin Names(T)
    BY <1>3, <1>6, <2>1
  <2> QED
    BY <2>1, <2>2, <2>3 DEF Stays
<1>8. rem.plain <= n
  BY <1>1 DEF Safe, rem
<1>9. k \in Nat /\ (rem.plain = 0 => k = n)
  BY <1>1, <1>8
<1>10. Safe(left, k, T)
  <2>1. Names(T) \cap WithTag(left) = {}
    BY <1>3, <1>6 DEF Safe
  <2>2. \A c \in Names(T) \cap Present(left) : Stays(left, T, left[c].sig)
    BY <1>3, <1>4, <1>5, <1>7 DEF Safe, Present
  <2>3. ASSUME NEW q \in P, T[q].plain > 0
        PROVE T[q].plain <= k /\ Stays(left, T, Bare) /\ \A r \in P \ {q} : T[r].plain = 0
    <3>1. q # p /\ T[q] = R[q]
      BY <1>2, <2>3, NoneNames
    <3>2. R[q].plain <= n /\ Stays(cs, R, Bare) /\ \A r \in P \ {q} : R[r].plain = 0
      BY <2>3, <3>1 DEF Safe
    <3>3. rem.plain = 0
      BY <3>1, <3>2 DEF rem
    <3>4. \A r \in P \ {q} : T[r].plain = 0
      BY <1>2, <3>2, NoneNames
    <3> QED
      BY <1>7, <1>9, <3>1, <3>2, <3>3, <3>4
  <2>4. DOMAIN T = P
    BY <1>2
  <2> QED
    BY <2>1, <2>2, <2>3, <2>4 DEF Safe
<1>11. SameSigs(cs, n, left, k)
  <2>1. ASSUME NEW c \in Present(cs)
        PROVE \E d \in Present(left) : left[d].sig = cs[c].sig
    <3>1. CASE c \in rem.lists
      BY <1>3, <1>7, <3>1 DEF Safe
    <3>2. CASE c \notin rem.lists
      BY <1>4, <1>5, <3>2 DEF Present
    <3> QED
      BY <3>1, <3>2
  <2>2. n > 0 => k > 0 \/ \E d \in Present(left) : left[d].sig = Bare
    <3>1. CASE rem.plain = 0
      BY <1>9, <3>1
    <3>2. CASE rem.plain > 0
      BY <1>7, <3>2 DEF Safe, rem
    <3> QED
      BY <1>1, <3>1, <3>2
  <2> QED
    BY <2>1, <2>2 DEF SameSigs
<1> QED
  BY <1>8, <1>10, <1>11 DEF rem, left, T

(* What a scan names may wait beside what waits already.                   *)
LEMMA SafeScan ==
    ASSUME NEW cs, NEW after, NEW n \in Nat, NEW P, NEW R \in [P -> Removals], NEW p \in P, R[p] = None,
           NEW rem \in Removals, Safe(cs, n, R), Strips(cs, after), Twins(cs, n, rem)
    PROVE Safe(after, n, [R EXCEPT ![p] = rem])
<1> DEFINE T == [R EXCEPT ![p] = rem]
<1>1. /\ T \in [P -> Removals] /\ T[p] = rem
      /\ \A q \in P \ {p} : T[q] = R[q]
  OBVIOUS
<1>2. DOMAIN T = P /\ DOMAIN R = P
  BY <1>1
<1> HIDE DEF T
<1>3. Names(T) \subseteq Names(R) \cup rem.lists
  BY <1>1, <1>2 DEF Names
<1>4. Present(after) = Present(cs) /\ WithTag(after) = {}
      /\ \A c \in Present(cs) : after[c].sig = cs[c].sig
  BY DEF Strips, Present, WithTag
<1>5. ASSUME NEW c \in WithTag(cs) PROVE Stays(after, T, cs[c].sig)
  <2>1. c \in Present(cs) /\ c \notin Names(R) /\ c \notin rem.lists
    BY <1>5 DEF Safe, Twins, WithTag
  <2> QED
    BY <1>3, <1>4, <2>1 DEF Stays
<1>6. ASSUME NEW s, Stays(cs, R, s) PROVE Stays(after, T, s)
  <2>1. PICK d \in Present(cs) \ (WithTag(cs) \cup Names(R)) : cs[d].sig = s
    BY <1>6 DEF Stays
  <2>2. CASE d \in rem.lists
    BY <1>5, <2>1, <2>2 DEF Twins
  <2>3. CASE d \notin rem.lists
    BY <1>3, <1>4, <2>1, <2>3 DEF Stays
  <2> QED
    BY <2>2, <2>3
<1>7. \A c \in Names(T) \cap Present(after) : Stays(after, T, after[c].sig)
  BY <1>3, <1>4, <1>5, <1>6 DEF Safe, Twins
<1>8. ASSUME NEW q \in P, T[q].plain > 0
      PROVE T[q].plain <= n /\ Stays(after, T, Bare) /\ \A r \in P \ {q} : T[r].plain = 0
  <2>1. \A r \in P : R[r].plain \in Nat
    BY DEF Removals
  <2>2. rem.plain \in Nat
    BY DEF Removals
  <2>3. ASSUME NEW r \in P, R[r].plain > 0, rem.plain > 0 PROVE FALSE
    BY <2>3 DEF Safe, Stays, Twins
  <2>4. CASE q = p
    <3>1. T[q] = rem /\ rem.plain > 0
      BY <1>1, <1>8, <2>4
    <3>2. \A r \in P \ {q} : T[r].plain = 0
      BY <1>1, <2>1, <2>3, <2>4, <3>1
    <3> QED
      BY <1>5, <3>1, <3>2 DEF Twins
  <2>5. CASE q # p
    <3>1. T[q] = R[q] /\ R[q].plain > 0
      BY <1>1, <1>8, <2>5
    <3>2. rem.plain = 0
      BY <2>2, <2>3, <3>1
    <3>3. R[q].plain <= n /\ Stays(cs, R, Bare) /\ \A r \in P \ {q} : R[r].plain = 0
      BY <3>1 DEF Safe
    <3>4. \A r \in P \ {q} : T[r].plain = 0
      BY <1>1, <3>2, <3>3
    <3> QED
      BY <1>6, <3>1, <3>3, <3>4
  <2> QED
    BY <2>4, <2>5
<1>9. Names(T) \cap WithTag(after) = {}
  BY <1>4
<1> QED
  BY <1>2, <1>7, <1>8, <1>9 DEF Safe, T

(* A copy at an address nothing names, or a plain unit.                    *)
LEMMA SafeAdd ==
    ASSUME NEW cs, NEW after, NEW n \in Nat, NEW k \in Nat, k >= n, NEW P, NEW R \in [P -> Removals],
           \A d \in Present(cs) : after[d] = cs[d] /\ d \in Present(after),
           Present(after) \cap Names(R) \subseteq Present(cs),
           Safe(cs, n, R)
    PROVE Safe(after, k, R)
<1>1. \A d \in Present(cs) : d \in WithTag(after) <=> d \in WithTag(cs)
  BY DEF WithTag
<1>2. \A s : Stays(cs, R, s) => Stays(after, R, s)
  BY <1>1 DEF Stays
<1>3. Names(R) \cap WithTag(after) = {}
  BY <1>1 DEF Safe, WithTag
<1>4. \A c \in Names(R) \cap Present(after) : Stays(after, R, after[c].sig)
  BY <1>2 DEF Safe
<1>5. ASSUME NEW p \in P, R[p].plain > 0
      PROVE R[p].plain <= k /\ Stays(after, R, Bare) /\ \A q \in P \ {p} : R[q].plain = 0
  <2>1. R[p].plain <= n /\ Stays(cs, R, Bare) /\ \A q \in P \ {p} : R[q].plain = 0
    BY <1>5 DEF Safe
  <2>2. R[p].plain \in Nat
    BY DEF Removals
  <2> QED
    BY <1>2, <2>1, <2>2
<1> QED
  BY <1>3, <1>4, <1>5 DEF Safe

----------------------------------------------------------------------------
(* The removals of the sanitizer are safe.                                 *)

Waiting(a) == [p \in Places(a) |-> Removal(a, p)]

(* Of an actor nobody has disturbed, what waits is safe to carry out.      *)
KeepsInv == \A a \in Actor \ disturbed : Safe(copies[a], plain[a], Waiting(a))

LEMMA WaitingTyped ==
    ASSUME TypeOK, NEW a \in Actor
    PROVE /\ Waiting(a) \in [Places(a) -> Removals]
          /\ Names(Waiting(a)) = Listed(a)
          /\ 0 \in Places(a) /\ Waiting(a)[0] = removals[a]
          /\ \A i \in Detached(a) : i \in Places(a) /\ i # 0 /\ Waiting(a)[i] = tasks[i].rem
          /\ copies[a] \in [Addr -> Copy] /\ plain[a] \in Nat
<1>1. ASSUME NEW i \in Detached(a) PROVE i # 0 /\ tasks[i].rem \in Removals
  <2>1. i \in 1..Len(tasks) /\ tasks[i] \in Task /\ tasks[i].kind = "detached"
    BY DEF Detached, TypeOK
  <2> QED
    BY <2>1 DEF Task
<1>2. \A p \in Places(a) : Removal(a, p) \in Removals
  BY <1>1 DEF Places, Removal, TypeOK
<1> QED
  BY <1>1, <1>2 DEF Waiting, Names, Listed, Places, Removal, TypeOK

LEMMA UndisturbedNothing ==
    ASSUME TypeOK, NEW a \in Actor, ~Outstanding(a)
    PROVE Safe(copies[a], plain[a], Waiting(a))
<1>1. Places(a) = {0} /\ removals[a] = None
  BY DEF Outstanding, Places
<1>2. \A p \in DOMAIN Waiting(a) : Waiting(a)[p] = None
  BY <1>1 DEF Waiting, Removal
<1> QED
  BY <1>2, NothingWaits

LEMMA ScanNamesTwins ==
    ASSUME TypeOK, NEW a \in Actor, NEW rem \in Duplicates(a)
    PROVE Twins(copies[a], plain[a], rem)
<1> DEFINE twins == {UntaggedLike(a, c) : c \in Strippable(a)} \ {{}}
           lone == {c \in Strippable(a) : copies[a][c].sig = Bare /\ UntaggedLike(a, c) = {}}
           n == Cardinality(lone)
           k == IF n < plain[a] THEN n ELSE plain[a]
<1>1. IsFiniteSet(lone) /\ n \in Nat /\ (lone = {} => n = 0)
  BY FiniteAssumption, FS_Subset, FS_CardinalityType, FS_EmptySet DEF Strippable, Tagged, Here
<1>2. PICK ds \in SUBSET UNION twins : rem = [lists |-> ds, plain |-> k]
  BY DEF Duplicates
<1>3. plain[a] \in Nat
  BY DEF TypeOK
<1>0. Strippable(a) \subseteq Tagged(a)
  BY DEF Strippable
<1>4. \A d \in UNION twins : \E c \in Tagged(a) : d \in UntaggedLike(a, c)
  BY <1>0
<1>5. Tagged(a) = WithTag(copies[a]) /\ Here(a) = Present(copies[a])
  BY DEF Tagged, Here, WithTag, Present
<1> HIDE DEF twins, k, lone
<1>6. \A d \in rem.lists : d \in Here(a) \ Tagged(a) /\ \E c \in Tagged(a) : copies[a][c].sig = copies[a][d].sig
  BY <1>2, <1>4 DEF UntaggedLike
<1>7. rem.plain <= plain[a] /\ (rem.plain > 0 => n > 0)
  BY <1>1, <1>2, <1>3 DEF k
<1>8. ASSUME rem.plain > 0
      PROVE /\ \E c \in Tagged(a) : copies[a][c].sig = Bare
            /\ \A d \in Here(a) \ Tagged(a) : copies[a][d].sig # Bare
  <2>1. PICK c \in lone : TRUE
    BY <1>1, <1>7, <1>8
  <2> QED
    BY <1>0, <2>1 DEF lone, UntaggedLike
<1> QED
  BY <1>5, <1>6, <1>7, <1>8 DEF Twins

LEMMA StrippedStrips ==
    ASSUME TypeOK, NEW a \in Actor, Revealed(a)
    PROVE Strips(copies[a], Stripped(a))
<1>1. ASSUME NEW c \in Here(a)
      PROVE /\ [copies[a][c] EXCEPT !.tag = FALSE].sig = copies[a][c].sig
            /\ [copies[a][c] EXCEPT !.tag = FALSE] # NoCopy
  <2>1. copies[a][c] \in [tag : BOOLEAN, sig : Sig]
    BY DEF TypeOK, Here, Copy
  <2>2. [copies[a][c] EXCEPT !.tag = FALSE].sig = copies[a][c].sig /\ copies[a][c].sig \in Sig
    BY <2>1
  <2> QED
    BY <2>2, NullAssumption DEF NoCopy
<1>2. \A c \in Addr : ~Stripped(a)[c].tag
  BY StrippedTyped
<1>3. Strippable(a) = Tagged(a) /\ Tagged(a) \subseteq Here(a)
  BY DEF Strippable, Tagged
<1> QED
  BY <1>1, <1>2, <1>3 DEF Stripped, Strips, Here

(* Where the settings reveal nothing, a scan names nothing.                *)
LEMMA HiddenNamesNothing ==
    ASSUME TypeOK, NEW a \in Actor, ~Revealed(a), NEW rem \in Duplicates(a)
    PROVE rem = None
<1> DEFINE twins == {UntaggedLike(a, c) : c \in Strippable(a)} \ {{}}
           lone == {c \in Strippable(a) : copies[a][c].sig = Bare /\ UntaggedLike(a, c) = {}}
           n == Cardinality(lone)
           k == IF n < plain[a] THEN n ELSE plain[a]
<1>1. PICK ds \in SUBSET UNION twins : rem = [lists |-> ds, plain |-> k]
  BY DEF Duplicates
<1>2. Strippable(a) = {}
  BY DEF Strippable
<1>3. UNION twins = {} /\ lone = {}
  BY <1>2
<1>4. n = 0 /\ plain[a] \in Nat
  BY <1>3, FS_EmptySet DEF TypeOK
<1> QED
  BY <1>1, <1>3, <1>4 DEF None

(* A removal the plain stack can satisfy takes what it names, no more.     *)
LEMMA RemovesWhatItNames ==
    ASSUME TypeOK, NEW a \in Actor, NEW before \in [Addr -> Copy], NEW rem \in Removals,
           rem.plain <= plain[a], RemoveUnits(a, before, rem)
    PROVE /\ copies'[a] = Less(before, rem)
          /\ plain'[a] = plain[a] - rem.plain
<1> DEFINE left == [c \in Addr |-> IF c \in rem.lists THEN NoCopy ELSE before[c]]
           live == {c \in Addr : left[c] # NoCopy}
           over == IF rem.plain > plain[a] THEN rem.plain - plain[a] ELSE 0
           n == IF over < Cardinality(live) THEN over ELSE Cardinality(live)
<1>1. plain[a] \in Nat /\ rem.plain \in Nat /\ plain \in [Actor -> Nat] /\ copies \in [Actor -> [Addr -> Copy]]
  BY DEF TypeOK, Removals
<1>2. over = 0
  BY <1>1
<1>3. IsFiniteSet(live) /\ Cardinality(live) \in Nat
  BY FiniteAssumption, FS_Subset, FS_CardinalityType
<1>4. n = 0
  BY <1>2, <1>3
<1>5. PICK gone \in {g \in SUBSET live : Cardinality(g) = n} :
          copies' = [copies EXCEPT ![a] = [c \in Addr |-> IF c \in gone THEN NoCopy ELSE left[c]]]
  BY DEF RemoveUnits
<1>6. plain' = [plain EXCEPT ![a] = IF rem.plain > @ THEN 0 ELSE @ - rem.plain]
  BY DEF RemoveUnits
<1> HIDE DEF live, n
<1>7. gone \subseteq live /\ Cardinality(gone) = 0
  BY <1>4, <1>5
<1>8. gone = {}
  BY <1>3, <1>7, FS_Subset, FS_EmptySet
<1>9. copies'[a] = left
  BY <1>1, <1>5, <1>8
<1> QED
  BY <1>1, <1>6, <1>9 DEF Less

LEMMA RemovesFromOne ==
    ASSUME TypeOK, NEW a \in Actor, NEW before, NEW rem, RemoveUnits(a, before, rem), NEW b \in Actor \ {a}
    PROVE copies'[b] = copies[b] /\ plain'[b] = plain[b]
BY DEF RemoveUnits, TypeOK

LEMMA WaitingMoves ==
    ASSUME NEW a \in Actor, NEW cs, NEW n \in Nat, NEW P, NEW R \in [P -> Removals], NEW m,
           \A p \in Places(a)' : Removal(a, p)' = None \/ (m[p] \in P /\ Removal(a, p)' = R[m[p]]),
           \A p, q \in Places(a)' : p # q /\ Removal(a, p)' # None /\ Removal(a, q)' # None => m[p] # m[q],
           Safe(cs, n, R)
    PROVE Safe(cs, n, Waiting(a)')
<1> DEFINE Q == Places(a)'
           T == Waiting(a)'
<1>1. T \in [Q -> Removals]
  BY NoneNames DEF Waiting
<1>2. \A p \in Q : T[p] = Removal(a, p)'
  BY DEF Waiting
<1> HIDE DEF Q, T
<1>3. \A p \in Q : T[p] = None \/ (m[p] \in P /\ T[p] = R[m[p]])
  BY <1>2 DEF Q
<1>4. \A p, q \in Q : p # q /\ T[p] # None /\ T[q] # None => m[p] # m[q]
  BY <1>2 DEF Q
<1>5. Safe(cs, n, T)
  BY <1>1, <1>3, <1>4, SafeMoves
<1> QED
  BY <1>5 DEF T

LEMMA TailFacts ==
    ASSUME NEW S, NEW s \in Seq(S), s # <<>>
    PROVE /\ Len(s) \in Nat \ {0} /\ DOMAIN s = 1..Len(s)
          /\ Tail(s) \in Seq(S) /\ Len(Tail(s)) = Len(s) - 1 /\ DOMAIN Tail(s) = 1..(Len(s) - 1)
          /\ \A i \in 1..(Len(s) - 1) : Tail(s)[i] = s[i + 1]
OBVIOUS

LEMMA AppendFacts ==
    ASSUME NEW S, NEW s \in Seq(S), NEW k \in S
    PROVE /\ Len(s) \in Nat /\ DOMAIN s = 1..Len(s)
          /\ DOMAIN Append(s, k) = 1..(Len(s) + 1)
          /\ Append(s, k)[Len(s) + 1] = k
          /\ \A i \in 1..Len(s) : Append(s, k)[i] = s[i]
OBVIOUS

LEMMA ConcatFacts ==
    ASSUME NEW S, NEW s \in Seq(S), NEW t \in Seq(S)
    PROVE /\ Len(s) \in Nat /\ Len(t) \in Nat
          /\ s \o t \in Seq(S) /\ Len(s \o t) = Len(s) + Len(t)
          /\ DOMAIN (s \o t) = 1..(Len(s) + Len(t))
          /\ \A i \in 1..Len(s) : (s \o t)[i] = s[i]
          /\ \A i \in 1..Len(t) : (s \o t)[Len(s) + i] = t[i]
OBVIOUS

(* The queue loses its head, which was carried out, dropped or put off.    *)
LEMMA TailMoves ==
    ASSUME TypeOK, NEW a \in Actor, NEW cs, NEW n \in Nat, NEW R \in [Places(a) -> Removals],
           tasks # <<>>,
           removals'[a] \in {R[0], None},
           \A i \in Detached(a) \ {1} : R[i] = tasks[i].rem,
           \/ tasks' = Tail(tasks)
           \/ \E k \in Task :
                /\ tasks' = Append(Tail(tasks), k)
                /\ k.kind = "detached" /\ k.actor = a => k.rem = R[0] /\ removals'[a] = None,
           Safe(cs, n, R)
    PROVE Safe(cs, n, Waiting(a)')
<1> DEFINE last == Len(tasks)
           m == [p \in Int |-> IF p = 0 \/ p = last THEN 0 ELSE p + 1]
<1>1. tasks \in Seq(Task) /\ last \in Nat \ {0} /\ DOMAIN tasks = 1..last
  BY TailFacts DEF TypeOK
<1>2. /\ Tail(tasks) \in Seq(Task) /\ Len(Tail(tasks)) = last - 1 /\ DOMAIN Tail(tasks) = 1..(last - 1)
      /\ \A i \in 1..(last - 1) : Tail(tasks)[i] = tasks[i + 1]
  BY <1>1, TailFacts
<1> HIDE DEF last
<1>3. /\ DOMAIN tasks' \subseteq 1..last
      /\ \A i \in DOMAIN tasks' : i # last => tasks'[i] = tasks[i + 1]
      /\ last \in DOMAIN tasks' => /\ tasks' = Append(Tail(tasks), tasks'[last])
                                   /\ tasks'[last].kind = "detached" /\ tasks'[last].actor = a
                                      => tasks'[last].rem = R[0] /\ removals'[a] = None
  <2>1. CASE tasks' = Tail(tasks)
    <3>1. DOMAIN tasks' = 1..(last - 1) /\ \A i \in 1..(last - 1) : tasks'[i] = tasks[i + 1]
      BY <1>2, <2>1
    <3>2. 1..(last - 1) \subseteq 1..last /\ last \notin 1..(last - 1)
      BY <1>1
    <3> QED
      BY <3>1, <3>2
  <2>2. ASSUME NEW k \in Task, tasks' = Append(Tail(tasks), k),
               k.kind = "detached" /\ k.actor = a => k.rem = R[0] /\ removals'[a] = None
        PROVE <1>3!:
    <3> DEFINE t == Tail(tasks)
    <3>1. t \in Seq(Task) /\ Len(t) = last - 1
      BY <1>2
    <3> HIDE DEF t
    <3>2. /\ DOMAIN Append(t, k) = 1..(Len(t) + 1)
          /\ Append(t, k)[Len(t) + 1] = k
          /\ \A i \in 1..Len(t) : Append(t, k)[i] = t[i]
      BY <3>1, AppendFacts
    <3>3. tasks' = Append(t, k) /\ (last - 1) + 1 = last
      BY <1>1, <2>2 DEF t
    <3>4. /\ DOMAIN tasks' = 1..last /\ tasks'[last] = k
          /\ \A i \in 1..(last - 1) : tasks'[i] = tasks[i + 1]
      BY <1>2, <3>1, <3>2, <3>3 DEF t
    <3>5. \A i \in DOMAIN tasks' : i # last => i \in 1..(last - 1)
      BY <1>1, <3>4
    <3>6. tasks' = Append(Tail(tasks), tasks'[last])
      BY <3>3, <3>4 DEF t
    <3> QED
      BY <2>2, <3>4, <3>5, <3>6
  <2> QED
    BY <2>1, <2>2
<1>4. ASSUME NEW i \in Detached(a)'
      PROVE /\ i \in 1..last
            /\ i = last => Removal(a, i)' = R[0] /\ removals'[a] = None
            /\ i # last => i + 1 \in Detached(a) /\ Removal(a, i)' = R[i + 1]
  <2>1. i \in DOMAIN tasks' /\ tasks'[i].kind = "detached" /\ tasks'[i].actor = a
    BY DEF Detached
  <2>2. i \in 1..last /\ i # 0
    BY <1>1, <1>3, <2>1
  <2>3. Removal(a, i)' = tasks'[i].rem
    BY <2>2 DEF Removal
  <2>4. ASSUME i # last PROVE i + 1 \in Detached(a) /\ Removal(a, i)' = R[i + 1]
    <3>1. tasks'[i] = tasks[i + 1] /\ i + 1 \in 1..last /\ i + 1 # 1
      BY <1>1, <1>3, <2>1, <2>2, <2>4
    <3>2. i + 1 \in Detached(a)
      BY <1>1, <2>1, <3>1 DEF Detached
    <3> QED
      BY <2>3, <3>1, <3>2
  <2> QED
    BY <1>3, <2>1, <2>2, <2>3, <2>4
<1>5. Removal(a, 0)' = removals'[a]
  BY DEF Removal
<1>6. \A p \in Places(a)' : p \in Int
  BY <1>1, <1>4 DEF Places
<1>7. \A p \in Places(a)' : Removal(a, p)' = None \/ (m[p] \in Places(a) /\ Removal(a, p)' = R[m[p]])
  BY <1>1, <1>4, <1>5 DEF Places
<1>8. ASSUME NEW p \in Places(a)', NEW q \in Places(a)', p # q,
             Removal(a, p)' # None, Removal(a, q)' # None
      PROVE m[p] # m[q]
  <2>1. p = 0 \/ p \in Detached(a)'
    BY DEF Places
  <2>2. q = 0 \/ q \in Detached(a)'
    BY DEF Places
  <2>3. \A r \in 1..last : m[r] = IF r = last THEN 0 ELSE r + 1
    BY <1>1
  <2>4. m[0] = 0
    OBVIOUS
  <2> HIDE DEF m
  <2>5. CASE p = 0
    BY <1>1, <1>4, <1>5, <1>8, <2>2, <2>3, <2>4, <2>5
  <2>6. CASE q = 0
    BY <1>1, <1>4, <1>5, <1>8, <2>1, <2>3, <2>4, <2>6
  <2>7. CASE p # 0 /\ q # 0
    BY <1>1, <1>4, <1>8, <2>1, <2>2, <2>3, <2>7
  <2> QED
    BY <2>5, <2>6, <2>7
<1> HIDE DEF m
<1>9. QED
  BY <1>7, <1>8, WaitingMoves

(* The queue stays as it is, or gets a task that removes nothing.          *)
LEMMA QueueMoves ==
    ASSUME TypeOK, NEW a \in Actor, NEW cs, NEW n \in Nat, NEW R \in [Places(a) -> Removals],
           removals'[a] \in {R[0], None},
           \A i \in Detached(a) : R[i] = tasks[i].rem,
           tasks' = tasks \/ \E k \in Task : k.kind # "detached" /\ tasks' = Append(tasks, k),
           Safe(cs, n, R)
    PROVE Safe(cs, n, Waiting(a)')
<1> DEFINE m == [p \in Places(a) |-> p]
<1>1. ASSUME NEW i \in Detached(a)' PROVE i \in Detached(a) /\ tasks'[i] = tasks[i] /\ i # 0
  <2>1. i \in DOMAIN tasks' /\ tasks'[i].kind = "detached" /\ tasks'[i].actor = a
    BY DEF Detached
  <2>2. tasks \in Seq(Task)
    BY DEF TypeOK
  <2>3. CASE tasks' = tasks
    BY <2>1, <2>2, <2>3 DEF Detached
  <2>4. ASSUME NEW k \in Task, k.kind # "detached", tasks' = Append(tasks, k)
        PROVE i \in Detached(a) /\ tasks'[i] = tasks[i] /\ i # 0
    <3>1. i \in 1..(Len(tasks) + 1) /\ Len(tasks) \in Nat /\ DOMAIN tasks = 1..Len(tasks)
      BY <2>1, <2>2, <2>4
    <3>2. /\ Append(tasks, k)[Len(tasks) + 1] = k
          /\ \A j \in 1..Len(tasks) : Append(tasks, k)[j] = tasks[j]
      BY <2>2, AppendFacts
    <3>3. i # Len(tasks) + 1
      BY <2>1, <2>4, <3>2
    <3>4. i \in 1..Len(tasks)
      BY <3>1, <3>3
    <3>5. tasks'[i] = tasks[i]
      BY <2>4, <3>2, <3>4
    <3>6. i # 0
      BY <3>1
    <3> QED
      BY <2>1, <3>1, <3>4, <3>5, <3>6 DEF Detached
  <2> QED
    BY <2>3, <2>4
<1>2. \A p \in Places(a)' : p \in Places(a) /\ (Removal(a, p)' = R[p] \/ Removal(a, p)' = None)
  BY <1>1 DEF Places, Removal
<1>3. \A p \in Places(a)' : Removal(a, p)' = None \/ (m[p] \in Places(a) /\ Removal(a, p)' = R[m[p]])
  BY <1>2
<1>4. \A p, q \in Places(a)' : p # q => m[p] # m[q]
  BY <1>2
<1> HIDE DEF m
<1>5. QED
  BY <1>3, <1>4, WaitingMoves

LEMMA DetachedOfEach ==
    ASSUME TypeOK
    PROVE /\ \A i \in 1..Len(DetachedTasks) :
                /\ DetachedTasks[i].kind = "detached"
                /\ DetachedTasks[i].rem = removals[DetachedTasks[i].actor]
          /\ \A i, j \in 1..Len(DetachedTasks) : DetachedTasks[i].actor = DetachedTasks[j].actor => i = j
<1> DEFINE S == {a \in Actor : removals[a] # None}
           as == InSomeOrder(S)
           n == Cardinality(S)
           D == DetachedTasks
<1>1. IsFiniteSet(S)
  BY FiniteAssumption, FS_Subset
<1>2. /\ n \in Nat /\ as \in [1..n -> S] /\ DOMAIN as = 1..n
      /\ \A i, j \in 1..n : as[i] = as[j] => i = j
  BY <1>1, OrderOfSet
<1>3. D = [i \in DOMAIN as |-> [kind |-> "detached", actor |-> as[i], rem |-> removals[as[i]]]]
  BY DEF DetachedTasks
<1>4. D \in Seq(Task)
  BY DetachedTasksTyped DEF TypeOK
<1> HIDE DEF S, as, n, D
<1>5. DOMAIN D = 1..n /\ DOMAIN D = 1..Len(D)
  BY <1>2, <1>3, <1>4
<1>6. \A i \in 1..Len(D) : D[i].kind = "detached" /\ D[i].actor = as[i] /\ D[i].rem = removals[as[i]]
  BY <1>2, <1>3, <1>5
<1>7. ASSUME NEW i \in 1..Len(D), NEW j \in 1..Len(D), D[i].actor = D[j].actor
      PROVE i = j
  <2>1. i \in 1..n /\ j \in 1..n
    BY <1>5
  <2>2. as[i] = as[j]
    BY <1>6, <1>7
  <2> QED
    BY <1>2, <2>1, <2>2
<1>8. \A i \in 1..Len(D) : D[i].kind = "detached" /\ D[i].rem = removals[D[i].actor]
  BY <1>6
<1>9. D = DetachedTasks
  BY DEF D
<1>10. QED
  BY <1>7, <1>8, <1>9

(* The menu closes: what waited in the session waits in the queue.         *)
LEMMA CloseMoves ==
    ASSUME TypeOK, installed, CloseMenu, NEW a \in Actor, NEW cs, NEW n \in Nat, Safe(cs, n, Waiting(a))
    PROVE Safe(cs, n, Waiting(a)')
<1> DEFINE D == DetachedTasks
           Q == RunTasks(rescan \ pending)
           last == Len(tasks)
           m == [p \in Int |-> IF p \in 1..last THEN p ELSE 0]
<1>1. tasks' = (tasks \o D) \o Q /\ removals'[a] = None
  BY DEF CloseMenu, CloseSession
<1>2. rescan \ pending \in SUBSET Actor
  BY DEF TypeOK
<1>3. /\ tasks \in Seq(Task) /\ D \in Seq(Task) /\ Q \in Seq(Task)
      /\ \A i \in DOMAIN Q : Q[i].kind = "run"
  BY <1>2, DetachedTasksTyped, RunTasksOfSet DEF TypeOK
<1>4. /\ \A i \in 1..Len(D) : D[i].kind = "detached" /\ D[i].rem = removals[D[i].actor]
      /\ \A i, j \in 1..Len(D) : D[i].actor = D[j].actor => i = j
  BY DetachedOfEach
<1> HIDE DEF D, Q
<1>5. last \in Nat /\ Len(D) \in Nat /\ Len(Q) \in Nat /\ DOMAIN tasks = 1..last
  BY <1>3
<1>6. /\ DOMAIN tasks' = 1..(last + Len(D) + Len(Q))
      /\ \A i \in 1..last : tasks'[i] = tasks[i]
      /\ \A i \in 1..Len(D) : tasks'[last + i] = D[i]
      /\ \A i \in 1..Len(Q) : tasks'[last + Len(D) + i] = Q[i]
  <2> DEFINE T == tasks \o D
  <2>1. /\ T \in Seq(Task) /\ Len(T) = last + Len(D)
        /\ \A i \in 1..last : T[i] = tasks[i]
        /\ \A i \in 1..Len(D) : T[last + i] = D[i]
    BY <1>3, ConcatFacts
  <2> HIDE DEF T
  <2>2. /\ DOMAIN (T \o Q) = 1..(Len(T) + Len(Q))
        /\ \A i \in 1..Len(T) : (T \o Q)[i] = T[i]
        /\ \A i \in 1..Len(Q) : (T \o Q)[Len(T) + i] = Q[i]
    <3>1. T \in Seq(Task) /\ Q \in Seq(Task)
      BY <1>3, <2>1
    <3> QED
      BY ONLY <3>1, ConcatFacts
  <2>3. tasks' = T \o Q
    BY <1>1 DEF T
  <2> HIDE DEF last
  <2>4. \A i \in 1..last : tasks'[i] = tasks[i]
    BY <1>5, <2>1, <2>2, <2>3
  <2>5. \A i \in 1..Len(D) : tasks'[last + i] = D[i]
    <3>1. \A i \in 1..Len(D) : last + i \in 1..Len(T)
      BY <1>5, <2>1
    <3> QED
      BY <2>1, <2>2, <2>3, <3>1
  <2> QED
    BY <2>1, <2>2, <2>3, <2>4, <2>5
<1> HIDE DEF last
<1>7. ASSUME NEW i \in Detached(a)'
      PROVE /\ i \in Int /\ i # 0
            /\ i \in 1..last => i \in Detached(a) /\ Removal(a, i)' = Removal(a, i)
            /\ i \notin 1..last => /\ i - last \in 1..Len(D) /\ D[i - last].actor = a
                                   /\ Removal(a, i)' = removals[a]
  <2>1. i \in DOMAIN tasks' /\ tasks'[i].kind = "detached" /\ tasks'[i].actor = a
    BY DEF Detached
  <2>2. i \in 1..(last + Len(D) + Len(Q)) /\ i # 0
    BY <1>5, <1>6, <2>1
  <2>3. Removal(a, i)' = tasks'[i].rem
    BY <2>2 DEF Removal
  <2>4. CASE i \in 1..last
    BY <1>5, <1>6, <2>1, <2>2, <2>3, <2>4 DEF Detached, Removal
  <2>5. CASE i \in (last + 1)..(last + Len(D))
    <3>1. i - last \in 1..Len(D) /\ tasks'[i] = D[i - last]
      <4>1. i - last \in 1..Len(D) /\ last + (i - last) = i
        BY <1>5, <2>5
      <4> QED
        BY <1>6, <4>1
    <3> QED
      BY <1>4, <1>5, <2>1, <2>2, <2>3, <2>5, <3>1
  <2>6. CASE i > last + Len(D)
    <3>1. i - last - Len(D) \in 1..Len(Q) /\ last + Len(D) + (i - last - Len(D)) = i
      BY <1>5, <2>2, <2>6
    <3>2. tasks'[i] = Q[i - last - Len(D)]
      BY <1>6, <3>1
    <3>3. tasks'[i].kind = "run"
      BY <1>3, <1>5, <3>1, <3>2
    <3> QED
      BY <2>1, <3>3
  <2> QED
    BY <1>5, <2>2, <2>4, <2>5, <2>6
<1>8. Removal(a, 0)' = None /\ Removal(a, 0) = removals[a]
  BY <1>1 DEF Removal
<1>9. ASSUME NEW p \in Places(a)', Removal(a, p)' # None
      PROVE /\ p \in Detached(a)'
            /\ m[p] = IF p \in 1..last THEN p ELSE 0
            /\ m[p] \in Places(a) /\ Removal(a, p)' = Waiting(a)[m[p]]
  <2>1. p \in Detached(a)' /\ p \in Int
    BY <1>7, <1>8, <1>9 DEF Places
  <2>2. m[p] = IF p \in 1..last THEN p ELSE 0
    BY <2>1
  <2> HIDE DEF m
  <2> QED
    BY <1>7, <1>8, <2>1, <2>2 DEF Places, Waiting
<1> HIDE DEF m
<1>10. ASSUME NEW p \in Places(a)', NEW q \in Places(a)', p # q,
              Removal(a, p)' # None, Removal(a, q)' # None
       PROVE m[p] # m[q]
  <2>1. p \in Detached(a)' /\ q \in Detached(a)' /\ p \in Int /\ q \in Int
    BY <1>7, <1>9, <1>10
  <2>2. CASE p \notin 1..last /\ q \notin 1..last
    <3>1. p - last = q - last
      BY <1>4, <1>7, <2>1, <2>2
    <3> QED
      BY <1>5, <1>10, <2>1, <3>1
  <2>3. CASE p \in 1..last \/ q \in 1..last
    <3>1. \A i \in 1..last : i # 0
      BY <1>5
    <3> QED
      BY <1>9, <1>10, <2>3, <3>1
  <2> QED
    BY <2>2, <2>3
<1>11. Waiting(a) \in [Places(a) -> Removals]
  BY WaitingTyped
<1>12. \A p \in Places(a)' : Removal(a, p)' = None \/ (m[p] \in Places(a) /\ Removal(a, p)' = Waiting(a)[m[p]])
  BY <1>9
<1>13. QED
  BY <1>10, <1>11, <1>12, WaitingMoves

(* A scan of an actor, and what it makes of the actor's copies.            *)
LEMMA RevealedScanSafe ==
    ASSUME TypeOK, NEW a \in Actor, Revealed(a), NEW rem \in Duplicates(a), Safe(copies[a], plain[a], Waiting(a))
    PROVE /\ rem \in Removals
          /\ Safe(Stripped(a), plain[a], [Waiting(a) EXCEPT ![0] = rem])
          /\ Safe(Stripped(a), plain[a], Waiting(a))
          /\ rem.plain <= plain[a]
          /\ Safe(Less(Stripped(a), rem), plain[a] - rem.plain, Waiting(a))
          /\ SameSigs(copies[a], plain[a], Less(Stripped(a), rem), plain[a] - rem.plain)
          /\ SameSigs(copies[a], plain[a], Stripped(a), plain[a])
<1> DEFINE R == Waiting(a)
           P == Places(a)
           cs == copies[a]
           n == plain[a]
           after == Stripped(a)
<1>1. /\ R \in [P -> Removals] /\ 0 \in P /\ \A p \in P : p # -1
      /\ n \in Nat /\ rem \in Removals /\ rem.plain \in Nat
  <2>1. \A i \in Detached(a) : i # -1
    BY DEF Detached, TypeOK
  <2> QED
    BY <2>1, WaitingTyped, DuplicatesTyped DEF Places, Removals
<1>2. Strips(cs, after) /\ Twins(cs, n, rem)
  BY StrippedStrips, ScanNamesTwins
<1>3. Safe(cs, n, R)
  OBVIOUS
<1> HIDE DEF R, P, cs, n, after
<1>4. Safe(after, n, [R EXCEPT ![0] = rem])
  <2> DEFINE T == [R EXCEPT ![0] = None]
             m == [p \in P |-> p]
  <2>1. /\ T \in [P -> Removals] /\ T[0] = None /\ [T EXCEPT ![0] = rem] = [R EXCEPT ![0] = rem]
        /\ \A p \in P : T[p] = None \/ (m[p] \in P /\ T[p] = R[m[p]])
        /\ \A p, q \in P : p # q => m[p] # m[q]
    BY <1>1, NoneNames
  <2> HIDE DEF T, m
  <2>2. Safe(cs, n, T)
    BY <1>1, <1>3, <2>1, SafeMoves
  <2>3. Safe(after, n, [T EXCEPT ![0] = rem])
    BY <1>1, <1>2, <2>1, <2>2, SafeScan
  <2> QED
    BY <2>1, <2>3
(* The removal at hand waits in a place of its own.                        *)
<1> DEFINE Q == P \cup {-1}
           T == [p \in Q |-> IF p = -1 THEN None ELSE R[p]]
           U == [T EXCEPT ![-1] = rem]
           V == [U EXCEPT ![-1] = None]
           m == [p \in Q |-> p]
<1>5. /\ T \in [Q -> Removals] /\ T[-1] = None /\ -1 \in Q
      /\ \A p \in Q : T[p] = None \/ (m[p] \in P /\ T[p] = R[m[p]])
  BY <1>1, NoneNames
<1>6. \A p, q \in Q : p # q => m[p] # m[q]
  OBVIOUS
<1>7. /\ U \in [Q -> Removals] /\ U[-1] = rem
      /\ \A p \in P : m[p] \in Q /\ R[p] = U[m[p]]
  BY <1>1, <1>5
<1>8. /\ V \in [Q -> Removals]
      /\ \A p \in P : m[p] \in Q /\ R[p] = V[m[p]]
  BY <1>1, <1>7, NoneNames
<1>9. P \subseteq Q
  OBVIOUS
<1> HIDE DEF T, m, Q, U, V
<1>10. Safe(cs, n, T)
  BY <1>1, <1>3, <1>5, <1>6, SafeMoves
<1>11. Safe(after, n, U)
  BY <1>1, <1>2, <1>5, <1>10, SafeScan DEF U
<1>12. \A p, q \in P : p # q => m[p] # m[q]
  BY <1>6, <1>9
<1>13. Safe(after, n, R)
  BY <1>1, <1>7, <1>11, <1>12, SafeMoves
<1>14. /\ rem.plain <= n
       /\ Safe(Less(after, rem), n - rem.plain, V)
       /\ SameSigs(after, n, Less(after, rem), n - rem.plain)
  BY <1>1, <1>5, <1>7, <1>11, SafeRemoval DEF V
<1>15. n - rem.plain \in Nat
  BY <1>1, <1>14
<1>16. Safe(Less(after, rem), n - rem.plain, R)
  BY <1>1, <1>8, <1>12, <1>14, <1>15, SafeMoves
<1>17. SameSigs(cs, n, Less(after, rem), n - rem.plain)
  BY <1>2, <1>14 DEF SameSigs, Strips, Present
<1>18. SameSigs(cs, n, after, n)
  BY <1>2 DEF SameSigs, Strips, Present
<1> QED
  BY <1>1, <1>4, <1>13, <1>14, <1>16, <1>17, <1>18 DEF R, cs, n, after

LEMMA ScanSafe ==
    ASSUME TypeOK, NEW a \in Actor, NEW rem \in Duplicates(a), Safe(copies[a], plain[a], Waiting(a))
    PROVE /\ rem \in Removals
          /\ Safe(Stripped(a), plain[a], [Waiting(a) EXCEPT ![0] = rem])
          /\ Safe(Stripped(a), plain[a], Waiting(a))
          /\ rem.plain <= plain[a]
          /\ Safe(Less(Stripped(a), rem), plain[a] - rem.plain, Waiting(a))
          /\ SameSigs(copies[a], plain[a], Less(Stripped(a), rem), plain[a] - rem.plain)
          /\ SameSigs(copies[a], plain[a], Stripped(a), plain[a])
<1>1. CASE Revealed(a)
  BY <1>1, RevealedScanSafe
<1>2. CASE ~Revealed(a)
  <2> DEFINE R == Waiting(a)
             P == Places(a)
             T == [R EXCEPT ![0] = None]
             m == [p \in P |-> p]
  <2>1. rem = None /\ Stripped(a) = copies[a]
    BY <1>2, HiddenNamesNothing, StrippedTyped
  <2>2. R \in [P -> Removals] /\ 0 \in P /\ plain[a] \in Nat /\ copies[a] \in [Addr -> Copy]
    BY WaitingTyped DEF Places
  <2>3. Less(copies[a], None) = copies[a]
    BY <2>2, NoneNames DEF Less
  <2>4. SameSigs(copies[a], plain[a], copies[a], plain[a])
    BY DEF SameSigs
  <2>5. plain[a] - 0 = plain[a] /\ 0 <= plain[a]
    BY <2>2
  <2> HIDE DEF R, P
  <2>6. /\ T \in [P -> Removals]
        /\ \A p \in P : T[p] = None \/ (m[p] \in P /\ T[p] = R[m[p]])
        /\ \A p, q \in P : p # q => m[p] # m[q]
    BY <2>2, NoneNames
  <2> HIDE DEF T, m
  <2>7. Safe(copies[a], plain[a], T)
    BY <2>2, <2>6, SafeMoves DEF R
  <2> QED
    BY <2>1, <2>3, <2>4, <2>5, <2>7, NoneNames DEF R, T
<1> QED
  BY <1>1, <1>2

LEMMA ScannedSafe ==
    ASSUME TypeOK, KeepsInv, NEW a \in Actor, Scanned(a), a \notin disturbed'
    PROVE Safe(copies[a], plain[a], Waiting(a))
<1>1. CASE Outstanding(a)
  BY <1>1 DEF Scanned, KeepsInv
<1>2. CASE ~Outstanding(a)
  BY <1>2, UndisturbedNothing
<1> QED
  BY <1>1, <1>2

(* A step that leaves an actor's copies and removals alone, and the queue  *)
(* or puts something else at its end.                                      *)
LEMMA QuietKeeps ==
    ASSUME TypeOK, KeepsInv, NEW a \in Actor, a \notin disturbed,
           copies'[a] = copies[a], plain'[a] = plain[a], removals'[a] \in {removals[a], None},
           tasks' = tasks \/ \E k \in Task : k.kind # "detached" /\ tasks' = Append(tasks, k)
    PROVE Safe(copies[a], plain[a], Waiting(a))'
<1>1. Safe(copies[a], plain[a], Waiting(a))
  BY DEF KeepsInv
<1>2. Safe(copies[a], plain[a], Waiting(a)')
  BY <1>1, WaitingTyped, QueueMoves
<1> QED
  BY <1>2

(* The same when the head of the queue goes.                               *)
LEMMA TailKeeps ==
    ASSUME TypeOK, KeepsInv, NEW a \in Actor, a \notin disturbed,
           copies'[a] = copies[a], plain'[a] = plain[a], removals'[a] \in {removals[a], None},
           tasks # <<>>,
           \/ tasks' = Tail(tasks)
           \/ \E k \in Task :
                /\ tasks' = Append(Tail(tasks), k)
                /\ k.kind = "detached" /\ k.actor = a => k.rem = removals[a] /\ removals'[a] = None
    PROVE Safe(copies[a], plain[a], Waiting(a))'
<1>1. Safe(copies[a], plain[a], Waiting(a))
  BY DEF KeepsInv
<1>2. Safe(copies[a], plain[a], Waiting(a)')
  BY <1>1, WaitingTyped, TailMoves
<1> QED
  BY <1>2

(* A removal task carries out what waits in the place p.                   *)
LEMMA RemovalKeeps ==
    ASSUME TypeOK, KeepsInv, NEW a \in Actor, a \notin disturbed,
           NEW p \in Places(a), RemoveUnits(a, copies[a], Removal(a, p)),
           tasks # <<>>, tasks' = Tail(tasks),
           p = 0 => removals'[a] = None,
           p # 0 => p = 1 /\ removals'[a] = removals[a]
    PROVE /\ Safe(copies[a], plain[a], Waiting(a))'
          /\ SameSigs(copies[a], plain[a], copies'[a], plain'[a])
<1> DEFINE R == Waiting(a)
           rem == Removal(a, p)
           T == [R EXCEPT ![p] = None]
           k == plain[a] - rem.plain
           left == Less(copies[a], rem)
<1>1. /\ R \in [Places(a) -> Removals] /\ 0 \in Places(a) /\ R[0] = removals[a]
      /\ \A i \in Detached(a) : i \in Places(a) /\ i # 0 /\ R[i] = tasks[i].rem
      /\ copies[a] \in [Addr -> Copy] /\ plain[a] \in Nat
      /\ R[p] = rem
  BY WaitingTyped DEF Waiting
<1>2. Safe(copies[a], plain[a], R)
  BY DEF KeepsInv
<1>3. rem \in Removals /\ rem.plain \in Nat
  BY <1>1 DEF Removals
<1> HIDE DEF R, rem
<1>4. /\ rem.plain <= plain[a] /\ Safe(left, k, T) /\ SameSigs(copies[a], plain[a], left, k)
  BY <1>1, <1>2, SafeRemoval
<1>5. copies'[a] = left /\ plain'[a] = k /\ k \in Nat
  BY <1>1, <1>3, <1>4, RemovesWhatItNames DEF rem
<1>6. T \in [Places(a) -> Removals]
  BY <1>1, NoneNames
<1>7. removals'[a] \in {T[0], None} /\ \A i \in Detached(a) \ {1} : T[i] = tasks[i].rem
  <2>1. CASE p = 0
    BY <1>1, <2>1
  <2>2. CASE p # 0
    BY <1>1, <2>2
  <2> QED
    BY <2>1, <2>2
<1> HIDE DEF T, k, left
<1>8. Safe(left, k, Waiting(a)')
  BY <1>4, <1>5, <1>6, <1>7, TailMoves
<1> QED
  BY <1>4, <1>5, <1>8

LEMMA AddCopyKeeps ==
    ASSUME TypeOK, KeepsInv, NEW t \in Thread, NEW a \in Actor, AddCopy(t, a), a \notin disturbed'
    PROVE Safe(copies[a], plain[a], Waiting(a))'
<1> USE DEF session, game
<1>1. PICK c \in Addr \ Here(a), r \in [tag : BOOLEAN, sig : Sig] :
          /\ copies' = [copies EXCEPT ![a][c] = r]
          /\ disturbed' = IF c \in Listed(a) THEN disturbed \cup {a} ELSE disturbed
  BY DEF AddCopy
<1>2. plain' = plain /\ removals' = removals /\ tasks' = tasks
  BY DEF AddCopy
<1>3. c \notin Listed(a) /\ a \notin disturbed
  BY <1>1
<1>4. Safe(copies[a], plain[a], Waiting(a))
  BY <1>3 DEF KeepsInv
<1>5. /\ Waiting(a) \in [Places(a) -> Removals] /\ Names(Waiting(a)) = Listed(a)
      /\ copies[a] \in [Addr -> Copy] /\ plain[a] \in Nat
  BY WaitingTyped
<1>6. copies'[a] = [copies[a] EXCEPT ![c] = r]
  BY <1>1 DEF TypeOK
<1>7. \A d \in Addr : copies'[a][d] = IF d = c THEN r ELSE copies[a][d]
  BY <1>5, <1>6
<1>8. \A d \in Present(copies[a]) : copies'[a][d] = copies[a][d] /\ d \in Present(copies'[a])
  BY <1>1, <1>7 DEF Present, Here
<1>9. Present(copies'[a]) \cap Names(Waiting(a)) \subseteq Present(copies[a])
  BY <1>3, <1>5, <1>7 DEF Present
<1>10. Safe(copies'[a], plain[a], Waiting(a))
  BY <1>4, <1>5, <1>8, <1>9, SafeAdd
<1>11. Safe(copies'[a], plain[a], Waiting(a)')
  BY <1>2, <1>5, <1>10, WaitingTyped, QueueMoves
<1> QED
  BY <1>2, <1>11

LEMMA AddPlainKeeps ==
    ASSUME TypeOK, KeepsInv, NEW t \in Thread, NEW a \in Actor, AddPlain(t, a), a \notin disturbed
    PROVE Safe(copies[a], plain[a], Waiting(a))'
<1> USE DEF session, game
<1>1. plain' = [plain EXCEPT ![a] = @ + 1] /\ copies' = copies /\ removals' = removals /\ tasks' = tasks
  BY DEF AddPlain
<1>2. Safe(copies[a], plain[a], Waiting(a))
  BY DEF KeepsInv
<1>3. Waiting(a) \in [Places(a) -> Removals] /\ plain[a] \in Nat
  BY WaitingTyped
<1>4. plain'[a] \in Nat /\ plain'[a] >= plain[a]
  BY <1>1, <1>3 DEF TypeOK
<1>5. Safe(copies[a], plain'[a], Waiting(a))
  BY <1>2, <1>3, <1>4, SafeAdd
<1>6. Safe(copies[a], plain'[a], Waiting(a)')
  BY <1>1, <1>4, <1>5, WaitingTyped, QueueMoves
<1> QED
  BY <1>1, <1>6

LEMMA ScanKeeps ==
    ASSUME TypeOK, KeepsInv, NEW a \in Actor, RunForActor(a), a \notin disturbed'
    PROVE Safe(copies[a], plain[a], Waiting(a))'
<1> USE DEF session, inventory, history, game
<1>1. tasks' = tasks
  BY DEF RunForActor
<1>2. CASE ~(installed /\ Affected(a) /\ menu # a)
  <2>1. UNCHANGED <<copies, plain, removals, disturbed>>
    BY <1>2 DEF RunForActor, Handoff
  <2> QED
    BY <1>1, <2>1, QuietKeeps
<1>3. CASE installed /\ Affected(a) /\ menu # a
  <2>1. PICK rem \in Duplicates(a) :
            \/ RemoveUnits(a, Stripped(a), rem)
            \/ copies' = [copies EXCEPT ![a] = Stripped(a)] /\ UNCHANGED plain
    BY <1>3 DEF RunForActor
  <2>2. Scanned(a) /\ removals' = removals
    BY <1>3 DEF RunForActor
  <2>3. Safe(copies[a], plain[a], Waiting(a))
    BY <2>2, ScannedSafe
  <2>4. /\ rem \in Removals /\ rem.plain <= plain[a] /\ rem.plain \in Nat
        /\ Safe(Stripped(a), plain[a], Waiting(a))
        /\ Safe(Less(Stripped(a), rem), plain[a] - rem.plain, Waiting(a))
    BY <2>3, ScanSafe DEF Removals
  <2>5. plain[a] \in Nat
    BY DEF TypeOK
  <2>6. Safe(copies'[a], plain'[a], Waiting(a)) /\ plain'[a] \in Nat
    <3>1. CASE RemoveUnits(a, Stripped(a), rem)
      <4>1. copies'[a] = Less(Stripped(a), rem) /\ plain'[a] = plain[a] - rem.plain
        BY <2>4, <3>1, StrippedTyped, RemovesWhatItNames
      <4> QED
        BY <2>4, <2>5, <4>1
    <3>2. CASE copies' = [copies EXCEPT ![a] = Stripped(a)] /\ UNCHANGED plain
      BY <2>4, <2>5, <3>2 DEF TypeOK
    <3> QED
      BY <2>1, <3>1, <3>2
  <2>7. Safe(copies'[a], plain'[a], Waiting(a)')
    BY <1>1, <2>2, <2>6, WaitingTyped, QueueMoves
  <2> QED
    BY <2>7
<1> QED
  BY <1>2, <1>3

LEMMA FrameKeeps ==
    ASSUME TypeOK, KeepsInv, NEW a \in Actor, Frame(a), a \notin disturbed'
    PROVE Safe(copies[a], plain[a], Waiting(a))'
<1>1. PICK rem \in Duplicates(a) :
          IF rem = None
          THEN /\ removals' = [removals EXCEPT ![a] = None]
               /\ sanitized' = sanitized \cup {a}
               /\ UNCHANGED <<passing, tasks>>
          ELSE /\ passing' = passing \cup {a}
               /\ removals' = [removals EXCEPT ![a] = rem]
               /\ tasks' = Append(tasks, [kind |-> "dedup", actor |-> a])
               /\ UNCHANGED sanitized
  BY DEF Frame
<1>2. Scanned(a) /\ copies' = [copies EXCEPT ![a] = Stripped(a)] /\ plain' = plain
  BY DEF Frame
<1>3. Safe(copies[a], plain[a], Waiting(a))
  BY <1>2, ScannedSafe
<1> DEFINE R == Waiting(a)
           T == [R EXCEPT ![0] = rem]
<1>4. rem \in Removals /\ Safe(Stripped(a), plain[a], T)
  BY <1>3, ScanSafe
<1>5. /\ R \in [Places(a) -> Removals] /\ 0 \in Places(a) /\ plain[a] \in Nat
      /\ \A i \in Detached(a) : i \in Places(a) /\ i # 0 /\ R[i] = tasks[i].rem
  BY WaitingTyped
<1> HIDE DEF R
<1>6. /\ T \in [Places(a) -> Removals] /\ T[0] = rem
      /\ \A i \in Detached(a) : T[i] = tasks[i].rem
  BY <1>4, <1>5
<1>7. removals'[a] = rem
  BY <1>1 DEF TypeOK
<1>8. tasks' = tasks \/ \E k \in Task : k.kind # "detached" /\ tasks' = Append(tasks, k)
  <2>1. [kind |-> "dedup", actor |-> a] \in Task /\ [kind |-> "dedup", actor |-> a].kind # "detached"
    BY DEF Task
  <2> QED
    BY <1>1, <2>1
<1> HIDE DEF T
<1>9. Safe(Stripped(a), plain[a], Waiting(a)')
  BY <1>4, <1>5, <1>6, <1>7, <1>8, QueueMoves
<1>10. copies'[a] = Stripped(a)
  BY <1>2 DEF TypeOK
<1> QED
  BY <1>2, <1>9, <1>10

(* The removal task of a pass: drops, puts off or carries out what waits.  *)
LEMMA DedupKeeps ==
    ASSUME TypeOK, KeepsInv, NEW a \in Actor, DedupTask(a), NEW b \in Actor \ disturbed
    PROVE Safe(copies[b], plain[b], Waiting(b))'
<1> USE DEF inventory
<1>1. tasks # <<>> /\ tasks \in Seq(Task) /\ removals \in [Actor -> Removals]
  BY DEF DedupTask, NextTask, TypeOK
<1>2. \A c \in Actor : removals'[c] \in {removals[c], None}
  BY <1>1 DEF DedupTask, Complete, Abandon
<1>3. ASSUME tasks' # Tail(tasks)
      PROVE \E k \in Task : /\ tasks' = Append(Tail(tasks), k)
                            /\ k.kind = "detached" /\ k.actor = b => k.rem = removals[b] /\ removals'[b] = None
  <2> DEFINE k == [kind |-> "detached", actor |-> a, rem |-> removals[a]]
  <2>1. tasks' = Append(Tail(tasks), k) /\ Abandon(a)
    BY <1>3 DEF DedupTask
  <2>2. k \in Task /\ k.actor = a /\ k.rem = removals[a]
    BY <1>1 DEF Task
  <2>3. removals'[a] = None
    BY <1>1, <2>1 DEF Abandon
  <2> HIDE DEF k
  <2> QED
    BY <2>1, <2>2, <2>3
<1>4. CASE copies'[b] = copies[b] /\ plain'[b] = plain[b]
  BY <1>1, <1>2, <1>3, <1>4, TailKeeps
<1>5. CASE ~(copies'[b] = copies[b] /\ plain'[b] = plain[b])
  <2>1. RemoveUnits(a, copies[a], removals[a]) /\ tasks' = Tail(tasks) /\ removals'[a] = None
    BY <1>1, <1>5 DEF DedupTask, Complete
  <2>2. b = a
    BY <1>5, <2>1, RemovesFromOne
  <2>3. 0 \in Places(a) /\ Removal(a, 0) = removals[a]
    BY DEF Places, Removal
  <2> QED
    BY <1>1, <2>1, <2>2, <2>3, RemovalKeeps
<1> QED
  BY <1>4, <1>5

LEMMA DetachedKeeps ==
    ASSUME TypeOK, KeepsInv, NEW a \in Actor, DetachedTask(a), NEW b \in Actor \ disturbed
    PROVE Safe(copies[b], plain[b], Waiting(b))'
<1> USE DEF inventory, session
<1>1. tasks # <<>> /\ tasks' = Tail(tasks) /\ removals' = removals
  BY DEF DetachedTask, NextTask
<1>2. CASE copies'[b] = copies[b] /\ plain'[b] = plain[b]
  BY <1>1, <1>2, TailKeeps
<1>3. CASE ~(copies'[b] = copies[b] /\ plain'[b] = plain[b])
  <2>1. RemoveUnits(a, copies[a], Head(tasks).rem)
    BY <1>3 DEF DetachedTask
  <2>2. b = a
    BY <1>3, <2>1, RemovesFromOne
  <2>3. 1 \in Places(a) /\ Removal(a, 1) = Head(tasks).rem
    <3>1. tasks \in Seq(Task) /\ Head(tasks).kind = "detached" /\ Head(tasks).actor = a
      BY DEF DetachedTask, NextTask, TypeOK
    <3>2. 1 \in DOMAIN tasks /\ Head(tasks) = tasks[1]
      BY <1>1, <3>1
    <3> QED
      BY <3>1, <3>2 DEF Places, Removal, Detached
  <2> QED
    BY <1>1, <2>1, <2>2, <2>3, RemovalKeeps
<1> QED
  BY <1>2, <1>3

LEMMA KeepsNext ==
    ASSUME TypeOK, KeepsInv, [Next]_vars
    PROVE KeepsInv'
<1> SUFFICES ASSUME NEW b \in Actor, b \notin disturbed'
             PROVE Safe(copies[b], plain[b], Waiting(b))'
  BY DEF KeepsInv
<1> USE DEF coalescing, session, threads, game, inventory, history
<1>1. ASSUME NEW a \in Actor, RunForActor(a) \/ Frame(a) \/ \E t \in Thread : AddCopy(t, a) \/ AddPlain(t, a)
      PROVE Safe(copies[b], plain[b], Waiting(b))'
  <2>1. CASE b = a
    <3>1. ASSUME NEW t \in Thread, AddPlain(t, a) PROVE Safe(copies[b], plain[b], Waiting(b))'
      <4>1. a \notin disturbed
        BY <2>1, <3>1 DEF AddPlain
      <4> QED
        BY <2>1, <3>1, <4>1, AddPlainKeeps
    <3> QED
      BY <1>1, <2>1, <3>1, ScanKeeps, FrameKeeps, AddCopyKeeps
  <2>2. CASE b # a
    <3>1. b \notin disturbed
      BY <1>1, <2>2 DEF RunForActor, Scanned, Frame, AddCopy, AddPlain
    <3>2. copies'[b] = copies[b] /\ plain'[b] = plain[b]
      <4>1. ASSUME RunForActor(a) PROVE copies'[b] = copies[b] /\ plain'[b] = plain[b]
        <5>1. \/ UNCHANGED inventory
              \/ \E rem \in Duplicates(a) :
                    \/ RemoveUnits(a, Stripped(a), rem)
                    \/ copies' = [copies EXCEPT ![a] = Stripped(a)] /\ UNCHANGED plain
          BY <4>1 DEF RunForActor
        <5> QED
          BY <2>2, <5>1, RemovesFromOne DEF TypeOK
      <4>2. ASSUME Frame(a) PROVE copies'[b] = copies[b] /\ plain'[b] = plain[b]
        BY <2>2, <4>2 DEF Frame, TypeOK
      <4>3. ASSUME NEW t \in Thread, AddCopy(t, a) PROVE copies'[b] = copies[b] /\ plain'[b] = plain[b]
        BY <2>2, <4>3 DEF AddCopy, TypeOK
      <4>4. ASSUME NEW t \in Thread, AddPlain(t, a) PROVE copies'[b] = copies[b] /\ plain'[b] = plain[b]
        BY <2>2, <4>4 DEF AddPlain, TypeOK
      <4> QED
        BY <1>1, <4>1, <4>2, <4>3, <4>4
    <3>3. removals'[b] = removals[b]
      BY <1>1, <2>2 DEF RunForActor, Handoff, Frame, AddCopy, AddPlain, TypeOK
    <3>4. tasks' = tasks \/ \E k \in Task : k.kind # "detached" /\ tasks' = Append(tasks, k)
      <4>1. [kind |-> "dedup", actor |-> a] \in Task /\ [kind |-> "dedup", actor |-> a].kind # "detached"
        BY DEF Task
      <4> QED
        BY <1>1, <4>1 DEF RunForActor, Frame, AddCopy, AddPlain
    <3> QED
      BY <3>1, <3>2, <3>3, <3>4, QuietKeeps
  <2> QED
    BY <2>1, <2>2
<1>2. ASSUME NEW t \in Thread, NEW a \in Actor, AddTask(t, a)
      PROVE Safe(copies[b], plain[b], Waiting(b))'
  <2>1. [kind |-> "run", actor |-> a] \in Task /\ [kind |-> "run", actor |-> a].kind # "detached"
    BY DEF Task
  <2>2. /\ tasks' = Append(tasks, [kind |-> "run", actor |-> a])
        /\ UNCHANGED <<copies, plain, removals, disturbed>>
    BY <1>2 DEF AddTask
  <2> QED
    BY <2>1, <2>2, QuietKeeps
<1>3. ASSUME NEW a \in Actor, RunBegin(a)
      PROVE Safe(copies[b], plain[b], Waiting(b))'
  <2>1. tasks # <<>> /\ tasks' = Tail(tasks) /\ UNCHANGED <<copies, plain, removals, disturbed>>
    BY <1>3 DEF RunBegin, NextTask
  <2> QED
    BY <2>1, TailKeeps
<1>4. ASSUME NEW a \in Actor, DedupTask(a) \/ DetachedTask(a)
      PROVE Safe(copies[b], plain[b], Waiting(b))'
  <2>1. b \notin disturbed
    BY <1>4 DEF DedupTask, DetachedTask
  <2> QED
    BY <1>4, <2>1, DedupKeeps, DetachedKeeps
<1>5. ASSUME NEW a \in Actor, Lose(a)
      PROVE Safe(copies[b], plain[b], Waiting(b))'
  <2>1. b \notin disturbed /\ tasks' = tasks /\ removals' = removals
    BY <1>5 DEF Lose
  <2>2. CASE b = a
    <3>1. ~Outstanding(b) /\ Outstanding(b)' = Outstanding(b)
      BY <1>5, <2>1, <2>2 DEF Lose, Outstanding, Detached
    <3>2. Places(b)' = {0} /\ removals'[b] = None
      BY <3>1 DEF Outstanding, Places
    <3>3. \A p \in DOMAIN Waiting(b)' : Waiting(b)'[p] = None
      BY <3>2 DEF Waiting, Removal
    <3>4. Safe(copies'[b], plain'[b], Waiting(b)')
      BY <3>3, NothingWaits
    <3> QED
      BY <3>4
  <2>3. CASE b # a
    <3>1. copies'[b] = copies[b] /\ plain'[b] = plain[b]
      BY <1>5, <2>3 DEF Lose, TypeOK
    <3> QED
      BY <2>1, <3>1, QuietKeeps
  <2> QED
    BY <2>2, <2>3
<1>6. CASE CloseMenu
  <2>1. UNCHANGED <<copies, plain, disturbed>>
    BY <1>6 DEF CloseMenu
  <2>2. CASE installed
    <3>1. Safe(copies[b], plain[b], Waiting(b)) /\ plain[b] \in Nat
      BY <2>1 DEF KeepsInv, TypeOK
    <3>2. Safe(copies[b], plain[b], Waiting(b)')
      BY <1>6, <2>2, <3>1, CloseMoves
    <3> QED
      BY <2>1, <3>2
  <2>3. CASE ~installed
    BY <1>6, <2>1, <2>3, QuietKeeps DEF CloseMenu
  <2> QED
    BY <2>2, <2>3
<1>7. CASE Uninstall
  <2>1. UNCHANGED <<copies, plain, disturbed, tasks>> /\ removals'[b] = None
    BY <1>7 DEF Uninstall, CloseSession
  <2> QED
    BY <2>1, QuietKeeps
<1>8. ASSUME \/ Install \/ UNCHANGED vars
             \/ \E a \in Actor : \/ OpenMenu(a) \/ Rescope(a) \/ Reoutfit(a) \/ RunEnd(a)
                                 \/ \E t \in Thread : Queue(t, a)
             \/ \E r \in Reveals : SetReveal(r)
      PROVE Safe(copies[b], plain[b], Waiting(b))'
  <2>1. UNCHANGED <<copies, plain, removals, tasks, disturbed>>
    BY <1>8 DEF Install, vars, OpenMenu, Rescope, Reoutfit, SetReveal, Changed, RunEnd, Queue
  <2> QED
    BY <2>1, QuietKeeps
<1> QED
  BY <1>1, <1>2, <1>3, <1>4, <1>5, <1>6, <1>7, <1>8 DEF Next, RunTask, ThreadStep, MainStep

LEMMA KeepsAlways == Spec => []KeepsInv
<1>1. Init => KeepsInv
  <2> SUFFICES ASSUME Init, NEW a \in Actor PROVE Safe(copies[a], plain[a], Waiting(a))
    BY DEF KeepsInv
  <2>1. TypeOK
    BY InitTypes
  <2>2. ~Outstanding(a)
    BY DEF Init, Outstanding, Detached
  <2> QED
    BY <2>1, <2>2, UndisturbedNothing
<1>2. TypeOK /\ KeepsInv /\ [Next]_vars => KeepsInv'
  BY KeepsNext
<1> QED
  BY <1>1, <1>2, SanitizerTypeCorrect, PTL DEF Spec

(* Whoever has a copy of an identity has a unit of it, and conversely.     *)
LEMMA UnitsCounted ==
    ASSUME TypeOK, NEW a \in Actor, NEW s
    PROVE Units(a, s) > 0 <=> \/ \E d \in Present(copies[a]) : copies[a][d].sig = s
                              \/ s = Bare /\ plain[a] > 0
<1> DEFINE of == {c \in Here(a) : copies[a][c].sig = s}
           n == Cardinality(of)
<1>1. IsFiniteSet(of)
  BY FiniteAssumption, FS_Subset DEF Here
<1>2. n \in Nat /\ (n = 0 <=> of = {})
  BY <1>1, FS_CardinalityType, FS_EmptySet
<1>3. plain[a] \in Nat
  BY DEF TypeOK
<1>4. of # {} <=> \E d \in Present(copies[a]) : copies[a][d].sig = s
  BY DEF Here, Present
<1>5. Units(a, s) = n + (IF s = Bare THEN plain[a] ELSE 0)
  BY DEF Units
<1> HIDE DEF n, of
<1> QED
  BY <1>2, <1>3, <1>4, <1>5

LEMMA UnitsStay ==
    ASSUME TypeOK, TypeOK', NEW a \in Actor, NEW s, Units(a, s) > 0,
           SameSigs(copies[a], plain[a], copies'[a], plain'[a])
    PROVE Units(a, s)' > 0
<1>1. (\E d \in Present(copies[a]) : copies[a][d].sig = s) \/ (s = Bare /\ plain[a] > 0)
  BY UnitsCounted
<1>2. (\E d \in Present(copies'[a]) : copies'[a][d].sig = s) \/ (s = Bare /\ plain'[a] > 0)
  BY <1>1 DEF SameSigs
<1> DEFINE of == {c \in Here(a)' : copies'[a][c].sig = s}
           n == Cardinality(of)
<1>3. IsFiniteSet(of)
  BY FiniteAssumption, FS_Subset DEF Here
<1>4. n \in Nat /\ (n = 0 <=> of = {})
  BY <1>3, FS_CardinalityType, FS_EmptySet
<1>5. plain'[a] \in Nat
  BY DEF TypeOK
<1>6. of # {} <=> \E d \in Present(copies'[a]) : copies'[a][d].sig = s
  BY DEF Here, Present
<1>7. Units(a, s)' = n + (IF s = Bare THEN plain'[a] ELSE 0)
  BY DEF Units
<1> HIDE DEF n, of
<1> QED
  BY <1>2, <1>4, <1>5, <1>6, <1>7

LEMMA LastCopyStep ==
    ASSUME TypeOK, TypeOK', KeepsInv, NEW a \in Actor, a \notin disturbed, NEW s \in Sig, Units(a, s) > 0,
           NEW b \in Actor, RunForActor(b) \/ RunTask(b)
    PROVE Units(a, s)' > 0
<1> USE DEF inventory, session
<1> SUFFICES SameSigs(copies[a], plain[a], copies'[a], plain'[a])
  BY UnitsStay
<1>1. Safe(copies[a], plain[a], Waiting(a))
  BY DEF KeepsInv
<1>2. CASE copies'[a] = copies[a] /\ plain'[a] = plain[a]
  BY <1>2 DEF SameSigs
<1>3. CASE RunForActor(b) /\ ~(copies'[a] = copies[a] /\ plain'[a] = plain[a])
  <2>1. PICK rem \in Duplicates(b) :
            \/ RemoveUnits(b, Stripped(b), rem)
            \/ copies' = [copies EXCEPT ![b] = Stripped(b)] /\ UNCHANGED plain
    BY <1>3 DEF RunForActor
  <2>2. a = b
    BY <1>3, <2>1, RemovesFromOne DEF TypeOK
  <2>3. /\ rem \in Removals /\ rem.plain <= plain[a]
        /\ SameSigs(copies[a], plain[a], Less(Stripped(a), rem), plain[a] - rem.plain)
        /\ SameSigs(copies[a], plain[a], Stripped(a), plain[a])
    BY <1>1, <2>2, ScanSafe
  <2>4. CASE RemoveUnits(b, Stripped(b), rem)
    BY <2>2, <2>3, <2>4, StrippedTyped, RemovesWhatItNames
  <2>5. CASE copies' = [copies EXCEPT ![b] = Stripped(b)] /\ UNCHANGED plain
    <3>1. copies'[a] = Stripped(a) /\ plain'[a] = plain[a]
      BY <2>2, <2>5 DEF TypeOK
    <3> QED
      BY <2>3, <3>1
  <2> QED
    BY <2>1, <2>4, <2>5
<1>4. CASE DedupTask(b) /\ ~(copies'[a] = copies[a] /\ plain'[a] = plain[a])
  <2>1. RemoveUnits(b, copies[b], removals[b]) /\ tasks' = Tail(tasks) /\ removals'[b] = None /\ tasks # <<>>
    BY <1>4 DEF DedupTask, NextTask, Complete, TypeOK
  <2>2. a = b
    BY <1>4, <2>1, RemovesFromOne
  <2>3. 0 \in Places(a) /\ Removal(a, 0) = removals[a]
    BY DEF Places, Removal
  <2> QED
    BY <2>1, <2>2, <2>3, RemovalKeeps
<1>5. CASE DetachedTask(b) /\ ~(copies'[a] = copies[a] /\ plain'[a] = plain[a])
  <2>1. RemoveUnits(b, copies[b], Head(tasks).rem) /\ tasks' = Tail(tasks) /\ removals' = removals
        /\ tasks # <<>> /\ Head(tasks).kind = "detached" /\ Head(tasks).actor = b
    BY <1>5 DEF DetachedTask, NextTask
  <2>2. a = b
    BY <1>5, <2>1, RemovesFromOne
  <2>3. 1 \in Places(a) /\ Removal(a, 1) = Head(tasks).rem
    <3>1. 1 \in DOMAIN tasks /\ Head(tasks) = tasks[1]
      BY <2>1 DEF TypeOK
    <3> QED
      BY <2>1, <2>2, <3>1 DEF Places, Removal, Detached
  <2> QED
    BY <2>1, <2>2, <2>3, RemovalKeeps
<1>6. CASE RunBegin(b)
  BY <1>2, <1>6 DEF RunBegin
<1> QED
  BY <1>2, <1>3, <1>4, <1>5, <1>6 DEF RunTask

(* However scans, frames, removal tasks and menus interleave, on any       *)
(* number of copies and identities, the sanitizer's own steps leave an     *)
(* actor a copy of every identity the actor had, unless somebody else took *)
(* a copy while a removal waited, or a copy came to an address that a      *)
(* waiting removal names.                                                  *)
THEOREM LastCopyAlwaysStays == Spec => LastCopyStays
<1>1. TypeOK /\ TypeOK' /\ KeepsInv /\ [Next]_vars
      => [\A a \in Actor, s \in Sig :
            (\E b \in Actor : RunForActor(b) \/ RunTask(b)) /\ Units(a, s) > 0 /\ a \notin disturbed
                => Units(a, s)' > 0]_vars
  BY LastCopyStep
<1> QED
  BY <1>1, SanitizerTypeCorrect, KeepsAlways, PTL DEF Spec, LastCopyStays

----------------------------------------------------------------------------
(* No trigger is lost.  That tasks, threads and frames go on is fairness,  *)
(* and stays with TLC; the rest of TriggersAreScanned is proved here.      *)

Dedups(s, a) == \E i \in DOMAIN s : s[i].kind = "dedup" /\ s[i].actor = a

(* What is on its way to a scan of an actor: its task, queued, about to be *)
(* queued or before its scan; a trigger that came too late for a task that *)
(* is ending; or a frame of the open menu, whose pass, if one is not over, *)
(* has its own task.                                                       *)
OwedWaits ==
    \A a \in owed :
        \/ RunQueued(a)
        \/ \E t \in Thread : at[t] = a /\ op[t] \in {"queue", "addTask", "scan"}
        \/ at[Main] = a /\ op[Main] = "end" /\ a \in requeue
        \/ menu = a /\ a \in rescan \ sanitized /\ (a \in passing => Dedups(tasks, a))

(* The first task runs, and no step puts a task before another one.        *)
TasksMoveUp ==
    \A k \in DOMAIN tasks :
        IF \E a \in Actor : RunTask(a)
        THEN k = 1 \/ (k - 1 \in DOMAIN tasks' /\ tasks'[k - 1] = tasks[k])
        ELSE k \in DOMAIN tasks' /\ tasks'[k] = tasks[k]

LEMMA ConcatKeeps ==
    ASSUME NEW q \in Seq(Task), NEW more \in Seq(Task), NEW k \in DOMAIN q
    PROVE k \in DOMAIN (q \o more) /\ (q \o more)[k] = q[k]
<1>1. k \in 1..Len(q) /\ Len(q) \in Nat /\ Len(more) \in Nat
  OBVIOUS
<1> QED
  BY <1>1, ConcatFacts

LEMMA AppendKeeps ==
    ASSUME NEW q \in Seq(Task), NEW t \in Task, NEW k \in DOMAIN q
    PROVE k \in DOMAIN Append(q, t) /\ Append(q, t)[k] = q[k]
OBVIOUS

LEMMA TailKeepsPlace ==
    ASSUME NEW q \in Seq(Task), q # <<>>, NEW k \in DOMAIN q, k # 1
    PROVE k - 1 \in DOMAIN Tail(q) /\ Tail(q)[k - 1] = q[k]
<1>1. k \in 2..Len(q)
  OBVIOUS
<1> QED
  BY <1>1

LEMMA StepMovesUp ==
    ASSUME TypeOK, [Next]_vars
    PROVE TasksMoveUp
<1> USE DEF coalescing, session, threads, game, inventory, history
<1> SUFFICES ASSUME NEW k \in DOMAIN tasks
             PROVE IF \E a \in Actor : RunTask(a)
                   THEN k = 1 \/ (k - 1 \in DOMAIN tasks' /\ tasks'[k - 1] = tasks[k])
                   ELSE k \in DOMAIN tasks' /\ tasks'[k] = tasks[k]
  BY DEF TasksMoveUp
<1>1. tasks \in Seq(Task) /\ removals \in [Actor -> Removals]
  BY DEF TypeOK
<1>2. ASSUME NEW a \in Actor, RunTask(a), k # 1
      PROVE k - 1 \in DOMAIN tasks' /\ tasks'[k - 1] = tasks[k]
  <2> DEFINE late == [kind |-> "detached", actor |-> a, rem |-> removals[a]]
  <2>1. tasks # <<>> /\ (tasks' = Tail(tasks) \/ tasks' = Append(Tail(tasks), late))
    BY <1>2 DEF RunTask, RunBegin, DedupTask, DetachedTask, NextTask
  <2>2. late \in Task
    BY <1>1 DEF Task
  <2>3. Tail(tasks) \in Seq(Task) /\ k - 1 \in DOMAIN Tail(tasks) /\ Tail(tasks)[k - 1] = tasks[k]
    BY <1>1, <1>2, <2>1, TailTask, TailKeepsPlace
  <2> HIDE DEF late
  <2> QED
    BY <2>1, <2>2, <2>3, AppendKeeps
<1>3. ASSUME ~(\E a \in Actor : RunTask(a))
      PROVE k \in DOMAIN tasks' /\ tasks'[k] = tasks[k]
  <2>1. CASE UNCHANGED tasks
    BY <2>1
  <2>2. ASSUME NEW t \in Task, tasks' = Append(tasks, t)
        PROVE k \in DOMAIN tasks' /\ tasks'[k] = tasks[k]
    BY <1>1, <2>2, AppendKeeps
  <2>3. ASSUME NEW t \in Thread, NEW a \in Actor, AddTask(t, a)
        PROVE k \in DOMAIN tasks' /\ tasks'[k] = tasks[k]
    <3>1. [kind |-> "run", actor |-> a] \in Task
      BY DEF Task
    <3> QED
      BY <2>2, <2>3, <3>1 DEF AddTask
  <2>4. ASSUME NEW a \in Actor, Frame(a)
        PROVE k \in DOMAIN tasks' /\ tasks'[k] = tasks[k]
    <3>1. [kind |-> "dedup", actor |-> a] \in Task
      BY DEF Task
    <3>2. tasks' = tasks \/ tasks' = Append(tasks, [kind |-> "dedup", actor |-> a])
      BY <2>4 DEF Frame
    <3> QED
      BY <2>1, <2>2, <3>1, <3>2
  <2>5. CASE CloseMenu /\ installed
    <3> DEFINE detached == DetachedTasks
               runs == RunTasks(rescan \ pending)
    <3>1. tasks' = (tasks \o detached) \o runs
      BY <2>5 DEF CloseMenu
    <3>2. detached \in Seq(Task)
      BY <1>1, DetachedTasksTyped
    <3>3. rescan \ pending \in SUBSET Actor
      BY DEF TypeOK
    <3>4. runs \in Seq(Task)
      BY <3>3, RunTasksOfSet
    <3> HIDE DEF detached, runs
    <3>5. tasks \o detached \in Seq(Task)
      BY <1>1, <3>2
    <3>6. k \in DOMAIN (tasks \o detached) /\ (tasks \o detached)[k] = tasks[k]
      BY <1>1, <3>2, ConcatKeeps
    <3> QED
      BY <3>1, <3>4, <3>5, <3>6, ConcatKeeps
  <2>6. CASE CloseMenu /\ ~installed
    BY <2>1, <2>6 DEF CloseMenu
  <2>7. ASSUME NEW t \in Thread, NEW a \in Actor, Queue(t, a) \/ AddCopy(t, a) \/ AddPlain(t, a)
        PROVE UNCHANGED tasks
    BY <2>7 DEF Queue, AddCopy, AddPlain
  <2>8. ASSUME NEW a \in Actor,
               OpenMenu(a) \/ Rescope(a) \/ Reoutfit(a) \/ Lose(a) \/ RunForActor(a) \/ RunEnd(a)
        PROVE UNCHANGED tasks
    BY <2>8 DEF OpenMenu, Rescope, Reoutfit, Changed, Lose, RunForActor, RunEnd
  <2>10. ASSUME NEW r \in Reveals, SetReveal(r)
         PROVE UNCHANGED tasks
    BY <2>10 DEF SetReveal, Changed
  <2>9. CASE Install \/ Uninstall \/ UNCHANGED vars
    BY <2>1, <2>9 DEF Install, Uninstall, vars
  <2> QED
    BY <1>3, <2>1, <2>3, <2>4, <2>5, <2>6, <2>7, <2>8, <2>9, <2>10
       DEF Next, ThreadStep, MainStep
<1> QED
  BY <1>2, <1>3

(* Only its own run takes a task from the queue.                           *)
LEMMA RunsStay ==
    ASSUME TypeOK, [Next]_vars, NEW a \in Actor, Runs(tasks, a), ~RunBegin(a)
    PROVE Runs(tasks', a)
<1>1. PICK i \in DOMAIN tasks : tasks[i].kind = "run" /\ tasks[i].actor = a
  BY DEF Runs
<1>2. TasksMoveUp
  BY StepMovesUp
<1>3. ~(i = 1 /\ \E b \in Actor : RunTask(b))
  <2> SUFFICES ASSUME i = 1, NEW b \in Actor, RunTask(b) PROVE FALSE
    OBVIOUS
  <2>1. Head(tasks) = tasks[i]
    BY DEF TypeOK
  <2> QED
    BY <1>1, <2>1 DEF RunTask, RunBegin, DedupTask, DetachedTask, NextTask
<1> QED
  BY <1>1, <1>2, <1>3 DEF TasksMoveUp, Runs

LEMMA DedupsStay ==
    ASSUME TypeOK, [Next]_vars, NEW a \in Actor, Dedups(tasks, a), ~DedupTask(a)
    PROVE Dedups(tasks', a)
<1>1. PICK i \in DOMAIN tasks : tasks[i].kind = "dedup" /\ tasks[i].actor = a
  BY DEF Dedups
<1>2. TasksMoveUp
  BY StepMovesUp
<1>3. ~(i = 1 /\ \E b \in Actor : RunTask(b))
  <2> SUFFICES ASSUME i = 1, NEW b \in Actor, RunTask(b) PROVE FALSE
    OBVIOUS
  <2>1. Head(tasks) = tasks[i]
    BY DEF TypeOK
  <2> QED
    BY <1>1, <2>1 DEF RunTask, RunBegin, DedupTask, DetachedTask, NextTask
<1> QED
  BY <1>1, <1>2, <1>3 DEF TasksMoveUp, Dedups

(* What the menu has asked to be scanned again is asked of the actor of    *)
(* the open menu, who is not marked, and a pass has its task.              *)
RescanInv ==
    /\ \A a \in rescan \cup passing : menu = a /\ installed
    /\ rescan \cap sanitized = {}
    /\ \A a \in passing : Dedups(tasks, a)

LEMMA RescanStays ==
    ASSUME TypeOK, RescanInv, [Next]_vars, UNCHANGED <<menu, installed>>,
           rescan' \cup passing' \subseteq rescan \cup passing,
           rescan' \cap sanitized' = {}, passing' \subseteq passing,
           \A a \in passing' : ~DedupTask(a)
    PROVE RescanInv'
<1>1. \A a \in passing' : Dedups(tasks', a)
  BY DedupsStay DEF RescanInv, TypeOK
<1> QED
  BY <1>1 DEF RescanInv, Dedups

LEMMA RescanNext ==
    ASSUME TypeOK, RescanInv, [Next]_vars
    PROVE RescanInv'
<1> USE DEF coalescing, session, threads, game, inventory, history
<1>1. ASSUME UNCHANGED <<session, menu, installed>>, \A a \in passing : ~DedupTask(a)
      PROVE RescanInv'
  BY <1>1, RescanStays DEF RescanInv
<1>2. ASSUME NEW t \in Thread, NEW a \in Actor,
             Queue(t, a) \/ AddTask(t, a) \/ AddCopy(t, a) \/ AddPlain(t, a)
      PROVE RescanInv'
  <2>1. UNCHANGED <<session, menu, installed>> /\ (tasks' = tasks \/ AddTask(t, a))
    BY <1>2 DEF Queue, AddTask, AddCopy, AddPlain
  <2>2. \A b \in passing : Dedups(tasks, b)
    BY DEF RescanInv
  <2>3. ASSUME NEW b \in passing, AddTask(t, a) PROVE Dedups(tasks', b)
    <3>1. PICK i \in DOMAIN tasks : tasks[i].kind = "dedup" /\ tasks[i].actor = b
      BY <2>2 DEF Dedups
    <3>2. tasks \in Seq(Task) /\ [kind |-> "run", actor |-> a] \in Task
      BY DEF TypeOK, Task
    <3> QED
      BY <2>3, <3>1, <3>2, AppendKeeps DEF AddTask, Dedups
  <2> QED
    BY <2>1, <2>2, <2>3 DEF RescanInv, Dedups
<1>3. ASSUME NEW a \in Actor, RunBegin(a) \/ DetachedTask(a)
      PROVE RescanInv'
  <2>1. UNCHANGED <<session, menu, installed>>
    BY <1>3 DEF RunBegin, DetachedTask
  <2>2. \A b \in passing : ~DedupTask(b)
    BY <1>3 DEF RunBegin, DetachedTask, DedupTask, NextTask
  <2> QED
    BY <1>1, <2>1, <2>2
<1>4. ASSUME NEW a \in Actor, DedupTask(a)
      PROVE RescanInv'
  <2>1. /\ UNCHANGED <<menu, installed, rescan>> /\ passing' \subseteq passing \ {a}
        /\ sanitized' \cap rescan \subseteq sanitized
    BY <1>4 DEF DedupTask, Complete, Abandon
  <2>2. \A b \in passing' : ~DedupTask(b)
    BY <1>4, <2>1 DEF DedupTask, NextTask
  <2> QED
    BY <2>1, <2>2, RescanStays DEF RescanInv
<1>5. ASSUME NEW a \in Actor, RunForActor(a)
      PROVE RescanInv'
  <2>1. UNCHANGED <<menu, installed, passing, tasks>>
    BY <1>5 DEF RunForActor, Handoff
  <2>2. \/ UNCHANGED <<rescan, sanitized>>
        \/ /\ rescan' = rescan \cup {a} /\ sanitized' = sanitized \ {a}
           /\ menu = a /\ installed
    BY <1>5 DEF RunForActor, Handoff
  <2> QED
    BY <2>1, <2>2 DEF RescanInv, Dedups
<1>6. ASSUME NEW a \in Actor, RunEnd(a) \/ Lose(a) \/ Rescope(a) \/ Reoutfit(a)
      PROVE RescanInv'
  <2>1. UNCHANGED <<session, menu, installed, tasks>>
    BY <1>6 DEF RunEnd, Lose, Rescope, Reoutfit, Changed
  <2> QED
    BY <2>1 DEF RescanInv, Dedups
<1>13. ASSUME NEW r \in Reveals, SetReveal(r)
       PROVE RescanInv'
  <2>1. UNCHANGED <<session, menu, installed, tasks>>
    BY <1>13 DEF SetReveal, Changed
  <2> QED
    BY <2>1 DEF RescanInv, Dedups
<1>7. ASSUME NEW a \in Actor, Frame(a)
      PROVE RescanInv'
  <2>1. /\ UNCHANGED <<menu, installed>> /\ menu = a /\ installed /\ rescan' = rescan \ {a}
        /\ \/ sanitized' = sanitized \cup {a} /\ UNCHANGED <<passing, tasks>>
           \/ /\ passing' = passing \cup {a} /\ UNCHANGED sanitized
              /\ tasks' = Append(tasks, [kind |-> "dedup", actor |-> a])
    BY <1>7 DEF Frame
  <2>2. tasks \in Seq(Task) /\ [kind |-> "dedup", actor |-> a] \in Task
    BY DEF TypeOK, Task
  <2>3. ASSUME tasks' = Append(tasks, [kind |-> "dedup", actor |-> a])
        PROVE Dedups(tasks', a) /\ \A b \in passing : Dedups(tasks', b)
    <3>1. Len(tasks) + 1 \in DOMAIN tasks' /\ tasks'[Len(tasks) + 1] = [kind |-> "dedup", actor |-> a]
      BY <2>2, <2>3
    <3>2. Dedups(tasks', a)
      BY <3>1 DEF Dedups
    <3>3. ASSUME NEW b \in passing PROVE Dedups(tasks', b)
      <4>1. PICK i \in DOMAIN tasks : tasks[i].kind = "dedup" /\ tasks[i].actor = b
        BY DEF RescanInv, Dedups
      <4> QED
        BY <2>2, <2>3, <4>1, AppendKeeps DEF Dedups
    <3> QED
      BY <3>2, <3>3
  <2> QED
    BY <2>1, <2>3 DEF RescanInv, Dedups
<1>8. ASSUME NEW a \in Actor, OpenMenu(a)
      PROVE RescanInv'
  <2>1. menu = NoActor /\ UNCHANGED <<session, installed, tasks>> /\ rescan \cup passing \subseteq Actor
    BY <1>8 DEF OpenMenu, TypeOK
  <2>2. rescan \cup passing = {}
    BY <2>1, NullAssumption DEF RescanInv
  <2> QED
    BY <2>1, <2>2 DEF RescanInv
<1>9. CASE CloseMenu
  <2>1. CASE installed
    BY <1>9, <2>1 DEF CloseMenu, CloseSession, RescanInv
  <2>2. CASE ~installed
    <3>1. rescan = {} /\ passing = {} /\ UNCHANGED session
      BY <1>9, <2>2 DEF CloseMenu, RescanInv
    <3> QED
      BY <3>1 DEF RescanInv
  <2> QED
    BY <2>1, <2>2
<1>10. CASE Uninstall
  BY <1>10 DEF Uninstall, CloseSession, RescanInv
<1>11. CASE Install
  <2>1. rescan = {} /\ passing = {} /\ UNCHANGED session
    BY <1>11 DEF Install, RescanInv
  <2> QED
    BY <2>1 DEF RescanInv
<1>12. CASE UNCHANGED vars
  BY <1>12 DEF vars, RescanInv, Dedups
<1> QED
  BY <1>2, <1>3, <1>4, <1>5, <1>6, <1>7, <1>8, <1>9, <1>10, <1>11, <1>12, <1>13
     DEF Next, RunTask, ThreadStep, MainStep

(* The same, as the steps see it: who is to be scanned again counts, as    *)
(* RescanInv says the rest.                                                *)
Coming(a) == \E t \in Thread : at[t] = a /\ op[t] \in {"queue", "addTask", "scan"}
Late(a) == at[Main] = a /\ op[Main] = "end" /\ a \in requeue
Waits(a) == Runs(tasks, a) \/ Coming(a) \/ Late(a) \/ a \in rescan

LEMMA ComingStays ==
    ASSUME TypeOK, NEW t \in Thread, NEW o, NEW b, Goto(t, o, b), NEW a, Coming(a),
           at[t] # a \/ op[t] \notin {"queue", "addTask", "scan"}
    PROVE Coming(a)'
BY OthersStay DEF Coming

LEMMA LateStays ==
    ASSUME TypeOK, NEW t \in Thread, NEW o, NEW b, Goto(t, o, b), NEW a, Late(a),
           op[t] # "end", requeue \subseteq requeue'
    PROVE Late(a)'
BY OthersStay DEF Late, Thread

LEMMA ComesNow ==
    ASSUME TypeOK, NEW t \in Thread, NEW o \in {"queue", "addTask", "scan"}, NEW a, Goto(t, o, a)
    PROVE Coming(a)'
BY Arrives DEF Coming

(* A pending actor is not left waiting for a task that has scanned.        *)
LEMMA PendingWaits ==
    ASSUME PendingInv, NEW a \in pending
    PROVE Runs(tasks, a) \/ Coming(a) \/ (at[Main] = a /\ op[Main] = "end" /\ a \in running)
BY DEF PendingInv, ThreadsGood, Served, Busy, Coming, Thread

LEMMA WaitsNext ==
    ASSUME PendingInv, RescanInv, \A a \in owed : Waits(a), [Next]_vars
    PROVE \A a \in owed' : Waits(a)'
<1> USE DEF coalescing, session, threads, game, inventory, history
<1>a. TypeOK /\ Main \in Thread /\ owed \subseteq Actor /\ ThreadsGood
  BY DEF PendingInv, TypeOK, Thread
<1>b. \A a \in owed : Waits(a)
  OBVIOUS
<1>c. ASSUME NEW a \in Actor, Runs(tasks, a), ~RunBegin(a) PROVE Waits(a)'
  BY <1>a, <1>c, RunsStay DEF Waits, Runs
<1>d. ASSUME UNCHANGED <<op, at, requeue>>, rescan \subseteq rescan',
             NEW a \in owed, ~RunBegin(a)
      PROVE Waits(a)'
  BY <1>a, <1>b, <1>c, <1>d DEF Waits, Coming, Late
<1>1. ASSUME NEW t \in Thread, NEW a \in Actor, Queue(t, a)
      PROVE \A b \in owed' : Waits(b)'
  <2>1. PICK o \in {"idle", "addTask"}, c \in {a, NoActor} :
             Goto(t, o, c) /\ (a \notin pending => o = "addTask" /\ c = a)
    BY <1>1 DEF Queue, Insert, Done
  <2>2. /\ op[t] = "queue" /\ at[t] = a /\ owed' = owed /\ rescan' = rescan
        /\ requeue \subseteq requeue' /\ (a \in pending \cap running => a \in requeue')
    BY <1>1 DEF Queue, Insert
  <2>3. \A b : ~RunBegin(b)
    BY <1>1, <1>a DEF Queue, Insert, RunBegin, NextTask, TypeOK
  <2>4. ASSUME NEW b \in owed, b # a PROVE Waits(b)'
    BY <1>a, <1>b, <1>c, <2>1, <2>2, <2>3, <2>4, ComingStays, LateStays DEF Waits
  <2>5. CASE a \notin pending
    <3>1. Waits(a)'
      BY <1>a, <2>1, <2>5, ComesNow DEF Waits
    <3> QED
      BY <2>2, <2>4, <3>1
  <2>6. CASE a \in pending
    <3>1. CASE Runs(tasks, a)
      BY <1>c, <2>2, <2>3, <2>4, <3>1
    <3>2. CASE ~Runs(tasks, a)
      <4>1. Served(a)
        BY <2>6 DEF PendingInv
      <4>2. PICK u \in Thread : Busy(u, a)
        BY <3>2, <4>1 DEF Served
      <4>3. u # t /\ op'[u] = op[u] /\ at'[u] = at[u]
        BY <1>a, <2>1, <2>2, <4>2, OthersStay DEF Busy
      <4>4. CASE op[u] \in {"addTask", "scan"}
        BY <2>2, <2>4, <4>2, <4>3, <4>4 DEF Busy, Coming, Waits
      <4>5. CASE op[u] = "end"
        <5>1. u = Main /\ a \in running
          BY <1>a, <4>2, <4>5 DEF Busy, ThreadsGood
        <5> QED
          BY <2>2, <2>4, <2>6, <4>2, <4>3, <4>5, <5>1 DEF Busy, Late, Waits
      <4> QED
        BY <4>2, <4>4, <4>5 DEF Busy
    <3> QED
      BY <2>2, <2>4, <3>1, <3>2
  <2> QED
    BY <2>5, <2>6
<1>2. ASSUME NEW t \in Thread, NEW a \in Actor, AddTask(t, a)
      PROVE \A b \in owed' : Waits(b)'
  <2>1. /\ Goto(t, "idle", NoActor) /\ op[t] = "addTask" /\ at[t] = a
        /\ UNCHANGED <<owed, requeue, rescan>>
    BY <1>2 DEF AddTask, Done
  <2> DEFINE k == [kind |-> "run", actor |-> a]
  <2>2. k \in Task /\ k.kind = "run" /\ k.actor = a /\ tasks' = Append(tasks, k) /\ tasks \in Seq(Task)
    BY <1>2, <1>a DEF AddTask, Task, TypeOK
  <2> HIDE DEF k
  <2>3. Runs(tasks', a) /\ \A b : Runs(tasks, b) => Runs(tasks', b)
    BY <2>2, RunsAppend
  <2>4. ASSUME NEW b \in owed, b # a PROVE Waits(b)'
    BY <1>a, <1>b, <2>1, <2>3, <2>4, ComingStays, LateStays DEF Waits
  <2>5. Waits(a)'
    BY <2>3 DEF Waits
  <2> QED
    BY <2>1, <2>4, <2>5
<1>3. ASSUME NEW t \in Thread, NEW a \in Actor, AddCopy(t, a) \/ AddPlain(t, a)
      PROVE \A b \in owed' : Waits(b)'
  <2>1. op[t] = "idle" /\ UNCHANGED <<tasks, requeue, rescan>>
    BY <1>3 DEF AddCopy, AddPlain
  <2>2. \/ UNCHANGED <<op, at, owed>>
        \/ Goto(t, "queue", a) /\ owed' = owed \cup {a}
    BY <1>3 DEF AddCopy, AddPlain, Added
  <2>3. CASE UNCHANGED <<op, at, owed>>
    BY <1>b, <2>1, <2>3 DEF Waits, Coming, Late
  <2>4. CASE Goto(t, "queue", a) /\ owed' = owed \cup {a}
    <3>1. Waits(a)'
      BY <1>a, <2>4, ComesNow DEF Waits
    <3>2. ASSUME NEW b \in owed PROVE Waits(b)'
      BY <1>a, <1>b, <2>1, <2>4, ComingStays, LateStays DEF Waits
    <3> QED
      BY <2>4, <3>1, <3>2
  <2> QED
    BY <2>2, <2>3, <2>4
<1>4. ASSUME NEW a \in Actor, RunBegin(a)
      PROVE \A b \in owed' : Waits(b)'
  <2>1. /\ Goto(Main, "scan", a) /\ op[Main] = "idle" /\ UNCHANGED <<owed, requeue, rescan>>
        /\ \A b : b # a => ~RunBegin(b)
    BY <1>4 DEF RunBegin, NextTask
  <2>2. Waits(a)'
    BY <1>a, <2>1, ComesNow DEF Waits
  <2>3. ASSUME NEW b \in owed, b # a PROVE Waits(b)'
    BY <1>a, <1>b, <1>c, <2>1, <2>3, ComingStays, LateStays DEF Waits
  <2> QED
    BY <2>1, <2>2, <2>3
<1>5. ASSUME NEW a \in Actor, RunForActor(a)
      PROVE \A b \in owed' : Waits(b)'
  <2>1. /\ Goto(Main, "end", a) /\ op[Main] = "scan" /\ at[Main] = a
        /\ UNCHANGED <<tasks, requeue>> /\ rescan \subseteq rescan'
        /\ owed' \subseteq owed /\ (a \in owed' => a \in rescan')
    BY <1>5, <1>a DEF RunForActor, Handoff, Scanned
  <2>2. a \in owed' => Waits(a)'
    BY <2>1 DEF Waits
  <2>3. ASSUME NEW b \in owed, b # a PROVE Waits(b)'
    BY <1>a, <1>b, <2>1, <2>3, ComingStays, LateStays DEF Waits
  <2> QED
    BY <2>1, <2>2, <2>3
<1>6. ASSUME NEW a \in Actor, RunEnd(a)
      PROVE \A b \in owed' : Waits(b)'
  <2>1. PICK o \in {"idle", "queue"}, c \in {a, NoActor} :
             Goto(Main, o, c) /\ (a \in requeue => o = "queue" /\ c = a)
    BY <1>6 DEF RunEnd, Done
  <2>2. op[Main] = "end" /\ at[Main] = a /\ UNCHANGED <<tasks, rescan, owed>>
    BY <1>6 DEF RunEnd
  <2>3. ASSUME NEW b \in owed, ~Late(b) PROVE Waits(b)'
    BY <1>a, <1>b, <2>1, <2>2, <2>3, ComingStays DEF Waits
  <2>4. ASSUME NEW b \in owed, Late(b) PROVE Waits(b)'
    <3>1. b = a /\ Goto(Main, "queue", b)
      BY <2>1, <2>2, <2>4 DEF Late
    <3> QED
      BY <1>a, <3>1, ComesNow DEF Waits
  <2> QED
    BY <2>2, <2>3, <2>4
<1>7. ASSUME NEW a \in Actor, Frame(a)
      PROVE \A b \in owed' : Waits(b)'
  <2>1. /\ UNCHANGED <<op, at, requeue>> /\ owed' = owed \ {a} /\ rescan' = rescan \ {a}
        /\ \A b : ~RunBegin(b)
    BY <1>7, <1>a DEF Frame, Scanned, RunBegin, Goto, NextTask, TypeOK
  <2>2. ASSUME NEW b \in owed, b # a PROVE Waits(b)'
    BY <1>a, <1>b, <1>c, <2>1, <2>2 DEF Waits, Coming, Late
  <2> QED
    BY <2>1, <2>2
<1>8. ASSUME NEW a \in Actor, DedupTask(a) \/ DetachedTask(a)
      PROVE \A b \in owed' : Waits(b)'
  <2>1. UNCHANGED <<op, at, requeue, owed, rescan>>
    BY <1>8 DEF DedupTask, DetachedTask, Complete, Abandon
  <2>2. \A b : ~RunBegin(b)
    BY <1>8 DEF DedupTask, DetachedTask, RunBegin, NextTask
  <2> QED
    BY <1>d, <2>1, <2>2
<1>9. CASE CloseMenu
  <2>1. /\ UNCHANGED <<op, at, requeue, owed>> /\ op[Main] = "idle"
        /\ \A b : ~RunBegin(b)
    BY <1>9, <1>a DEF CloseMenu, RunBegin, Goto, TypeOK
  <2>2. CASE ~installed
    BY <1>9, <1>d, <2>1, <2>2 DEF CloseMenu
  <2>3. CASE installed
    <3> DEFINE S == rescan \ pending
               detached == DetachedTasks
               runs == RunTasks(S)
    <3>1. tasks' = (tasks \o detached) \o runs
      BY <1>9, <2>3 DEF CloseMenu
    <3>2. S \in SUBSET Actor /\ tasks \in Seq(Task) /\ rescan \subseteq Actor
      BY <1>a DEF TypeOK
    <3>3. runs \in Seq(Task) /\ \A b \in S : Runs(runs, b)
      BY <3>2, RunTasksOfSet DEF Runs
    <3>4. detached \in Seq(Task)
      BY <1>a, DetachedTasksTyped DEF TypeOK
    <3>5. tasks \o detached \in Seq(Task)
      BY <3>2, <3>4
    <3> HIDE DEF detached, runs
    <3>6. ASSUME NEW b \in S PROVE Waits(b)'
      BY <3>1, <3>3, <3>5, RunsConcat DEF Waits
    <3>7. ASSUME NEW b \in owed, Runs(tasks, b) \/ Coming(b) \/ Late(b) PROVE Waits(b)'
      BY <1>a, <1>c, <2>1, <3>7 DEF Waits, Coming, Late
    <3>8. ASSUME NEW b \in owed, b \in pending PROVE Waits(b)'
      BY <2>1, <3>7, <3>8, PendingWaits
    <3> QED
      BY <1>b, <2>1, <3>6, <3>7, <3>8 DEF Waits
  <2> QED
    BY <2>2, <2>3
<1>10. CASE Uninstall
  BY <1>10 DEF Uninstall
<1>11. ASSUME NEW a \in Actor, Lose(a) \/ OpenMenu(a) \/ Rescope(a) \/ Reoutfit(a)
       PROVE \A b \in owed' : Waits(b)'
  <2>1. UNCHANGED <<op, at, requeue, rescan, owed, tasks>>
    BY <1>11 DEF Lose, OpenMenu, Rescope, Reoutfit, Changed
  <2> QED
    BY <1>b, <2>1 DEF Waits, Coming, Late
<1>13. ASSUME NEW r \in Reveals, SetReveal(r)
       PROVE \A b \in owed' : Waits(b)'
  <2>1. UNCHANGED <<op, at, requeue, rescan, owed, tasks>>
    BY <1>13 DEF SetReveal, Changed
  <2> QED
    BY <1>b, <2>1 DEF Waits, Coming, Late
<1>12. CASE Install \/ UNCHANGED vars
  <2>1. UNCHANGED <<op, at, requeue, rescan, owed, tasks>>
    BY <1>12 DEF Install, vars
  <2> QED
    BY <1>b, <2>1 DEF Waits, Coming, Late
<1> QED
  BY <1>1, <1>2, <1>3, <1>4, <1>5, <1>6, <1>7, <1>8, <1>9, <1>10, <1>11, <1>12, <1>13
     DEF Next, RunTask, ThreadStep, MainStep

(* Every task of the sanitizer moves up until it runs, in whatever order   *)
(* triggers, passes and menu events add others (TasksMoveUp; SKSE's queue, *)
(* to which QueueRunForActorTask and QueueDeferredRemovalTask add).        *)
THEOREM SanitizerTasksAlwaysMoveUp == Spec => [][TasksMoveUp]_vars
<1>1. TypeOK /\ [Next]_vars => TasksMoveUp
  BY StepMovesUp
<1>2. TypeOK /\ [Next]_vars => TypeOK'
  BY NextTypes
<1> QED
  BY <1>1, <1>2, InitTypes, PTL DEF Spec

(* No trigger is lost: until a scan has served it, its task is queued,     *)
(* about to be or not yet past its scan, or it is kept as a requeue, or    *)
(* handed to the open menu, whose next frame scans; whatever passes, menu  *)
(* events and other threads do in between (OwedWaits; Insert, RunEnd and   *)
(* HandoffToOpenMenuSanitizer).                                            *)
THEOREM OwedTriggersAlwaysWait == Spec => []OwedWaits
<1> DEFINE Inv == RescanInv /\ \A a \in owed : Waits(a)
<1>1. Init => Inv
  BY DEF Init, RescanInv
<1>2. PendingInv /\ Inv /\ [Next]_vars => Inv'
  BY RescanNext, WaitsNext DEF PendingInv
<1>3. PendingInv /\ Inv => OwedWaits
  BY DEF RescanInv, OwedWaits, Waits, Coming, Late, Runs, RunQueued
<1> HIDE DEF Inv
<1> QED
  BY <1>1, <1>2, <1>3, PendingAlways, PTL DEF Spec
=============================================================================
