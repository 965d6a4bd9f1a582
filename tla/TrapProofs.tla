------------------------------- MODULE TrapProofs -------------------------------
(***************************************************************************)
(* What one pass of discover does for a trap, for every number of items,   *)
(* pods, containers, changes and failures: its type invariant, at most one *)
(* KiveData per container and pass (OnePerPass), and no selected container *)
(* left behind that does not share its joined name (Covered).              *)
(***************************************************************************)
EXTENDS TrapDiscovery, TLAPS

-----------------------------------------------------------------------------
(* Types *)

\* The pass looks at a container: it has a list and an item.
Looks == pass.pc \in {"walk", "open", "stat", "apply"}

\* GetContainerData runs for container pass.cur.
Inspects == pass.pc \in {"open", "stat", "apply"}

\* Which locals have a value at which point of the pass.
PassOK ==
    /\ pass.pc = "list" \/ Looks => pass.item \in Item
    /\ Looks => /\ pass.list \in Statuses
                /\ pass.item \notin ByIP
                /\ \A c \in pass.todo : /\ pass.list.id[c] # 0
                                        /\ PodOf[c] \in Picked[pass.item]
    /\ Inspects => pass.cur \in pass.todo
    /\ pass.pc = "stat" => pass.cur \in Local
    /\ pass.pc = "apply" => pass.cur \in Local /\ pass.ino \in Ino

TrapType == TypeOK /\ PassOK

\* The steps of the pass from one container to the next and from one item to
\* the next leave the pass typed.
LEMMA LoopType ==
    ASSUME TrapType, Looks \/ pass.pc = "list"
    PROVE  /\ NextItem => pass' \in PassType /\ PassOK'
           /\ \A c : Looks /\ NextContainer(c) => pass' \in PassType /\ PassOK'
           /\ Requeue => pass' \in PassType /\ PassOK'
<1> USE TrapAssumption
<1>a. pass \in PassType /\ pass.item \in Item
  BY DEF TrapType, TypeOK, PassOK
<1>1. ASSUME NextItem PROVE pass' \in PassType /\ PassOK'
  <2>1. /\ pass'.pc = IF pass.item < NumItems THEN "list" ELSE "done"
        /\ pass'.item = IF pass.item < NumItems THEN pass.item + 1 ELSE pass.item
    BY <1>a, <1>1 DEF NextItem, PassType
  <2>2. /\ (IF pass.item < NumItems THEN "list" ELSE "done") \in {"list", "done"}
        /\ (IF pass.item < NumItems THEN pass.item + 1 ELSE pass.item) \in 0..NumItems
    BY <1>a DEF Item
  <2>3. pass' \in PassType
    BY <1>a, <1>1, <2>2 DEF NextItem, PassType
  <2> QED BY <1>a, <2>1, <2>3 DEF PassOK, Looks, Inspects, Item
<1>2. ASSUME NEW c, Looks, NextContainer(c) PROVE pass' \in PassType /\ PassOK'
  <2>1. /\ pass'.pc = "walk" /\ pass'.item = pass.item /\ pass'.list = pass.list
        /\ pass'.todo = pass.todo \ {c} /\ pass' \in PassType
    BY <1>a, <1>2 DEF NextContainer, PassType
  <2> QED BY <1>2, <1>a, <2>1 DEF TrapType, PassOK, Looks, Inspects
<1>3. ASSUME Requeue PROVE pass' \in PassType /\ PassOK'
  BY <1>3 DEF Requeue, Idle, PassType, PassOK, Looks, Inspects
<1> QED BY <1>1, <1>2, <1>3

\* The initial states are typed.
LEMMA TrapTypeInit == Init => TrapType
<1> SUFFICES ASSUME Init PROVE TrapType
  OBVIOUS
<1>1. pass \in PassType /\ PassOK
  BY TrapAssumption DEF Init, Idle, PassType, PassOK, Looks, Inspects
<1>2. id \in [Container -> Start \cup {0}]
  BY TrapAssumption DEF Init, Start
<1> QED BY <1>1, <1>2, TrapAssumption DEF Init, TrapType, TypeOK

\* A change of pods, containers or files.
Changes == \/ \E p \in Pods : PodChanges(p)
           \/ \E c \in Container : Restart(c) \/ Probe(c) \/ FileChanges(c)

\* It leaves the state typed.
LEMMA ChangesType == ASSUME TrapType, Changes PROVE TrapType'
<1> USE TrapAssumption DEF TrapType
<1>a. PassOK' /\ UNCHANGED <<create, data, pass>>
  BY DEF Changes, PodChanges, Restart, Probe, FileChanges, Event, PassOK, Looks, Inspects
<1>b. ASSUME NEW C, Event(C)
      PROVE  /\ steady' \in SUBSET Container
             /\ budget' \in [events: 0..MaxEvents, faults: 0..MaxFaults]
  BY <1>b DEF Event, TypeOK
<1>c. \E C : Event(C)
  BY DEF Changes, PodChanges, Restart, Probe, FileChanges
<1>1. /\ running' \in SUBSET Pods /\ ready' \in SUBSET Container
      /\ id' \in [Container -> Start \cup {0}]
      /\ file' \in [Local -> Ino \cup {0}]
  <2>1. ASSUME NEW p \in Pods, PodChanges(p) PROVE <1>1!:
    <3> DEFINE C == {c \in Container : PodOf[c] = p}
    <3>1. /\ running' = running \cup {p} \/ running' = running \ {p}
          /\ ready' = ready \cup C \/ ready' = ready \ C
          /\ UNCHANGED file
      BY <2>1 DEF PodChanges
    <3>2. UNCHANGED id \/ id' = [c \in Container |-> IF c \in C /\ id[c] = 0 THEN 1 ELSE id[c]]
      BY <2>1 DEF PodChanges
    <3>3. C \subseteq Container
      OBVIOUS
    <3> HIDE DEF C
    <3>4. id' \in [Container -> Start \cup {0}]
      BY <3>2 DEF TypeOK, Start
    <3> QED BY <3>1, <3>3, <3>4 DEF TypeOK
  <2>2. ASSUME NEW c \in Container, Restart(c) PROVE <1>1!:
    BY <2>2 DEF Restart, TypeOK, Start
  <2>3. ASSUME NEW c \in Container, Probe(c) PROVE <1>1!:
    BY <2>3 DEF Probe, TypeOK
  <2>4. ASSUME NEW c \in Container, FileChanges(c) PROVE <1>1!:
    BY SMTT(30), <2>4 DEF FileChanges, TypeOK
  <2> QED BY <2>1, <2>2, <2>3, <2>4 DEF Changes
<1> QED BY <1>a, <1>b, <1>c, <1>1 DEF TypeOK

\* What the pass decides about container c, at the head of its list.
Decides(c) == Skip(c) \/ NotRunning(c) \/ Again(c) \/ Enter(c)

\* A failing call, or none.
LEMMA TrapFaultType ==
    ASSUME TypeOK, NEW C, Fault(C) \/ NoFault
    PROVE  /\ steady' \in SUBSET steady
           /\ budget' \in [events: 0..MaxEvents, faults: 0..MaxFaults]
BY TrapAssumption DEF TypeOK, Fault, NoFault

\* The steps of the pass leave the state typed.
LEMMA ReconcileType == ASSUME TrapType, Reconcile PROVE TrapType'
<1> USE TrapAssumption
<1>a. TypeOK /\ PassOK /\ pass \in PassType
  BY DEF TrapType, TypeOK
<1>b. UNCHANGED <<create, running, ready, id>>
  BY DEF Reconcile, Begin, ListPods, Walk, Open, Stat, Apply, End, world
<1>c. ASSUME pass' \in PassType, PassOK',
             file' \in [Local -> Ino \cup {0}], data' \in SUBSET (Container \X Start \X Ino),
             \/ UNCHANGED <<steady, budget>>
             \/ steady' = Container /\ UNCHANGED budget
             \/ \E C : Fault(C)
      PROVE  TrapType'
  <2>1. /\ steady' \in SUBSET Container
        /\ budget' \in [events: 0..MaxEvents, faults: 0..MaxFaults]
    BY <1>a, <1>c, TrapFaultType DEF TypeOK
  <2> QED BY <1>a, <1>b, <1>c, <2>1 DEF TrapType, TypeOK
<1>d. /\ UNCHANGED file => file' \in [Local -> Ino \cup {0}]
      /\ UNCHANGED data => data' \in SUBSET (Container \X Start \X Ino)
  BY <1>a DEF TypeOK
<1>1. CASE Begin
  <2>1. pass' \in PassType /\ PassOK'
    <3>1. CASE NumItems = 0
      BY <1>1, <3>1 DEF Begin, Idle, PassType, PassOK, Looks, Inspects
    <3>2. CASE NumItems # 0
      <4>1. pass' = [Idle EXCEPT !.pc = "list", !.item = 1]
        BY <1>1, <3>2 DEF Begin
      <4>2. pass'.pc = "list" /\ pass'.item = 1
        BY <4>1 DEF Idle
      <4>3. 1 \in 0..NumItems /\ 1 \in Item
        BY <3>2 DEF Item
      <4>4. pass' \in PassType
        BY <4>1, <4>3 DEF Idle, PassType
      <4> QED BY <4>2, <4>3, <4>4 DEF PassOK, Looks, Inspects
    <3> QED BY <3>1, <3>2
  <2> QED BY <1>1, <1>c, <1>d, <2>1 DEF Begin, world
<1>2. CASE ListPods
  <2>1. pass.pc = "list" /\ UNCHANGED <<file, data>> /\ (NoFault \/ \E C : Fault(C))
    BY <1>2 DEF ListPods, world
  <2>2. CASE pass' = [pass EXCEPT !.pc = "walk", !.list = Status, !.todo = Listed(pass.item)]
    <3>1. Status \in Statuses /\ Listed(pass.item) \subseteq Container
      BY <1>a DEF Status, Statuses, TypeOK, Listed
    <3>2. /\ pass'.pc = "walk" /\ pass'.list = Status /\ pass'.todo = Listed(pass.item)
          /\ pass'.item = pass.item
      BY <1>a, <2>2 DEF PassType
    <3>3. pass' \in PassType
      BY <1>a, <2>2, <3>1 DEF PassType
    <3>4. \A c \in Listed(pass.item) : Status.id[c] # 0 /\ PodOf[c] \in Picked[pass.item]
      BY DEF Listed, Status
    <3>5. pass.item \notin ByIP
      <4>1. NextItem => pass'.pc \in {"list", "done"}
        BY <1>a DEF NextItem, PassType
      <4> QED BY <1>2, <3>2, <4>1 DEF ListPods
    <3>6. PassOK'
      BY <1>a, <2>1, <3>1, <3>2, <3>4, <3>5 DEF PassOK, Looks, Inspects
    <3> QED BY <1>c, <1>d, <2>1, <3>3, <3>6 DEF NoFault
  <2>3. CASE NextItem
    BY <1>c, <1>d, <2>1, <2>3, LoopType DEF NoFault, TrapType
  <2> QED BY <1>2, <2>2, <2>3 DEF ListPods
<1>3. CASE Walk
  <2>1. pass.pc = "walk" /\ UNCHANGED <<file, data, steady, budget>>
    BY <1>3 DEF Walk, world
  <2>2. SUFFICES pass' \in PassType /\ PassOK'
    BY <1>c, <1>d, <2>1
  <2>3. CASE NextItem
    BY <2>1, <2>3, LoopType DEF Looks
  <2>4. ASSUME NEW c \in pass.todo, Decides(c) PROVE pass' \in PassType /\ PassOK'
    <3>1. CASE Skip(c) \/ Again(c) \/ NotRunning(c)
      BY <2>1, <3>1, LoopType DEF Looks, Skip, Again, NotRunning
    <3>2. CASE Enter(c)
      <4>1. CASE Requeue
        BY <2>1, <4>1, LoopType DEF Looks
      <4>2. CASE pass' = [pass EXCEPT !.pc = "open", !.cur = c, !.matched = @ \cup {matchID[c]}]
        <5>1. c \in Container
          BY <1>a, <2>4 DEF PassType
        <5>2. matchID[c] \in {matchID[e] : e \in Container}
          BY <5>1
        <5>3. pass' \in PassType
          BY <1>a, <4>2, <5>1, <5>2 DEF PassType
        <5>4. /\ pass'.pc = "open" /\ pass'.cur = c /\ pass'.item = pass.item
              /\ pass'.list = pass.list /\ pass'.todo = pass.todo
          BY <1>a, <4>2 DEF PassType
        <5>5. PassOK'
          BY <1>a, <2>1, <2>4, <5>4 DEF PassOK, Looks, Inspects
        <5> QED BY <5>3, <5>5
      <4> QED BY <3>2, <4>1, <4>2 DEF Enter
    <3> QED BY <2>4, <3>1, <3>2 DEF Decides
  <2> QED BY <1>3, <2>3, <2>4 DEF Walk, Decides
<1>4. CASE Open
  <2> DEFINE c == pass.cur
  <2>1. pass.pc = "open" /\ UNCHANGED data /\ (NoFault \/ \E C : Fault(C))
    BY <1>4 DEF Open
  <2>2. CASE NextContainer(c) /\ UNCHANGED file
    BY <1>c, <1>d, <2>1, <2>2, LoopType DEF NoFault, Looks
  <2>3. CASE /\ Alive(c) /\ pass' = [pass EXCEPT !.pc = "stat"]
             /\ \E i \in Ino : file' = IF create /\ file[c] = 0 THEN [file EXCEPT ![c] = i] ELSE file
    <3>1. /\ pass'.pc = "stat" /\ pass'.cur = c /\ pass'.item = pass.item
          /\ pass'.list = pass.list /\ pass'.todo = pass.todo /\ pass' \in PassType
      BY <1>a, <2>3 DEF PassType
    <3>2. PassOK'
      BY <1>a, <2>1, <2>3, <3>1 DEF PassOK, Looks, Inspects, Alive
    <3>3. file' \in [Local -> Ino \cup {0}]
      BY <1>a, <2>3 DEF TypeOK
    <3> QED BY <1>c, <1>d, <2>1, <3>1, <3>2, <3>3 DEF NoFault
  <2> QED BY <1>4, <2>2, <2>3 DEF Open
<1>5. CASE Stat
  <2> DEFINE c == pass.cur
  <2>1. pass.pc = "stat" /\ UNCHANGED <<file, data>> /\ (NoFault \/ \E C : Fault(C))
    BY <1>5 DEF Stat, world
  <2>2. CASE Missing
    BY <1>c, <1>d, <2>1, <2>2, LoopType DEF NoFault, Looks, Missing
  <2>3. CASE /\ Alive(c) /\ file[c] # 0
             /\ pass' = [pass EXCEPT !.pc = "apply", !.ino = file[c]]
    <3>1. file[c] \in Ino /\ c \in Local
      BY <1>a, <2>3 DEF TypeOK, Alive
    <3>2. pass' \in PassType
      BY <1>a, <2>3, <3>1 DEF PassType
    <3>3. /\ pass'.pc = "apply" /\ pass'.cur = c /\ pass'.item = pass.item
          /\ pass'.list = pass.list /\ pass'.todo = pass.todo /\ pass'.ino = file[c]
      BY <1>a, <2>3 DEF PassType
    <3>4. PassOK'
      BY <1>a, <2>1, <3>1, <3>3 DEF PassOK, Looks, Inspects
    <3> QED BY <1>c, <1>d, <2>1, <3>2, <3>4 DEF NoFault
  <2> QED BY <1>5, <2>2, <2>3 DEF Stat
<1>6. CASE Apply
  <2> DEFINE c == pass.cur
             d == <<c, pass.list.id[c], pass.ino>>
  <2>1. pass.pc = "apply" /\ UNCHANGED file /\ (NoFault \/ \E C : Fault(C))
    BY <1>6 DEF Apply, world
  <2>2. CASE NextContainer(c) /\ UNCHANGED data
    BY <1>c, <1>d, <2>1, <2>2, LoopType DEF NoFault, Looks
  <2>3. CASE /\ data' = data \cup {d}
             /\ pass' = [pass EXCEPT !.pc = "walk", !.todo = @ \ {c}, !.cur = 0, !.ino = 0,
                                     !.applied = @ \cup {d}]
    <3>1. c \in Container /\ pass.list.id[c] \in Start /\ pass.ino \in Ino
      BY <1>a, <2>1 DEF PassOK, Looks, Inspects, PassType, Statuses
    <3>2. d \in Container \X Start \X Ino
      BY <3>1
    <3> HIDE DEF d
    <3>3. pass' \in PassType
      BY <1>a, <2>3, <3>2 DEF PassType
    <3>4. /\ pass'.pc = "walk" /\ pass'.item = pass.item
          /\ pass'.list = pass.list /\ pass'.todo \subseteq pass.todo
      BY <1>a, <2>3 DEF PassType
    <3>5. PassOK'
      BY <1>a, <2>1, <3>4 DEF PassOK, Looks, Inspects
    <3>6. data' \in SUBSET (Container \X Start \X Ino)
      BY <1>a, <2>3, <3>2 DEF TypeOK
    <3> QED BY <1>c, <1>d, <2>1, <3>3, <3>5, <3>6 DEF NoFault
  <2> QED BY <1>6, <2>2, <2>3 DEF Apply
<1>7. CASE End
  <2>1. pass' \in PassType /\ PassOK'
    BY <1>7 DEF End, Idle, PassType, PassOK, Looks, Inspects
  <2> QED BY <1>7, <1>c, <1>d, <2>1 DEF End, world
<1> QED BY <1>1, <1>2, <1>3, <1>4, <1>5, <1>6, <1>7 DEF Reconcile

\* Every step leaves the state typed.
LEMMA TrapTypeNext == TrapType /\ [Next]_vars => TrapType'
<1> SUFFICES ASSUME TrapType, [Next]_vars PROVE TrapType'
  OBVIOUS
<1>1. CASE UNCHANGED vars
  BY <1>1 DEF vars, world, TrapType, TypeOK, PassOK, Looks, Inspects
<1> QED BY <1>1, ChangesType, ReconcileType DEF Next, Changes

\* Every local of the pass holds what the code declares; in particular the
\* KiveData that are applied name a container, a container id and an inode that
\* exist, never the zero values of a failed call.
THEOREM TrapTypeCorrect == Spec => []TypeOK
<1>1. TrapType => TypeOK
  BY DEF TrapType
<1> QED BY <1>1, TrapTypeInit, TrapTypeNext, PTL DEF Spec

-----------------------------------------------------------------------------
(* OnePerPass *)

\* What was applied is matched, and the container that is looked at was matched
\* just now: nothing is applied for it yet.
OnceInv ==
    /\ \A d \in pass.applied : matchID[d[1]] \in pass.matched
    /\ Inspects => /\ matchID[pass.cur] \in pass.matched
                   /\ \A d \in pass.applied : d[1] # pass.cur
    /\ OnePerPass

\* Most steps add nothing to matched and applied.
LEMMA SameOnce ==
    ASSUME OnceInv, pass'.matched = pass.matched, pass'.applied = pass.applied,
           Inspects' => Inspects /\ pass'.cur = pass.cur
    PROVE  OnceInv'
BY DEF OnceInv, OnePerPass

\* Every step of the system preserves the invariant.
LEMMA OnceNext == TrapType /\ OnceInv /\ [Next]_vars => OnceInv'
<1> SUFFICES ASSUME TrapType, OnceInv, [Next]_vars PROVE OnceInv'
  OBVIOUS
<1>a. pass \in PassType
  BY DEF TrapType, TypeOK
<1>b. CASE UNCHANGED pass
  BY <1>b, SameOnce DEF Inspects
<1>c. ASSUME pass'.applied = {}, ~Inspects' PROVE OnceInv'
  BY <1>c DEF OnceInv, OnePerPass
<1>d. ASSUME Requeue PROVE OnceInv'
  BY <1>c, <1>d DEF Requeue, Idle, Inspects
<1>e. ASSUME NextItem PROVE OnceInv'
  BY <1>a, <1>e, SameOnce DEF NextItem, PassType, Inspects
<1>f. ASSUME NEW c, NextContainer(c) PROVE OnceInv'
  BY <1>a, <1>f, SameOnce DEF NextContainer, PassType, Inspects
<1>1. CASE Begin
  BY <1>1, <1>c DEF Begin, Idle, Inspects
<1>2. CASE ListPods
  <2>1. CASE pass' = [pass EXCEPT !.pc = "walk", !.list = Status, !.todo = Listed(pass.item)]
    BY <1>a, <2>1, SameOnce DEF PassType, Inspects
  <2> QED BY <1>2, <1>e, <2>1 DEF ListPods
<1>3. CASE Walk
  <2>1. ASSUME NEW c \in pass.todo, Enter(c) PROVE OnceInv'
    <3>1. CASE pass' = [pass EXCEPT !.pc = "open", !.cur = c, !.matched = @ \cup {matchID[c]}]
      \* Had something been applied for the container, it would be matched.
      <4>1. matchID[c] \notin pass.matched
        BY <2>1 DEF Enter, Matched
      <4>2. /\ pass'.applied = pass.applied /\ pass'.cur = c
            /\ pass'.matched = pass.matched \cup {matchID[c]}
        BY <1>a, <3>1 DEF PassType
      <4> QED BY <4>1, <4>2 DEF OnceInv, OnePerPass
    <3> QED BY <1>d, <2>1, <3>1 DEF Enter
  <2> QED BY <1>3, <1>d, <1>e, <1>f, <2>1 DEF Walk, Skip, NotRunning, Again
<1>4. CASE Open
  <2>1. CASE pass' = [pass EXCEPT !.pc = "stat"]
    BY <1>4, <1>a, <2>1, SameOnce DEF Open, PassType, Inspects
  <2> QED BY <1>4, <1>f, <2>1 DEF Open
<1>5. CASE Stat
  <2>1. CASE pass' = [pass EXCEPT !.pc = "apply", !.ino = file[pass.cur]]
    BY <1>5, <1>a, <2>1, SameOnce DEF Stat, PassType, Inspects
  <2> QED BY <1>5, <1>f, <2>1 DEF Stat, Missing
<1>6. CASE Apply
  <2> DEFINE c == pass.cur
             d == <<c, pass.list.id[c], pass.ino>>
  <2>1. CASE pass' = [pass EXCEPT !.pc = "walk", !.todo = @ \ {c}, !.cur = 0, !.ino = 0,
                                  !.applied = @ \cup {d}]
    <3>1. d[1] = c
      OBVIOUS
    <3>2. /\ matchID[c] \in pass.matched
          /\ \A e \in pass.applied : e[1] # c
      BY <1>6 DEF Apply, OnceInv, Inspects
    <3> HIDE DEF d
    <3>3. /\ pass'.pc = "walk" /\ pass'.matched = pass.matched
          /\ pass'.applied = pass.applied \cup {d}
      BY <1>a, <2>1 DEF PassType
    <3> HIDE DEF c
    <3>4. OnePerPass'
      BY <3>1, <3>2, <3>3 DEF OnceInv, OnePerPass
    <3> QED BY <3>1, <3>2, <3>3, <3>4 DEF OnceInv, Inspects
  <2> QED BY <1>6, <1>f, <2>1 DEF Apply
<1>7. CASE End
  BY <1>7, <1>c DEF End, Idle, Inspects
<1>8. CASE Changes
  BY <1>8, <1>b DEF Changes, PodChanges, Restart, Probe, FileChanges, Event
<1>9. CASE UNCHANGED vars
  BY <1>9, <1>b DEF vars
<1> QED BY <1>1, <1>2, <1>3, <1>4, <1>5, <1>6, <1>7, <1>8, <1>9 DEF Next, Reconcile, Changes

\* One pass never makes two KiveData for one container, although several items
\* may match it and it may restart, or its file be replaced, between two of
\* them. Containers whose joined names collide do no harm here.
THEOREM OnePerPassCorrect == Spec => []OnePerPass
<1>1. Init => OnceInv
  BY DEF Init, Idle, OnceInv, OnePerPass, Inspects
<1>2. OnceInv => OnePerPass
  BY DEF OnceInv
<1> QED BY <1>1, <1>2, TrapTypeInit, TrapTypeNext, OnceNext, PTL DEF Spec

-----------------------------------------------------------------------------
(* Covered *)

\* The pass is done with container c: it has made its KiveData, or it needs none,
\* or something happened to it meanwhile. A container that shares its matchID
\* is left out of account: the pass may take it for the other one.
Served(c) ==
    c \in steady /\ Alone(c) /\ Wanted(c) => <<c, id[c], file[c]>> \in pass.applied

\* The pass has gone past container c in the loop of item i.
Past(i, c) == \/ i < pass.item \/ pass.pc = "done"
              \/ i = pass.item /\ Looks /\ c \notin pass.todo

\* What the List said is still true of the containers nothing happened to.
ListFresh == Looks => \A c \in steady :
    /\ pass.list.id[c] = id[c]
    /\ PodOf[c] \in pass.list.running <=> PodOf[c] \in running

\* The containers a loop has passed, and the matched ones save that under
\* inspection, are served.
PastServed == \A i \in Item, c \in Container : Selects(i, c) /\ Past(i, c) => Served(c)
MatchServed == \A c \in Container :
    matchID[c] \in pass.matched /\ ~(Inspects /\ c = pass.cur) => Served(c)

\* What GetContainerData has found out about its container still holds, unless
\* something happened to that container.
Inspection ==
    /\ Inspects => PodOf[pass.cur] \in pass.list.running
    /\ pass.pc = "stat" /\ pass.cur \in steady /\ create => file[pass.cur] # 0
    /\ pass.pc = "apply" /\ pass.cur \in steady => pass.ino = file[pass.cur]

\* What the pass has applied is stored.
AppliedStored == pass.applied \subseteq data

CoverInv == ListFresh /\ PastServed /\ MatchServed /\ Inspection

\* After the step everything that was served still is: the pass goes on, and steady containers keep their id, phase and file, save for a file that
\* creat makes where there was none.
Keeps ==
    /\ create' = create /\ pass.applied \subseteq pass'.applied /\ steady' \subseteq steady
    /\ \A c \in steady' :
         /\ id'[c] = id[c]
         /\ PodOf[c] \in running' <=> PodOf[c] \in running
         /\ c \in Local => file'[c] = file[c] \/ (create /\ file[c] = 0)

\* Every step keeps what is served, unless it begins or ends a pass.
LEMMA StepKeeps == ASSUME TrapType, Next, ~Begin, pass' # Idle PROVE Keeps
<1> USE TrapAssumption
<1>a. TypeOK
  BY DEF TrapType
<1>1. CASE Changes
  <2>1. ASSUME NEW p \in Pods, PodChanges(p) PROVE Keeps
    <3> DEFINE C == {c \in Container : PodOf[c] = p}
    <3>1. /\ steady' = steady \ C /\ UNCHANGED <<create, pass, file>>
          /\ running' = running \cup {p} \/ running' = running \ {p}
      BY <2>1 DEF PodChanges, Event
    <3>2. \A c \in Container \ C : id'[c] = id[c]
      BY <2>1, <1>a DEF PodChanges, TypeOK
    <3>3. \A c \in steady' : c \in Container /\ c \notin C /\ PodOf[c] # p
      BY <1>a, <3>1 DEF TypeOK
    <3> HIDE DEF C
    <3> QED BY <3>1, <3>2, <3>3 DEF Keeps
  <2>2. ASSUME NEW c \in Container, Restart(c) PROVE Keeps
    BY <2>2, <1>a DEF Restart, Event, Keeps, TypeOK
  <2>3. ASSUME NEW c \in Container, Probe(c) \/ FileChanges(c) PROVE Keeps
    BY <2>3, <1>a DEF Probe, FileChanges, Event, Keeps, TypeOK
  <2> QED BY <1>1, <2>1, <2>2, <2>3 DEF Changes
<1>2. CASE Reconcile
  <2>1. UNCHANGED <<create, running, ready, id>>
    BY <1>2 DEF Reconcile, Begin, ListPods, Walk, Open, Stat, Apply, End, world
  <2>2. steady' \subseteq steady
    BY <1>2 DEF Reconcile, ListPods, Walk, Open, Stat, Apply, End, Fault, NoFault
  <2>3. pass.applied \subseteq pass'.applied
    <3>1. pass \in PassType
      BY <1>a DEF TypeOK
    <3>2. \A c : NextContainer(c) => pass'.applied = pass.applied
      BY <3>1 DEF NextContainer, PassType
    <3>3. NextItem => pass'.applied = pass.applied
      BY <3>1 DEF NextItem, PassType
    <3>4. ~Requeue /\ ~End
      BY DEF Requeue, End
    <3>5. CASE ListPods
      BY <3>1, <3>3, <3>5 DEF ListPods, PassType
    <3>6. CASE Walk
      <4>1. ASSUME NEW c, Enter(c) PROVE pass.applied \subseteq pass'.applied
        BY <3>1, <3>4, <4>1 DEF Enter, PassType
      <4> QED BY <3>2, <3>3, <3>4, <3>6, <4>1 DEF Walk, Skip, NotRunning, Again
    <3>7. CASE Open
      BY <3>1, <3>2, <3>7 DEF Open, PassType
    <3>8. CASE Stat
      BY <3>1, <3>2, <3>8 DEF Stat, Missing, PassType
    <3>9. CASE Apply
      <4> DEFINE d == <<pass.cur, pass.list.id[pass.cur], pass.ino>>
      <4>1. CASE pass' = [pass EXCEPT !.pc = "walk", !.todo = @ \ {pass.cur}, !.cur = 0,
                                      !.ino = 0, !.applied = @ \cup {d}]
        <5> HIDE DEF d
        <5> QED BY <3>1, <4>1 DEF PassType
      <4> QED BY <3>2, <3>9, <4>1 DEF Apply
    <3> QED BY <1>2, <3>4, <3>5, <3>6, <3>7, <3>8, <3>9 DEF Reconcile
  <2>4. \A c \in Local : file'[c] = file[c] \/ (create /\ file[c] = 0)
    <3>1. CASE Open
      BY <3>1, <1>a DEF Open, TypeOK
    <3>2. CASE ~Open
      BY <1>2, <3>2 DEF Reconcile, ListPods, Walk, Stat, Apply, End, world
    <3> QED BY <3>1, <3>2
  <2> QED BY <2>1, <2>2, <2>3, <2>4 DEF Keeps
<1> QED BY <1>1, <1>2 DEF Next, Changes

\* What is served stays served. A file that creat makes belongs to a container
\* that was not served: its KiveData would have named inode 0.
LEMMA ServedStays ==
    ASSUME TrapType, Keeps, NEW c \in Container, Served(c) PROVE Served(c)'
<1>a. Alone(c)' <=> Alone(c)
  BY DEF Alone, Selected, Selects
<1>1. SUFFICES ASSUME c \in steady', Alone(c), Wanted(c)'
               PROVE  <<c, id'[c], file'[c]>> \in pass'.applied
  BY <1>a DEF Served
<1>2. /\ c \in steady /\ id'[c] = id[c] /\ c \in Local /\ create' = create
      /\ file'[c] = file[c] \/ (create /\ file[c] = 0)
  BY <1>1 DEF Keeps, Wanted
<1>3. Wanted(c)
  BY <1>1, <1>2 DEF Wanted
<1>4. <<c, id[c], file[c]>> \in pass.applied
  BY <1>1, <1>2, <1>3 DEF Served
<1>5. file[c] # 0
  BY <1>4, TrapAssumption DEF TrapType, TypeOK, PassType
<1> QED BY <1>2, <1>4, <1>5 DEF Keeps

\* The list stays fresh while the pass keeps it.
LEMMA FreshStays ==
    ASSUME TrapType, Keeps, ListFresh, Looks' => Looks /\ pass'.list = pass.list
    PROVE  ListFresh'
BY DEF Keeps, ListFresh

\* The pass stays where it is, or goes on within the inspection of one container.
LEMMA CoverStays ==
    ASSUME TrapType, Keeps, CoverInv,
           pass'.item = pass.item, pass'.todo = pass.todo, pass'.list = pass.list,
           pass'.matched = pass.matched, pass'.cur = pass.cur,
           Looks' <=> Looks, Inspects' <=> Inspects, pass'.pc = "done" <=> pass.pc = "done"
    PROVE  ListFresh' /\ PastServed' /\ MatchServed'
<1>1. ListFresh'
  BY FreshStays DEF CoverInv
<1>2. PastServed'
  BY ServedStays DEF CoverInv, PastServed, Past
<1>3. MatchServed'
  BY ServedStays DEF CoverInv, MatchServed
<1> QED BY <1>1, <1>2, <1>3

\* The loop goes on after container c, which is served or not of this item.
LEMMA CoverAdvances ==
    ASSUME TrapType, Keeps, CoverInv, Looks, NEW c \in Container,
           pass'.pc = "walk", pass'.item = pass.item, pass'.list = pass.list,
           pass'.todo = pass.todo \ {c}, pass'.matched = pass.matched,
           Inspects => c = pass.cur,
           Served(c)' \/ (~Inspects /\ ~Selects(pass.item, c))
    PROVE  CoverInv'
<1>1. ListFresh'
  BY FreshStays DEF CoverInv, Looks
<1>2. PastServed'
  <2> SUFFICES ASSUME NEW i \in Item, NEW e \in Container, Selects(i, e), Past(i, e)'
               PROVE  Served(e)'
    BY DEF PastServed, Selects
  <2>1. CASE e = c /\ i = pass.item
    BY <2>1, ServedStays DEF CoverInv, PastServed, Past
  <2>2. CASE ~(e = c /\ i = pass.item)
    <3>1. Past(i, e)
      BY <2>2 DEF Past
    <3> QED BY <3>1, ServedStays DEF CoverInv, PastServed
  <2> QED BY <2>1, <2>2
<1>3. MatchServed'
  <2> SUFFICES ASSUME NEW e \in Container, matchID[e] \in pass.matched PROVE Served(e)'
    BY DEF MatchServed
  <2> QED BY ServedStays DEF CoverInv, MatchServed
<1>4. Inspection'
  BY DEF Inspection, Inspects
<1> QED BY <1>1, <1>2, <1>3, <1>4 DEF CoverInv

\* The loop goes on with the next item, when every container this one selects is
\* served.
LEMMA CoverItem ==
    ASSUME TrapType, Keeps, CoverInv, NextItem, pass.pc \in {"list", "walk"},
           \A c \in Container : Selects(pass.item, c) => Served(c)'
    PROVE  CoverInv'
<1>a. pass \in PassType /\ pass.item \in Item /\ NumItems \in Nat
  BY TrapAssumption DEF TrapType, TypeOK, PassOK, Looks
<1>b. /\ pass'.pc = IF pass.item < NumItems THEN "list" ELSE "done"
      /\ pass'.item = IF pass.item < NumItems THEN pass.item + 1 ELSE pass.item
      /\ pass'.matched = pass.matched
  BY <1>a DEF NextItem, PassType
<1>1. ~Looks' /\ ~Inspects' /\ ~Inspects
  BY <1>b DEF Looks, Inspects
<1>2. ListFresh' /\ Inspection'
  BY <1>1 DEF ListFresh, Inspection, Inspects
<1>3. PastServed'
  <2> SUFFICES ASSUME NEW i \in Item, NEW c \in Container, Selects(i, c), Past(i, c)'
               PROVE  Served(c)'
    BY DEF PastServed, Selects
  <2>1. i < pass.item \/ i = pass.item
    BY <1>a, <1>b, <1>1 DEF Past, Item
  <2>2. CASE i < pass.item
    BY <2>2, ServedStays DEF CoverInv, PastServed, Past
  <2>3. CASE i = pass.item
    BY <2>3
  <2> QED BY <2>1, <2>2, <2>3
<1>4. MatchServed'
  BY <1>b, <1>1, ServedStays DEF CoverInv, MatchServed
<1> QED BY <1>2, <1>3, <1>4 DEF CoverInv

\* A new or abandoned pass has passed and matched nothing.
LEMMA CoverAnew ==
    ASSUME \/ pass'.pc = "idle" /\ pass'.item = 0
           \/ pass'.pc = "list" /\ pass'.item = 1
           \/ pass'.pc = "done" /\ NumItems = 0,
           pass'.matched = {}
    PROVE  CoverInv'
<1>1. ~Looks' /\ ~Inspects'
  BY DEF Looks, Inspects
<1>2. ListFresh' /\ Inspection' /\ MatchServed'
  BY <1>1 DEF ListFresh, Inspection, Inspects, MatchServed
<1>3. \A i \in Item, c \in Container : ~Past(i, c)'
  BY <1>1, TrapAssumption DEF Past, Item
<1> QED BY <1>2, <1>3 DEF CoverInv, PastServed

\* The decision about the next container of the list preserves the invariant.
LEMMA CoverDecides ==
    ASSUME TrapType, CoverInv, Keeps, pass.pc = "walk",
           NEW c \in pass.todo, Decides(c)
    PROVE  CoverInv'
<1>a. pass \in PassType /\ c \in Container
  BY DEF TrapType, TypeOK, PassType
<1>b. Looks /\ ~Inspects
  BY DEF Looks, Inspects
<1>1. ASSUME Requeue PROVE CoverInv'
  BY <1>1, CoverAnew DEF Requeue, Idle
<1>2. ASSUME NextContainer(c), Served(c)' \/ ~Selects(pass.item, c) PROVE CoverInv'
  <2>1. /\ pass'.pc = "walk" /\ pass'.item = pass.item /\ pass'.list = pass.list
        /\ pass'.todo = pass.todo \ {c} /\ pass'.matched = pass.matched
    BY <1>a, <1>2 DEF NextContainer, PassType
  <2> QED BY <1>a, <1>b, <1>2, <2>1, CoverAdvances
<1>3. CASE Skip(c)
  BY <1>3, <1>2 DEF Skip, RegexMatch, Selects
<1>4. CASE NotRunning(c)
  BY <1>4, <1>1 DEF NotRunning
<1>5. CASE Again(c)
  <2>1. Served(c)
    BY <1>5, <1>a, <1>b DEF Again, Matched, CoverInv, MatchServed
  <2> QED BY <1>5, <1>a, <1>2, <2>1, ServedStays DEF Again
<1>6. CASE Enter(c)
  <2>1. CASE pass' = [pass EXCEPT !.pc = "open", !.cur = c, !.matched = @ \cup {matchID[c]}]
    <3>1. /\ pass'.pc = "open" /\ pass'.cur = c /\ pass'.item = pass.item
          /\ pass'.list = pass.list /\ pass'.todo = pass.todo
          /\ pass'.matched = pass.matched \cup {matchID[c]}
      BY <1>a, <2>1 DEF PassType
    <3>2. Looks' /\ Inspects'
      BY <3>1 DEF Looks, Inspects
    <3>3. ListFresh'
      BY <1>b, <3>1, FreshStays DEF CoverInv
    <3>4. PastServed'
      BY <1>b, <3>1, <3>2, ServedStays DEF CoverInv, PastServed, Past
    \* The item selects container c. Another one with the name that is matched now
    \* is not alone.
    <3>5. MatchServed'
      <4>1. Selected(c)
        BY <1>6, <1>a, <1>b
           DEF Enter, RegexMatch, Selected, Selects, TrapType, PassOK
      <4>2. ASSUME NEW e \in Container, e # c, matchID[e] = matchID[c] PROVE Served(e)'
        BY <1>a, <4>1, <4>2 DEF Served, Alone, Selected, Selects
      <4> QED BY <1>a, <1>b, <3>1, <3>2, <4>2, ServedStays DEF CoverInv, MatchServed
    <3>6. Inspection'
      BY <1>6, <3>1 DEF Inspection, Enter
    <3> QED BY <3>3, <3>4, <3>5, <3>6 DEF CoverInv
  <2> QED BY <1>6, <1>1, <2>1 DEF Enter
<1> QED BY <1>3, <1>4, <1>5, <1>6 DEF Decides

\* So do the calls of GetContainerData and the apply.
LEMMA CoverInspects ==
    ASSUME TrapType, CoverInv, Keeps, Open \/ Stat \/ Apply
    PROVE  CoverInv'
<1> PICK c : c = pass.cur
  OBVIOUS
<1>a. /\ pass \in PassType /\ c \in Container /\ c \in pass.todo
      /\ TypeOK /\ pass.list \in Statuses
  BY DEF TrapType, TypeOK, PassType, PassOK, Looks, Inspects, Open, Stat, Apply
<1>b. Looks /\ Inspects
  BY DEF Looks, Inspects, Open, Stat, Apply
<1>c. UNCHANGED <<create, running, id>>
  BY DEF Open, Stat, Apply, world
<1>d. c \in steady => pass.list.id[c] = id[c] /\ PodOf[c] \in running
  BY <1>b DEF CoverInv, ListFresh, Inspection
<1>e. ASSUME pass'.pc = "walk", pass'.item = pass.item, pass'.list = pass.list,
             pass'.todo = pass.todo \ {c}, pass'.matched = pass.matched, Served(c)'
      PROVE  CoverInv'
  BY <1>a, <1>b, <1>e, CoverAdvances
<1>1. ASSUME NextContainer(c), Served(c)' PROVE CoverInv'
  <2>1. /\ pass'.pc = "walk" /\ pass'.item = pass.item /\ pass'.list = pass.list
        /\ pass'.todo = pass.todo \ {c} /\ pass'.matched = pass.matched
    BY <1>a, <1>1 DEF NextContainer, PassType
  <2> QED BY <1>1, <1>e, <2>1
<1>2. Fault({c}) => Served(c)'
  BY DEF Fault, Served
<1>3. ~Alive(c) => Served(c)'
  BY <1>c, <1>d DEF Alive, Served, Wanted, Keeps
<1>4. ASSUME pass'.pc \in {"stat", "apply"},
             pass'.item = pass.item, pass'.todo = pass.todo, pass'.list = pass.list,
             pass'.matched = pass.matched, pass'.cur = c,
             pass'.pc = "stat" /\ c \in steady' /\ create' => file'[c] # 0,
             pass'.pc = "apply" /\ c \in steady' => pass'.ino = file'[c]
      PROVE  CoverInv'
  <2>1. Looks' /\ Inspects' /\ pass'.pc # "done" /\ pass.pc # "done"
    BY <1>4, <1>b DEF Looks, Inspects
  <2>2. ListFresh' /\ PastServed' /\ MatchServed'
    BY <1>4, <1>b, <2>1, CoverStays
  <2>3. Inspection'
    BY <1>4, <1>b DEF CoverInv, Inspection
  <2> QED BY <2>2, <2>3 DEF CoverInv
<1>5. CASE Open
  <2>1. CASE /\ Alive(c) /\ pass' = [pass EXCEPT !.pc = "stat"]
             /\ \E i \in Ino : file' = IF create /\ file[c] = 0 THEN [file EXCEPT ![c] = i] ELSE file
    <3>1. /\ pass'.pc = "stat" /\ pass'.cur = c /\ pass'.item = pass.item
          /\ pass'.list = pass.list /\ pass'.todo = pass.todo /\ pass'.matched = pass.matched
      BY <1>a, <2>1 DEF PassType
    <3>2. create' => file'[c] # 0
      BY <1>a, <1>c, <2>1, TrapAssumption DEF TypeOK, Alive
    <3> QED BY <1>4, <3>1, <3>2
  <2>2. CASE (Fault({c}) \/ ~Alive(c)) /\ NextContainer(c)
    BY <1>1, <1>2, <1>3, <2>2
  <2> QED BY <1>5, <2>1, <2>2 DEF Open
<1>6. CASE Stat
  <2>1. CASE Alive(c) /\ file[c] # 0 /\ pass' = [pass EXCEPT !.pc = "apply", !.ino = file[c]]
    <3>1. /\ pass'.pc = "apply" /\ pass'.cur = c /\ pass'.item = pass.item /\ pass'.ino = file[c]
          /\ pass'.list = pass.list /\ pass'.todo = pass.todo /\ pass'.matched = pass.matched
      BY <1>a, <2>1 DEF PassType
    <3>2. UNCHANGED file
      BY <1>6 DEF Stat, world
    <3> QED BY <1>4, <3>1, <3>2
  <2>2. CASE (Fault({c}) \/ ~Alive(c)) /\ NextContainer(c)
    BY <1>1, <1>2, <1>3, <2>2
  <2>3. CASE file[c] = 0 /\ NextContainer(c)
    \* With create the file was there after creat: it went away since.
    <3>1. c \in steady => ~create
      BY <1>6, <2>3 DEF Stat, CoverInv, Inspection
    <3>2. Served(c)'
      BY <1>6, <2>3, <3>1 DEF Stat, world, Served, Wanted, Keeps
    <3> QED BY <1>1, <2>3, <3>2
  <2> QED BY <1>6, <2>1, <2>2, <2>3 DEF Stat, Missing
<1>7. CASE Apply
  <2> DEFINE d == <<c, pass.list.id[c], pass.ino>>
  <2>1. CASE /\ data' = data \cup {d}
             /\ pass' = [pass EXCEPT !.pc = "walk", !.todo = @ \ {c}, !.cur = 0, !.ino = 0,
                                     !.applied = @ \cup {d}]
    <3>1. /\ pass'.pc = "walk" /\ pass'.item = pass.item /\ pass'.list = pass.list
          /\ pass'.todo = pass.todo \ {c} /\ pass'.matched = pass.matched
          /\ pass'.applied = pass.applied \cup {d}
      BY <1>a, <2>1 DEF PassType
    <3>2. c \in steady => d = <<c, id[c], file[c]>>
      BY <1>7, <1>d DEF Apply, CoverInv, Inspection
    <3>3. UNCHANGED file
      BY <1>7 DEF Apply, world
    <3>4. Served(c)'
      BY <1>c, <3>1, <3>2, <3>3 DEF Served, Keeps
    <3> QED BY <1>e, <3>1, <3>4
  <2>2. CASE Fault({c}) /\ NextContainer(c)
    BY <1>1, <1>2, <2>2
  <2> QED BY <1>7, <2>1, <2>2 DEF Apply
<1> QED BY <1>5, <1>6, <1>7

\* Every step of the system preserves the invariant.
LEMMA CoverNext == TrapType /\ CoverInv /\ [Next]_vars => CoverInv'
<1> SUFFICES ASSUME TrapType, CoverInv, [Next]_vars PROVE CoverInv'
  OBVIOUS
<1>a. pass \in PassType
  BY DEF TrapType, TypeOK
<1>b. CASE pass' = Idle
  BY <1>b, CoverAnew DEF Idle
<1> SUFFICES ASSUME pass' # Idle PROVE CoverInv'
  BY <1>b
<1>c. Next /\ ~Begin => Keeps
  BY StepKeeps
<1>1. CASE Begin
  BY <1>1, CoverAnew DEF Begin, Idle
<1>2. CASE ListPods
  <2>1. Keeps /\ UNCHANGED id
    BY <1>2, <1>c DEF ListPods, world, Begin, Next, Reconcile
  <2>2. CASE pass' = [pass EXCEPT !.pc = "walk", !.list = Status, !.todo = Listed(pass.item)]
    <3>1. /\ pass'.pc = "walk" /\ pass'.list = Status /\ pass'.todo = Listed(pass.item)
          /\ pass'.item = pass.item /\ pass'.matched = pass.matched
      BY <1>a, <2>2 DEF PassType
    <3>2. ~Inspects' /\ ~Inspects
      BY <1>2, <3>1 DEF Inspects, ListPods
    <3>3. ListFresh'
      BY <1>2, <3>1 DEF ListFresh, Status, ListPods, world
    <3>4. Inspection'
      BY <3>1 DEF Inspection, Inspects
    <3>5. MatchServed'
      BY <2>1, <3>1, <3>2, ServedStays DEF CoverInv, MatchServed
    <3>6. PastServed'
      <4> SUFFICES ASSUME NEW i \in Item, NEW c \in Container, Selects(i, c), Past(i, c)'
                   PROVE  Served(c)'
        BY DEF PastServed, Selects
      <4>1. CASE i < pass.item
        BY <2>1, <4>1, ServedStays DEF CoverInv, PastServed, Past
      <4>2. CASE i = pass.item /\ c \notin Listed(pass.item)
        BY <2>1, <4>2 DEF Listed, Selects, Served, Wanted
      <4> QED BY <3>1, <4>1, <4>2 DEF Past
    <3> QED BY <3>3, <3>4, <3>5, <3>6 DEF CoverInv
  <2>3. CASE NextItem /\ (Fault(Listed(pass.item)) \/ pass.item \in ByIP)
    <3>1. \A c \in Container : Selects(pass.item, c) => Served(c)'
      BY <2>1, <2>3 DEF Selects, Listed, Fault, Served, Wanted
    <3> QED BY <1>2, <2>1, <2>3, <3>1, CoverItem DEF ListPods
  <2> QED BY <1>2, <2>2, <2>3 DEF ListPods
<1>3. CASE Walk
  <2>1. Keeps /\ pass.pc = "walk"
    BY <1>3, <1>c DEF Walk, Begin, Next, Reconcile
  <2>2. CASE pass.todo = {} /\ NextItem
    <3>1. pass.item \in Item /\ Looks
      BY <2>1 DEF TrapType, PassOK, Looks
    <3>2. \A c \in Container : Selects(pass.item, c) => Served(c)'
      BY <2>1, <2>2, <3>1, ServedStays DEF CoverInv, PastServed, Past
    <3> QED BY <2>1, <2>2, <3>2, CoverItem
  <2> QED BY <1>3, <2>1, <2>2, CoverDecides DEF Walk, Decides
<1>4. CASE Open \/ Stat \/ Apply
  <2>1. Keeps
    BY <1>4, <1>c DEF Open, Stat, Apply, Begin, Next, Reconcile
  <2> QED BY <1>4, <2>1, CoverInspects
<1>5. CASE End
  BY <1>5, CoverAnew DEF End, Idle
<1>6. CASE UNCHANGED pass /\ Keeps
  <2>1. ListFresh' /\ PastServed' /\ MatchServed'
    BY <1>6, CoverStays DEF Looks, Inspects
  <2>2. Inspection'
    <3>1. pass.pc = "stat" \/ pass.pc = "apply" => pass.cur \in Local
      BY DEF TrapType, PassOK
    <3>2. pass.pc = "apply" => pass.ino # 0
      BY TrapAssumption DEF TrapType, PassOK
    <3> QED BY <1>6, <3>1, <3>2 DEF CoverInv, Inspection, Inspects, Keeps
  <2> QED BY <2>1, <2>2 DEF CoverInv
<1>7. CASE Changes
  <2>1. UNCHANGED pass
    BY <1>7 DEF Changes, PodChanges, Restart, Probe, FileChanges, Event
  <2> QED BY <1>6, <1>7, <1>1, <1>c, <2>1 DEF Next, Changes
<1>8. CASE UNCHANGED vars
  BY <1>6, <1>8 DEF vars, world, Keeps
<1> QED BY <1>1, <1>2, <1>3, <1>4, <1>5, <1>7, <1>8 DEF Next, Reconcile, Changes

\* So does it preserve that what is applied is stored.
LEMMA StoredNext == TrapType /\ AppliedStored /\ [Next]_vars => AppliedStored'
<1> SUFFICES ASSUME TrapType, AppliedStored, [Next]_vars PROVE AppliedStored'
  OBVIOUS
<1>a. pass \in PassType
  BY DEF TrapType, TypeOK
<1>b. Idle.applied = {}
  BY DEF Idle
<1>c. CASE UNCHANGED data /\ (pass'.applied = pass.applied \/ pass'.applied = {})
  BY <1>c DEF AppliedStored
<1>d. \A c : NextContainer(c) => pass'.applied = pass.applied
  BY <1>a DEF NextContainer, PassType
<1>e. NextItem => pass'.applied = pass.applied
  BY <1>a DEF NextItem, PassType
<1>1. CASE Begin \/ End
  <2>1. pass'.applied = {}
    <3>1. CASE pass' = [Idle EXCEPT !.pc = "done"]
      BY <3>1 DEF Idle
    <3>2. CASE pass' = [Idle EXCEPT !.pc = "list", !.item = 1]
      BY <3>2 DEF Idle
    <3>3. CASE pass' = Idle
      BY <1>b, <3>3
    <3> QED BY <1>1, <3>1, <3>2, <3>3 DEF Begin, End
  <2>2. UNCHANGED data
    BY <1>1 DEF Begin, End
  <2> QED BY <1>c, <2>1, <2>2
<1>2. CASE ListPods
  <2>1. pass'.applied = pass.applied
    BY <1>2, <1>a, <1>e DEF ListPods, PassType
  <2> QED BY <1>2, <1>c, <2>1 DEF ListPods
<1>3. CASE Walk
  <2>1. ASSUME NEW c, Enter(c) PROVE pass'.applied = pass.applied \/ pass'.applied = {}
    BY <1>a, <1>b, <2>1 DEF Enter, Requeue, PassType
  <2>2. Requeue => pass'.applied = {}
    BY <1>b DEF Requeue
  <2> QED BY <1>3, <1>c, <1>d, <1>e, <2>1, <2>2 DEF Walk, Skip, NotRunning, Again
<1>4. CASE Open
  BY <1>4, <1>a, <1>c, <1>d DEF Open, PassType
<1>5. CASE Stat
  BY <1>5, <1>a, <1>c, <1>d DEF Stat, Missing, PassType
<1>6. CASE Apply
  <2> DEFINE d == <<pass.cur, pass.list.id[pass.cur], pass.ino>>
  <2>1. CASE /\ data' = data \cup {d}
             /\ pass' = [pass EXCEPT !.pc = "walk", !.todo = @ \ {pass.cur}, !.cur = 0,
                                     !.ino = 0, !.applied = @ \cup {d}]
    <3> HIDE DEF d
    <3>1. pass'.applied = pass.applied \cup {d}
      BY <1>a, <2>1 DEF PassType
    <3> QED BY <2>1, <3>1 DEF AppliedStored
  <2> QED BY <1>6, <1>c, <1>d, <2>1 DEF Apply
<1>7. CASE Changes \/ UNCHANGED vars
  BY <1>7, <1>c DEF Changes, PodChanges, Restart, Probe, FileChanges, Event, vars
<1> QED BY <1>1, <1>2, <1>3, <1>4, <1>5, <1>6, <1>7 DEF Next, Reconcile, Changes

\* Both hold initially, when no pass runs.
LEMMA CoverInit == Init => CoverInv /\ AppliedStored
BY DEF Init, Idle, CoverInv, ListFresh, PastServed, MatchServed, Inspection, Past,
       Looks, Inspects, Item, AppliedStored

\* When a pass comes to its end every selected container of this node that
\* stayed as it was, and that no failed call was about, has a KiveData with its
\* present id and inode, unless it shares its matchID with another one: for any
\* items, pods, containers and interleaving of changes and failures.
THEOREM CoveredCorrect == Spec => []Covered
<1>1. TrapType /\ CoverInv /\ AppliedStored => Covered
  <2> SUFFICES ASSUME TrapType, CoverInv, AppliedStored, pass.pc = "done",
                      NEW c \in steady, Wanted(c), Alone(c)
               PROVE  <<c, id[c], file[c]>> \in data
    BY DEF Covered
  <2>1. c \in Container
    BY DEF TrapType, TypeOK
  <2>2. PICK i \in Item : Selects(i, c)
    BY DEF Wanted, Selected
  <2> QED BY <2>1, <2>2 DEF CoverInv, PastServed, Past, Served, AppliedStored
<1> QED BY <1>1, TrapTypeInit, TrapTypeNext, CoverInit, CoverNext, StoredNext, PTL DEF Spec
=============================================================================
