----------------------------- MODULE TrapDiscovery -----------------------------
(***************************************************************************)
(* What one pass of the discover controller does for one trap on one node: *)
(* the loops over the matchAny items, the pods each of them selects and    *)
(* their containers, GetContainerData with its calls to containerd and to  *)
(* the file system, and the KiveData that is applied. Discover has one     *)
(* item and one container per pod; here pods have several, they change     *)
(* between any two calls, and so do the files.                             *)
(***************************************************************************)
EXTENDS Naturals, FiniteSets

CONSTANTS
    Container,   \* containers, numbered in the order of the lists
    PodOf,       \* the pod of each
    NumItems,    \* items of matchAny
    Picked,      \* per item, the pods its labels, name and namespace select
    ByIP,        \* items that also name an ip
    NameFits,    \* per item, the containers whose name RegexMatch accepts
    Broken,      \* items whose expression does not compile
    matchID,     \* pod name, namespace and container name, joined
    Local,       \* containers that run in the containerd of this node
    Ino,         \* inode numbers
    MaxStarts,   \* bound: starts of a container
    MaxEvents,   \* bound: changes of pods, containers and files
    MaxFaults    \* bound: calls that fail

Item  == 1..NumItems
Pods  == {PodOf[c] : c \in Container}
Start == 1..MaxStarts

ASSUME TrapAssumption ==
    /\ Container \subseteq Nat \ {0} /\ IsFiniteSet(Container)
    /\ Local \subseteq Container
    /\ NumItems \in Nat /\ MaxStarts \in Nat /\ MaxEvents \in Nat /\ MaxFaults \in Nat
    /\ MaxStarts > 0 /\ 0 \notin Ino

VARIABLES
    create,    \* the trap says create
    running,   \* pods in phase Running
    ready,     \* containers whose status is ready
    id,        \* per container, the number of its last start, which stands for its
               \* container id; 0 if its pod has no status for it yet
    file,      \* per local container, the inode at the trap's path, 0 if there is none
    data,      \* KiveData of the trap, <<container, id, inode>>
    pass,      \* the running pass
    steady,    \* containers that nothing has happened to since the pass began
    budget

world == <<create, running, ready, id, file>>
vars  == <<world, data, pass, steady, budget>>

\* The status of all pods as a List returns it.
Status == [running |-> running, ready |-> ready, id |-> id]

Idle == [pc |-> "idle", item |-> 0, list |-> <<>>, todo |-> {}, matched |-> {},
         applied |-> {}, cur |-> 0, ino |-> 0]

Statuses == [running: SUBSET Pods, ready: SUBSET Container, id: [Container -> Start \cup {0}]]
PassType ==
    [pc: {"idle", "list", "walk", "open", "stat", "apply", "done"},
     item: 0..NumItems, list: Statuses \cup {<<>>}, todo: SUBSET Container,
     matched: SUBSET {matchID[c] : c \in Container},
     applied: SUBSET (Container \X Start \X Ino),
     cur: Container \cup {0}, ino: Ino \cup {0}]

TypeOK ==
    /\ create \in BOOLEAN
    /\ running \in SUBSET Pods /\ ready \in SUBSET Container
    /\ id \in [Container -> Start \cup {0}]
    /\ file \in [Local -> Ino \cup {0}]
    /\ data \in SUBSET (Container \X Start \X Ino)
    /\ pass \in PassType
    /\ steady \in SUBSET Container
    /\ budget \in [events: 0..MaxEvents, faults: 0..MaxFaults]

Init ==
    /\ create \in BOOLEAN
    /\ running \in SUBSET Pods
    /\ ready \in SUBSET {c \in Container : PodOf[c] \in running}
    /\ \E new \in SUBSET (Pods \ running) :
         id = [c \in Container |-> IF PodOf[c] \in new THEN 0 ELSE 1]
    /\ file \in [Local -> Ino \cup {0}]
    /\ data = {}
    /\ pass = Idle
    /\ steady = {}
    /\ budget = [events |-> MaxEvents, faults |-> MaxFaults]

-----------------------------------------------------------------------------
(* Pods, containers and files change at any time. *)

Event(C) == /\ budget.events > 0
            /\ budget' = [budget EXCEPT !.events = @ - 1]
            /\ steady' = steady \ C
            /\ UNCHANGED <<create, data, pass>>

\* A pod starts, with all its containers, or ends.
PodChanges(p) ==
    LET C == {c \in Container : PodOf[c] = p} IN
    /\ Event(C)
    /\ \/ /\ p \notin running
          /\ running' = running \cup {p} /\ ready' = ready \cup C
          /\ id' = [c \in Container |-> IF c \in C /\ id[c] = 0 THEN 1 ELSE id[c]]
       \/ /\ p \in running
          /\ running' = running \ {p} /\ ready' = ready \ C
          /\ UNCHANGED id
    /\ UNCHANGED file

\* A container is started again, in a new root file system.
Restart(c) ==
    /\ Event({c})
    /\ PodOf[c] \in running /\ id[c] < MaxStarts
    /\ id' = [id EXCEPT ![c] = @ + 1]
    /\ \E i \in Ino \cup {0} : file' = [e \in Local |-> IF e = c THEN i ELSE file[e]]
    /\ ready' \in {ready \cup {c}, ready \ {c}}
    /\ UNCHANGED running

Probe(c) ==
    /\ Event({c})
    /\ PodOf[c] \in running /\ c \notin ready
    /\ ready' = ready \cup {c}
    /\ UNCHANGED <<running, id, file>>

\* A file is created, replaced or removed. An inode number may come back.
FileChanges(c) ==
    /\ Event({c})
    /\ c \in Local
    /\ \E i \in (Ino \cup {0}) \ {file[c]} : file' = [file EXCEPT ![c] = i]
    /\ UNCHANGED <<running, ready, id>>

-----------------------------------------------------------------------------
(* The pass *)

\* A call fails; C are the containers it was about.
Fault(C) == /\ budget.faults > 0
            /\ budget' = [budget EXCEPT !.faults = @ - 1]
            /\ steady' = steady \ C

NoFault == UNCHANGED <<budget, steady>>

Begin ==
    /\ pass.pc = "idle"
    /\ pass' = IF NumItems = 0 THEN [Idle EXCEPT !.pc = "done"]
                ELSE [Idle EXCEPT !.pc = "list", !.item = 1]
    /\ steady' = Container
    /\ UNCHANGED <<world, data, budget>>

\* continue Match
NextItem == pass' = [pass EXCEPT !.pc = IF pass.item < NumItems THEN "list" ELSE "done",
                                 !.item = IF pass.item < NumItems THEN @ + 1 ELSE @,
                                 !.todo = {}, !.cur = 0, !.ino = 0]

\* continue Container
NextContainer(c) == pass' = [pass EXCEPT !.pc = "walk", !.todo = @ \ {c},
                                         !.cur = 0, !.ino = 0]

\* return ctrl.Result{Requeue: true}
Requeue == pass' = Idle

Listed(i) == {c \in Container : PodOf[c] \in Picked[i] /\ id[c] # 0}

\* The uncached List with the labels and fields of the item. The API server
\* knows no field metadata.podIP and refuses a List that asks for it.
ListPods ==
    /\ pass.pc = "list"
    /\ \/ /\ pass.item \notin ByIP
          /\ pass' = [pass EXCEPT !.pc = "walk", !.list = Status,
                               !.todo = Listed(pass.item)]
          /\ NoFault
       \/ /\ \/ Fault(Listed(pass.item))
             \/ pass.item \in ByIP /\ NoFault
          /\ NextItem
    /\ UNCHANGED <<world, data>>

\* RegexMatch of the item with the name of the container.
RegexMatch(c) == pass.item \notin Broken /\ c \in NameFits[pass.item]

Skip(c) ==
    /\ ~RegexMatch(c)
    /\ NextContainer(c)

NotRunning(c) ==
    /\ RegexMatch(c) /\ PodOf[c] \notin pass.list.running
    /\ Requeue

\* Mutants: containers that are already matched are taken again; the pod counts
\* as matched when one of its containers is.
Taken(c) == FALSE

PodTaken(c) == \E e \in Container : PodOf[e] = PodOf[c] /\ matchID[e] \in pass.matched

Matched(c) == matchID[c] \in pass.matched

Again(c) ==
    /\ RegexMatch(c) /\ PodOf[c] \in pass.list.running
    /\ Matched(c)
    /\ NextContainer(c)

\* GetContainerData up to its first call.
Enter(c) ==
    /\ RegexMatch(c) /\ PodOf[c] \in pass.list.running
    /\ ~Matched(c)
    /\ IF c \in pass.list.ready
       THEN pass' = [pass EXCEPT !.pc = "open", !.cur = c,
                                 !.matched = @ \cup {matchID[c]}]
       ELSE Requeue

\* The body of the loops over pods and containers up to GetContainerData.
Walk ==
    /\ pass.pc = "walk"
    /\ \/ pass.todo = {} /\ NextItem
       \/ \E c \in pass.todo : /\ \A e \in pass.todo : c <= e
                               /\ Skip(c) \/ NotRunning(c) \/ Again(c) \/ Enter(c)
    /\ UNCHANGED <<world, data, steady, budget>>

\* The process of the listed container is there: containerd knows the id.
Alive(c) == c \in Local /\ PodOf[c] \in running /\ id[c] = pass.list.id[c]

\* Find the container in containerd, and with create make the file (creat also
\* empties one that is there). Any error is the end of this container: it counts
\* as not found.
Open ==
    /\ pass.pc = "open"
    /\ LET c == pass.cur IN
       \/ /\ Alive(c)
          /\ pass' = [pass EXCEPT !.pc = "stat"]
          /\ \E i \in Ino :
               file' = IF create /\ file[c] = 0 THEN [file EXCEPT ![c] = i] ELSE file
          /\ NoFault
       \/ /\ Fault({c}) \/ (~Alive(c) /\ NoFault)
          /\ NextContainer(c)
          /\ UNCHANGED file
    /\ UNCHANGED <<create, running, ready, id, data>>

\* Mutant: without a file the pass is given up.
MissingStops == Requeue

Missing == NextContainer(pass.cur)

\* Mutant: the error of stat is not looked at.
StatUnchecked ==
    /\ pass.pc = "stat"
    /\ LET c == pass.cur IN
       \/ /\ Alive(c)
          /\ pass' = [pass EXCEPT !.pc = "apply", !.ino = file[c]]
          /\ NoFault
       \/ /\ Fault({c}) \/ (~Alive(c) /\ NoFault)
          /\ Missing
    /\ UNCHANGED <<world, data>>

Stat ==
    /\ pass.pc = "stat"
    /\ LET c == pass.cur IN
       \/ /\ Alive(c) /\ file[c] # 0
          /\ pass' = [pass EXCEPT !.pc = "apply", !.ino = file[c]]
          /\ NoFault
       \/ /\ Fault({c}) \/ (~(Alive(c) /\ file[c] # 0) /\ NoFault)
          /\ Missing
    /\ UNCHANGED <<world, data>>

\* NewKiveDataName is made of the inode, the device, the pod and the id.
Apply ==
    /\ pass.pc = "apply"
    /\ LET c == pass.cur
           d == <<c, pass.list.id[c], pass.ino>> IN
       \/ /\ data' = data \cup {d}
          /\ pass' = [pass EXCEPT !.pc = "walk", !.todo = @ \ {c}, !.cur = 0, !.ino = 0,
                                  !.applied = @ \cup {d}]
          /\ NoFault
       \/ /\ Fault({c})
          /\ NextContainer(c)
          /\ UNCHANGED data
    /\ UNCHANGED world

End == /\ pass.pc = "done"
       /\ pass' = Idle
       /\ UNCHANGED <<world, data, steady, budget>>

Reconcile == Begin \/ ListPods \/ Walk \/ Open \/ Stat \/ Apply \/ End

Next == \/ Reconcile
        \/ \E p \in Pods : PodChanges(p)
        \/ \E c \in Container : Restart(c) \/ Probe(c) \/ FileChanges(c)

Spec == Init /\ [][Next]_vars

\* The pass is a goroutine that runs on, and it is requested again and again:
\* by pokes, requeues and resyncs.
FairSpec == Spec /\ WF_vars(Reconcile)

-----------------------------------------------------------------------------
(* Properties *)

\* Item i selects container c, and can: it names no ip and its expression
\* compiles.
Selects(i, c) == /\ i \notin ByIP /\ i \notin Broken
                 /\ PodOf[c] \in Picked[i] /\ c \in NameFits[i]

Selected(c) == \E i \in Item : Selects(i, c)

Wanted(c) == Selected(c) /\ c \in Local /\ id[c] # 0 /\ (create \/ file[c] # 0)

\* No other selected container has the matchID of container c.
Alone(c) == \A e \in Container \ {c} : Selected(e) => matchID[e] # matchID[c]

\* A pass that comes to its end leaves no selected container of this node
\* behind: each one that stayed as it was, and that no failed call was about,
\* has a KiveData with its present id and inode. Broken items, items the API
\* server refuses, containers of other nodes, missing files and containers that
\* restart meanwhile do not get in the way of the others; only a container that
\* shares its matchID does.
Covered == pass.pc = "done" =>
    \A c \in steady : Wanted(c) /\ Alone(c) => <<c, id[c], file[c]>> \in data

\* One pass makes at most one KiveData for a container, also if several items
\* match it and it restarts or its file is replaced between two of them.
OnePerPass == \A d, e \in pass.applied : d[1] = e[1] => d = e

\* "This container was already registered", says the code of one that it passes
\* over as matched: this pass has made its KiveData, if it should have one and
\* nothing happened to it. That is so unless it shares its matchID.
SkipsRegistered == pass.pc = "walk" =>
    \A c \in pass.todo :
        /\ \A e \in pass.todo : c <= e
        /\ RegexMatch(c) /\ PodOf[c] \in pass.list.running /\ Matched(c)
        /\ c \in steady /\ Wanted(c)
        => \E d \in pass.applied : d[1] = c

\* Some selected container is not ready, so that every pass gives up at it.
Blocked == \E c \in Container :
              Selected(c) /\ id[c] # 0 /\ (PodOf[c] \notin running \/ c \notin ready)

\* In the end all files are found, whatever failed or changed before, unless a
\* selected container stays unready or two of them share a matchID.
Monitored ==
    <>[](Blocked \/ \A c \in Container :
            Wanted(c) /\ Alone(c) => <<c, id[c], file[c]>> \in data)
=============================================================================
