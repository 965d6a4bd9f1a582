-------------------------------- MODULE Tracer --------------------------------
(***************************************************************************)
(* One operator process that leads its kernel, and the eBPF objects it     *)
(* owns there: LoadEbpf with its partial failures, the reconciler that     *)
(* fills the map, the kprobe that writes events, the Output goroutines     *)
(* that turn events into alerts, the two UnloadEbpf calls of a shutdown    *)
(* and the queue that is drained meanwhile.                                *)
(*                                                                         *)
(* Each successful loadBpfObjects makes a new generation of programs, hash *)
(* map and ring buffer, numbered 1, 2, ...; 0 stands for a nil variable.   *)
(* Why a KiveData is created or deleted is the business of Kive; here it   *)
(* happens at any time. A KiveData is created with its finalizer.          *)
(***************************************************************************)
EXTENDS Naturals, Sequences, FiniteSets

CONSTANTS
    Data,        \* names of KiveData
    InodeOf,     \* Spec.InodeNo of each
    DevOf,       \* Spec.DevID
    KernelOf,    \* label kernel-id
    Callback,    \* those with a callback
    Here,        \* KernelID of this process
    Release,     \* kernel releases, <<major, minor>>
    MapMax,      \* max_entries of traced_inodes
    RingMax,     \* events that fit into rb
    MaxLoads,    \* bound: generations in the life of a process
    MaxFaults,   \* bound: calls that fail
    MaxAccess,   \* bound: accesses to traced files
    MaxChanges,  \* bound: KiveData created or deleted from outside
    MaxStops,    \* bound: shutdowns and crashes
    None         \* "no KiveData"

Gen == 1..MaxLoads

ASSUME TracerAssumption ==
    /\ None \notin Data
    /\ Callback \subseteq Data
    /\ Release \subseteq Nat \X Nat
    /\ MapMax \in Nat /\ RingMax \in Nat /\ MaxLoads \in Nat
    /\ MaxFaults \in Nat /\ MaxAccess \in Nat
    /\ MaxChanges \in Nat /\ MaxStops \in Nat

VARIABLES
    \* The API server
    stored,    \* KiveData that exist
    marked,    \* those with a deletion timestamp
    \* The kernel
    release,   \* uname
    attached,  \* per generation: the program its probe runs, or "none"
    map,       \* per generation: keys in traced_inodes
    ring,      \* per generation: events in rb
    \* Package variables and descriptors of the process
    Objs, Kprobe, RingbuffReader, Loaded,
    loads,     \* generations made so far
    mapfd,     \* generations whose traced_inodes is open
    objfd,     \* generations whose other objects are open
    reading,   \* generations whose ring buffer reader is open
    \* Goroutines
    queue,     \* work queue of the KiveData controller
    rec,       \* the running Reconcile
    out,       \* per generation: the Output started when it was loaded
    unload,    \* the two UnloadEbpf calls of main
    stopping,  \* SIGTERM has arrived, the manager's context is cancelled
    \* History
    stray,     \* keys that a RemoveInode failed to take out of an open map
    missed,    \* keys whose AddInode, or the Delete of whose KiveData, failed last
    budget     \* what is left of the bounds

store   == <<stored, marked>>
kernel  == <<release, attached, map, ring>>
package == <<Objs, Kprobe, RingbuffReader, Loaded>>
fds     == <<loads, mapfd, objfd, reading>>
procs   == <<queue, rec, out, unload, stopping>>
history == <<stray, missed>>
vars    == <<store, kernel, package, fds, procs, history, budget>>

-----------------------------------------------------------------------------
\* struct map_key. Of the event, struct log_data, the same two fields matter.
Key(d)  == [inode |-> InodeOf[d], dev |-> DevOf[d]]
Keys    == {Key(d) : d \in Data}
Mine(S) == {d \in S : KernelOf[d] = Here}

NoEvent == [inode |-> None, dev |-> None]

IdleRec == [pc |-> "idle", req |-> None, todo |-> {}, del |-> {}, cur |-> None]
NoOut   == [pc |-> "off", on |-> 0, ev |-> NoEvent, data |-> None]

Program  == {"old", "new"}
RecPC    == {"idle", "objects", "probe", "reader", "loaded", "list", "data", "patch"}
OutPC    == {"off", "top", "read", "list", "send"}
UnloadPC == {"off", "probe", "map", "objects", "reader", "loaded", "done"}
Unloader == {"signal", "main"}

RecType == [pc: RecPC, req: Data \cup {None}, todo: SUBSET Data,
            del: SUBSET Data, cur: Data \cup {None}]
OutType == [pc: OutPC, on: Gen \cup {0}, ev: Keys \cup {NoEvent},
            data: Data \cup {None}]

TypeOK ==
    /\ stored \in SUBSET Data /\ marked \in SUBSET stored
    /\ release \in Release
    /\ attached \in [Gen -> Program \cup {"none"}]
    /\ map \in [Gen -> SUBSET Keys]
    /\ ring \in [Gen -> Seq(Keys)]
    /\ Objs \in 0..loads /\ Kprobe \in 0..loads /\ RingbuffReader \in 0..loads
    /\ Loaded \in BOOLEAN
    /\ loads \in 0..MaxLoads
    /\ mapfd \in SUBSET (1..loads) /\ objfd \in SUBSET (1..loads)
    /\ reading \in SUBSET (1..loads)
    /\ queue \in SUBSET Data
    /\ rec \in RecType
    /\ out \in [Gen -> OutType]
    /\ unload \in [Unloader -> UnloadPC]
    /\ stopping \in BOOLEAN
    /\ stray \in SUBSET Keys /\ missed \in SUBSET Keys
    /\ budget \in [faults: Nat, access: Nat, changes: Nat, stops: Nat]

Init ==
    /\ stored = {} /\ marked = {}
    /\ release \in Release
    /\ attached = [g \in Gen |-> "none"]
    /\ map = [g \in Gen |-> {}]
    /\ ring = [g \in Gen |-> <<>>]
    /\ Objs = 0 /\ Kprobe = 0 /\ RingbuffReader = 0 /\ Loaded = FALSE
    /\ loads = 0 /\ mapfd = {} /\ objfd = {} /\ reading = {}
    /\ queue = {} /\ rec = IdleRec
    /\ out = [g \in Gen |-> NoOut]
    /\ unload = [u \in Unloader |-> "off"]
    /\ stopping = FALSE
    /\ stray = {} /\ missed = {}
    /\ budget = [faults |-> MaxFaults, access |-> MaxAccess,
                 changes |-> MaxChanges, stops |-> MaxStops]

Fault == /\ budget.faults > 0
         /\ budget' = [budget EXCEPT !.faults = @ - 1]

-----------------------------------------------------------------------------
(* KiveData are created and deleted by the discover and pod controllers.   *)
(* Each change is an event for this controller, whatever kernel it is for; *)
(* a queue that is shutting down takes nothing any more.                   *)

Enqueued(d) == IF stopping THEN queue ELSE queue \cup {d}

Change == /\ budget.changes > 0
          /\ budget' = [budget EXCEPT !.changes = @ - 1]
          /\ UNCHANGED <<kernel, package, fds, rec, out, unload, stopping, history>>

CreateData(d) ==
    /\ d \notin stored
    /\ stored' = stored \cup {d}
    /\ queue' = Enqueued(d)
    /\ Change
    /\ UNCHANGED marked

DeleteData(d) ==
    /\ d \in stored \ marked
    /\ marked' = marked \cup {d}
    /\ queue' = Enqueued(d)
    /\ Change
    /\ UNCHANGED stored

-----------------------------------------------------------------------------
(* KiveDataReconciler.Reconcile *)

RecStep == UNCHANGED <<out, unload, stopping>>

\* The same for a step that calls none of AddInode, RemoveInode and Delete.
PlainStep == RecStep /\ UNCHANGED history

\* Mutant: the error is logged and nil returned.
RecForget == /\ rec' = IdleRec
             /\ UNCHANGED queue

\* Return an error, or Requeue.
RecRequeue == /\ rec' = IdleRec
              /\ queue' = Enqueued(rec.req)

RecStart ==
    /\ rec.pc = "idle" /\ unload["main"] = "off"
    /\ \E d \in queue :
         /\ rec' = [rec EXCEPT !.pc = IF Loaded THEN "list" ELSE "objects", !.req = d]
         /\ queue' = queue \ {d}
    /\ UNCHANGED <<store, kernel, package, fds, budget>>
    /\ PlainStep

\* loadBpfObjects: new programs and maps, Objs takes them over. The objects of
\* an earlier attempt are not closed.
LoadObjects ==
    /\ rec.pc = "objects"
    /\ \/ /\ loads < MaxLoads
          /\ loads' = loads + 1
          /\ Objs' = loads'
          /\ mapfd' = mapfd \cup {loads'} /\ objfd' = objfd \cup {loads'}
          /\ rec' = [rec EXCEPT !.pc = "probe"]
          /\ UNCHANGED <<queue, budget>>
       \/ /\ Fault \/ (loads = MaxLoads /\ UNCHANGED budget)
          /\ RecRequeue
          /\ UNCHANGED <<Objs, loads, mapfd, objfd>>
    /\ UNCHANGED <<store, kernel, Kprobe, RingbuffReader, Loaded, reading>>
    /\ PlainStep

\* Mutant: one release too few.
isKernelOldTo510(v) == v[1] < 5 \/ (v[1] = 5 /\ v[2] <= 10)

\* The comparison of uname's release.
isKernelOld(v) == v[1] < 5 \/ (v[1] = 5 /\ v[2] <= 11)

\* link.Kprobe: attach one of the two programs to inode_permission. Its failure
\* leaves nil in Kprobe, one of uname leaves it alone.
LoadKprobe ==
    /\ rec.pc = "probe"
    /\ \/ /\ Objs \in objfd
          /\ attached' = [attached EXCEPT ![Objs] =
                             IF isKernelOld(release) THEN "old" ELSE "new"]
          /\ Kprobe' = Objs
          /\ rec' = [rec EXCEPT !.pc = "reader"]
          /\ UNCHANGED <<queue, budget>>
       \/ /\ \/ Fault /\ Kprobe' \in {0, Kprobe}
             \/ Objs \notin objfd /\ Kprobe' = 0 /\ UNCHANGED budget
          /\ RecRequeue
          /\ UNCHANGED attached
    /\ UNCHANGED <<store, release, map, ring, Objs, RingbuffReader, Loaded, fds>>
    /\ PlainStep

\* ringbuf.NewReader, likewise.
LoadReader ==
    /\ rec.pc = "reader"
    /\ \/ /\ Objs \in objfd
          /\ RingbuffReader' = Objs
          /\ reading' = reading \cup {Objs}
          /\ rec' = [rec EXCEPT !.pc = "loaded"]
          /\ UNCHANGED <<queue, budget>>
       \/ /\ Fault \/ (Objs \notin objfd /\ UNCHANGED budget)
          /\ RingbuffReader' = 0
          /\ RecRequeue
          /\ UNCHANGED reading
    /\ UNCHANGED <<store, kernel, Objs, Kprobe, Loaded, loads, mapfd, objfd>>
    /\ PlainStep

\* Mutants: Loaded is not set; Output is not started.
LoadDoneUnset ==
    /\ rec.pc = "loaded"
    /\ out' = [out EXCEPT ![Objs] = [NoOut EXCEPT !.pc = "top"]]
    /\ rec' = [rec EXCEPT !.pc = "list"]
    /\ UNCHANGED <<store, kernel, package, fds, queue, unload, stopping, history, budget>>

LoadDoneSilent ==
    /\ rec.pc = "loaded"
    /\ Loaded' = TRUE
    /\ rec' = [rec EXCEPT !.pc = "list"]
    /\ UNCHANGED <<store, kernel, Objs, Kprobe, RingbuffReader, fds, queue, budget>>
    /\ PlainStep

\* LoadEbpf returns, Reconcile starts an Output.
LoadDone ==
    /\ rec.pc = "loaded"
    /\ Loaded' = TRUE
    /\ out' = [out EXCEPT ![Objs] = [NoOut EXCEPT !.pc = "top"]]
    /\ rec' = [rec EXCEPT !.pc = "list"]
    /\ UNCHANGED <<store, kernel, Objs, Kprobe, RingbuffReader, fds, queue,
                   unload, stopping, history, budget>>

\* List the KiveData of this kernel, and which of them are being deleted. (The
\* list comes from a cache; Loader has one that lags, and a List that fails.)
RecList ==
    /\ rec.pc = "list"
    /\ rec' = [rec EXCEPT !.pc = "data", !.todo = Mine(stored), !.del = Mine(marked)]
    /\ UNCHANGED <<store, kernel, package, fds, queue, budget>>
    /\ PlainStep

\* The map that AddInode writes to takes the key.
Fits(key) == Objs \in mapfd /\ Cardinality(map[Objs] \cup {key}) <= MapMax

\* A KiveData with its policy and its container: AddInode. An error (the map
\* is full or closed, or the call fails) is logged and no request follows.
RecAdd ==
    /\ rec.pc = "data"
    /\ \E d \in rec.todo \ rec.del :
         /\ \/ /\ Fits(Key(d))
               /\ map' = [map EXCEPT ![Objs] = @ \cup {Key(d)}]
               /\ missed' = missed \ {Key(d)}
               /\ UNCHANGED budget
            \/ /\ Fault \/ (~Fits(Key(d)) /\ UNCHANGED budget)
               /\ missed' = missed \cup {Key(d)}
               /\ UNCHANGED map
         /\ rec' = [rec EXCEPT !.todo = @ \ {d}]
    /\ UNCHANGED <<store, release, attached, ring, package, fds, queue, stray>>
    /\ RecStep

\* One without: Delete. When that fails the KiveData stays, without a call of
\* AddInode. With a cancelled context the lookup of the pod fails first, and the
\* KiveData passes for one that has its container.
RecDelete ==
    /\ rec.pc = "data" /\ ~stopping
    /\ \E d \in rec.todo \ rec.del :
         /\ \/ /\ marked' = marked \cup {d}
               /\ queue' = IF d \in marked THEN queue ELSE Enqueued(d)
               /\ UNCHANGED <<missed, budget>>
            \/ /\ Fault
               /\ missed' = missed \cup {Key(d)}
               /\ UNCHANGED <<marked, queue>>
         /\ rec' = [rec EXCEPT !.todo = @ \ {d}]
    /\ UNCHANGED <<stored, kernel, package, fds, stray>>
    /\ RecStep

\* Mutant: the key stays in the map.
RecKeep ==
    /\ rec.pc = "data"
    /\ \E d \in rec.todo \cap rec.del :
         rec' = [rec EXCEPT !.pc = "patch", !.cur = d]
    /\ UNCHANGED <<store, kernel, package, fds, queue, budget>>
    /\ PlainStep

\* One that is being deleted: RemoveInode. Its error (the key is not there, the
\* map is closed, or the call fails) is logged ...
RecRemove ==
    /\ rec.pc = "data"
    /\ \E d \in rec.todo \cap rec.del :
         /\ \/ /\ map' = IF Objs \in mapfd
                         THEN [map EXCEPT ![Objs] = @ \ {Key(d)}] ELSE map
               /\ UNCHANGED <<stray, budget>>
            \/ /\ Objs \in mapfd /\ Key(d) \in map[Objs] /\ Fault
               /\ stray' = stray \cup {Key(d)}
               /\ UNCHANGED map
         /\ rec' = [rec EXCEPT !.pc = "patch", !.cur = d]
    /\ UNCHANGED <<store, release, attached, ring, package, fds, queue, missed>>
    /\ RecStep

\* ... then the patch that takes the finalizer, and with it the object. The
\* request carries the context of the manager and fails once that is cancelled.
RecPatch ==
    /\ rec.pc = "patch"
    /\ \/ /\ ~stopping
          /\ stored' = stored \ {rec.cur} /\ marked' = marked \ {rec.cur}
          /\ queue' = Enqueued(rec.cur)
          /\ rec' = IdleRec
          /\ UNCHANGED budget
       \/ /\ Fault \/ (stopping /\ UNCHANGED budget)
          /\ RecRequeue
          /\ UNCHANGED store
    /\ UNCHANGED <<kernel, package, fds>>
    /\ PlainStep

RecEnd ==
    /\ rec.pc = "data" /\ rec.todo = {}
    /\ rec' = IdleRec
    /\ UNCHANGED <<store, kernel, package, fds, queue, budget>>
    /\ PlainStep

Reconcile == \/ RecStart
             \/ LoadObjects
             \/ LoadKprobe
             \/ LoadReader
             \/ LoadDone
             \/ RecList
             \/ RecAdd
             \/ RecDelete
             \/ RecRemove
             \/ RecPatch
             \/ RecEnd

-----------------------------------------------------------------------------
(* The kernel *)

\* Linux 5.12 put a parameter before the inode of inode_permission: the
\* position of the inode in the registers of a call.
InodeParam(v) == IF v[1] > 5 \/ (v[1] = 5 /\ v[2] >= 12) THEN 2 ELSE 1

\* The register each program takes the inode from. The wrong one holds
\* something else, which is no key of the map.
ParamOf(prog) == IF prog = "old" THEN 1 ELSE 2

\* The probes that find the key of an accessed inode in their map.
Hits(k) == {g \in Gen : /\ attached[g] # "none"
                        /\ ParamOf(attached[g]) = InodeParam(release)
                        /\ k \in map[g]}

\* Mutant: log_data.dev is not filled in.
AccessWithoutDev(k) ==
    /\ Hits(k) # {}
    /\ budget.access > 0
    /\ budget' = [budget EXCEPT !.access = @ - 1]
    /\ ring' = [g \in Gen |-> IF g \in Hits(k) \cap reading /\ Len(ring[g]) < RingMax
                              THEN Append(ring[g], [k EXCEPT !.dev = 0]) ELSE ring[g]]
    /\ UNCHANGED <<store, release, attached, map, package, fds, procs, history>>

\* A process calls inode_permission on a file. bpf_ringbuf_output fails when
\* the buffer is full; nobody looks at its result. Events in a buffer without a
\* reader are not kept: a reader opens before its map gets its first key, and
\* no buffer is opened twice.
Access(k) ==
    /\ Hits(k) # {}
    /\ budget.access > 0
    /\ budget' = [budget EXCEPT !.access = @ - 1]
    /\ ring' = [g \in Gen |-> IF g \in Hits(k) \cap reading /\ Len(ring[g]) < RingMax
                              THEN Append(ring[g], k) ELSE ring[g]]
    /\ UNCHANGED <<store, release, attached, map, package, fds, procs, history>>

\* The Go runtime closes the descriptor of a probe nothing refers to.
Collect(g) ==
    /\ attached[g] # "none" /\ g # Kprobe
    /\ attached' = [attached EXCEPT ![g] = "none"]
    /\ UNCHANGED <<store, release, map, ring, package, fds, procs, history, budget>>

-----------------------------------------------------------------------------
(* Output: read an event, find a KiveData for it, send the alert.          *)

OutStep == UNCHANGED <<store, release, attached, map, package, fds, queue, rec,
                       unload, stopping, history>>

\* ReadAlert enters Read of the reader it finds. Without one, or with a closed
\* one, it fails at once and Output tries again.
OutEnter(o) ==
    /\ out[o].pc = "top" /\ RingbuffReader \in reading
    /\ out' = [out EXCEPT ![o] = [out[o] EXCEPT !.pc = "read", !.on = RingbuffReader]]
    /\ UNCHANGED <<ring, budget>>
    /\ OutStep

\* Read hands out the oldest event, or returns when the reader is closed.
OutRead(o) ==
    /\ out[o].pc = "read"
    /\ LET g == out[o].on IN
       \/ /\ g \in reading /\ ring[g] # <<>>
          /\ out' = [out EXCEPT ![o] = [out[o] EXCEPT !.pc = "list", !.on = 0,
                                                       !.ev = Head(ring[g])]]
          /\ ring' = [ring EXCEPT ![g] = Tail(@)]
       \/ /\ g \notin reading
          /\ out' = [out EXCEPT ![o] = [NoOut EXCEPT !.pc = "top"]]
          /\ UNCHANGED ring
    /\ UNCHANGED budget
    /\ OutStep

\* The KiveData that stand for an event: of any kernel, by inode number.
Candidates(ev) == {d \in stored : InodeOf[d] = ev.inode}

\* List all KiveData, the first candidate gets the alert. If there is none, or
\* the List fails, the event is dropped.
OutList(o) ==
    /\ out[o].pc = "list"
    /\ \/ /\ \E d \in Candidates(out[o].ev) :
               out' = [out EXCEPT ![o] = [out[o] EXCEPT !.pc = "send", !.data = d]]
          /\ UNCHANGED budget
       \/ /\ Fault \/ (Candidates(out[o].ev) = {} /\ UNCHANGED budget)
          /\ out' = [out EXCEPT ![o] = [NoOut EXCEPT !.pc = "top"]]
    /\ UNCHANGED ring
    /\ OutStep

\* Post the alert to the callback, or log it.
OutSend(o) ==
    /\ out[o].pc = "send"
    /\ out' = [out EXCEPT ![o] = [NoOut EXCEPT !.pc = "top"]]
    /\ UNCHANGED <<ring, budget>>
    /\ OutStep

\* http.Post has no timeout, a server that does not answer keeps it for ever.
Hangs(o) == out[o].pc = "send" /\ out[o].data \in Callback

-----------------------------------------------------------------------------
(* Shutdown. After SIGTERM one goroutine calls UnloadEbpf at once, while   *)
(* the manager still drains its queue; main calls it again after that and  *)
(* returns. Closing something twice does nothing.                          *)

UnloadTo(u, pc) == /\ unload' = [unload EXCEPT ![u] = pc]
                   /\ UNCHANGED <<store, release, map, queue, rec, out, stopping,
                                  history, budget, loads, Objs, Kprobe, RingbuffReader>>

UnloadKprobe(u) ==
    /\ unload[u] = "probe"
    /\ UnloadTo(u, IF Kprobe = 0 THEN "done" ELSE "map")
    /\ attached' = [g \in Gen |-> IF g = Kprobe THEN "none" ELSE attached[g]]
    /\ UNCHANGED <<ring, Loaded, mapfd, objfd, reading>>

UnloadMap(u) ==
    /\ unload[u] = "map"
    /\ UnloadTo(u, "objects")
    /\ mapfd' = mapfd \ {Objs}
    /\ UNCHANGED <<attached, ring, Loaded, objfd, reading>>

UnloadObjects(u) ==
    /\ unload[u] = "objects"
    /\ UnloadTo(u, "reader")
    /\ mapfd' = mapfd \ {Objs}
    /\ objfd' = objfd \ {Objs}
    /\ UNCHANGED <<attached, ring, Loaded, reading>>

UnloadReader(u) ==
    /\ unload[u] = "reader"
    /\ UnloadTo(u, "loaded")
    /\ reading' = reading \ {RingbuffReader}
    /\ ring' = [g \in Gen |-> IF g = RingbuffReader THEN <<>> ELSE ring[g]]
    /\ UNCHANGED <<attached, Loaded, mapfd, objfd>>

UnloadDone(u) ==
    /\ unload[u] = "loaded"
    /\ UnloadTo(u, "done")
    /\ Loaded' = FALSE
    /\ UNCHANGED <<attached, ring, mapfd, objfd, reading>>

UnloadEbpf(u) == \/ UnloadKprobe(u)
                 \/ UnloadMap(u)
                 \/ UnloadObjects(u)
                 \/ UnloadReader(u)
                 \/ UnloadDone(u)

\* SIGTERM cancels the context of the manager.
Stop ==
    /\ ~stopping
    /\ budget.stops > 0
    /\ budget' = [budget EXCEPT !.stops = @ - 1]
    /\ stopping' = TRUE
    /\ unload' = [unload EXCEPT !["signal"] = "probe"]
    /\ UNCHANGED <<store, kernel, package, fds, queue, rec, out, history>>

\* The queue is drained, Start returns to main.
ManagerReturns ==
    /\ stopping /\ rec.pc = "idle" /\ queue = {}
    /\ unload["main"] = "off"
    /\ unload' = [unload EXCEPT !["main"] = "probe"]
    /\ UNCHANGED <<store, kernel, package, fds, queue, rec, out, stopping, history,
                   budget>>

\* The process ends: the kernel closes its descriptors, which detaches the
\* probes and frees the maps. The one that is started next has nothing loaded,
\* and its informer reports every KiveData.
ProcessEnds ==
    /\ attached' = [g \in Gen |-> "none"]
    /\ map' = [g \in Gen |-> {}]
    /\ ring' = [g \in Gen |-> <<>>]
    /\ Objs' = 0 /\ Kprobe' = 0 /\ RingbuffReader' = 0 /\ Loaded' = FALSE
    /\ loads' = 0 /\ mapfd' = {} /\ objfd' = {} /\ reading' = {}
    /\ queue' = stored /\ rec' = IdleRec
    /\ out' = [g \in Gen |-> NoOut]
    /\ unload' = [u \in Unloader |-> "off"]
    /\ stopping' = FALSE
    /\ stray' = {} /\ missed' = {}
    /\ UNCHANGED <<store, release>>

\* main returns, whatever the other goroutines are doing.
Exit == /\ unload["main"] = "done"
        /\ ProcessEnds
        /\ UNCHANGED budget

\* The process is killed, or exits because it lost its lease.
Crash == /\ budget.stops > 0
         /\ budget' = [budget EXCEPT !.stops = @ - 1]
         /\ ProcessEnds

-----------------------------------------------------------------------------
Next == \/ \E d \in Data : CreateData(d) \/ DeleteData(d)
        \/ Reconcile
        \/ \E k \in Keys : Access(k)
        \/ \E g \in Gen : Collect(g)
        \/ \E o \in Gen : OutEnter(o) \/ OutRead(o) \/ OutList(o) \/ OutSend(o)
        \/ \E u \in Unloader : UnloadEbpf(u)
        \/ Stop
        \/ ManagerReturns
        \/ Exit
        \/ Crash

Spec == Init /\ [][Next]_vars

\* Every goroutine takes its next step, except for an Output that waits for
\* the answer to a Post. Nobody has to touch a file, change a KiveData or stop
\* the process, and the garbage collector may never come.
Fairness ==
    /\ WF_vars(Reconcile)
    /\ \A o \in Gen : WF_vars(OutEnter(o) \/ OutRead(o) \/ OutList(o)
                              \/ (~Hangs(o) /\ OutSend(o)))
    /\ \A u \in Unloader : WF_vars(UnloadEbpf(u))
    /\ WF_vars(ManagerReturns)
    /\ WF_vars(Exit)

FairSpec == Spec /\ Fairness

-----------------------------------------------------------------------------
(* Properties *)

\* While the process is not being stopped, Loaded says the truth: all package
\* variables are of one generation, everything of it is open, and the probe
\* runs the program that reads the inode where this kernel passes it. LoadEbpf
\* may have failed half-way any number of times before.
OnePath ==
    Loaded /\ ~stopping =>
        /\ Objs # 0 /\ Kprobe = Objs /\ RingbuffReader = Objs
        /\ Objs \in mapfd \cap objfd \cap reading
        /\ attached[Objs] # "none"
        /\ ParamOf(attached[Objs]) = InodeParam(release)

\* An access makes at most one event: probes left over from loads that failed
\* find nothing in their maps.
OneEvent == ~stopping => \A k \in Keys : Cardinality(Hits(k)) <= 1

\* A probe only reports files with a KiveData of this kernel, also while the
\* process shuts down and its objects are closed under the reconciler, so that
\* RemoveInode cannot reach a map whose probe is attached still. The exceptions
\* are keys for which RemoveInode failed on an open map: the finalizer of their
\* KiveData goes all the same.
Backed == \A k \in Keys \ stray : Hits(k) # {} => \E d \in Mine(stored) : Key(d) = k

\* The alert names a KiveData of the file that was accessed, on this kernel.
RightData ==
    \A o \in Gen : out[o].pc = "send" =>
        /\ DevOf[out[o].data] = out[o].ev.dev
        /\ KernelOf[out[o].data] = Here

\* Once KiveData stop changing and nobody stops the process any more, every
\* shutdown under way has come to its end, deletions are finished and exactly
\* the files of the KiveData are traced, however often loading failed and
\* wherever a shutdown or a crash came in between. Nobody comes back to a
\* single AddInode, RemoveInode or Delete that failed: such a key may be missing
\* or left over, no other one.
Traced ==
    LET Seen  == {k \in Keys : Hits(k) # {}}
        Asked == {Key(d) : d \in Mine(stored)}
    IN  <>[](/\ ~stopping
             /\ Mine(marked) = {}
             /\ Asked \ Seen \subseteq missed
             /\ Seen \ Asked \subseteq stray)

\* No event is left lying in the buffer that Output reads, unless Output hangs
\* in the callback of an earlier alert.
Drained ==
    <>[](\A g \in reading :
            g = RingbuffReader /\ ring[g] # <<>> => \E o \in Gen : Hangs(o))

\* The process and its eBPF objects do for their kernel what TracedFiles says,
\* from the start to the signal. What its probes report after that, while they
\* are taken down, is the subject of Backed.
Promise == INSTANCE TracedFiles WITH
    Kernel <- {Here}, Data <- Mine(Data),
    KeyOfData <- [d \in Mine(Data) |-> Key(d)],
    KernelOfData <- [d \in Mine(Data) |-> Here],
    stored <- Mine(stored), marked <- Mine(marked),
    traced <- [k \in {Here} |-> IF stopping THEN {} ELSE {key \in Keys : Hits(key) # {}}],
    stray <- [k \in {Here} |-> IF stopping THEN {} ELSE stray]

KeepsPromise == Promise!Spec
=============================================================================
