--------------------------------- MODULE Kive ---------------------------------
(***************************************************************************)
(* The kive operator: one discover controller per node, one loader per     *)
(* kernel and one pod controller, with the cluster they run in: a user who *)
(* edits KivePolicies, kubelets that start and stop containers, the clock, *)
(* and operator processes that crash.                                      *)
(***************************************************************************)
EXTENDS Discover, Loader, PodController

CONSTANT ResyncOn  \* FALSE: look at less than the informers' resync period

ASSUME ResyncAssumption == ResyncOn \in BOOLEAN

vars == <<policies, data, pods, pstamp, dstamp, dq, dirty, pq, budget, disc,
          leader, loaded, tracedInodes, dcache, pcache, lq, loader, stray,
          podLeader, podc>>

TypeOK ==
    /\ ClusterTypeOK
    /\ DiscoverTypeOK
    /\ LoaderTypeOK
    /\ PodTypeOK

Init == ClusterInit /\ DiscoverInit /\ LoaderInit /\ PodInit

-----------------------------------------------------------------------------
(* The user *)

UserStep == /\ budget.user > 0
            /\ budget' = [budget EXCEPT !.user = @ - 1]
            /\ UNCHANGED <<data, pods, dstamp, dirty, pq, disc>>
            /\ UNCHANGED loaderVars
            /\ UNCHANGED podVars

\* The sample policies carry the finalizer already when they are created.
UserCreatePolicy(p) ==
    /\ ~policies[p].exists
    /\ \E ts \in SUBSET Trap, f \in BOOLEAN :
         SetPolicy(p, [exists |-> TRUE, deleting |-> FALSE, fin |-> f,
                       traps |-> ts])
    /\ UserStep

UserUpdatePolicy(p) ==
    /\ policies[p].exists
    /\ \E ts \in SUBSET Trap \ {policies[p].traps} :
         SetPolicy(p, [policies[p] EXCEPT !.traps = ts])
    /\ UserStep

UserDeletePolicy(p) ==
    /\ policies[p].exists /\ ~policies[p].deleting
    /\ SetPolicy(p, DeletedPolicy(p))
    /\ UserStep

-----------------------------------------------------------------------------
(* Pods: the user, the scheduler and the kubelets. Each change of a Pod is *)
(* an event for the pod controller.                                        *)

SetPod(p, rec) ==
    /\ budget.pods > 0
    /\ budget' = [budget EXCEPT !.pods = @ - 1]
    /\ pods' = [pods EXCEPT ![p] = rec]
    /\ pq' = IF podLeader = None THEN pq ELSE pq \cup {p}
    /\ UNCHANGED <<policies, data, pstamp, dstamp, dq, dirty, disc>>
    /\ UNCHANGED loaderVars
    /\ UNCHANGED podVars

CreatePod(p) ==
    /\ pods[p].status = "Absent"
    /\ SetPod(p, [pods[p] EXCEPT !.status = "Pending"])

\* The kubelet starts the container of a new Pod.
StartPod(p) ==
    /\ pods[p].status = "Pending" /\ pods[p].inst < MaxInst
    /\ \E a \in IP : SetPod(p, [status |-> "NotReady", inst |-> pods[p].inst + 1,
                                ip |-> a])

\* The container dies and is started again in the same Pod.
RestartContainer(p) ==
    /\ pods[p].status \in {"NotReady", "Running"} /\ pods[p].inst < MaxInst
    /\ SetPod(p, [pods[p] EXCEPT !.status = "NotReady", !.inst = @ + 1])

\* The readiness probe changes its mind.
ProbePod(p) ==
    /\ pods[p].status \in {"NotReady", "Running"}
    /\ SetPod(p, [pods[p] EXCEPT !.status =
                    IF @ = "Running" THEN "NotReady" ELSE "Running"])

\* The container exits and is not started again.
EndPod(p) ==
    /\ pods[p].status \in {"NotReady", "Running"}
    /\ \E s \in {"Succeeded", "Failed"} : SetPod(p, [pods[p] EXCEPT !.status = s])

RemovePod(p) ==
    /\ pods[p].status # "Absent"
    /\ SetPod(p, [pods[p] EXCEPT !.status = "Absent", !.ip = None])

-----------------------------------------------------------------------------
(* Time and failures *)

\* The clock shows another second, so force-reconcile changes something again.
Tick ==
    /\ pstamp # {} \/ dstamp # {}
    /\ pstamp' = {} /\ dstamp' = {}
    /\ UNCHANGED <<policies, data, pods, dq, dirty, pq, budget, disc>>
    /\ UNCHANGED loaderVars
    /\ UNCHANGED podVars

\* SyncPeriod of the managers (ten hours by default): the informers hand every
\* object they hold to their controller again.
Resync ==
    /\ ResyncOn
    /\ dq' = [n \in Node |-> dq[n] \cup ExistingPolicies]
    /\ lq' = [k \in Kernel |-> IF leader[k] = None THEN lq[k]
                 ELSE lq[k] \cup {d \in DataName : ListedData(k)[d].exists}]
    /\ pq' = IF podLeader = None THEN pq ELSE ExistingPods
    /\ <<dq', lq', pq'>> # <<dq, lq, pq>>
    /\ UNCHANGED <<policies, data, pods, pstamp, dstamp, dirty, budget, disc>>
    /\ UNCHANGED <<leader, loaded, tracedInodes, dcache, pcache, loader, stray>>
    /\ UNCHANGED podVars

\* The operator process of a node dies, or exits because it lost a lease, and
\* is started again. The kernel frees the map and detaches the kprobe with the
\* last file descriptor; the leases expire; the initial list of the restarted
\* process queues every policy.
Crash(n) ==
    LET Led == {k \in Kernel : leader[k] = n} IN
    /\ budget.crashes > 0
    /\ budget' = [budget EXCEPT !.crashes = @ - 1]
    /\ disc' = [disc EXCEPT ![n] = IdleDisc]
    /\ dq' = [dq EXCEPT ![n] = ExistingPolicies]
    /\ leader' = [k \in Kernel |-> IF k \in Led THEN None ELSE leader[k]]
    /\ UnloadEbpf(Led)
    /\ dcache' = [k \in Kernel |-> IF k \in Led THEN NoDatas ELSE dcache[k]]
    /\ pcache' = [k \in Kernel |-> IF k \in Led THEN NoPolicies ELSE pcache[k]]
    /\ lq' = [k \in Kernel |-> IF k \in Led THEN {} ELSE lq[k]]
    /\ loader' = [k \in Kernel |-> IF k \in Led THEN IdleLoader ELSE loader[k]]
    /\ IF podLeader = n
       THEN podLeader' = None /\ podc' = IdlePodc /\ pq' = {}
       ELSE UNCHANGED <<podLeader, podc, pq>>
    /\ UNCHANGED <<policies, data, pods, pstamp, dstamp, dirty>>

-----------------------------------------------------------------------------
Discovery == \E n \in Node : DiscoverNext(n) /\ UNCHANGED loaderVars /\ UNCHANGED podVars

Loading == \E k \in Kernel : LoaderNext(k) /\ UNCHANGED disc /\ UNCHANGED podVars

Informers == /\ \/ \E n \in Node : Elect(n)
                \/ \E k \in Kernel : SyncData(k) \/ SyncPolicies(k)
             /\ UNCHANGED disc
             /\ UNCHANGED podVars

PodHandling == /\ PodNext \/ \E n \in Node : ElectPod(n)
               /\ UNCHANGED disc
               /\ UNCHANGED loaderVars

Users == \E p \in Policy : \/ UserCreatePolicy(p)
                           \/ UserUpdatePolicy(p)
                           \/ UserDeletePolicy(p)

Kubelets == \E p \in Pod : \/ CreatePod(p)
                           \/ StartPod(p)
                           \/ RestartContainer(p)
                           \/ ProbePod(p)
                           \/ EndPod(p)
                           \/ RemovePod(p)

Next == \/ Discovery
        \/ Loading
        \/ Informers
        \/ PodHandling
        \/ Users
        \/ Kubelets
        \/ Tick
        \/ Resync
        \/ \E n \in Node : Crash(n)

Spec == Init /\ [][Next]_vars

-----------------------------------------------------------------------------
(* Fairness: every controller has one worker goroutine that takes its next *)
(* step, informers receive their events, a free lease is taken, time goes  *)
(* on. The user, the pods and the failures are under no obligation.        *)

Fairness ==
    /\ \A n \in Node : WF_vars(DiscoverNext(n) /\ UNCHANGED loaderVars /\ UNCHANGED podVars)
    /\ \A k \in Kernel :
         /\ WF_vars(LoaderNext(k) /\ UNCHANGED disc /\ UNCHANGED podVars)
         /\ WF_vars(SyncData(k) /\ UNCHANGED disc /\ UNCHANGED podVars)
         /\ WF_vars(SyncPolicies(k) /\ UNCHANGED disc /\ UNCHANGED podVars)
         /\ WF_vars((\E n \in Node : KernelOf[n] = k /\ Elect(n))
                    /\ UNCHANGED disc /\ UNCHANGED podVars)
    /\ WF_vars(PodHandling)
    /\ WF_vars(Tick)
    /\ WF_vars(Resync)

FairSpec == Spec /\ Fairness

-----------------------------------------------------------------------------
(* Properties *)

DiscoverSettled(n) == disc[n].pc = "idle" /\ dq[n] = {}

LoaderSettled(k) == /\ leader[k] # None /\ loader[k].pc = "idle"
                    /\ lq[k] = {} /\ dirty[k] = {}

\* No controller has anything left to do before an object changes again.
Quiet == /\ \A n \in Node : DiscoverSettled(n)
         /\ \A k \in Kernel : LoaderSettled(k) /\ ListedPolicies(k) = policies
         /\ podLeader # None /\ podc.pc = "idle" /\ pq = {}

\* A settled discover controller (nothing queued, nothing running) leaves no
\* policy half-way: every KivePolicy has its finalizer and none waits for its
\* deletion to be finished. The reconcile returns early after the first patch
\* and relies on the event of that patch for the rest of the list.
PolicySettled ==
    \A n \in Node : DiscoverSettled(n) =>
        \A p \in Policy : policies[p].exists => policies[p].fin /\ ~policies[p].deleting

\* The same for the loader: once no event is on its way to it, no request is
\* queued and none is being served, no KiveData of its kernel is without its
\* finalizer or half deleted.
DataSettled ==
    \A k \in Kernel : LoaderSettled(k) =>
        \A d \in DataName :
            data[d].exists /\ data[d].kernel = k => data[d].fin /\ ~data[d].deleting

\* The eBPF map of a kernel only holds keys of files that belong to selected
\* containers on this kernel: inode numbers of another kernel mean nothing here.
KernelLocal ==
    \A k \in Kernel : \A key \in tracedInodes[k] :
        \E p \in Pod, i \in Inst, t \in Trap :
            /\ KernelOf[NodeOf[p]] = k
            /\ p \in Selects[t]
            /\ FileOf[<<t, p, i>>] = key

\* Every key in the map is the key of a KiveData of this kernel whose finalizer
\* is still there, so that its removal will pass through the loader, which
\* takes the key out. The only exceptions are stray keys: RemoveInode failed for
\* them, or the loader acted on the deletion of an object that had been replaced.
Backs(d, k, key) == /\ KeyOf(d) = key
                    /\ data[d].exists /\ data[d].fin /\ data[d].kernel = k

MapBacked ==
    \A k \in Kernel : \A key \in tracedInodes[k] \ stray[k] :
        \E d \in DataName : Backs(d, k, key)

\* The pod controller never deletes the KiveData of a container that is alive,
\* although it lists the KiveData before the pods and compares names and
\* addresses, not container ids.
PodSparesLive == \A d \in podc.doomed : ~Alive(PodOf(d), InstOf(d))

\* A settled loader traces no key without a KiveData of its kernel.
TracedHasData ==
    \A k \in Kernel : LoaderSettled(k) =>
        \A key \in tracedInodes[k] :
            \E d \in ExistingData : KeyOf(d) = key /\ data[d].kernel = k

\* With every policy gone and every controller settled no KiveData is left.
NoOrphans ==
    /\ ExistingPolicies = {}
    /\ \A n \in Node : DiscoverSettled(n)
    /\ \A k \in Kernel : LoaderSettled(k)
    => ExistingData = {}

InForceTrap(t) == \E p \in Policy : /\ policies[p].exists /\ ~policies[p].deleting
                                    /\ t \in policies[p].traps

\* The keys the policies ask for on kernel k.
Desired(k) ==
    {FileOf[<<w[1], w[2], pods[w[2]].inst>>] :
        w \in {w \in Trap \X Pod : /\ InForceTrap(w[1])
                                   /\ w[2] \in Selects[w[1]]
                                   /\ pods[w[2]].status = "Running"
                                   /\ KernelOf[NodeOf[w[2]]] = k}} \ {0}

\* When everything is quiet the right files are monitored.
QuietMonitored == Quiet => \A k \in Kernel : Desired(k) \subseteq tracedInodes[k]

\* Some trap in force selects a pod that exists and is not ready: discover
\* gives every reconcile up and comes back to it.
Blocked == \E t \in Trap, p \in Pod :
    InForceTrap(t) /\ p \in Selects[t] /\ pods[p].status \notin {"Absent", "Running"}

\* Once the user, the pods and the failures are quiet, every loader ends up
\* tracing what the policies ask for and nothing else but stray keys, and keeps
\* doing so.
Converged ==
    <>[](Blocked \/ \A k \in Kernel : /\ Desired(k) \subseteq tracedInodes[k]
                                     /\ tracedInodes[k] \ stray[k] \subseteq Desired(k))

\* The same without the excuse of a pod that is not ready, and only that the
\* files asked for are traced.
AlwaysMonitored == <>[](\A k \in Kernel : Desired(k) \subseteq tracedInodes[k])

\* A KivePolicy marked for deletion disappears, unless discover is blocked.
PolicyDeleted == \A p \in Policy : policies[p].deleting ~> (~policies[p].deleting \/ Blocked)

\* A KiveData marked for deletion disappears.
DataDeleted == \A d \in DataName : data[d].deleting ~> ~data[d].deleting

\* KiveData and eBPF maps keep what TracedFiles promises, whatever the
\* controllers, the failures, the crashes and the changes of leader do to them:
\* a key is put in for a KiveData that is stored, taken out for one that is
\* marked, and a KiveData goes after its key.
Promise == INSTANCE TracedFiles WITH
    Data <- DataName,
    KeyOfData <- [d \in DataName |-> KeyOf(d)],
    KernelOfData <- [d \in DataName |-> KernelOf[NodeOf[PodOf(d)]]],
    stored <- ExistingData,
    marked <- {d \in DataName : data[d].deleting},
    traced <- tracedInodes

KeepsPromise == Promise!Spec
=============================================================================
