------------------------------ MODULE KiveCluster ------------------------------
(***************************************************************************)
(* What the three kive controllers share: the objects the Kubernetes API   *)
(* server stores (KivePolicy, KiveData, Pod), the writes the controllers   *)
(* make to them, and the watch events those writes produce.                *)
(*                                                                         *)
(* Lists that the API server returns in the order of the object names are  *)
(* modelled by numbering the names: a KivePolicy, a KiveTrap of a policy,  *)
(* a Pod and a file are positive integers, listed in increasing order.     *)
(***************************************************************************)
EXTENDS Integers, FiniteSets

CONSTANTS
    Node,         \* nodes of the cluster, each runs one operator process
    Kernel,       \* boot ids of the running kernels
    KernelOf,     \* the kernel a node runs on; nodes may share one (kind)
    NumPolicies,  \* KivePolicy names are 1..NumPolicies
    NumTraps,     \* distinct KiveTrap values, one trap-id hash each
    NumPods,      \* Pod names
    NumKeys,      \* files, each an (inode, device) pair
    MaxInst,      \* bound: containers started under one Pod name
    IP,           \* pod addresses
    NodeOf,       \* the node a Pod name is scheduled on
    Selects,      \* the Pods whose container some matchAny item selects
    FileOf,       \* the file at the trap's path in a container, 0 if none
    MaxUser,      \* bound: KivePolicy operations of the user
    MaxPodEvents, \* bound: changes of pods
    MaxFaults,    \* bound: API, runtime or eBPF calls that fail
    MaxCrashes,   \* bound: crashes of operator processes
    None          \* "no node", "no kernel"

Policy == 1..NumPolicies
Trap   == 1..NumTraps
Pod    == 1..NumPods
Key    == 1..NumKeys
Inst   == 1..MaxInst

ASSUME ClusterAssumption ==
    /\ NumPolicies \in Nat /\ NumTraps \in Nat /\ NumPods \in Nat
    /\ NumKeys \in Nat /\ MaxInst \in Nat
    /\ MaxUser \in Nat /\ MaxPodEvents \in Nat
    /\ MaxFaults \in Nat /\ MaxCrashes \in Nat
    /\ KernelOf \in [Node -> Kernel]
    /\ NodeOf \in [Pod -> Node]
    /\ Selects \in [Trap -> SUBSET Pod]
    /\ FileOf \in [Trap \X Pod \X Inst -> Key \cup {0}]
    /\ None \notin Node /\ None \notin Kernel /\ None \notin IP

VARIABLES
    policies,  \* stored KivePolicy objects
    data,      \* stored KiveData objects
    pods,      \* stored Pods, and the containers the kubelets run for them
    pstamp,    \* policies whose force-reconcile annotation is the current second
    dstamp,    \* KiveData whose force-reconcile annotation is the current second
    dq,        \* discover work queue of each node: names of changed policies
    dirty,     \* per kernel: KiveData events the loader's cache has not received
    pq,        \* work queue of the pod controller
    budget     \* what is left of the bounds

clusterVars == <<policies, data, pods, pstamp, dstamp, dq, dirty, pq, budget>>

-----------------------------------------------------------------------------
(* Objects *)

PolicyRec == [exists: BOOLEAN, deleting: BOOLEAN, fin: BOOLEAN,
              traps: SUBSET Trap]

NoPolicy == [exists |-> FALSE, deleting |-> FALSE, fin |-> FALSE, traps |-> {}]

\* NewKiveDataName: inode, device, pod name and container id. Neither the
\* trap nor the policy is part of the name.
DataName == Key \X Pod \X Inst

KeyOf(d)  == d[1]
PodOf(d)  == d[2]
InstOf(d) == d[3]

DataRec == [exists: BOOLEAN, deleting: BOOLEAN, fin: BOOLEAN,
            trap: Trap \cup {0},       \* label trap-id
            policy: Policy \cup {0},   \* annotation kive-policy-name
            kernel: Kernel \cup {None},\* label kernel-id
            ip: IP \cup {None}]        \* annotation pod-ip

NoData == [exists |-> FALSE, deleting |-> FALSE, fin |-> FALSE, trap |-> 0,
           policy |-> 0, kernel |-> None, ip |-> None]

\* "NotReady" is phase Running with a container whose status is not Ready.
Status == {"Absent", "Pending", "NotReady", "Running", "Succeeded", "Failed"}

PodRec == [status: Status,
           inst: Inst \cup {0},       \* the latest container, 0 before the first
           ip: IP \cup {None}]        \* status.podIP

NoPod == [status |-> "Absent", inst |-> 0, ip |-> None]

NoPolicies == [p \in Policy |-> NoPolicy]
NoDatas    == [d \in DataName |-> NoData]
NoPods     == [p \in Pod |-> NoPod]
NoName     == <<0, 0, 0>>

\* The initial list and watch of a controller reports every object there is.
ExistingPods == {p \in Pod : pods[p].status # "Absent"}

\* The container runtime of the pod's node has a task for this container.
Alive(p, i) == /\ pods[p].inst = i
               /\ pods[p].status \in {"NotReady", "Running"}

\* The status of pod record r lists a container with the id of incarnation i;
\* a pending pod has no container id yet.
ListsContainer(r, i) == /\ r.inst = i
                        /\ r.status \notin {"Absent", "Pending"}

\* Order of the names in a list the API server returns.
DataBefore(d, e) == \/ d[1] < e[1]
                    \/ d[1] = e[1] /\ d[2] < e[2]
                    \/ d[1] = e[1] /\ d[2] = e[2] /\ d[3] < e[3]

IsMin(x, S)   == x \in S /\ \A y \in S : x <= y
IsFirst(d, S) == d \in S /\ \A e \in S \ {d} : DataBefore(d, e)

ExistingPolicies == {p \in Policy : policies[p].exists}
ExistingData     == {d \in DataName : data[d].exists}

-----------------------------------------------------------------------------
(* Writes to the API server. A write that changes nothing makes no event.  *)

SetPolicy(p, rec) ==
    /\ policies' = [policies EXCEPT ![p] = rec]
    /\ pstamp' = IF rec.exists THEN pstamp ELSE pstamp \ {p}
    /\ dq' = [n \in Node |-> IF rec = policies[p] THEN dq[n] ELSE dq[n] \cup {p}]

SetData(d, rec) ==
    /\ data' = [data EXCEPT ![d] = rec]
    /\ dstamp' = IF rec.exists THEN dstamp ELSE dstamp \ {d}
    /\ dirty' = [k \in Kernel |->
                   IF rec = data[d] THEN dirty[k] ELSE dirty[k] \cup {d}]

\* Delete: the object stays, marked, while it has a finalizer.
DeletedPolicy(p) == IF policies[p].fin
                    THEN [policies[p] EXCEPT !.deleting = TRUE] ELSE NoPolicy

DeletedData(d) == IF data[d].fin
                  THEN [data[d] EXCEPT !.deleting = TRUE] ELSE NoData

\* Merge patch of metadata.finalizers. It carries neither uid nor
\* resourceVersion: it applies to whatever object has the name now. A marked
\* object that loses its last finalizer is gone.
PatchedPolicy(p, f) == IF policies[p].deleting /\ ~f
                       THEN NoPolicy ELSE [policies[p] EXCEPT !.fin = f]

PatchedData(d, f) == IF data[d].deleting /\ ~f
                     THEN NoData ELSE [data[d] EXCEPT !.fin = f]

\* Patch of the force-reconcile annotation with the time in RFC 3339, which
\* has a resolution of one second: the second patch of a second is a no-op.
ForcePolicy(p) ==
    /\ pstamp' = pstamp \cup {p}
    /\ dq' = [n \in Node |-> IF p \in pstamp THEN dq[n] ELSE dq[n] \cup {p}]
    /\ UNCHANGED policies

ForceData(d) ==
    /\ dstamp' = dstamp \cup {d}
    /\ dirty' = [k \in Kernel |->
                   IF d \in dstamp THEN dirty[k] ELSE dirty[k] \cup {d}]
    /\ UNCHANGED data

\* A call to the API server, the container runtime or the kernel fails.
Fault == /\ budget.faults > 0
         /\ budget' = [budget EXCEPT !.faults = @ - 1]

\* The call is refused because of cond, or fails for no visible reason.
FailsIf(cond) == (cond /\ UNCHANGED budget) \/ Fault

-----------------------------------------------------------------------------
\* A pod that got as far as a container status has a container.
PodOK(r) == r.status \notin {"Absent", "Pending"} => r.inst \in Inst

ClusterTypeOK ==
    /\ policies \in [Policy -> PolicyRec]
    /\ data \in [DataName -> DataRec]
    /\ pods \in [Pod -> PodRec] /\ \A p \in Pod : PodOK(pods[p])
    /\ pstamp \in SUBSET Policy
    /\ dstamp \in SUBSET DataName
    /\ dq \in [Node -> SUBSET Policy]
    /\ dirty \in [Kernel -> SUBSET DataName]
    /\ pq \in SUBSET Pod
    /\ budget \in [user: Nat, pods: Nat, faults: Nat, crashes: Nat]

ClusterInit ==
    /\ policies = NoPolicies
    /\ data = NoDatas
    /\ pods \in [Pod -> {NoPod, [NoPod EXCEPT !.status = "Pending"]} \cup
                      [status: {"NotReady", "Running"}, inst: {1} \cap Inst, ip: IP]]
    /\ pstamp = {} /\ dstamp = {}
    /\ dq = [n \in Node |-> {}]
    /\ dirty = [k \in Kernel |-> {}]
    /\ pq = {}
    /\ budget = [user |-> MaxUser, pods |-> MaxPodEvents,
                 faults |-> MaxFaults, crashes |-> MaxCrashes]
=============================================================================
