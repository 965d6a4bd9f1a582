-------------------------------- MODULE Loader --------------------------------
(***************************************************************************)
(* The KiveData controller: KiveDataReconciler.Reconcile, which runs in    *)
(* the process that holds the lease of its kernel. One reconcile walks     *)
(* over the KiveData labelled with the kernel: it finishes deletions,      *)
(* deletes the KiveData that belong to no policy or to no container, and   *)
(* keeps the eBPF hash map traced_inodes in step.                          *)
(*                                                                         *)
(* KiveData and KivePolicy are listed from the manager's informer caches,  *)
(* which follow the API server with a delay; Pods are listed uncached.     *)
(* Writes go to the API server and carry no resourceVersion.               *)
(***************************************************************************)
EXTENDS KiveCluster

CONSTANTS
    MapMax,       \* MapMaxEntries, max_entries of traced_inodes
    FreshCaches   \* TRUE: the informer caches are up to date when listed

ASSUME LoaderAssumption == MapMax \in Nat /\ FreshCaches \in BOOLEAN

VARIABLES
    leader,        \* per kernel: the node that holds the lease of its id
    loaded,        \* ebpf.Loaded in the process of the leader
    tracedInodes,  \* the eBPF map of the leader: the keys present in it
    dcache,        \* the leader's informer cache of KiveData
    pcache,        \* the leader's informer cache of KivePolicy
    lq,            \* the leader's work queue: names of changed KiveData
    loader,        \* per kernel: local variables of the running reconcile
    stray          \* history, per kernel: keys whose removal from the map
                   \* nothing assures any more (see StrayIf)

loaderVars == <<leader, loaded, tracedInodes, dcache, pcache, lq, loader, stray>>

LoaderPC == {"idle", "listed", "data", "unfinal", "act"}

LoaderRec == [pc: LoaderPC,
              req: DataName \cup {NoName},      \* the request being served
              snapD: [DataName -> DataRec],     \* kiveDataList
              snapP: [Policy -> PolicyRec],     \* kivePolicyList
              todo: SUBSET DataName,            \* items still to visit
              cur: DataName \cup {NoName},      \* kiveData of the loop
              found: BOOLEAN]

IdleLoader == [pc |-> "idle", req |-> NoName, snapD |-> NoDatas,
               snapP |-> NoPolicies, todo |-> {}, cur |-> NoName,
               found |-> FALSE]

LoaderOK(L) == /\ L.pc # "idle" => L.req \in DataName
               /\ L.pc \in {"unfinal", "act"} => L.cur \in DataName

LoaderTypeOK ==
    /\ leader \in [Kernel -> Node \cup {None}]
    /\ loaded \in [Kernel -> BOOLEAN]
    /\ tracedInodes \in [Kernel -> SUBSET Key]
    /\ dcache \in [Kernel -> [DataName -> DataRec]]
    /\ pcache \in [Kernel -> [Policy -> PolicyRec]]
    /\ lq \in [Kernel -> SUBSET DataName]
    /\ loader \in [Kernel -> LoaderRec] /\ \A k \in Kernel : LoaderOK(loader[k])
    /\ stray \in [Kernel -> SUBSET Key]

LoaderInit ==
    /\ leader = [k \in Kernel |-> None]
    /\ loaded = [k \in Kernel |-> FALSE]
    /\ tracedInodes = [k \in Kernel |-> {}]
    /\ dcache = [k \in Kernel |-> NoDatas]
    /\ pcache = [k \in Kernel |-> NoPolicies]
    /\ lq = [k \in Kernel |-> {}]
    /\ loader = [k \in Kernel |-> IdleLoader]
    /\ stray = [k \in Kernel |-> {}]

-----------------------------------------------------------------------------
(* Leases and informers (external: client-go and controller-runtime).      *)

\* The caches take over the state of the API server. With FreshCaches a List
\* reads that state itself and the caches are not kept.
CacheData(k) ==
    dcache' = IF FreshCaches THEN dcache ELSE [dcache EXCEPT ![k] = data]

CachePolicies(k) ==
    pcache' = IF FreshCaches THEN pcache ELSE [pcache EXCEPT ![k] = policies]

ListedData(k)     == IF FreshCaches THEN data ELSE dcache[k]
ListedPolicies(k) == IF FreshCaches THEN policies ELSE pcache[k]

\* Mutant: a new leader waits for the first event.
ElectEmpty(n) ==
    LET k == KernelOf[n] IN
    /\ leader[k] = None
    /\ leader' = [leader EXCEPT ![k] = n]
    /\ CacheData(k)
    /\ CachePolicies(k)
    /\ dirty' = [dirty EXCEPT ![k] = {}]
    /\ UNCHANGED <<loaded, tracedInodes, stray, lq, loader>>
    /\ UNCHANGED <<policies, data, pods, pstamp, dstamp, dq, pq, budget>>

\* A node gets the lease of its kernel. Its informers have listed everything
\* and its queue holds every KiveData; the eBPF program is not loaded yet.
Elect(n) ==
    LET k == KernelOf[n] IN
    /\ leader[k] = None
    /\ leader' = [leader EXCEPT ![k] = n]
    /\ CacheData(k)
    /\ CachePolicies(k)
    /\ lq' = [lq EXCEPT ![k] = ExistingData]
    /\ dirty' = [dirty EXCEPT ![k] = {}]
    /\ UNCHANGED <<loaded, tracedInodes, stray, loader>>
    /\ UNCHANGED <<policies, data, pods, pstamp, dstamp, dq, pq, budget>>

\* The pending watch events reach the cache and queue a request each.
SyncData(k) ==
    /\ leader[k] # None
    /\ dirty[k] # {}
    /\ CacheData(k)
    /\ lq' = [lq EXCEPT ![k] = @ \cup dirty[k]]
    /\ dirty' = [dirty EXCEPT ![k] = {}]
    /\ UNCHANGED <<leader, loaded, tracedInodes, stray, pcache, loader>>
    /\ UNCHANGED <<policies, data, pods, pstamp, dstamp, dq, pq, budget>>

\* Events of policies reach the cache; they queue nothing in this manager.
SyncPolicies(k) ==
    /\ leader[k] # None
    /\ ~FreshCaches /\ pcache[k] # policies
    /\ CachePolicies(k)
    /\ UNCHANGED <<leader, loaded, tracedInodes, stray, dcache, lq, loader>>
    /\ UNCHANGED clusterVars

-----------------------------------------------------------------------------
(* The reconcile *)

\* Load the program and its maps, attach the probe and open the ring buffer.
LoadEbpf(k) == loaded' = [loaded EXCEPT ![k] = TRUE]

\* The probe is detached and the maps are freed, for the kernels in Ks.
UnloadEbpf(Ks) ==
    /\ loaded' = [k \in Kernel |-> IF k \in Ks THEN FALSE ELSE loaded[k]]
    /\ tracedInodes' = [k \in Kernel |-> IF k \in Ks THEN {} ELSE tracedInodes[k]]
    /\ stray' = [k \in Kernel |-> IF k \in Ks THEN {} ELSE stray[k]]

\* The hash map has no room for a key that is not in it.
MapFull(k, key) == /\ key \notin tracedInodes[k]
                   /\ Cardinality(tracedInodes[k]) >= MapMax

AddInode(k, key) == tracedInodes' = [tracedInodes EXCEPT ![k] = @ \cup {key}]

RemoveInode(k, key) == tracedInodes' = [tracedInodes EXCEPT ![k] = @ \ {key}]

\* The object that the list shows as deleted has gone, and its name is that of
\* another one: the API server or the loader's cache has it undeleted.
Undeleted(rec) == rec.exists /\ ~rec.deleting

Replaced(k, d) == Undeleted(data[d]) \/ Undeleted(ListedData(k)[d])

\* History: after a removal that failed, or one meant for an object that has
\* been replaced, nothing assures that the key leaves the map.
StrayIf(cond, k, d) ==
    stray' = IF cond THEN [stray EXCEPT ![k] = @ \cup {KeyOf(d)}] ELSE stray

LoaderReturn(k) == loader' = [loader EXCEPT ![k] = IdleLoader]

\* Mutant: Result{} where the code returns Result{Requeue: true}.
LoaderReturnForgets(k) == LoaderReturn(k) /\ UNCHANGED lq

LoaderReturnRequeue(k) ==
    /\ LoaderReturn(k)
    /\ lq' = [lq EXCEPT ![k] = @ \cup {loader[k].req}]

\* Mutants of the List: without the kernel-id label, and skipping whatever is
\* marked for deletion.
LoaderStartFrom(k, Listed, Visited) ==
    /\ leader[k] # None
    /\ loader[k].pc = "idle"
    /\ \E r \in lq[k] :
         /\ lq' = [lq EXCEPT ![k] = @ \ {r}]
         /\ loader' = [loader EXCEPT ![k] =
               [loader[k] EXCEPT !.pc = "listed", !.req = r, !.todo = Visited,
                         !.snapD = [d \in DataName |->
                             IF d \in Listed THEN ListedData(k)[d] ELSE NoData]]]
    /\ LoadEbpf(k)
    /\ UNCHANGED <<leader, tracedInodes, stray, dcache, pcache>>
    /\ UNCHANGED clusterVars

LoaderStartAnyKernel(k) ==
    LET All == {d \in DataName : ListedData(k)[d].exists}
    IN  LoaderStartFrom(k, All, {d \in All : ListedData(k)[d].deleting => ListedData(k)[d].fin})

LoaderStartSkipsMarked(k) ==
    LET Mine == {d \in DataName : ListedData(k)[d].exists /\ ListedData(k)[d].kernel = k}
    IN  LoaderStartFrom(k, Mine, {d \in Mine : ~ListedData(k)[d].deleting})

\* Take a request, load the eBPF program on the first one, and list the
\* KiveData of this kernel. (If loading fails the request is queued again,
\* which changes nothing.) A KiveData marked for deletion that has no
\* finalizer any more is skipped.
LoaderStart(k) ==
    /\ leader[k] # None
    /\ loader[k].pc = "idle"
    /\ \E r \in lq[k] :
         LET list == ListedData(k)
             Mine == {d \in DataName : list[d].exists /\ list[d].kernel = k}
         IN  /\ lq' = [lq EXCEPT ![k] = @ \ {r}]
             /\ loader' = [loader EXCEPT ![k] =
                   [loader[k] EXCEPT !.pc = "listed", !.req = r,
                             !.snapD = [d \in DataName |->
                                 IF d \in Mine THEN list[d] ELSE NoData],
                             !.todo = {d \in Mine : list[d].deleting => list[d].fin}]]
    /\ LoadEbpf(k)
    /\ UNCHANGED <<leader, tracedInodes, stray, dcache, pcache>>
    /\ UNCHANGED clusterVars

\* A second, separate List: the policies.
LoaderListPolicies(k) ==
    /\ loader[k].pc = "listed"
    /\ \/ /\ loader' = [loader EXCEPT ![k] =
                          [loader[k] EXCEPT !.pc = "data", !.snapP = ListedPolicies(k)]]
          /\ UNCHANGED <<lq, budget>>
       \/ Fault /\ LoaderReturnRequeue(k)
    /\ UNCHANGED <<leader, loaded, tracedInodes, stray, dcache, pcache>>
    /\ UNCHANGED <<policies, data, pods, pstamp, dstamp, dq, dirty, pq>>

\* Mutant: the key stays in the map.
LoaderKeepInode(k) ==
    /\ loader[k].pc = "data"
    /\ \E d \in loader[k].todo :
         /\ loader[k].snapD[d].deleting
         /\ loader' = [loader EXCEPT ![k] = [loader[k] EXCEPT !.pc = "unfinal", !.cur = d]]
    /\ UNCHANGED <<leader, loaded, tracedInodes, stray, dcache, pcache, lq>>
    /\ UNCHANGED clusterVars

\* A KiveData is being deleted: take its key out of the map. An error (the
\* call fails, or the key is not there, which changes nothing) is logged.
LoaderRemoveInode(k) ==
    /\ loader[k].pc = "data"
    /\ \E d \in loader[k].todo :
         /\ loader[k].snapD[d].deleting
         /\ \/ /\ RemoveInode(k, KeyOf(d))
               /\ StrayIf(Replaced(k, d), k, d)
               /\ UNCHANGED budget
            \/ /\ KeyOf(d) \in tracedInodes[k] /\ Fault
               /\ StrayIf(TRUE, k, d)
               /\ UNCHANGED tracedInodes
         /\ loader' = [loader EXCEPT ![k] = [loader[k] EXCEPT !.pc = "unfinal", !.cur = d]]
    /\ UNCHANGED <<leader, loaded, dcache, pcache, lq>>
    /\ UNCHANGED <<policies, data, pods, pstamp, dstamp, dq, dirty, pq>>

\* Then drop its finalizer and return, the patch makes an event. A failed
\* patch is tried again.
LoaderRemoveFinalizer(k) ==
    /\ loader[k].pc = "unfinal"
    /\ LET d == loader[k].cur IN
       \/ /\ data[d].exists
          /\ SetData(d, PatchedData(d, FALSE))
          /\ StrayIf(Replaced(k, d), k, d)
          /\ LoaderReturn(k)
          /\ UNCHANGED <<lq, budget>>
       \/ /\ FailsIf(~data[d].exists)
          /\ LoaderReturnRequeue(k)
          /\ UNCHANGED <<data, dstamp, dirty, stray>>
    /\ UNCHANGED <<leader, loaded, tracedInodes, dcache, pcache>>
    /\ UNCHANGED <<policies, pods, pstamp, dq, pq>>

\* A KiveData has no finalizer: add it and return.
LoaderAddFinalizer(k) ==
    /\ loader[k].pc = "data"
    /\ \E d \in loader[k].todo :
         /\ ~loader[k].snapD[d].deleting /\ ~loader[k].snapD[d].fin
         /\ \/ /\ data[d].exists
               /\ SetData(d, PatchedData(d, TRUE))
               /\ LoaderReturn(k)
               /\ UNCHANGED <<lq, budget>>
            \/ /\ FailsIf(~data[d].exists)
               /\ LoaderReturnRequeue(k)
               /\ UNCHANGED <<data, dstamp, dirty>>
    /\ UNCHANGED <<leader, loaded, tracedInodes, stray, dcache, pcache>>
    /\ UNCHANGED <<policies, pods, pstamp, dq, pq>>

\* The policies of the snapshot that are in force, and those of them with a
\* trap whose hash is the trap-id label of the KiveData.
InForce(L) == {p \in Policy : L.snapP[p].exists /\ ~L.snapP[p].deleting}

Owners(L, d) == {p \in InForce(L) : L.snapD[d].trap \in L.snapP[p].traps}

\* Some pod of that name and node lists the container.
ContainerExists(d) == ListsContainer(pods[PodOf(d)], InstOf(d))

\* The verdict when every Pod List succeeds.
Verdict(L, d) == Owners(L, d) # {} /\ ContainerExists(d)

\* Verdicts possible when one Pod List fails: found keeps what KiveDataTrapCmp
\* left in it, until the next trap in the loop overwrites it. Policies come
\* out of the cache in any order, the traps of one in the order of its list.
EndsWith(L, p, t) == \A u \in L.snapP[p].traps : u <= t

VerdictsOnFault(L, d) ==
    LET t == L.snapD[d].trap
        Single == Cardinality(Owners(L, d)) = 1
    IN  {v \in BOOLEAN :
           IF ~Single /\ ContainerExists(d) THEN v
           ELSE \/ v /\ \E p \in Owners(L, d) : EndsWith(L, p, t)
                \/ ~v /\ ~Single
                \/ ~v /\ \E p \in InForce(L) : L.snapP[p].traps # {} /\
                            (p \in Owners(L, d) => ~EndsWith(L, p, t))}

\* Look for a policy and a container of the KiveData.
LoaderCheck(k) ==
    /\ loader[k].pc = "data"
    /\ \E d \in loader[k].todo :
         LET L == loader[k] IN
         /\ ~L.snapD[d].deleting /\ L.snapD[d].fin
         /\ \E v \in BOOLEAN :
              /\ \/ v = Verdict(L, d) /\ UNCHANGED budget
                 \/ Fault /\ Owners(L, d) # {} /\ v \in VerdictsOnFault(L, d)
              /\ loader' = [loader EXCEPT ![k] =
                              [L EXCEPT !.pc = "act", !.cur = d, !.found = v]]
    /\ UNCHANGED <<leader, loaded, tracedInodes, stray, dcache, pcache, lq>>
    /\ UNCHANGED <<policies, data, pods, pstamp, dstamp, dq, dirty, pq>>

LoaderContinue(k) ==
    loader' = [loader EXCEPT ![k] =
                 [loader[k] EXCEPT !.pc = "data", !.todo = loader[k].todo \ {loader[k].cur},
                           !.cur = NoName, !.found = FALSE]]

\* Both were found: put the key into the map. When the map is full, or the
\* update fails, the error is logged.
LoaderAddInode(k) ==
    /\ loader[k].pc = "act" /\ loader[k].found
    /\ LET key == KeyOf(loader[k].cur) IN
       \/ /\ ~MapFull(k, key)
          /\ AddInode(k, key)
          /\ UNCHANGED budget
       \/ FailsIf(MapFull(k, key)) /\ UNCHANGED tracedInodes
    /\ LoaderContinue(k)
    /\ UNCHANGED <<leader, loaded, dcache, pcache, lq, stray>>
    /\ UNCHANGED <<policies, data, pods, pstamp, dstamp, dq, dirty, pq>>

\* One was not: delete the KiveData, by name. A failed call is logged.
LoaderDelete(k) ==
    /\ loader[k].pc = "act" /\ ~loader[k].found
    /\ LET d == loader[k].cur IN
       \/ data[d].exists /\ SetData(d, DeletedData(d)) /\ UNCHANGED budget
       \/ FailsIf(~data[d].exists) /\ UNCHANGED <<data, dstamp, dirty>>
    /\ LoaderContinue(k)
    /\ UNCHANGED <<leader, loaded, tracedInodes, stray, dcache, pcache, lq>>
    /\ UNCHANGED <<policies, pods, pstamp, dq, pq>>

LoaderEnd(k) ==
    /\ loader[k].pc = "data" /\ loader[k].todo = {}
    /\ LoaderReturn(k)
    /\ UNCHANGED <<leader, loaded, tracedInodes, stray, dcache, pcache, lq>>
    /\ UNCHANGED clusterVars

LoaderNext(k) ==
    \/ LoaderStart(k)
    \/ LoaderListPolicies(k)
    \/ LoaderRemoveInode(k)
    \/ LoaderRemoveFinalizer(k)
    \/ LoaderAddFinalizer(k)
    \/ LoaderCheck(k)
    \/ LoaderAddInode(k)
    \/ LoaderDelete(k)
    \/ LoaderEnd(k)
=============================================================================
