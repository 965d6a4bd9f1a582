------------------------------ MODULE OriginProofs ------------------------------
(***************************************************************************)
(* Where a KiveData comes from is never forgotten, however old the copy of *)
(* it that a controller works with. Two invariants of Kive rest on this,   *)
(* with informer caches that lag behind or not:                            *)
(*                                                                         *)
(*   KernelLocal    a map only holds keys found in containers of its own   *)
(*                  kernel, because every copy of a KiveData names a file  *)
(*                  that its node found and carries the label of its       *)
(*                  node's kernel;                                         *)
(*   PodSparesLive  the pod controller dooms no KiveData of a container    *)
(*                  that is alive, because a container keeps the address   *)
(*                  its KiveData was written with, and is never listed     *)
(*                  again once it is gone.                                 *)
(***************************************************************************)
EXTENDS KiveTypeProofs

-----------------------------------------------------------------------------
(* The inductive invariant of KernelLocal *)

\* Some trap selects the container of the name and has the name's file in it.
Found(d) == \E t \in Trap : /\ PodOf(d) \in Selects[t]
                            /\ FileOf[<<t, PodOf(d), InstOf(d)>>] = KeyOf(d)

\* A record of a KiveData, stored or copied.
Sound(d, r) == r.exists => r.kernel = HomeOf(d) /\ Found(d)

AllSound(f) == \A d \in DataName : Sound(d, f[d])

\* Discover visits selected pods only, and applies the file that it found in a
\* container of its own node.
DiscoverSound(n) ==
    /\ disc[n].pc \in {"containers", "apply"} => disc[n].pods \subseteq Selects[disc[n].trap]
    /\ disc[n].pc = "apply" => \A p \in disc[n].pods : IsMin(p, disc[n].pods) =>
         /\ NodeOf[p] = n
         /\ FileOf[<<disc[n].trap, p, disc[n].podsnap[p].inst>>] = disc[n].key

\* What a loader visits and what its map holds belong to its kernel.
LoaderSound(k) ==
    /\ \A d \in loader[k].todo : HomeOf(d) = k /\ Found(d)
    /\ loader[k].pc \in {"unfinal", "act"} => loader[k].cur \in loader[k].todo
    /\ \A key \in tracedInodes[k] :
         \E d \in DataName : KeyOf(d) = key /\ HomeOf(d) = k /\ Found(d)

OriginInv ==
    /\ AllSound(data)
    /\ \A k \in Kernel : AllSound(dcache[k]) /\ LoaderSound(k)
    /\ \A n \in Node : DiscoverSound(n)

-----------------------------------------------------------------------------
(* The inductive invariant of PodSparesLive *)

\* As pod q of the cluster is now, its container number i has this address if
\* it is listed at all, and will not be listed again if it is not: later
\* containers have higher numbers.
Addressed(q, i, a) == /\ i \in Inst /\ i <= q.inst
                      /\ ListsContainer(q, i) => q.ip = a

\* The same of a record of a KiveData and of a pod in a list, with the pods ps.
DataAddressed(ps, d, r) == r.exists => Addressed(ps[PodOf(d)], InstOf(d), r.ip)

PodAddressed(ps, p, r) ==
    r.status \notin {"Absent", "Pending"} => Addressed(ps[p], r.inst, r.ip)

\* The container is gone for good.
Gone(ps, d) == /\ InstOf(d) <= ps[PodOf(d)].inst
               /\ ~ListsContainer(ps[PodOf(d)], InstOf(d))

AddressInv ==
    /\ \A d \in DataName : /\ DataAddressed(pods, d, data[d])
                           /\ DataAddressed(pods, d, podc.snap[d])
    /\ \A n \in Node : \A p \in Pod : PodAddressed(pods, p, disc[n].podsnap[p])
    /\ \A d \in podc.doomed : Gone(pods, d)

-----------------------------------------------------------------------------
(* What the writes to KiveData and Pods do *)

\* No KiveData appears, none gets another label or address.
DataKept == \A d \in DataName : data'[d].exists =>
    /\ data[d].exists
    /\ data'[d].kernel = data[d].kernel /\ data'[d].ip = data[d].ip

\* A write that leaves label and address alone, or removes the KiveData.
LEMMA WriteKept ==
    ASSUME TypeOK, NEW d \in DataName, data[d].exists, NEW r, SetData(d, r),
           \/ ~r.exists
           \/ r.kernel = data[d].kernel /\ r.ip = data[d].ip
    PROVE  DataKept
<1>1. \A e \in DataName : data'[e] = IF e = d THEN r ELSE data[e]
  BY DEF SetData, TypeOK, ClusterTypeOK
<1> QED BY <1>1 DEF DataKept

\* Deletions and patches of the finalizer are such writes.
LEMMA DeletePatchKept ==
    ASSUME TypeOK, NEW d \in DataName, data[d].exists, NEW f \in BOOLEAN,
           SetData(d, DeletedData(d)) \/ SetData(d, PatchedData(d, f))
    PROVE  DataKept
<1>1. data[d] \in DataRec
  BY DEF TypeOK, ClusterTypeOK
<1>2. /\ [data[d] EXCEPT !.deleting = TRUE].kernel = data[d].kernel
      /\ [data[d] EXCEPT !.deleting = TRUE].ip = data[d].ip
      /\ [data[d] EXCEPT !.fin = f].kernel = data[d].kernel
      /\ [data[d] EXCEPT !.fin = f].ip = data[d].ip
  BY <1>1 DEF DataRec
<1>3. ~NoData.exists
  BY DEF NoData
<1>4. CASE SetData(d, DeletedData(d))
  BY <1>2, <1>3, <1>4, WriteKept DEF DeletedData
<1>5. CASE SetData(d, PatchedData(d, f))
  BY <1>2, <1>3, <1>5, WriteKept DEF PatchedData
<1> QED BY <1>4, <1>5

\* The loader only deletes and patches.
LEMMA LoaderKept ==
    ASSUME TypeOK, NEW k \in Kernel, LoaderNext(k)
    PROVE  DataKept
<1>a. UNCHANGED data => DataKept
  BY DEF DataKept
<1>b. loader[k] \in LoaderRec /\ LoaderOK(loader[k])
  BY DEF TypeOK, LoaderTypeOK
<1>1. CASE LoaderRemoveFinalizer(k)
  <2>1. loader[k].cur \in DataName
    BY <1>1, <1>b DEF LoaderRemoveFinalizer, LoaderOK
  <2> QED BY <1>1, <1>a, <2>1, DeletePatchKept DEF LoaderRemoveFinalizer
<1>2. CASE LoaderAddFinalizer(k)
  <2> PICK d \in loader[k].todo : \/ data[d].exists /\ SetData(d, PatchedData(d, TRUE))
                                  \/ UNCHANGED data
    BY <1>2 DEF LoaderAddFinalizer
  <2>1. d \in DataName
    BY <1>b DEF LoaderRec
  <2> QED BY <1>a, <2>1, DeletePatchKept
<1>3. CASE LoaderDelete(k)
  <2>1. loader[k].cur \in DataName
    BY <1>3, <1>b DEF LoaderDelete, LoaderOK
  <2> QED BY <1>3, <1>a, <2>1, DeletePatchKept DEF LoaderDelete
<1>4. CASE UNCHANGED data
  BY <1>4, <1>a
<1> QED BY <1>1, <1>2, <1>3, <1>4 DEF LoaderNext, LoaderStart, LoaderListPolicies,
         LoaderRemoveInode, RemoveInode, LoaderCheck, LoaderAddInode, AddInode, LoaderEnd,
         clusterVars

\* So does the pod controller.
LEMMA PodKept ==
    ASSUME TypeOK, PodNext \/ \E n \in Node : ElectPod(n)
    PROVE  DataKept
<1>1. CASE PodDelete
  <2> PICK d \in podc.doomed : \/ data[d].exists /\ SetData(d, DeletedData(d))
                               \/ UNCHANGED data
    BY <1>1 DEF PodDelete
  <2>1. d \in DataName
    BY DEF TypeOK, PodTypeOK, PodcRec
  <2> QED BY <2>1, DeletePatchKept DEF DataKept
<1>2. CASE UNCHANGED data
  BY <1>2 DEF DataKept
<1> QED BY <1>1, <1>2 DEF PodNext, ElectPod, PodStart, PodListPods, PodListPolicies, PodForce

\* Only discover's apply creates KiveData or changes label and address.
LEMMA OthersKept ==
    ASSUME TypeOK, [Next]_vars, ~\E n \in Node : DiscoverApply(n)
    PROVE  DataKept
<1>1. CASE UNCHANGED data
  BY <1>1 DEF DataKept
<1>2. CASE Discovery
  BY <1>2, <1>1 DEF Discovery, DiscoverNext, DiscoverStart, DiscoverRemoveFinalizer,
       DiscoverAddFinalizer, DiscoverVisitPolicy, DiscoverListPods, DiscoverRequeue,
       DiscoverInspect, DiscoverSkip, DiscoverListData, DiscoverForce, ForceData, clusterVars
<1>3. CASE Loading
  BY <1>3, LoaderKept DEF Loading
<1>4. CASE PodHandling
  BY <1>4, PodKept DEF PodHandling
<1>5. CASE Informers \/ Tick \/ Resync \/ \E n \in Node : Crash(n)
  BY <1>1, <1>5 DEF Informers, Elect, SyncData, SyncPolicies, clusterVars, Tick, Resync, Crash
<1>6. CASE Users \/ Kubelets
  BY <1>1, <1>6 DEF Users, UserCreatePolicy, UserUpdatePolicy, UserDeletePolicy, UserStep,
       Kubelets, CreatePod, StartPod, RestartContainer, ProbePod, EndPod, RemovePod, SetPod
<1>7. CASE UNCHANGED vars
  BY <1>1, <1>7 DEF vars
<1> QED BY <1>2, <1>3, <1>4, <1>5, <1>6, <1>7 DEF Next

\* Discover's apply writes at most one KiveData, named for the file it found
\* in the container at the head of its list, with the label of its own kernel
\* and the address of its pod list.
LEMMA ApplyWrites ==
    ASSUME TypeOK, NEW n \in Node, DiscoverApply(n)
    PROVE  \E p \in disc[n].pods :
             LET d == <<disc[n].key, p, disc[n].podsnap[p].inst>> IN
             /\ IsMin(p, disc[n].pods) /\ disc[n].podsnap[p].status = "Running"
             /\ p \in Pod /\ d \in DataName /\ disc[n].trap \in Trap
             /\ \A e \in DataName : \/ data'[e] = data[e]
                                    \/ /\ e = d
                                       /\ data'[e].kernel = KernelOf[n]
                                       /\ data'[e].ip = disc[n].podsnap[p].ip
<1> DEFINE L == disc[n]
           name(q) == <<L.key, q, L.podsnap[q].inst>>
           rec(q) == [exists |-> TRUE, deleting |-> data[name(q)].deleting,
                      fin |-> TRUE, trap |-> L.trap, policy |-> L.pol,
                      kernel |-> KernelOf[n], ip |-> L.podsnap[q].ip]
<1> PICK q \in L.pods : IsMin(q, L.pods) /\ (SetData(name(q), rec(q)) \/ UNCHANGED data)
  BY DEF DiscoverApply
<1>1. /\ q \in Pod /\ L.key \in Key /\ L.podsnap[q].inst \in Inst
      /\ L.trap \in Trap /\ L.podsnap[q].status = "Running"
  BY DEF DiscoverApply, TypeOK, DiscoverTypeOK, DiscRec, DiscOK, PodOK
<1>2. name(q) \in DataName
  BY <1>1 DEF DataName
<1>3. rec(q).kernel = KernelOf[n] /\ rec(q).ip = L.podsnap[q].ip
  OBVIOUS
<1> HIDE DEF rec
<1>4. \A e \in DataName : data'[e] = data[e] \/ (e = name(q) /\ data'[e] = rec(q))
  BY <1>2 DEF SetData, TypeOK, ClusterTypeOK
<1> QED BY <1>1, <1>2, <1>3, <1>4

\* Pods only grow older: a container that is gone is not listed again, and a
\* listed one keeps its address.
PodsAge == \A p \in Pod : \A i \in Inst : i <= pods[p].inst =>
    /\ i <= pods'[p].inst
    /\ ListsContainer(pods'[p], i) => ListsContainer(pods[p], i) /\ pods'[p].ip = pods[p].ip

\* No step rejuvenates a pod.
LEMMA StepsAge == ASSUME TypeOK, [Next]_vars PROVE PodsAge
<1>a. UNCHANGED pods => PodsAge
  BY DEF PodsAge
<1>1. CASE Kubelets
  <2> PICK p \in Pod : \/ CreatePod(p) \/ StartPod(p) \/ RestartContainer(p)
                       \/ ProbePod(p) \/ EndPod(p) \/ RemovePod(p)
    BY <1>1 DEF Kubelets
  <2> DEFINE r == pods[p]
  <2>1. r \in PodRec /\ pods \in [Pod -> PodRec] /\ r.inst \in Nat
    BY ClusterAssumption DEF TypeOK, ClusterTypeOK, PodRec, Inst
  <2> DEFINE Older(s) == \/ s.inst = r.inst + 1
                         \/ s.inst = r.inst /\ s.status \in {"Absent", "Pending"}
                         \/ /\ s.inst = r.inst /\ s.ip = r.ip
                            /\ r.status \notin {"Absent", "Pending"}
  <2>2. ASSUME NEW s, SetPod(p, s), Older(s) PROVE PodsAge
    <3>1. \A q \in Pod : pods'[q] = IF q = p THEN s ELSE pods[q]
      BY <2>1, <2>2 DEF SetPod
    <3>2. Inst \subseteq Nat
      BY DEF Inst
    <3> QED BY <2>1, <2>2, <3>1, <3>2 DEF PodsAge, ListsContainer
  <2>3. /\ Older([r EXCEPT !.status = "Pending"])
        /\ Older([r EXCEPT !.status = "Absent", !.ip = None])
        /\ Older([r EXCEPT !.status = "NotReady", !.inst = r.inst + 1])
        /\ \A a : Older([status |-> "NotReady", inst |-> r.inst + 1, ip |-> a])
        /\ r.status \notin {"Absent", "Pending"} => \A s : Older([r EXCEPT !.status = s])
    BY <2>1 DEF PodRec
  <2> HIDE DEF Older
  <2>4. CASE CreatePod(p)
    BY <2>2, <2>3, <2>4 DEF CreatePod
  <2>5. CASE StartPod(p)
    BY <2>2, <2>3, <2>5 DEF StartPod
  <2>6. CASE RestartContainer(p)
    BY <2>2, <2>3, <2>6 DEF RestartContainer
  <2>7. CASE ProbePod(p)
    BY <2>2, <2>3, <2>7 DEF ProbePod
  <2>8. CASE EndPod(p)
    BY <2>2, <2>3, <2>8 DEF EndPod
  <2>9. CASE RemovePod(p)
    BY <2>2, <2>3, <2>9 DEF RemovePod
  <2> QED BY <2>4, <2>5, <2>6, <2>7, <2>8, <2>9
<1>2. CASE Discovery
  <2>1. PICK n \in Node : DiscoverNext(n)
    BY <1>2 DEF Discovery
  <2>2. CASE \/ DiscoverStart(n) \/ DiscoverRemoveFinalizer(n) \/ DiscoverAddFinalizer(n)
             \/ DiscoverVisitPolicy(n)
    BY <1>a, <2>2 DEF DiscoverStart, DiscoverRemoveFinalizer, DiscoverAddFinalizer,
         DiscoverVisitPolicy, clusterVars
  <2>3. CASE DiscoverListPods(n) \/ DiscoverRequeue(n) \/ DiscoverInspect(n) \/ DiscoverSkip(n)
    BY <1>a, <2>3 DEF DiscoverListPods, DiscoverRequeue, DiscoverInspect, DiscoverSkip, clusterVars
  <2>4. CASE DiscoverApply(n) \/ DiscoverListData(n) \/ DiscoverForce(n)
    BY <1>a, <2>4 DEF DiscoverApply, DiscoverListData, DiscoverForce, clusterVars
  <2> QED BY <2>1, <2>2, <2>3, <2>4 DEF DiscoverNext
<1>3. CASE Loading
  BY <1>3, <1>a DEF Loading, LoaderNext, LoaderStart, LoaderListPolicies, LoaderRemoveInode,
       LoaderRemoveFinalizer, LoaderAddFinalizer, LoaderCheck, LoaderAddInode, LoaderDelete,
       LoaderEnd, clusterVars
<1>4. CASE PodHandling
  BY <1>4, <1>a DEF PodHandling, PodNext, ElectPod, PodStart, PodListPods, PodDelete,
       PodListPolicies, PodForce
<1>5. CASE Informers \/ Tick \/ Resync \/ \E n \in Node : Crash(n)
  BY <1>5, <1>a DEF Informers, Elect, SyncData, SyncPolicies, clusterVars, Tick, Resync, Crash
<1>6. CASE Users
  BY <1>6, <1>a DEF Users, UserCreatePolicy, UserUpdatePolicy, UserDeletePolicy, UserStep
<1>7. CASE UNCHANGED vars
  BY <1>7, <1>a DEF vars
<1> QED BY <1>1, <1>2, <1>3, <1>4, <1>5, <1>6, <1>7 DEF Next

-----------------------------------------------------------------------------
(* KernelLocal *)

\* The invariant holds initially: there is no KiveData, the maps are empty.
LEMMA OriginInit == Init => OriginInv
BY DEF Init, ClusterInit, DiscoverInit, LoaderInit, OriginInv, AllSound, Sound, DiscoverSound,
     LoaderSound, NoDatas, NoData, IdleDisc, IdleLoader

\* The invariant gives KernelLocal.
LEMMA OriginImplies == OriginInv => KernelLocal
<1> SUFFICES ASSUME OriginInv PROVE KernelLocal
  OBVIOUS
<1>1. ASSUME NEW k \in Kernel, NEW key \in tracedInodes[k]
      PROVE  \E p \in Pod, i \in Inst, t \in Trap :
                /\ KernelOf[NodeOf[p]] = k
                /\ p \in Selects[t]
                /\ FileOf[<<t, p, i>>] = key
  <2> PICK d \in DataName : KeyOf(d) = key /\ HomeOf(d) = k /\ Found(d)
    BY <1>1 DEF OriginInv, LoaderSound
  <2>1. PodOf(d) \in Pod /\ InstOf(d) \in Inst
    BY DEF DataName, PodOf, InstOf
  <2> QED BY <2>1 DEF Found, HomeOf
<1> QED BY ZenonT(30), <1>1 DEF KernelLocal

\* Stored KiveData stay sound: discover applies what it found on its node.
LEMMA DataStaysSound ==
    ASSUME TypeOK, OriginInv, [Next]_vars
    PROVE  AllSound(data')
<1> USE ClusterAssumption
<1>1. ASSUME NEW n \in Node, DiscoverApply(n) PROVE AllSound(data')
  <2> DEFINE name(q) == <<disc[n].key, q, disc[n].podsnap[q].inst>>
  <2> PICK p \in disc[n].pods :
        /\ IsMin(p, disc[n].pods)
        /\ p \in Pod /\ name(p) \in DataName /\ disc[n].trap \in Trap
        /\ \A e \in DataName : \/ data'[e] = data[e]
                               \/ e = name(p) /\ data'[e].kernel = KernelOf[n]
    BY <1>1, ApplyWrites
  <2>1. /\ NodeOf[p] = n /\ p \in Selects[disc[n].trap]
        /\ FileOf[<<disc[n].trap, p, disc[n].podsnap[p].inst>>] = disc[n].key
    BY <1>1 DEF OriginInv, DiscoverSound, DiscoverApply
  <2>2. Found(name(p)) /\ HomeOf(name(p)) = KernelOf[n]
    BY <2>1 DEF Found, HomeOf, PodOf, InstOf, KeyOf
  <2> HIDE DEF name
  <2>3. ASSUME NEW e \in DataName PROVE Sound(e, data'[e])
    <3>1. CASE data'[e] = data[e]
      BY <3>1 DEF OriginInv, AllSound
    <3>2. CASE e = name(p) /\ data'[e].kernel = KernelOf[n]
      BY <2>2, <3>2 DEF Sound
    <3> QED BY <3>1, <3>2
  <2> QED BY <2>3 DEF AllSound
<1>2. CASE DataKept
  BY <1>2 DEF DataKept, OriginInv, AllSound, Sound
<1> QED BY <1>1, <1>2, OthersKept

\* The caches copy what is stored.
LEMMA CacheStaysSound ==
    ASSUME TypeOK, OriginInv, NEW k \in Kernel,
           \/ dcache' = dcache
           \/ \E j \in Kernel : dcache' = [dcache EXCEPT ![j] = data]
           \/ \E Led : dcache' = [j \in Kernel |-> IF j \in Led THEN NoDatas ELSE dcache[j]]
    PROVE  AllSound(dcache'[k])
<1>1. AllSound(dcache[k]) /\ AllSound(data)
  BY DEF OriginInv
<1>2. AllSound(NoDatas)
  BY DEF AllSound, Sound, NoDatas, NoData
<1>3. dcache'[k] \in {dcache[k], data, NoDatas}
  BY DEF TypeOK, LoaderTypeOK
<1> QED BY <1>1, <1>2, <1>3

\* Discover's own steps.
LEMMA DiscoverStaysSound ==
    ASSUME TypeOK, OriginInv, NEW n \in Node, DiscoverNext(n), NEW m \in Node
    PROVE  DiscoverSound(m)'
<1> USE ClusterAssumption
<1>a. disc[n] \in DiscRec /\ DiscOK(disc[n]) /\ disc \in [Node -> DiscRec]
  BY DEF TypeOK, DiscoverTypeOK
<1>b. disc'[m] = disc[m] => DiscoverSound(m)'
  BY DEF OriginInv, DiscoverSound
<1>c. ASSUME NEW L, disc' = [disc EXCEPT ![n] = L],
             \/ L.pc \notin {"containers", "apply"}
             \/ L.pc = "containers" /\ L.pods \subseteq Selects[L.trap]
      PROVE  DiscoverSound(m)'
  <2>1. CASE m = n
    BY <1>a, <1>c, <2>1 DEF DiscoverSound
  <2>2. CASE m # n
    BY <1>a, <1>b, <1>c, <2>2
  <2> QED BY <2>1, <2>2
<1>d. IdleDisc.pc = "idle"
  BY DEF IdleDisc
<1>e. ASSUME NEW L \in DiscRec, NEW ts PROVE NextTrap(L, ts).pc \notin {"containers", "apply"}
  BY DEF NextTrap, DiscRec
<1>f. ASSUME NEW L \in DiscRec, NEW ps, ps \subseteq Selects[L.trap],
             disc' = [disc EXCEPT ![n] = NextContainer(L, ps)]
      PROVE  DiscoverSound(m)'
  <2>1. CASE ps = {}
    BY <1>c, <1>e, <1>f, <2>1 DEF NextContainer
  <2>2. CASE ps # {}
    <3> DEFINE M == [L EXCEPT !.pc = "containers", !.pods = ps, !.key = 0]
    <3>1. M.pc = "containers" /\ M.pods = ps /\ M.trap = L.trap
      BY DEF DiscRec
    <3> QED BY <1>c, <1>f, <2>2, <3>1 DEF NextContainer
  <2> QED BY <2>1, <2>2
<1>1. CASE DiscoverStart(n)
  <2> PICK r \in dq[n] : disc' = [disc EXCEPT ![n] =
                      [disc[n] EXCEPT !.pc = "policies", !.req = r, !.snap = policies,
                                !.todo = {p \in ExistingPolicies :
                                            policies[p].deleting => policies[p].fin}]]
    BY <1>1 DEF DiscoverStart
  <2> DEFINE L == [disc[n] EXCEPT !.pc = "policies", !.req = r, !.snap = policies,
                                !.todo = {p \in ExistingPolicies :
                                            policies[p].deleting => policies[p].fin}]
  <2>1. L.pc = "policies"
    BY <1>a DEF DiscRec
  <2> QED BY <1>c, <2>1
<1>2. CASE \/ DiscoverRemoveFinalizer(n) \/ DiscoverAddFinalizer(n)
           \/ DiscoverRequeue(n) \/ DiscoverForce(n)
  BY <1>2, <1>c, <1>d DEF DiscoverRemoveFinalizer, DiscoverAddFinalizer, DiscoverRequeue,
       DiscoverForce, DiscoverReturnRequeue, DiscoverReturn
<1>3. CASE DiscoverVisitPolicy(n)
  <2> DEFINE L(p) == [disc[n] EXCEPT !.todo = disc[n].todo \ {p}, !.pol = p]
  <2> PICK p \in disc[n].todo :
        disc' = [disc EXCEPT ![n] = NextTrap(L(p), disc[n].snap[p].traps)]
    BY <1>3 DEF DiscoverVisitPolicy
  <2>1. L(p) \in DiscRec
    BY <1>a DEF DiscRec
  <2> HIDE DEF L
  <2> QED BY <1>c, <1>e, <2>1
<1>4. CASE DiscoverListPods(n)
  <2> DEFINE L(t) == [disc[n] EXCEPT !.traps = disc[n].traps \ {t}, !.trap = t,
                                     !.podsnap = pods]
  <2> PICK t \in disc[n].traps :
        \/ \E ps \in SUBSET Selects[t] : disc' = [disc EXCEPT ![n] = NextContainer(L(t), ps)]
        \/ disc' = [disc EXCEPT ![n] = NextTrap(L(t), L(t).traps)]
    BY <1>4 DEF DiscoverListPods
  <2>1. L(t) \in DiscRec /\ L(t).trap = t
    BY <1>a DEF DiscRec, TypeOK, ClusterTypeOK
  <2> HIDE DEF L
  <2> QED BY <1>c, <1>e, <1>f, <2>1
<1>5. CASE DiscoverInspect(n)
  \* The file was found, so the pod runs on this node.
  <2> DEFINE found(p) == FileFound(n, disc[n].trap, p, disc[n].podsnap[p].inst)
             L(f) == [disc[n] EXCEPT !.pc = "apply", !.key = f]
  <2> PICK p \in disc[n].pods :
        /\ IsMin(p, disc[n].pods) /\ found(p) # 0
        /\ disc' = [disc EXCEPT ![n] = L(found(p))]
    BY <1>5 DEF DiscoverInspect
  <2>1. /\ NodeOf[p] = n
        /\ FileOf[<<disc[n].trap, p, disc[n].podsnap[p].inst>>] = found(p)
    BY DEF FileFound
  <2> HIDE DEF found
  <2>2. /\ disc'[n].pods = disc[n].pods /\ disc'[n].trap = disc[n].trap
        /\ disc'[n].podsnap = disc[n].podsnap /\ disc'[n].key = found(p)
    BY <1>a DEF DiscRec
  <2>3. ASSUME NEW q \in disc[n].pods, IsMin(q, disc[n].pods) PROVE q = p
    BY <2>3, <1>a DEF IsMin, DiscRec, Pod
  <2>4. disc[n].pods \subseteq Selects[disc[n].trap]
    BY <1>5 DEF DiscoverInspect, OriginInv, DiscoverSound
  <2>5. DiscoverSound(n)'
    BY <2>1, <2>2, <2>3, <2>4 DEF DiscoverSound
  <2> QED BY <1>a, <1>b, <2>5
<1>6. CASE DiscoverSkip(n) \/ DiscoverApply(n)
  <2> PICK p : disc' = [disc EXCEPT ![n] = NextContainer(disc[n], disc[n].pods \ {p})]
    BY <1>6 DEF DiscoverSkip, DiscoverApply
  <2>1. disc[n].pods \subseteq Selects[disc[n].trap]
    BY <1>6 DEF DiscoverSkip, DiscoverApply, OriginInv, DiscoverSound
  <2> QED BY <1>a, <1>f, <2>1
<1>7. CASE DiscoverListData(n)
  <2> DEFINE L(d) == [disc[n] EXCEPT !.pc = "force", !.target = d]
  <2>1. \A d : L(d).pc = "force"
    BY <1>a DEF DiscRec
  <2>2. disc' = [disc EXCEPT ![n] = IdleDisc] \/ \E d : disc' = [disc EXCEPT ![n] = L(d)]
    BY <1>7 DEF DiscoverListData, DiscoverReturn, DiscoverReturnRequeue
  <2> HIDE DEF L
  <2> QED BY <1>c, <1>d, <2>1, <2>2
<1> QED BY <1>1, <1>2, <1>3, <1>4, <1>5, <1>6, <1>7 DEF DiscoverNext

\* A loader is undisturbed by a step that leaves its locals and its map alone.
LEMMA LoaderFrame ==
    ASSUME OriginInv, NEW k \in Kernel,
           loader'[k] = loader[k], tracedInodes'[k] = tracedInodes[k]
    PROVE  LoaderSound(k)'
BY DEF OriginInv, LoaderSound

\* The loader's own steps.
LEMMA LoaderStaysSound ==
    ASSUME TypeOK, OriginInv, NEW k \in Kernel, LoaderNext(k), NEW j \in Kernel
    PROVE  LoaderSound(j)'
<1>a. loader[k] \in LoaderRec /\ LoaderOK(loader[k]) /\ loader \in [Kernel -> LoaderRec]
  BY DEF TypeOK, LoaderTypeOK
<1>b. tracedInodes \in [Kernel -> SUBSET Key] /\ LoaderSound(k)
  BY DEF TypeOK, LoaderTypeOK, OriginInv
\* It is enough to look at this kernel.
<1>c. ASSUME NEW L, loader' = [loader EXCEPT ![k] = L],
             \A i \in Kernel \ {k} : tracedInodes'[i] = tracedInodes[i],
             \A d \in L.todo : HomeOf(d) = k /\ Found(d),
             L.pc \in {"unfinal", "act"} => L.cur \in L.todo,
             \A key \in tracedInodes'[k] :
                \/ key \in tracedInodes[k]
                \/ \E d \in DataName : KeyOf(d) = key /\ HomeOf(d) = k /\ Found(d)
      PROVE  LoaderSound(j)'
  <2>1. CASE j = k
    <3>1. loader'[k] = L
      BY <1>a, <1>c
    <3> QED BY <1>b, <1>c, <2>1, <3>1 DEF LoaderSound
  <2>2. CASE j # k
    BY <1>a, <1>c, <2>2, LoaderFrame
  <2> QED BY <2>1, <2>2
<1>d. ASSUME LoaderReturn(k), UNCHANGED tracedInodes PROVE LoaderSound(j)'
  <2>1. IdleLoader.todo = {} /\ IdleLoader.pc = "idle"
    BY DEF IdleLoader
  <2> QED BY <1>c, <1>d, <2>1 DEF LoaderReturn
<1>1. CASE LoaderStart(k)
  <2> DEFINE Mine == {d \in DataName : ListedData(k)[d].exists /\ ListedData(k)[d].kernel = k}
             Todo == {d \in Mine : ListedData(k)[d].deleting => ListedData(k)[d].fin}
             L(r, s) == [loader[k] EXCEPT !.pc = "listed", !.req = r, !.snapD = s, !.todo = Todo]
  <2> PICK r, s : loader' = [loader EXCEPT ![k] = L(r, s)]
    BY <1>1 DEF LoaderStart
  <2>1. UNCHANGED tracedInodes
    BY <1>1 DEF LoaderStart
  <2>2. AllSound(ListedData(k))
    BY DEF OriginInv, ListedData
  <2>3. \A d \in Todo : HomeOf(d) = k /\ Found(d)
    BY <2>2 DEF AllSound, Sound
  <2> HIDE DEF Todo
  <2>4. L(r, s).pc = "listed" /\ L(r, s).todo = Todo
    BY <1>a DEF LoaderRec
  <2> HIDE DEF L
  <2> QED BY <1>c, <2>1, <2>3, <2>4
<1>2. CASE LoaderListPolicies(k)
  <2>1. UNCHANGED tracedInodes /\ loader[k].pc = "listed"
    BY <1>2 DEF LoaderListPolicies
  <2>2. CASE LoaderReturnRequeue(k)
    BY <1>d, <2>1, <2>2 DEF LoaderReturnRequeue
  <2> DEFINE L == [loader[k] EXCEPT !.pc = "data", !.snapP = ListedPolicies(k)]
  <2>3. L.pc = "data" /\ L.todo = loader[k].todo
    BY <1>a DEF LoaderRec
  <2>4. CASE loader' = [loader EXCEPT ![k] = L]
    <3> HIDE DEF L
    <3> QED BY <1>b, <1>c, <2>1, <2>3, <2>4 DEF LoaderSound
  <2> QED BY <1>2, <2>2, <2>4 DEF LoaderListPolicies
<1>3. CASE LoaderRemoveInode(k)
  <2> DEFINE L(d) == [loader[k] EXCEPT !.pc = "unfinal", !.cur = d]
  <2> PICK d \in loader[k].todo :
        /\ \/ tracedInodes' = [tracedInodes EXCEPT ![k] = @ \ {KeyOf(d)}]
           \/ UNCHANGED tracedInodes
        /\ loader' = [loader EXCEPT ![k] = L(d)]
    BY <1>3 DEF LoaderRemoveInode, RemoveInode
  <2>1. L(d).todo = loader[k].todo /\ L(d).cur = d
    BY <1>a DEF LoaderRec
  <2> HIDE DEF L
  <2> QED BY <1>b, <1>c, <2>1 DEF LoaderSound
<1>4. CASE LoaderRemoveFinalizer(k) \/ LoaderAddFinalizer(k) \/ LoaderEnd(k)
  BY <1>4, <1>d DEF LoaderRemoveFinalizer, LoaderAddFinalizer, LoaderEnd, LoaderReturnRequeue
<1>5. CASE LoaderCheck(k)
  <2> DEFINE L(d, v) == [loader[k] EXCEPT !.pc = "act", !.cur = d, !.found = v]
  <2> PICK d \in loader[k].todo, v \in BOOLEAN : loader' = [loader EXCEPT ![k] = L(d, v)]
    BY <1>5 DEF LoaderCheck
  <2>1. L(d, v).todo = loader[k].todo /\ L(d, v).cur = d
    BY <1>a DEF LoaderRec
  <2>2. UNCHANGED tracedInodes
    BY <1>5 DEF LoaderCheck
  <2> HIDE DEF L
  <2> QED BY <1>b, <1>c, <2>1, <2>2 DEF LoaderSound
<1>6. CASE LoaderAddInode(k) \/ LoaderDelete(k)
  <2> DEFINE d == loader[k].cur
             L == [loader[k] EXCEPT !.pc = "data", !.todo = loader[k].todo \ {d},
                                    !.cur = NoName, !.found = FALSE]
  <2>1. /\ d \in loader[k].todo /\ d \in DataName
        /\ loader' = [loader EXCEPT ![k] = L]
        /\ UNCHANGED tracedInodes \/ AddInode(k, KeyOf(d))
    BY <1>6, <1>a, <1>b DEF LoaderAddInode, LoaderDelete, LoaderContinue, LoaderSound, LoaderOK
  <2>2. L.pc = "data" /\ L.todo = loader[k].todo \ {d}
    BY <1>a DEF LoaderRec
  <2> HIDE DEF L, d
  <2>3. /\ \A i \in Kernel \ {k} : tracedInodes'[i] = tracedInodes[i]
        /\ tracedInodes'[k] \subseteq tracedInodes[k] \cup {KeyOf(d)}
    BY <1>b, <2>1 DEF AddInode
  <2> QED BY <1>b, <1>c, <2>1, <2>2, <2>3 DEF LoaderSound
<1> QED BY <1>1, <1>2, <1>3, <1>4, <1>5, <1>6 DEF LoaderNext

\* Every step of the system preserves the invariant.
LEMMA OriginNext == TypeOK /\ OriginInv /\ [Next]_vars => OriginInv'
<1> SUFFICES ASSUME TypeOK, OriginInv, [Next]_vars PROVE OriginInv'
  OBVIOUS
<1>a. AllSound(data')
  BY DataStaysSound
<1>b. ASSUME UNCHANGED disc, NEW n \in Node PROVE DiscoverSound(n)'
  BY <1>b DEF OriginInv, DiscoverSound
<1>c. ASSUME UNCHANGED <<loader, tracedInodes>>, NEW k \in Kernel PROVE LoaderSound(k)'
  BY <1>c, LoaderFrame
<1>d. ASSUME UNCHANGED dcache, NEW k \in Kernel PROVE AllSound(dcache'[k])
  BY <1>d, CacheStaysSound
<1> DEFINE Rest == /\ \A k \in Kernel : AllSound(dcache'[k]) /\ LoaderSound(k)'
                   /\ \A n \in Node : DiscoverSound(n)'
<1>e. SUFFICES Rest
  BY <1>a, <1>e DEF OriginInv, AllSound
<1>f. ASSUME UNCHANGED <<disc, loader, tracedInodes, dcache>> PROVE Rest
  BY <1>b, <1>c, <1>d, <1>f
<1> HIDE DEF Rest
<1>1. CASE Discovery
  BY <1>1, <1>c, <1>d, DiscoverStaysSound DEF Discovery, loaderVars, Rest
<1>2. CASE Loading
  <2> PICK k \in Kernel : LoaderNext(k) /\ UNCHANGED disc
    BY <1>2 DEF Loading
  <2>1. UNCHANGED dcache
    BY DEF LoaderNext, LoaderStart, LoaderListPolicies, LoaderRemoveInode,
         LoaderRemoveFinalizer, LoaderAddFinalizer, LoaderCheck, LoaderAddInode, LoaderDelete,
         LoaderEnd
  <2> QED BY <1>b, <1>d, <2>1, LoaderStaysSound DEF Rest
<1>3. CASE Informers
  <2>1. UNCHANGED <<disc, loader, tracedInodes>>
    BY <1>3 DEF Informers, Elect, SyncData, SyncPolicies
  <2>2. dcache' = dcache \/ \E j \in Kernel : dcache' = [dcache EXCEPT ![j] = data]
    BY <1>3, ClusterAssumption DEF Informers, Elect, SyncData, SyncPolicies, CacheData
  <2>3. ASSUME NEW k \in Kernel PROVE AllSound(dcache'[k])
    BY <2>2, CacheStaysSound
  <2> QED BY <1>b, <1>c, <2>1, <2>3 DEF Rest
<1>4. CASE PodHandling
  BY <1>4, <1>f DEF PodHandling, loaderVars
<1>5. CASE Users
  BY <1>5, <1>f DEF Users, UserCreatePolicy, UserUpdatePolicy, UserDeletePolicy, UserStep,
       loaderVars
<1>6. CASE Kubelets
  BY <1>6, <1>f DEF Kubelets, CreatePod, StartPod, RestartContainer, ProbePod, EndPod,
       RemovePod, SetPod, loaderVars
<1>7. CASE Tick \/ Resync
  BY <1>7, <1>f DEF Tick, Resync, loaderVars
<1>8. ASSUME NEW n \in Node, Crash(n) PROVE Rest
  <2> DEFINE Led == {k \in Kernel : leader[k] = n}
  <2>1. /\ disc' = [disc EXCEPT ![n] = IdleDisc]
        /\ tracedInodes' = [k \in Kernel |-> IF k \in Led THEN {} ELSE tracedInodes[k]]
        /\ loader' = [k \in Kernel |-> IF k \in Led THEN IdleLoader ELSE loader[k]]
        /\ dcache' = [k \in Kernel |-> IF k \in Led THEN NoDatas ELSE dcache[k]]
    BY <1>8 DEF Crash, UnloadEbpf
  <2> HIDE DEF Led
  <2>2. ASSUME NEW m \in Node PROVE DiscoverSound(m)'
    BY <2>1 DEF OriginInv, DiscoverSound, IdleDisc, TypeOK, DiscoverTypeOK
  <2>3. ASSUME NEW k \in Kernel PROVE AllSound(dcache'[k])
    BY <2>1, CacheStaysSound
  <2>4. ASSUME NEW k \in Kernel PROVE LoaderSound(k)'
    <3>1. CASE k \in Led
      BY <2>1, <3>1 DEF LoaderSound, IdleLoader
    <3>2. CASE k \notin Led
      BY <2>1, <3>2, LoaderFrame
    <3> QED BY <3>1, <3>2
  <2> QED BY <2>2, <2>3, <2>4 DEF Rest
<1>9. CASE UNCHANGED vars
  BY <1>9, <1>f DEF vars
<1> QED BY <1>1, <1>2, <1>3, <1>4, <1>5, <1>6, <1>7, <1>8, <1>9 DEF Next

\* No loader ever writes a key of another kernel's file into its map, or of a
\* container no trap selects, whatever it lists from a stale cache, whoever
\* leads and whatever crashes.
THEOREM KernelLocalCorrect == Spec => []KernelLocal
<1>1. Init => TypeOK /\ OriginInv
  BY InitType, OriginInit
<1>2. TypeOK /\ OriginInv /\ [Next]_vars => (TypeOK /\ OriginInv)'
  BY NextType, OriginNext
<1>3. OriginInv => KernelLocal
  BY OriginImplies
<1> QED BY <1>1, <1>2, <1>3, PTL DEF Spec

-----------------------------------------------------------------------------
(* PodSparesLive *)

\* The invariant holds initially: nothing is recorded yet.
LEMMA AddressInit == Init => AddressInv
BY DEF Init, ClusterInit, DiscoverInit, PodInit, AddressInv, DataAddressed, PodAddressed,
     NoDatas, NoData, NoPods, NoPod, IdleDisc, IdlePodc

\* The invariant gives PodSparesLive: a container that runs is listed.
LEMMA AddressImplies == AddressInv => PodSparesLive
BY DEF AddressInv, Gone, ListsContainer, Alive, PodSparesLive

\* A name has a pod and a container number.
LEMMA NameParts == ASSUME NEW d \in DataName PROVE PodOf(d) \in Pod /\ InstOf(d) \in Inst
BY DEF DataName, PodOf, InstOf

\* What is recorded of a container stays true while pods grow older.
LEMMA AgeKeeps ==
    ASSUME PodsAge
    PROVE  /\ \A d \in DataName : \A r : DataAddressed(pods, d, r) => DataAddressed(pods', d, r)
           /\ \A p \in Pod : \A r : PodAddressed(pods, p, r) => PodAddressed(pods', p, r)
           /\ \A d \in DataName : Gone(pods, d) => Gone(pods', d)
<1>1. ASSUME NEW p \in Pod, NEW i, NEW a, Addressed(pods[p], i, a)
      PROVE  Addressed(pods'[p], i, a)
  BY <1>1 DEF PodsAge, Addressed
<1>2. ASSUME NEW d \in DataName, NEW r, DataAddressed(pods, d, r)
      PROVE  DataAddressed(pods', d, r)
  BY <1>1, <1>2, NameParts DEF DataAddressed
<1>3. ASSUME NEW p \in Pod, NEW r, PodAddressed(pods, p, r) PROVE PodAddressed(pods', p, r)
  BY <1>1, <1>3 DEF PodAddressed
<1>4. ASSUME NEW d \in DataName, Gone(pods, d) PROVE Gone(pods', d)
  BY <1>4, NameParts DEF Gone, PodsAge
<1> QED BY <1>2, <1>3, <1>4

\* Stored KiveData keep the address of their container: discover writes the one
\* of its pod list.
LEMMA DataStaysAddressed ==
    ASSUME TypeOK, AddressInv, [Next]_vars, NEW d \in DataName
    PROVE  DataAddressed(pods', d, data'[d])
<1>a. PodsAge
  BY StepsAge
<1>b. DataAddressed(pods', d, data[d])
  BY <1>a, AgeKeeps DEF AddressInv
<1>1. ASSUME NEW n \in Node, DiscoverApply(n) PROVE DataAddressed(pods', d, data'[d])
  <2> PICK p \in disc[n].pods :
        /\ disc[n].podsnap[p].status = "Running" /\ p \in Pod
        /\ \/ data'[d] = data[d]
           \/ /\ d = <<disc[n].key, p, disc[n].podsnap[p].inst>>
              /\ data'[d].ip = disc[n].podsnap[p].ip
    BY <1>1, ApplyWrites
  <2>1. CASE data'[d] = data[d]
    BY <1>b, <2>1
  <2>2. CASE /\ d = <<disc[n].key, p, disc[n].podsnap[p].inst>>
             /\ data'[d].ip = disc[n].podsnap[p].ip
    <3>1. PodAddressed(pods', p, disc[n].podsnap[p])
      BY <1>a, AgeKeeps DEF AddressInv
    <3>2. PodOf(d) = p /\ InstOf(d) = disc[n].podsnap[p].inst
      BY <2>2 DEF PodOf, InstOf
    <3> QED BY <2>2, <3>1, <3>2 DEF PodAddressed, DataAddressed
  <2> QED BY <2>1, <2>2
<1>2. CASE DataKept
  BY <1>b, <1>2 DEF DataKept, DataAddressed
<1> QED BY <1>1, <1>2, OthersKept

\* What discover knows of the pods is a list of some earlier time.
LEMMA PodsnapStaysAddressed ==
    ASSUME TypeOK, AddressInv, [Next]_vars, NEW n \in Node, NEW p \in Pod
    PROVE  PodAddressed(pods', p, disc'[n].podsnap[p])
<1>a. PodsAge /\ disc \in [Node -> DiscRec]
  BY StepsAge DEF TypeOK, DiscoverTypeOK
<1>b. PodAddressed(pods, p, disc[n].podsnap[p])
  BY DEF AddressInv
<1>c. PodAddressed(pods, p, NoPods[p])
  BY DEF PodAddressed, NoPods, NoPod
<1>d. PodAddressed(pods, p, pods[p])
  BY ClusterAssumption DEF PodAddressed, Addressed, TypeOK, ClusterTypeOK, PodOK, Inst
<1>e. SUFFICES disc'[n].podsnap[p] \in {disc[n].podsnap[p], NoPods[p], pods[p]}
  BY <1>a, <1>b, <1>c, <1>d, AgeKeeps
<1>f. CASE UNCHANGED disc
  BY <1>f
<1>1. CASE Discovery
  <2> PICK m \in Node : DiscoverNext(m)
    BY <1>1 DEF Discovery
  <2> SUFFICES ASSUME m = n PROVE disc'[n].podsnap \in {disc[n].podsnap, NoPods, pods}
    BY <1>a DEF DiscoverNext, DiscoverStart, DiscoverRemoveFinalizer,
       DiscoverAddFinalizer, DiscoverVisitPolicy, DiscoverListPods, DiscoverRequeue,
       DiscoverInspect, DiscoverSkip, DiscoverApply, DiscoverListData, DiscoverForce,
       DiscoverReturn, DiscoverReturnRequeue
  <2>a. disc[n] \in DiscRec
    BY <1>a
  <2>b. IdleDisc.podsnap = NoPods
    BY DEF IdleDisc
  <2>c. ASSUME NEW L \in DiscRec, NEW ts PROVE NextTrap(L, ts).podsnap = NoPods
    BY DEF NextTrap, DiscRec
  <2>d. ASSUME NEW L \in DiscRec, NEW ps
        PROVE  NextContainer(L, ps).podsnap \in {L.podsnap, NoPods}
    BY <2>c DEF NextContainer, DiscRec
  <2>1. CASE DiscoverStart(n)
    BY <1>a, <2>1, <2>a DEF DiscoverStart, DiscRec
  <2>2. CASE \/ DiscoverRemoveFinalizer(n) \/ DiscoverAddFinalizer(n)
             \/ DiscoverRequeue(n) \/ DiscoverForce(n)
    BY <1>a, <2>2, <2>b DEF DiscoverRemoveFinalizer, DiscoverAddFinalizer, DiscoverRequeue,
         DiscoverForce, DiscoverReturnRequeue, DiscoverReturn
  <2>3. CASE DiscoverVisitPolicy(n)
    <3> DEFINE L(q) == [disc[n] EXCEPT !.todo = disc[n].todo \ {q}, !.pol = q]
    <3> PICK q \in disc[n].todo :
          disc' = [disc EXCEPT ![n] = NextTrap(L(q), disc[n].snap[q].traps)]
      BY <2>3 DEF DiscoverVisitPolicy
    <3>1. L(q) \in DiscRec
      BY <2>a DEF DiscRec
    <3> HIDE DEF L
    <3> QED BY <1>a, <2>c, <3>1
  <2>4. CASE DiscoverListPods(n)
    <3> DEFINE L(t) == [disc[n] EXCEPT !.traps = disc[n].traps \ {t}, !.trap = t,
                                       !.podsnap = pods]
    <3> PICK t \in disc[n].traps :
          \/ \E ps : disc' = [disc EXCEPT ![n] = NextContainer(L(t), ps)]
          \/ disc' = [disc EXCEPT ![n] = NextTrap(L(t), L(t).traps)]
      BY <2>4 DEF DiscoverListPods
    <3>1. L(t) \in DiscRec /\ L(t).podsnap = pods
      BY <2>a DEF DiscRec, TypeOK, ClusterTypeOK
    <3> HIDE DEF L
    <3> QED BY <1>a, <2>c, <2>d, <3>1
  <2>5. CASE DiscoverInspect(n)
    BY <1>a, <2>5, <2>a DEF DiscoverInspect, DiscRec
  <2>6. CASE DiscoverSkip(n) \/ DiscoverApply(n)
    <3> PICK ps : disc' = [disc EXCEPT ![n] = NextContainer(disc[n], ps)]
      BY <2>6 DEF DiscoverSkip, DiscoverApply
    <3> QED BY <1>a, <2>a, <2>d
  <2>7. CASE DiscoverListData(n)
    <3> DEFINE L(d) == [disc[n] EXCEPT !.pc = "force", !.target = d]
    <3>1. \A d : L(d).podsnap = disc[n].podsnap
      BY <2>a DEF DiscRec
    <3>2. disc' = [disc EXCEPT ![n] = IdleDisc] \/ \E d : disc' = [disc EXCEPT ![n] = L(d)]
      BY <2>7 DEF DiscoverListData, DiscoverReturn, DiscoverReturnRequeue
    <3> HIDE DEF L
    <3> QED BY <1>a, <2>b, <3>1, <3>2
  <2> QED BY <2>1, <2>2, <2>3, <2>4, <2>5, <2>6, <2>7 DEF DiscoverNext
<1>2. CASE \E m \in Node : Crash(m)
  BY <1>2, <1>a DEF Crash, IdleDisc
<1> QED BY <1>1, <1>2, <1>f DEF Next, Loading, Informers, PodHandling, Users, UserCreatePolicy,
         UserUpdatePolicy, UserDeletePolicy, UserStep, Kubelets, CreatePod, StartPod,
         RestartContainer, ProbePod, EndPod, RemovePod, SetPod, Tick, Resync, vars

\* The KiveData the pod controller lists, and those it dooms.
LEMMA PodcStaysAddressed ==
    ASSUME TypeOK, AddressInv, [Next]_vars
    PROVE  /\ \A d \in DataName : DataAddressed(pods', d, podc'.snap[d])
           /\ \A d \in podc'.doomed : Gone(pods', d)
<1>a. PodsAge /\ podc \in PodcRec
  BY StepsAge DEF TypeOK, PodTypeOK
<1>b. SUFFICES /\ \A d \in DataName : DataAddressed(pods, d, podc'.snap[d])
               /\ \A d \in podc'.doomed : d \in DataName /\ Gone(pods, d)
  BY <1>a, AgeKeeps
<1>c. CASE UNCHANGED podc
  BY <1>a, <1>c DEF AddressInv, PodcRec
<1>d. CASE podc' = IdlePodc
  BY <1>d DEF IdlePodc, NoDatas, NoData, DataAddressed
<1>1. CASE PodHandling
  <2>1. CASE PodStart
    <3> DEFINE S == [d \in DataName |-> IF data[d].kernel = KernelOf[podLeader]
                                        THEN data[d] ELSE NoData]
    <3>1. podc'.snap = S /\ podc'.doomed = podc.doomed
      BY <1>a, <2>1 DEF PodStart, PodcRec
    <3>2. \A d \in DataName : S[d] \in {data[d], NoData}
      OBVIOUS
    <3>3. ~NoData.exists
      BY DEF NoData
    <3> HIDE DEF S
    <3> QED BY <1>a, <3>1, <3>2, <3>3 DEF AddressInv, DataAddressed, PodcRec
  <2>2. CASE PodListPods
    \* A container that its pod lists has the address of the snapshot.
    <3> DEFINE Listed == {d \in DataName : podc.snap[d].exists}
               Kept   == {d \in Listed : SamePod(podc.snap[d], d)}
    <3>1. podc' = IdlePodc \/ (podc'.snap = NoDatas /\ podc'.doomed = Listed \ Kept)
      BY <1>a, <2>2 DEF PodListPods, PodReturn, PodcRec
    <3>2. ASSUME NEW d \in Listed \ Kept PROVE Gone(pods, d)
      BY NameParts DEF AddressInv, DataAddressed, Addressed, SamePod, ListsContainer, Gone
    <3>3. \A d \in DataName : DataAddressed(pods, d, NoDatas[d])
      BY DEF DataAddressed, NoDatas, NoData
    <3> QED BY <1>d, <3>1, <3>2, <3>3
  <2>3. CASE PodDelete
    BY <1>a, <2>3 DEF PodDelete, PodcRec, AddressInv
  <2>4. CASE PodListPolicies
    <3>1. podc' = IdlePodc \/ (podc'.snap = podc.snap /\ podc'.doomed = podc.doomed)
      BY <1>a, <2>4 DEF PodListPolicies, PodReturn, PodcRec
    <3> QED BY <1>a, <1>d, <3>1 DEF AddressInv, PodcRec
  <2> QED BY <1>1, <1>c, <1>d, <2>1, <2>2, <2>3, <2>4 DEF PodHandling, PodNext, ElectPod,
            PodForce, PodReturn
<1>2. CASE \E n \in Node : Crash(n)
  BY <1>2, <1>c, <1>d DEF Crash
<1> QED BY <1>1, <1>2, <1>c DEF Next, Discovery, Loading, Informers, Users, UserCreatePolicy,
         UserUpdatePolicy, UserDeletePolicy, UserStep, Kubelets, CreatePod, StartPod,
         RestartContainer, ProbePod, EndPod, RemovePod, SetPod, Tick, Resync, vars, podVars

\* The pod controller, which lists KiveData before pods and tells pods by name
\* and address only, never has a KiveData on its list whose container is alive:
\* not when containers restart or pods come back under the same name, and also
\* not when the address is used again.
THEOREM PodSparesLiveCorrect == Spec => []PodSparesLive
<1>1. Init => TypeOK /\ AddressInv
  BY InitType, AddressInit
<1>2. TypeOK /\ AddressInv /\ [Next]_vars => (TypeOK /\ AddressInv)'
  <2> SUFFICES ASSUME TypeOK, AddressInv, [Next]_vars PROVE (TypeOK /\ AddressInv)'
    OBVIOUS
  <2>1. AddressInv'
    BY DataStaysAddressed, PodsnapStaysAddressed, PodcStaysAddressed DEF AddressInv
  <2> QED BY <2>1, NextType
<1>3. AddressInv => PodSparesLive
  BY AddressImplies
<1> QED BY <1>1, <1>2, <1>3, PTL DEF Spec
=============================================================================
