------------------------------- MODULE MapProofs -------------------------------
(***************************************************************************)
(* MapBacked is an invariant of Kive, with informer caches that lag and    *)
(* calls that fail: every key in the eBPF map of a kernel that is not      *)
(* stray belongs to a KiveData of that kernel that still has its           *)
(* finalizer.                                                              *)
(*                                                                         *)
(* MapBacked is not inductive. A key is put into the map for a KiveData of *)
(* a snapshot of a cache, so what cache and snapshot show as alive must    *)
(* still be stored when it is used; and a KiveData disappears when its     *)
(* finalizer is dropped, so its key must be out of the map by then.        *)
(*                                                                         *)
(* From the same invariant: Kive implements TracedFiles.                   *)
(***************************************************************************)
EXTENDS OriginProofs

-----------------------------------------------------------------------------
(* The inductive invariant. It rests on OriginInv of OriginProofs: every   *)
(* copy of a KiveData carries the label of the kernel its pod runs on.     *)

\* The KiveData is stored and has its finalizer.
Held(d) == data[d].exists /\ data[d].fin

\* A record that shows a KiveData in use.
Live(r) == r.fin /\ ~r.deleting

\* The KiveData of kernel k whose keys are not stray.
Sure(k) == {d \in DataName : HomeOf(d) = k /\ KeyOf(d) \notin stray[k]}

\* What the loader would list as in use is stored ...
CacheHolds(k) ==
    \A d \in Sure(k) : ListedData(k)[d].exists /\ Live(ListedData(k)[d]) => Held(d)

\* ... and so is what its snapshot still has to visit.
SnapHolds(k) ==
    \A d \in Sure(k) : d \in loader[k].todo /\ Live(loader[k].snapD[d]) => Held(d)

\* A loader that acts on a verdict found the KiveData in use. One about to drop
\* a finalizer has taken the key out of its map.
CurHolds(k) ==
    LET L == loader[k] IN
    /\ L.pc = "act" => Live(L.snapD[L.cur])
    /\ L.pc = "unfinal" => KeyOf(L.cur) \notin tracedInodes[k] \ stray[k]

KernelBacked(k) == \A key \in tracedInodes[k] \ stray[k] :
    \E d \in DataName : KeyOf(d) = key /\ HomeOf(d) = k /\ Held(d)

KernelInv(k) == CacheHolds(k) /\ SnapHolds(k) /\ CurHolds(k) /\ KernelBacked(k)

MapInv == \A k \in Kernel : KernelInv(k)

-----------------------------------------------------------------------------
\* The invariant holds initially: there is no KiveData and the maps are empty.
LEMMA MapInvInit == Init => MapInv
<1> SUFFICES ASSUME Init, NEW k \in Kernel PROVE KernelInv(k)
  BY DEF MapInv
<1>1. loader[k] = IdleLoader /\ tracedInodes[k] = {} /\ ListedData(k) = NoDatas
  BY DEF Init, ClusterInit, LoaderInit, ListedData
<1>2. CacheHolds(k)
  BY <1>1 DEF CacheHolds, Sure, NoDatas, NoData
<1>3. SnapHolds(k) /\ CurHolds(k) /\ KernelBacked(k)
  BY <1>1 DEF SnapHolds, CurHolds, KernelBacked, IdleLoader
<1> QED BY <1>2, <1>3 DEF KernelInv

\* The invariant gives MapBacked.
LEMMA MapInvImplies == OriginInv /\ MapInv => MapBacked
BY DEF OriginInv, AllSound, Sound, MapInv, KernelInv, KernelBacked, Held, Backs, MapBacked

-----------------------------------------------------------------------------
(* What the writes to KiveData do *)

\* No KiveData is lost, and none loses its finalizer.
AllHeld == \A d \in DataName : Held(d) => Held(d)'

\* Deleting a KiveData that has its finalizer only marks it.
LEMMA DeleteHolds ==
    ASSUME TypeOK, NEW d \in DataName, data[d].exists, SetData(d, DeletedData(d))
    PROVE  AllHeld
<1>1. data[d] \in DataRec
  BY DEF TypeOK, ClusterTypeOK
<1> DEFINE r == [data[d] EXCEPT !.deleting = TRUE]
<1>2. r.exists /\ r.fin = data[d].fin
  BY <1>1 DEF DataRec
<1>3. CASE data[d].fin
  <2>1. data' = [data EXCEPT ![d] = r]
    BY <1>3 DEF SetData, DeletedData
  <2> HIDE DEF r
  <2>2. \A e \in DataName : data'[e] = IF e = d THEN r ELSE data[e]
    BY <2>1 DEF TypeOK, ClusterTypeOK
  <2> QED BY <1>2, <2>2 DEF AllHeld, Held
<1>4. CASE ~data[d].fin
  <2>1. \A e \in DataName \ {d} : data'[e] = data[e]
    BY DEF SetData, TypeOK, ClusterTypeOK
  <2> QED BY <1>4, <2>1 DEF AllHeld, Held
<1> QED BY <1>3, <1>4

\* Adding a finalizer takes none.
LEMMA PatchHolds ==
    ASSUME TypeOK, NEW d \in DataName, data[d].exists, SetData(d, PatchedData(d, TRUE))
    PROVE  AllHeld
<1> DEFINE r == [data[d] EXCEPT !.fin = TRUE]
<1>1. r.exists /\ r.fin
  BY DEF TypeOK, ClusterTypeOK, DataRec
<1>2. data' = [data EXCEPT ![d] = r]
  BY DEF SetData, PatchedData
<1> HIDE DEF r
<1>3. \A e \in DataName : data'[e] = IF e = d THEN r ELSE data[e]
  BY <1>2 DEF TypeOK, ClusterTypeOK
<1> QED BY <1>1, <1>3 DEF AllHeld, Held

\* Discover's apply carries the finalizer.
LEMMA ApplyHolds ==
    ASSUME TypeOK, NEW n \in Node, DiscoverApply(n)
    PROVE  AllHeld
<1> DEFINE L == disc[n]
           name(q) == <<L.key, q, L.podsnap[q].inst>>
           rec(q) == [exists |-> TRUE, deleting |-> data[name(q)].deleting,
                      fin |-> TRUE, trap |-> L.trap, policy |-> L.pol,
                      kernel |-> KernelOf[n], ip |-> L.podsnap[q].ip]
<1> PICK q \in L.pods : SetData(name(q), rec(q)) \/ UNCHANGED data
  BY DEF DiscoverApply
<1>1. rec(q).exists /\ rec(q).fin
  OBVIOUS
<1> HIDE DEF name, rec
<1>2. CASE SetData(name(q), rec(q))
  <2>1. \A e \in DataName : data'[e] = IF e = name(q) THEN rec(q) ELSE data[e]
    BY <1>2 DEF SetData, TypeOK, ClusterTypeOK
  <2> QED BY <1>1, <2>1 DEF AllHeld, Held
<1> QED BY <1>2 DEF AllHeld, Held

\* Only the patch of RemoveFinalizer takes a finalizer or loses a KiveData.
LEMMA StepsHold ==
    ASSUME TypeOK, [Next]_vars, ~\E k \in Kernel : LoaderRemoveFinalizer(k)
    PROVE  AllHeld
<1>a. UNCHANGED data => AllHeld
  BY DEF AllHeld, Held
<1>1. CASE Discovery
  BY <1>1, <1>a, ApplyHolds DEF Discovery, DiscoverNext, DiscoverStart,
     DiscoverRemoveFinalizer, DiscoverAddFinalizer, DiscoverVisitPolicy, DiscoverListPods,
     DiscoverRequeue, DiscoverInspect, DiscoverSkip, DiscoverListData, DiscoverForce, ForceData,
     clusterVars
<1>2. CASE Loading
  <2> PICK k \in Kernel : LoaderNext(k)
    BY <1>2 DEF Loading
  <2>a. loader[k] \in LoaderRec /\ LoaderOK(loader[k])
    BY DEF TypeOK, LoaderTypeOK
  <2>1. CASE LoaderAddFinalizer(k)
    <3> PICK d \in loader[k].todo : \/ data[d].exists /\ SetData(d, PatchedData(d, TRUE))
                                    \/ UNCHANGED data
      BY <2>1 DEF LoaderAddFinalizer
    <3>1. d \in DataName
      BY <2>a DEF LoaderRec
    <3> QED BY <1>a, <3>1, PatchHolds
  <2>2. CASE LoaderDelete(k)
    <3>1. loader[k].cur \in DataName
      BY <2>2, <2>a DEF LoaderDelete, LoaderOK
    <3> QED BY <1>a, <2>2, <3>1, DeleteHolds DEF LoaderDelete
  <2>3. CASE UNCHANGED data
    BY <1>a, <2>3
  <2> QED BY <2>1, <2>2, <2>3 DEF LoaderNext, LoaderStart, LoaderListPolicies,
            LoaderRemoveInode, LoaderCheck, LoaderAddInode, LoaderEnd, clusterVars
<1>3. CASE PodHandling
  <2>1. CASE PodDelete
    <3> PICK d \in podc.doomed : \/ data[d].exists /\ SetData(d, DeletedData(d))
                                 \/ UNCHANGED data
      BY <2>1 DEF PodDelete
    <3>1. d \in DataName
      BY DEF TypeOK, PodTypeOK, PodcRec
    <3> QED BY <1>a, <3>1, DeleteHolds
  <2>2. CASE UNCHANGED data
    BY <1>a, <2>2
  <2> QED BY <1>3, <2>1, <2>2 DEF PodHandling, PodNext, ElectPod, PodStart, PodListPods,
            PodListPolicies, PodForce
<1>4. CASE Informers \/ Tick \/ Resync \/ \E n \in Node : Crash(n)
  BY <1>a, <1>4 DEF Informers, Elect, SyncData, SyncPolicies, clusterVars, Tick, Resync, Crash
<1>5. CASE Users \/ Kubelets
  BY <1>a, <1>5 DEF Users, UserCreatePolicy, UserUpdatePolicy, UserDeletePolicy, UserStep,
       Kubelets, CreatePod, StartPod, RestartContainer, ProbePod, EndPod, RemovePod, SetPod
<1>6. CASE UNCHANGED vars
  BY <1>a, <1>6 DEF vars
<1> QED BY <1>1, <1>2, <1>3, <1>4, <1>5, <1>6 DEF Next

-----------------------------------------------------------------------------
(* What is enough for the invariant *)

\* The KiveData of kernel k that are lost in a step have a stray key.
HeldAt(k) == \A d \in Sure(k)' : Held(d) => Held(d)'

\* A key that is stray stays so until its map is freed.
LEMMA FewerSure ==
    ASSUME NEW k \in Kernel, stray[k] \subseteq stray'[k]
    PROVE  Sure(k)' \subseteq Sure(k)
BY DEF Sure, HomeOf

\* The cache holds what it did, or what the API server stores.
LEMMA CacheKeeps ==
    ASSUME NEW k \in Kernel, CacheHolds(k), HeldAt(k), stray[k] \subseteq stray'[k],
           dcache'[k] = dcache[k] \/ dcache'[k] = data
    PROVE  CacheHolds(k)'
<1>1. ASSUME NEW d \in Sure(k)', ListedData(k)'[d].exists, Live(ListedData(k)'[d])
      PROVE  Held(d)'
  <2>1. d \in Sure(k)
    BY FewerSure
  <2>2. CASE FreshCaches
    BY <1>1, <2>2 DEF ListedData, Live, Held
  <2>3. CASE ~FreshCaches /\ dcache'[k] = dcache[k]
    BY <1>1, <2>1, <2>3 DEF ListedData, Live, CacheHolds, HeldAt
  <2>4. CASE ~FreshCaches /\ dcache'[k] = data
    BY <1>1, <2>4 DEF ListedData, Live, Held, HeldAt
  <2> QED BY <2>2, <2>3, <2>4
<1> QED BY <1>1 DEF CacheHolds, Live

\* What is in the map stays backed when nothing new comes in.
LEMMA BackedKeeps ==
    ASSUME NEW k \in Kernel, KernelBacked(k), HeldAt(k), stray[k] \subseteq stray'[k],
           tracedInodes'[k] \subseteq tracedInodes[k]
    PROVE  KernelBacked(k)'
<1>1. ASSUME NEW key \in tracedInodes'[k] \ stray'[k]
      PROVE  \E d \in DataName : KeyOf(d) = key /\ HomeOf(d) = k /\ Held(d)'
  <2>1. PICK d \in DataName : KeyOf(d) = key /\ HomeOf(d) = k /\ Held(d)
    BY DEF KernelBacked
  <2>2. d \in Sure(k)'
    BY <2>1 DEF Sure, HomeOf
  <2> QED BY <2>1, <2>2 DEF HeldAt
<1> QED BY <1>1 DEF KernelBacked, HomeOf

\* The part of a loader that a step leaves alone.
LEMMA LoaderKeeps ==
    ASSUME NEW k \in Kernel, KernelInv(k), HeldAt(k), stray[k] \subseteq stray'[k],
           tracedInodes'[k] = tracedInodes[k], loader'[k] = loader[k],
           dcache'[k] = dcache[k] \/ dcache'[k] = data
    PROVE  KernelInv(k)'
<1>1. CacheHolds(k)' /\ KernelBacked(k)'
  BY CacheKeeps, BackedKeeps DEF KernelInv
<1>2. SnapHolds(k)'
  BY FewerSure DEF KernelInv, SnapHolds, HeldAt, Live
<1>3. CurHolds(k)'
  BY DEF KernelInv, CurHolds, Live
<1> QED BY <1>1, <1>2, <1>3 DEF KernelInv

\* A loader that is idle again has nothing to visit.
LEMMA IdleKeeps ==
    ASSUME NEW k \in Kernel, CacheHolds(k)', KernelBacked(k)', loader'[k] = IdleLoader
    PROVE  KernelInv(k)'
<1>1. SnapHolds(k)' /\ CurHolds(k)'
  BY DEF SnapHolds, CurHolds, IdleLoader
<1> QED BY <1>1 DEF KernelInv

\* A process that ends has nothing at all.
LEMMA CrashKeeps ==
    ASSUME NEW k \in Kernel, loader'[k] = IdleLoader, tracedInodes'[k] = {}, dcache'[k] = NoDatas
    PROVE  KernelInv(k)'
<1>1. CacheHolds(k)'
  BY DEF CacheHolds, ListedData, Live, Held, Sure, NoDatas, NoData
<1>2. KernelBacked(k)'
  BY DEF KernelBacked
<1> QED BY <1>1, <1>2, IdleKeeps

-----------------------------------------------------------------------------
(* The steps *)

\* Every step of the loader of kernel k preserves the invariant of its kernel.
LEMMA LoaderKeepsMap ==
    ASSUME TypeOK, OriginInv, NEW k \in Kernel, KernelInv(k), LoaderNext(k), HeldAt(k),
           ~LoaderRemoveFinalizer(k)
    PROVE  KernelInv(k)'
<1>a. loader[k] \in LoaderRec /\ loader \in [Kernel -> LoaderRec]
  BY DEF TypeOK, LoaderTypeOK
<1>b. tracedInodes \in [Kernel -> SUBSET Key] /\ stray \in [Kernel -> SUBSET Key]
  BY DEF TypeOK, LoaderTypeOK
<1>c. loader[k].todo \subseteq DataName
  BY <1>a DEF LoaderRec
<1>d. /\ dcache' = dcache
      /\ LoaderRemoveInode(k) \/ stray' = stray
  BY DEF LoaderNext, LoaderStart, LoaderListPolicies, LoaderRemoveInode, LoaderAddFinalizer,
     LoaderCheck, LoaderAddInode, LoaderDelete, LoaderEnd
<1>e. stray[k] \subseteq stray'[k]
  <2>1. CASE LoaderRemoveInode(k)
    BY <1>b, <2>1 DEF LoaderRemoveInode, StrayIf
  <2> QED BY <1>d, <2>1
<1>f. Sure(k)' \subseteq Sure(k) /\ CacheHolds(k)'
  BY <1>d, <1>e, FewerSure, CacheKeeps DEF KernelInv
\* What is left to show when the snapshot only has items less to visit.
<1>g. ASSUME loader'[k].snapD = loader[k].snapD, loader'[k].todo \subseteq loader[k].todo
      PROVE  SnapHolds(k)'
  BY <1>f, <1>g DEF KernelInv, SnapHolds, HeldAt, Live
<1>h. ASSUME tracedInodes'[k] \subseteq tracedInodes[k] PROVE KernelBacked(k)'
  BY <1>e, <1>h, BackedKeeps DEF KernelInv
<1>i. ASSUME LoaderReturn(k), tracedInodes'[k] \subseteq tracedInodes[k] PROVE KernelInv(k)'
  BY <1>a, <1>f, <1>h, <1>i, IdleKeeps DEF LoaderReturn
<1>1. CASE LoaderStart(k)
  <2> DEFINE Mine == {d \in DataName : ListedData(k)[d].exists /\ ListedData(k)[d].kernel = k}
             Todo == {d \in Mine : ListedData(k)[d].deleting => ListedData(k)[d].fin}
             Snap == [d \in DataName |-> IF d \in Mine THEN ListedData(k)[d] ELSE NoData]
  <2> PICK r : loader' = [loader EXCEPT ![k] =
                 [loader[k] EXCEPT !.pc = "listed", !.req = r, !.snapD = Snap, !.todo = Todo]]
    BY <1>1 DEF LoaderStart
  <2>1. UNCHANGED <<data, tracedInodes>>
    BY <1>1 DEF LoaderStart, clusterVars
  <2>2. /\ loader'[k].pc = "listed" /\ loader'[k].snapD = Snap /\ loader'[k].todo = Todo
    BY <1>a DEF LoaderRec
  <2>3. \A d \in Todo : ListedData(k)[d].exists /\ Snap[d] = ListedData(k)[d]
    OBVIOUS
  <2> HIDE DEF Snap, Todo
  <2>4. SnapHolds(k)'
    BY <1>f, <2>1, <2>2, <2>3 DEF KernelInv, CacheHolds, SnapHolds, HeldAt, Live
  <2>5. CurHolds(k)'
    BY <2>2 DEF CurHolds
  <2> QED BY <1>f, <1>h, <2>1, <2>4, <2>5 DEF KernelInv
<1>2. CASE LoaderListPolicies(k)
  <2>1. UNCHANGED tracedInodes
    BY <1>2 DEF LoaderListPolicies
  <2>2. CASE LoaderReturnRequeue(k)
    BY <1>i, <2>1, <2>2 DEF LoaderReturnRequeue
  <2>3. CASE loader' = [loader EXCEPT ![k] =
                          [loader[k] EXCEPT !.pc = "data", !.snapP = ListedPolicies(k)]]
    <3>1. /\ loader'[k].pc = "data" /\ loader'[k].snapD = loader[k].snapD
          /\ loader'[k].todo = loader[k].todo
      BY <1>a, <2>3 DEF LoaderRec
    <3>2. CurHolds(k)'
      BY <3>1 DEF CurHolds
    <3> QED BY <1>f, <1>g, <1>h, <2>1, <3>1, <3>2 DEF KernelInv
  <2> QED BY <1>2, <2>2, <2>3 DEF LoaderListPolicies
<1>3. CASE LoaderRemoveInode(k)
  \* The key leaves the map, or it is stray from now on.
  <2> PICK d \in loader[k].todo :
        /\ \/ RemoveInode(k, KeyOf(d))
           \/ StrayIf(TRUE, k, d) /\ UNCHANGED tracedInodes
        /\ loader' = [loader EXCEPT ![k] = [loader[k] EXCEPT !.pc = "unfinal", !.cur = d]]
    BY <1>3 DEF LoaderRemoveInode
  <2>1. /\ loader'[k].pc = "unfinal" /\ loader'[k].snapD = loader[k].snapD
        /\ loader'[k].todo = loader[k].todo /\ loader'[k].cur = d
    BY <1>a DEF LoaderRec
  <2>2. /\ tracedInodes'[k] \subseteq tracedInodes[k]
        /\ KeyOf(d) \notin tracedInodes'[k] \ stray'[k]
    BY <1>b DEF RemoveInode, StrayIf
  <2>3. CurHolds(k)'
    BY <2>1, <2>2 DEF CurHolds
  <2> QED BY <1>f, <1>g, <1>h, <2>1, <2>2, <2>3 DEF KernelInv
<1>4. CASE LoaderAddFinalizer(k)
  BY <1>4, <1>i DEF LoaderAddFinalizer, LoaderReturnRequeue
<1>5. CASE LoaderCheck(k)
  <2> PICK d \in loader[k].todo, v \in BOOLEAN :
        /\ Live(loader[k].snapD[d])
        /\ loader' = [loader EXCEPT ![k] =
                        [loader[k] EXCEPT !.pc = "act", !.cur = d, !.found = v]]
    BY <1>5 DEF LoaderCheck, Live
  <2>1. /\ loader'[k].pc = "act" /\ loader'[k].snapD = loader[k].snapD
        /\ loader'[k].todo = loader[k].todo /\ loader'[k].cur = d
    BY <1>a DEF LoaderRec
  <2>2. CurHolds(k)'
    BY <2>1 DEF CurHolds, Live
  <2>3. UNCHANGED tracedInodes
    BY <1>5 DEF LoaderCheck
  <2> QED BY <1>f, <1>g, <1>h, <2>1, <2>2, <2>3 DEF KernelInv
<1>6. CASE LoaderAddInode(k) \/ LoaderDelete(k)
  <2>1. /\ loader[k].pc = "act" /\ LoaderContinue(k) /\ UNCHANGED stray
        /\ loader[k].cur \in loader[k].todo
    BY <1>6 DEF LoaderAddInode, LoaderDelete, OriginInv, LoaderSound
  <2>2. PICK d \in DataName : d = loader[k].cur
    BY <1>c, <2>1
  <2>3. /\ loader'[k].pc = "data" /\ loader'[k].snapD = loader[k].snapD
        /\ loader'[k].todo \subseteq loader[k].todo
    BY <1>a, <2>1 DEF LoaderRec, LoaderContinue
  <2>4. SnapHolds(k)' /\ CurHolds(k)'
    BY <1>g, <2>3 DEF CurHolds
  <2>5. CASE UNCHANGED tracedInodes
    BY <1>f, <1>h, <2>4, <2>5 DEF KernelInv
  \* The key comes in for a KiveData of the snapshot.
  <2>6. CASE tracedInodes' = [tracedInodes EXCEPT ![k] = @ \cup {KeyOf(d)}] /\ UNCHANGED data
    <3>1. HomeOf(d) = k
      BY <2>1, <2>2 DEF OriginInv, LoaderSound
    <3>2. Live(loader[k].snapD[d])
      BY <2>1, <2>2 DEF KernelInv, CurHolds
    <3>3. KeyOf(d) \in stray[k] \/ Held(d)
      BY <2>1, <2>2, <3>1, <3>2 DEF KernelInv, SnapHolds, Sure
    <3>4. KernelBacked(k)'
      BY <1>b, <2>1, <2>6, <3>1, <3>3 DEF KernelInv, KernelBacked, Held, HomeOf
    <3> QED BY <1>f, <2>4, <3>4 DEF KernelInv
  <2>7. UNCHANGED tracedInodes
        \/ (tracedInodes' = [tracedInodes EXCEPT ![k] = @ \cup {KeyOf(d)}] /\ UNCHANGED data)
    BY <1>6, <2>2 DEF LoaderAddInode, AddInode, LoaderDelete
  <2> QED BY <2>5, <2>6, <2>7
<1>7. CASE LoaderEnd(k)
  BY <1>7, <1>i DEF LoaderEnd
<1> QED BY <1>1, <1>2, <1>3, <1>4, <1>5, <1>6, <1>7 DEF LoaderNext

\* What RemoveFinalizer does: the KiveData of the loop is patched, and if it or
\* the copy in the cache is not the deleted object of the snapshot, its key is
\* stray.
LEMMA RemoveFinalizerActs ==
    ASSUME TypeOK, OriginInv, NEW k \in Kernel, LoaderRemoveFinalizer(k)
    PROVE  /\ \E d \in DataName :
                /\ d = loader[k].cur /\ HomeOf(d) = k
                /\ \/ /\ data[d].exists
                      /\ data' = [data EXCEPT ![d] = PatchedData(d, FALSE)]
                      /\ StrayIf(Replaced(k, d), k, d)
                   \/ UNCHANGED <<data, stray>>
           /\ loader[k].pc = "unfinal" /\ loader' = [loader EXCEPT ![k] = IdleLoader]
           /\ UNCHANGED <<tracedInodes, dcache>>
<1>1. loader[k].cur \in loader[k].todo /\ loader[k].todo \subseteq DataName
  BY DEF LoaderRemoveFinalizer, OriginInv, LoaderSound, TypeOK, LoaderTypeOK, LoaderRec
<1>2. HomeOf(loader[k].cur) = k
  BY <1>1 DEF OriginInv, LoaderSound
<1> QED
  BY <1>1, <1>2 DEF LoaderRemoveFinalizer, LoaderReturnRequeue, LoaderReturn, SetData

\* RemoveFinalizer preserves the invariant of every kernel.
LEMMA RemoveFinalizerKeepsMap ==
    ASSUME TypeOK, OriginInv, MapInv, NEW k \in Kernel, LoaderRemoveFinalizer(k)
    PROVE  MapInv'
<1>a. stray \in [Kernel -> SUBSET Key] /\ data \in [DataName -> DataRec]
      /\ loader \in [Kernel -> LoaderRec]
  BY DEF TypeOK, LoaderTypeOK, ClusterTypeOK
<1> PICK d \in DataName :
      /\ d = loader[k].cur /\ HomeOf(d) = k
      /\ \/ /\ data[d].exists
            /\ data' = [data EXCEPT ![d] = PatchedData(d, FALSE)]
            /\ StrayIf(Replaced(k, d), k, d)
         \/ UNCHANGED <<data, stray>>
  BY RemoveFinalizerActs
<1>b. /\ loader[k].pc = "unfinal" /\ loader' = [loader EXCEPT ![k] = IdleLoader]
      /\ UNCHANGED <<tracedInodes, dcache>>
  BY RemoveFinalizerActs
<1>c. /\ stray[k] \subseteq stray'[k]
      /\ \A j \in Kernel \ {k} : stray'[j] = stray[j]
      /\ \A e \in DataName \ {d} : data'[e] = data[e]
  <2>1. CASE UNCHANGED <<data, stray>>
    BY <2>1
  <2>2. CASE /\ data' = [data EXCEPT ![d] = PatchedData(d, FALSE)]
             /\ StrayIf(Replaced(k, d), k, d)
    <3>1. \A e \in DataName \ {d} : data'[e] = data[e]
      BY <1>a, <2>2
    <3>2. /\ stray[k] \subseteq stray'[k]
          /\ \A j \in Kernel \ {k} : stray'[j] = stray[j]
      BY <1>a, <2>2 DEF StrayIf
    <3> QED BY <3>1, <3>2
  <2> QED BY <2>1, <2>2
<1>1. ASSUME NEW j \in Kernel, j # k PROVE KernelInv(j)'
  <2>1. \A e \in Sure(j)' : e # d
    BY <1>1 DEF Sure, HomeOf
  <2>2. HeldAt(j)
    BY <1>c, <2>1 DEF HeldAt, Held, Sure
  <2>3. /\ loader'[j] = loader[j] /\ tracedInodes'[j] = tracedInodes[j]
        /\ stray[j] \subseteq stray'[j] /\ dcache'[j] = dcache[j]
    BY <1>1, <1>a, <1>b, <1>c
  <2> QED BY <2>2, <2>3, LoaderKeeps DEF MapInv
<1>2. KernelInv(k)'
  <2>1. KernelInv(k) /\ loader'[k] = IdleLoader
    BY <1>a, <1>b DEF MapInv
  <2>2. KeyOf(d) \notin tracedInodes[k] \ stray[k]
    BY <1>b, <2>1 DEF KernelInv, CurHolds
  <2>3. KernelBacked(k)'
    <3>1. ASSUME NEW key \in tracedInodes'[k] \ stray'[k]
          PROVE  \E e \in DataName : KeyOf(e) = key /\ HomeOf(e) = k /\ Held(e)'
      <4>1. PICK e \in DataName : KeyOf(e) = key /\ HomeOf(e) = k /\ Held(e)
        BY <1>b, <1>c, <2>1 DEF KernelInv, KernelBacked
      <4>2. e # d
        BY <1>b, <1>c, <2>2, <4>1
      <4> QED BY <1>c, <4>1, <4>2 DEF Held
    <3> QED BY <3>1 DEF KernelBacked, HomeOf
  <2>4. CacheHolds(k)'
    <3>1. ASSUME NEW e \in Sure(k)', e # d, ListedData(k)'[e].exists, Live(ListedData(k)'[e])
          PROVE  Held(e)'
      BY <1>b, <1>c, <2>1, <3>1, FewerSure DEF KernelInv, CacheHolds, ListedData, Live, Held, Sure
    <3>2. ASSUME d \in Sure(k)', ListedData(k)'[d].exists, Live(ListedData(k)'[d])
          PROVE  Held(d)'
      <4>1. CASE FreshCaches
        BY <3>2, <4>1 DEF ListedData, Live, Held
      \* The cache has it in use, so its key would be stray.
      <4>2. CASE ~FreshCaches
        <5>1. Undeleted(ListedData(k)[d])
          BY <1>b, <3>2, <4>2 DEF ListedData, Live, Undeleted
        <5>2. UNCHANGED <<data, stray>>
          <6>1. CASE StrayIf(Replaced(k, d), k, d)
            <7>1. KeyOf(d) \in stray'[k]
              BY <1>a, <5>1, <6>1 DEF StrayIf, Replaced
            <7> QED BY <3>2, <7>1 DEF Sure
          <6> QED BY <6>1
        <5> QED BY <1>b, <2>1, <3>2, <4>2, <5>2 DEF KernelInv, CacheHolds, ListedData, Live, Held, Sure
      <4> QED BY <4>1, <4>2
    <3> QED BY <3>1, <3>2 DEF CacheHolds, Live
  <2> QED BY <2>1, <2>3, <2>4, IdleKeeps
<1> QED BY <1>1, <1>2 DEF MapInv

\* Every step of the system preserves the invariant.
LEMMA MapInvNext == TypeOK /\ OriginInv /\ MapInv /\ [Next]_vars => MapInv'
<1> SUFFICES ASSUME TypeOK, OriginInv, MapInv, [Next]_vars,
                    ~\E k \in Kernel : LoaderRemoveFinalizer(k)
             PROVE  MapInv'
  BY RemoveFinalizerKeepsMap
<1>a. ASSUME NEW k \in Kernel PROVE HeldAt(k)
  BY StepsHold DEF AllHeld, HeldAt, Sure
\* It is enough to look at the kernels whose loader takes a step.
<1>b. ASSUME NEW k \in Kernel, stray'[k] = stray[k], tracedInodes'[k] = tracedInodes[k],
             loader'[k] = loader[k], dcache'[k] = dcache[k] \/ dcache'[k] = data
      PROVE  KernelInv(k)'
  BY <1>a, <1>b, LoaderKeeps DEF MapInv
<1>c. ASSUME UNCHANGED <<stray, tracedInodes, loader, dcache>> PROVE MapInv'
  BY <1>b, <1>c DEF MapInv
<1>d. dcache \in [Kernel -> [DataName -> DataRec]] /\ loader \in [Kernel -> LoaderRec]
      /\ tracedInodes \in [Kernel -> SUBSET Key] /\ stray \in [Kernel -> SUBSET Key]
  BY DEF TypeOK, LoaderTypeOK
<1>1. CASE Discovery
  BY <1>1, <1>c DEF Discovery, loaderVars
<1>2. CASE Loading
  <2> PICK k \in Kernel : LoaderNext(k)
    BY <1>2 DEF Loading
  <2>1. KernelInv(k)'
    BY <1>a, LoaderKeepsMap DEF MapInv
  <2>2. ASSUME NEW j \in Kernel, j # k PROVE KernelInv(j)'
    <3>1. loader'[j] = loader[j]
      BY <1>d, <2>2 DEF LoaderNext, LoaderStart, LoaderListPolicies, LoaderRemoveInode,
         LoaderAddFinalizer, LoaderCheck, LoaderAddInode, LoaderDelete, LoaderEnd,
         LoaderReturn, LoaderReturnRequeue, LoaderContinue
    <3>2. tracedInodes'[j] = tracedInodes[j] /\ stray'[j] = stray[j] /\ dcache' = dcache
      BY <1>d, <2>2 DEF LoaderNext, LoaderStart, LoaderListPolicies, LoaderRemoveInode,
         LoaderAddFinalizer, LoaderCheck, LoaderAddInode, LoaderDelete, LoaderEnd,
         RemoveInode, AddInode, StrayIf
    <3> QED BY <1>b, <3>1, <3>2
  <2> QED BY <2>1, <2>2 DEF MapInv
<1>3. CASE Informers
  <2>1. UNCHANGED <<stray, tracedInodes, loader>>
    BY <1>3 DEF Informers, Elect, SyncData, SyncPolicies
  <2>2. dcache' = dcache \/ \E j \in Kernel : dcache' = [dcache EXCEPT ![j] = data]
    BY <1>3, ClusterAssumption DEF Informers, Elect, SyncData, SyncPolicies, CacheData
  <2>3. ASSUME NEW k \in Kernel PROVE dcache'[k] = dcache[k] \/ dcache'[k] = data
    BY <1>d, <2>2
  <2> QED BY <1>b, <2>1, <2>3 DEF MapInv
<1>4. CASE PodHandling
  BY <1>4, <1>c DEF PodHandling, loaderVars
<1>5. CASE Users
  BY <1>5, <1>c DEF Users, UserCreatePolicy, UserUpdatePolicy, UserDeletePolicy, UserStep,
       loaderVars
<1>6. CASE Kubelets
  BY <1>6, <1>c DEF Kubelets, CreatePod, StartPod, RestartContainer, ProbePod, EndPod,
       RemovePod, SetPod, loaderVars
<1>7. CASE Tick \/ Resync
  BY <1>7, <1>c DEF Tick, Resync, loaderVars
<1>8. ASSUME NEW n \in Node, Crash(n) PROVE MapInv'
  <2> DEFINE Led == {k \in Kernel : leader[k] = n}
  <2>1. /\ tracedInodes' = [k \in Kernel |-> IF k \in Led THEN {} ELSE tracedInodes[k]]
        /\ stray' = [k \in Kernel |-> IF k \in Led THEN {} ELSE stray[k]]
        /\ loader' = [k \in Kernel |-> IF k \in Led THEN IdleLoader ELSE loader[k]]
        /\ dcache' = [k \in Kernel |-> IF k \in Led THEN NoDatas ELSE dcache[k]]
    BY <1>8 DEF Crash, UnloadEbpf
  <2> HIDE DEF Led
  <2>2. ASSUME NEW k \in Kernel PROVE KernelInv(k)'
    <3>1. CASE k \in Led
      BY <2>1, <3>1, CrashKeeps
    <3>2. CASE k \notin Led
      BY <1>b, <2>1, <3>2
    <3> QED BY <3>1, <3>2
  <2> QED BY <2>2 DEF MapInv
<1>9. CASE UNCHANGED vars
  BY <1>9, <1>c DEF vars
<1> QED BY <1>1, <1>2, <1>3, <1>4, <1>5, <1>6, <1>7, <1>8, <1>9 DEF Next

\* However old the caches are that the loaders list from, and whatever calls
\* fail: every key in an eBPF map belongs to a KiveData of that kernel with its
\* finalizer, unless RemoveInode failed for the key or the loader finished the
\* deletion of an object that had been replaced.
THEOREM MapBackedCorrect == Spec => []MapBacked
<1>1. Init => TypeOK /\ OriginInv /\ MapInv
  BY InitType, OriginInit, MapInvInit
<1>2. TypeOK /\ OriginInv /\ MapInv /\ [Next]_vars => (TypeOK /\ OriginInv /\ MapInv)'
  BY NextType, OriginNext, MapInvNext
<1>3. OriginInv /\ MapInv => MapBacked
  BY MapInvImplies
<1> QED BY <1>1, <1>2, <1>3, PTL DEF Spec

-----------------------------------------------------------------------------
(* Kive implements TracedFiles. The refinement mapping forgets everything  *)
(* but which KiveData exist, which of them are marked, the keys in the     *)
(* maps and the stray ones. Every step of Kive is a step of TracedFiles or *)
(* changes none of the four.                                               *)

\* One step of the promise, or none.
PromiseStep == [Promise!Next]_(Promise!vars)

Marked == {d \in DataName : data[d].deleting}

\* The keys and kernels of the mapping.
LEMMA MappedData ==
    ASSUME NEW d \in DataName
    PROVE  /\ [e \in DataName |-> KeyOf(e)][d] = KeyOf(d)
           /\ [e \in DataName |-> KernelOf[NodeOf[PodOf(e)]]][d] = HomeOf(d)
           /\ HomeOf(d) \in Kernel
BY ClusterAssumption DEF HomeOf, DataName, PodOf

\* A step that touches neither KiveData nor maps.
LEMMA StutterStep ==
    ASSUME UNCHANGED <<data, tracedInodes, stray>>
    PROVE  PromiseStep
BY DEF PromiseStep, Promise!vars, ExistingData

\* A KiveData is applied, or patched: it exists afterwards, its mark is what it
\* was.
LEMMA StoreStep ==
    ASSUME TypeOK, NEW d \in DataName, NEW r, r.exists, r.deleting = data[d].deleting,
           data' = [data EXCEPT ![d] = r], UNCHANGED <<tracedInodes, stray>>
    PROVE  PromiseStep
<1>1. \A e \in DataName : data'[e] = IF e = d THEN r ELSE data[e]
  BY DEF TypeOK, ClusterTypeOK
<1>2. ExistingData' = ExistingData \cup {d} /\ Marked' = Marked
  BY <1>1 DEF ExistingData, Marked
<1>3. Promise!Store(d)
  BY <1>2 DEF Promise!Store, Marked
<1> QED BY <1>3 DEF PromiseStep, Promise!Next

\* A KiveData is gone.
LEMMA GoneData ==
    ASSUME TypeOK, NEW d \in DataName, data' = [data EXCEPT ![d] = NoData]
    PROVE  ExistingData' = ExistingData \ {d} /\ Marked' = Marked \ {d}
<1>1. \A e \in DataName : data'[e] = IF e = d THEN NoData ELSE data[e]
  BY DEF TypeOK, ClusterTypeOK
<1> QED BY <1>1 DEF ExistingData, Marked, NoData

\* A KiveData is deleted. With its finalizer it is marked; without one it goes
\* at once, and then another KiveData backs its key if it is traced at all.
LEMMA DeleteStep ==
    ASSUME TypeOK, OriginInv, MapInv, NEW d \in DataName, data[d].exists,
           SetData(d, DeletedData(d)), UNCHANGED <<tracedInodes, stray>>
    PROVE  PromiseStep
<1>1. CASE data[d].fin
  <2> DEFINE r == [data[d] EXCEPT !.deleting = TRUE]
  <2>1. data' = [data EXCEPT ![d] = r]
    BY <1>1 DEF SetData, DeletedData
  <2>2. r.exists /\ r.deleting
    BY DEF TypeOK, ClusterTypeOK, DataRec
  <2> HIDE DEF r
  <2>3. \A e \in DataName : data'[e] = IF e = d THEN r ELSE data[e]
    BY <2>1 DEF TypeOK, ClusterTypeOK
  <2>4. ExistingData' = ExistingData /\ Marked' = Marked \cup {d} /\ d \in ExistingData
    BY <2>2, <2>3 DEF ExistingData, Marked
  <2>5. Promise!Mark(d)
    BY <2>4 DEF Promise!Mark, Marked
  <2> QED BY <2>5 DEF PromiseStep, Promise!Next
<1>2. CASE ~data[d].fin
  <2> DEFINE k == HomeOf(d)
  <2>1. ExistingData' = ExistingData \ {d} /\ Marked' = Marked \ {d}
    BY <1>2, GoneData DEF SetData, DeletedData
  <2>2. \/ KeyOf(d) \notin tracedInodes[k] \/ KeyOf(d) \in stray[k]
        \/ \E e \in ExistingData \ {d} : HomeOf(e) = k /\ KeyOf(e) = KeyOf(d)
    BY <1>2, MappedData DEF MapInv, KernelInv, KernelBacked, Held, ExistingData
  <2> HIDE DEF k
  <2>3. Promise!Shared(d) <=> \E e \in ExistingData \ {d} : HomeOf(e) = k /\ KeyOf(e) = KeyOf(d)
    BY MappedData DEF Promise!Shared, ExistingData, k
  <2>4. Promise!Erase(d)
    BY <2>1, <2>2, <2>3, MappedData DEF Promise!Erase, Marked, k
  <2> QED BY <2>4 DEF PromiseStep, Promise!Next
<1> QED BY <1>1, <1>2

-----------------------------------------------------------------------------
\* Discover creates and overwrites KiveData, and touches no map.
LEMMA DiscoverPromise ==
    ASSUME TypeOK, NEW n \in Node, DiscoverNext(n), UNCHANGED loaderVars
    PROVE  PromiseStep
<1> USE ClusterAssumption
<1>a. UNCHANGED <<tracedInodes, stray>>
  BY DEF loaderVars
<1>1. CASE DiscoverApply(n)
  <2> DEFINE L == disc[n]
             name(q) == <<L.key, q, L.podsnap[q].inst>>
             rec(q) == [exists |-> TRUE, deleting |-> data[name(q)].deleting,
                        fin |-> TRUE, trap |-> L.trap, policy |-> L.pol,
                        kernel |-> KernelOf[n], ip |-> L.podsnap[q].ip]
  <2> PICK q \in L.pods : IsMin(q, L.pods) /\ (SetData(name(q), rec(q)) \/ UNCHANGED data)
    BY <1>1 DEF DiscoverApply
  <2>1. q \in Pod /\ L.key \in Key /\ L.podsnap[q].inst \in Inst
    BY <1>1 DEF DiscoverApply, TypeOK, DiscoverTypeOK, DiscRec, DiscOK, PodOK
  <2>2. name(q) \in DataName
    BY <2>1 DEF DataName
  <2>3. rec(q).exists /\ rec(q).deleting = data[name(q)].deleting
    OBVIOUS
  <2> HIDE DEF name, rec
  <2>4. CASE SetData(name(q), rec(q))
    BY <1>a, <2>2, <2>3, <2>4, StoreStep DEF SetData
  <2> QED BY <1>a, <2>4, StutterStep
<1>2. CASE UNCHANGED data
  BY <1>2, <1>a, StutterStep
<1> QED
  BY <1>1, <1>2 DEF DiscoverNext, DiscoverStart, DiscoverRemoveFinalizer, DiscoverAddFinalizer,
       DiscoverVisitPolicy, DiscoverListPods, DiscoverRequeue, DiscoverInspect, DiscoverSkip,
       DiscoverListData, DiscoverForce, ForceData, clusterVars

\* RemoveInode takes the key for a KiveData that is marked or gone, or the key
\* is stray.
LEMMA RemoveInodePromise ==
    ASSUME TypeOK, OriginInv, NEW k \in Kernel, LoaderRemoveInode(k)
    PROVE  PromiseStep
<1>a. tracedInodes \in [Kernel -> SUBSET Key] /\ stray \in [Kernel -> SUBSET Key]
  BY DEF TypeOK, LoaderTypeOK
<1>b. loader[k].todo \subseteq DataName
  BY DEF TypeOK, LoaderTypeOK, LoaderRec
<1> PICK d \in loader[k].todo :
      \/ RemoveInode(k, KeyOf(d)) /\ StrayIf(Replaced(k, d), k, d)
      \/ StrayIf(TRUE, k, d) /\ UNCHANGED tracedInodes
  BY DEF LoaderRemoveInode
<1>1. UNCHANGED data /\ d \in DataName /\ HomeOf(d) = k
  BY <1>b DEF LoaderRemoveInode, OriginInv, LoaderSound
<1>2. Promise!GoesAstray(d) <=> stray' = [stray EXCEPT ![k] = @ \cup {KeyOf(d)}]
  BY <1>1, MappedData DEF Promise!GoesAstray
<1>3. CASE RemoveInode(k, KeyOf(d)) /\ StrayIf(Replaced(k, d), k, d)
  <2>1. \/ (d \in ExistingData => d \in Marked) /\ UNCHANGED stray
        \/ Promise!GoesAstray(d)
    BY <1>2, <1>3 DEF StrayIf, Replaced, Undeleted, ExistingData, Marked
  <2>2. Promise!Untrace(k, d)
    BY <1>1, <1>3, <2>1, MappedData DEF Promise!Untrace, RemoveInode, Marked, ExistingData
  <2> QED BY <1>1, <2>2 DEF PromiseStep, Promise!Next
<1>4. CASE StrayIf(TRUE, k, d) /\ UNCHANGED tracedInodes
  <2>1. Promise!Stray(d)
    BY <1>1, <1>2, <1>4 DEF StrayIf, Promise!Stray, ExistingData
  <2> QED BY <1>1, <2>1 DEF PromiseStep, Promise!Next
<1> QED BY <1>3, <1>4

\* RemoveFinalizer lets the KiveData go after its key, or the key is stray.
LEMMA RemoveFinalizerPromise ==
    ASSUME TypeOK, OriginInv, MapInv, NEW k \in Kernel, LoaderRemoveFinalizer(k)
    PROVE  PromiseStep
<1> PICK d \in DataName :
      /\ d = loader[k].cur /\ HomeOf(d) = k
      /\ \/ /\ data[d].exists
            /\ data' = [data EXCEPT ![d] = PatchedData(d, FALSE)]
            /\ StrayIf(Replaced(k, d), k, d)
         \/ UNCHANGED <<data, stray>>
  BY RemoveFinalizerActs
<1>a. loader[k].pc = "unfinal" /\ UNCHANGED tracedInodes
  BY RemoveFinalizerActs
<1>b. stray \in [Kernel -> SUBSET Key]
  BY DEF TypeOK, LoaderTypeOK
<1>1. KeyOf(d) \notin tracedInodes[k] \ stray[k]
  BY <1>a DEF MapInv, KernelInv, CurHolds
<1>2. Promise!GoesAstray(d) <=> stray' = [stray EXCEPT ![k] = @ \cup {KeyOf(d)}]
  BY MappedData DEF Promise!GoesAstray
<1>3. CASE UNCHANGED <<data, stray>>
  BY <1>3, <1>a, StutterStep
\* It was marked: it is gone.
<1>4. CASE /\ data' = [data EXCEPT ![d] = NoData]
           /\ StrayIf(Replaced(k, d), k, d)
  <2>1. ExistingData' = ExistingData \ {d} /\ Marked' = Marked \ {d}
    BY <1>4, GoneData
  <2>2. /\ KeyOf(d) \notin tracedInodes[k] \/ KeyOf(d) \in stray'[k]
        /\ UNCHANGED stray \/ Promise!GoesAstray(d)
    BY <1>1, <1>2, <1>4, <1>b DEF StrayIf
  <2>3. Promise!Erase(d)
    BY <1>a, <2>1, <2>2, MappedData DEF Promise!Erase, Marked
  <2> QED BY <2>3 DEF PromiseStep, Promise!Next
\* It was not: it stays without its finalizer.
<1>5. CASE /\ ~data[d].deleting /\ data[d].exists
           /\ data' = [data EXCEPT ![d] = [data[d] EXCEPT !.fin = FALSE]]
           /\ StrayIf(Replaced(k, d), k, d)
  <2>1. Promise!GoesAstray(d)
    BY <1>2, <1>5 DEF StrayIf, Replaced, Undeleted
  <2> DEFINE r == [data[d] EXCEPT !.fin = FALSE]
  <2>2. r.exists = data[d].exists /\ r.deleting = data[d].deleting
    BY DEF TypeOK, ClusterTypeOK, DataRec
  <2>3. \A e \in DataName : data'[e] = IF e = d THEN r ELSE data[e]
    BY <1>5 DEF TypeOK, ClusterTypeOK
  <2> HIDE DEF r
  <2>4. ExistingData' = ExistingData /\ Marked' = Marked
    BY <2>2, <2>3 DEF ExistingData, Marked
  <2>5. Promise!Stray(d)
    BY <1>a, <2>1, <2>4 DEF Promise!Stray, Marked
  <2> QED BY <2>5 DEF PromiseStep, Promise!Next
<1> QED BY <1>3, <1>4, <1>5 DEF PatchedData

\* AddInode traces a KiveData that is stored.
LEMMA AddInodePromise ==
    ASSUME TypeOK, OriginInv, MapInv, NEW k \in Kernel, LoaderAddInode(k)
    PROVE  PromiseStep
<1>1. /\ UNCHANGED <<data, stray>> /\ loader[k].pc = "act"
      /\ loader[k].cur \in loader[k].todo /\ loader[k].todo \subseteq DataName
  BY DEF LoaderAddInode, OriginInv, LoaderSound, TypeOK, LoaderTypeOK, LoaderRec
<1>2. PICK d \in DataName : d = loader[k].cur
  BY <1>1
<1>3. HomeOf(d) = k
  BY <1>1, <1>2 DEF OriginInv, LoaderSound
<1>4. d \in ExistingData \/ KeyOf(d) \in stray[k]
  BY <1>1, <1>2, <1>3 DEF MapInv, KernelInv, CurHolds, SnapHolds, Sure, Held, ExistingData
<1>5. CASE UNCHANGED tracedInodes
  BY <1>1, <1>5, StutterStep
<1>6. CASE tracedInodes' = [tracedInodes EXCEPT ![k] = @ \cup {KeyOf(d)}]
  <2>1. Promise!Trace(k, d)
    BY <1>1, <1>3, <1>4, <1>6, MappedData DEF Promise!Trace, ExistingData
  <2> QED BY <2>1 DEF PromiseStep, Promise!Next
<1> QED BY <1>2, <1>5, <1>6 DEF LoaderAddInode, AddInode

\* The loader of kernel k marks, traces, untraces and erases as promised.
LEMMA LoaderPromise ==
    ASSUME TypeOK, OriginInv, MapInv, NEW k \in Kernel, LoaderNext(k)
    PROVE  PromiseStep
<1>a. loader[k] \in LoaderRec /\ LoaderOK(loader[k])
  BY DEF TypeOK, LoaderTypeOK
<1>1. CASE LoaderRemoveInode(k)
  BY <1>1, RemoveInodePromise
<1>2. CASE LoaderRemoveFinalizer(k)
  BY <1>2, RemoveFinalizerPromise
<1>3. CASE LoaderAddFinalizer(k)
  <2> PICK d \in loader[k].todo : \/ data[d].exists /\ SetData(d, PatchedData(d, TRUE))
                                  \/ UNCHANGED data
    BY <1>3 DEF LoaderAddFinalizer
  <2>1. d \in DataName /\ UNCHANGED <<tracedInodes, stray>>
    BY <1>3, <1>a DEF LoaderRec, LoaderAddFinalizer
  <2>2. CASE data[d].exists /\ SetData(d, PatchedData(d, TRUE))
    <3> DEFINE r == [data[d] EXCEPT !.fin = TRUE]
    <3>1. r.exists /\ r.deleting = data[d].deleting
      BY <2>1, <2>2 DEF TypeOK, ClusterTypeOK, DataRec
    <3>2. data' = [data EXCEPT ![d] = r]
      BY <2>2 DEF SetData, PatchedData
    <3> HIDE DEF r
    <3> QED BY <2>1, <3>1, <3>2, StoreStep
  <2> QED BY <2>1, <2>2, StutterStep
<1>4. CASE LoaderAddInode(k)
  BY <1>4, AddInodePromise
<1>5. CASE LoaderDelete(k)
  <2>1. loader[k].cur \in DataName /\ UNCHANGED <<tracedInodes, stray>>
    BY <1>5, <1>a DEF LoaderDelete, LoaderOK
  <2> QED BY <1>5, <2>1, DeleteStep, StutterStep DEF LoaderDelete
<1>6. CASE UNCHANGED <<data, tracedInodes, stray>>
  BY <1>6, StutterStep
<1> QED
  BY <1>1, <1>2, <1>3, <1>4, <1>5, <1>6 DEF LoaderNext, LoaderStart, LoaderListPolicies,
       LoaderCheck, LoaderEnd, clusterVars

\* Every step of the system is a step of the promise, or none.
LEMMA NextPromise == TypeOK /\ OriginInv /\ MapInv /\ [Next]_vars => PromiseStep
<1> SUFFICES ASSUME TypeOK, OriginInv, MapInv, [Next]_vars PROVE PromiseStep
  OBVIOUS
<1>a. ASSUME UNCHANGED <<data, tracedInodes, stray>> PROVE PromiseStep
  BY <1>a, StutterStep
<1>1. CASE Discovery
  BY <1>1, DiscoverPromise DEF Discovery
<1>2. CASE Loading
  BY <1>2, LoaderPromise DEF Loading
<1>3. CASE Informers
  BY <1>3, <1>a DEF Informers, Elect, SyncData, SyncPolicies, clusterVars
<1>4. CASE PodHandling
  <2>1. UNCHANGED <<tracedInodes, stray>>
    BY <1>4 DEF PodHandling, loaderVars
  <2>2. CASE PodDelete
    <3> PICK d \in podc.doomed : \/ data[d].exists /\ SetData(d, DeletedData(d))
                                 \/ UNCHANGED data
      BY <2>2 DEF PodDelete
    <3>1. d \in DataName
      BY DEF TypeOK, PodTypeOK, PodcRec
    <3> QED BY <2>1, <3>1, <1>a, DeleteStep
  <2>3. CASE UNCHANGED data
    BY <1>a, <2>1, <2>3
  <2> QED BY <1>4, <2>2, <2>3 DEF PodHandling, PodNext, ElectPod, PodStart, PodListPods,
            PodListPolicies, PodForce
<1>5. CASE Users
  BY <1>5, <1>a DEF Users, UserCreatePolicy, UserUpdatePolicy, UserDeletePolicy, UserStep,
       loaderVars
<1>6. CASE Kubelets
  BY <1>6, <1>a DEF Kubelets, CreatePod, StartPod, RestartContainer, ProbePod, EndPod,
       RemovePod, SetPod, loaderVars
<1>7. CASE Tick
  BY <1>7, <1>a DEF Tick, loaderVars
<1>8. CASE Resync
  BY <1>8, <1>a DEF Resync
<1>9. ASSUME NEW n \in Node, Crash(n) PROVE PromiseStep
  <2> DEFINE Led == {k \in Kernel : leader[k] = n}
  <2>1. /\ UNCHANGED data
        /\ tracedInodes' = [k \in Kernel |-> IF k \in Led THEN {} ELSE tracedInodes[k]]
        /\ stray' = [k \in Kernel |-> IF k \in Led THEN {} ELSE stray[k]]
    BY <1>9 DEF Crash, UnloadEbpf
  <2>2. Led \in SUBSET Kernel
    OBVIOUS
  <2> HIDE DEF Led
  <2>3. Promise!Lose(Led)
    BY <2>1 DEF Promise!Lose, ExistingData
  <2> QED BY <2>2, <2>3 DEF PromiseStep, Promise!Next
<1>10. CASE UNCHANGED vars
  BY <1>10, <1>a DEF vars
<1> QED BY <1>1, <1>2, <1>3, <1>4, <1>5, <1>6, <1>7, <1>8, <1>9, <1>10 DEF Next

\* The three controllers, the user, the kubelets, the failures and the crashes
\* of the operator together implement TracedFiles: however old the caches are,
\* no interleaving traces a file for a KiveData that is not stored, and a
\* KiveData only goes after its key, unless the key is stray or another
\* KiveData names it too.
THEOREM KiveKeepsPromise == Spec => KeepsPromise
<1>1. Init => TypeOK /\ OriginInv /\ MapInv
  BY InitType, OriginInit, MapInvInit
<1>2. TypeOK /\ OriginInv /\ MapInv /\ [Next]_vars => (TypeOK /\ OriginInv /\ MapInv)'
  BY NextType, OriginNext, MapInvNext
<1>3. Init => Promise!Init
  BY DEF Init, ClusterInit, LoaderInit, Promise!Init, ExistingData, NoDatas, NoData
<1>4. TypeOK /\ OriginInv /\ MapInv /\ [Next]_vars => [Promise!Next]_(Promise!vars)
  BY NextPromise DEF PromiseStep
<1> QED BY <1>1, <1>2, <1>3, <1>4, PTL DEF Spec, KeepsPromise, Promise!Spec
=============================================================================
