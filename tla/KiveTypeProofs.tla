---------------------------- MODULE KiveTypeProofs ----------------------------
(***************************************************************************)
(* TypeOK is an invariant of Kive, for every value of the constants: every *)
(* local variable of a reconcile holds what the code declares, and the     *)
(* names taken from snapshots stay names of the cluster.                   *)
(***************************************************************************)
EXTENDS Kive, TLAPS

\* The kernel a KiveData name belongs to: a file is only found by the node its
\* pod runs on.
HomeOf(d) == KernelOf[NodeOf[PodOf(d)]]

-----------------------------------------------------------------------------
(* The operators the actions are built from. *)

\* Writing a policy record keeps the policies, their stamps and the queues typed.
LEMMA SetPolicyType ==
    ASSUME ClusterTypeOK, NEW p \in Policy, NEW rec \in PolicyRec, SetPolicy(p, rec)
    PROVE  /\ policies' \in [Policy -> PolicyRec]
           /\ pstamp' \in SUBSET Policy
           /\ dq' \in [Node -> SUBSET Policy]
BY DEF ClusterTypeOK, SetPolicy

\* The same for KiveData.
LEMMA SetDataType ==
    ASSUME ClusterTypeOK, NEW d \in DataName, NEW rec \in DataRec, SetData(d, rec)
    PROVE  /\ data' \in [DataName -> DataRec]
           /\ dstamp' \in SUBSET DataName
           /\ dirty' \in [Kernel -> SUBSET DataName]
BY DEF ClusterTypeOK, SetData

\* Deleting, or patching the finalizers of, a policy gives a policy record.
LEMMA PolicyRecType ==
    ASSUME ClusterTypeOK, NEW p \in Policy, NEW f \in BOOLEAN
    PROVE  /\ NoPolicy \in PolicyRec
           /\ DeletedPolicy(p) \in PolicyRec
           /\ PatchedPolicy(p, f) \in PolicyRec
BY DEF ClusterTypeOK, PolicyRec, NoPolicy, DeletedPolicy, PatchedPolicy

\* The same for KiveData.
LEMMA DataRecType ==
    ASSUME ClusterTypeOK, NEW d \in DataName, NEW f \in BOOLEAN
    PROVE  /\ NoData \in DataRec
           /\ DeletedData(d) \in DataRec
           /\ PatchedData(d, f) \in DataRec
BY ZenonT(30) DEF ClusterTypeOK, DataRec, NoData, DeletedData, PatchedData

\* A failing call leaves a typed budget.
LEMMA FaultType ==
    ASSUME ClusterTypeOK, NEW c, FailsIf(c) \/ Fault
    PROVE  budget' \in [user: Nat, pods: Nat, faults: Nat, crashes: Nat]
BY DEF ClusterTypeOK, Fault, FailsIf

\* The initial values of the locals are typed.
LEMMA IdleType ==
    /\ IdleDisc \in DiscRec
    /\ IdleLoader \in LoaderRec
    /\ IdlePodc \in PodcRec
    /\ NoPolicies \in [Policy -> PolicyRec]
    /\ NoDatas \in [DataName -> DataRec]
    /\ NoPods \in [Pod -> PodRec]
<1>1. NoPolicies \in [Policy -> PolicyRec]
  BY DEF NoPolicies, NoPolicy, PolicyRec
<1>2. NoDatas \in [DataName -> DataRec]
  BY DEF NoDatas, NoData, DataRec
<1>3. NoPods \in [Pod -> PodRec]
  BY DEF NoPods, NoPod, PodRec, Status
<1>4. IdleDisc \in DiscRec
  BY <1>1, <1>3 DEF IdleDisc, DiscRec, DiscPC
<1>5. IdleLoader \in LoaderRec
  BY <1>1, <1>2 DEF IdleLoader, LoaderRec, LoaderPC
<1>6. IdlePodc \in PodcRec
  BY <1>2 DEF IdlePodc, PodcRec, PodcPC
<1> QED BY <1>1, <1>2, <1>3, <1>4, <1>5, <1>6

\* The loop control of discover keeps its locals typed.
LEMMA NextTrapType ==
    ASSUME NEW L \in DiscRec, NEW ts \in SUBSET Trap, L.req \in Policy
    PROVE  NextTrap(L, ts) \in DiscRec /\ DiscOK(NextTrap(L, ts))
BY ZenonT(30), IdleType DEF NextTrap, DiscRec, DiscPC, DiscOK

\* And so does its inner loop.
LEMMA NextContainerType ==
    ASSUME NEW L \in DiscRec, NEW ps \in SUBSET Pod, L.req \in Policy,
           L.trap \in Trap, \A p \in ps : PodOK(L.podsnap[p])
    PROVE  NextContainer(L, ps) \in DiscRec /\ DiscOK(NextContainer(L, ps))
<1>1. CASE ps = {}
  BY <1>1, NextTrapType DEF NextContainer, DiscRec
<1>2. CASE ps # {}
  BY <1>2 DEF NextContainer, DiscRec, DiscPC, DiscOK
<1> QED BY <1>1, <1>2

-----------------------------------------------------------------------------
(* The steps *)

\* Every step of a discover reconcile keeps the cluster and the locals typed.
LEMMA DiscoverType ==
    ASSUME ClusterTypeOK, DiscoverTypeOK, NEW n \in Node, DiscoverNext(n)
    PROVE  ClusterTypeOK' /\ DiscoverTypeOK'
<1> USE ClusterAssumption
<1> DEFINE BudgetType == [user: Nat, pods: Nat, faults: Nat, crashes: Nat]
<1>a. disc[n] \in DiscRec /\ DiscOK(disc[n])
  BY DEF DiscoverTypeOK
<1>b. ASSUME NEW L \in DiscRec, DiscOK(L), disc' = [disc EXCEPT ![n] = L]
      PROVE  DiscoverTypeOK'
  BY <1>b DEF DiscoverTypeOK
<1>c. ASSUME DiscoverReturn(n) PROVE DiscoverTypeOK'
  BY <1>b, <1>c, IdleType DEF DiscoverReturn, DiscOK, IdleDisc
<1>d. ASSUME disc[n].pc # "idle", DiscoverReturnRequeue(n)
      PROVE  DiscoverTypeOK' /\ dq' \in [Node -> SUBSET Policy]
  BY <1>a, <1>c, <1>d DEF DiscoverReturnRequeue, DiscOK, ClusterTypeOK
<1>1. CASE DiscoverStart(n)
  <2> PICK r \in dq[n] :
        /\ dq' = [dq EXCEPT ![n] = @ \ {r}]
        /\ disc' = [disc EXCEPT ![n] =
                      [disc[n] EXCEPT !.pc = "policies", !.req = r, !.snap = policies,
                                !.todo = {p \in ExistingPolicies :
                                            policies[p].deleting => policies[p].fin}]]
    BY <1>1 DEF DiscoverStart
  <2> DEFINE L == [disc[n] EXCEPT !.pc = "policies", !.req = r, !.snap = policies,
                       !.todo = {p \in ExistingPolicies :
                                   policies[p].deleting => policies[p].fin}]
  <2>1. r \in Policy /\ dq' \in [Node -> SUBSET Policy]
    BY DEF ClusterTypeOK
  <2>2. L \in DiscRec /\ DiscOK(L)
    BY <1>a, <2>1 DEF ClusterTypeOK, DiscRec, DiscPC, DiscOK, ExistingPolicies
  <2>3. disc' = [disc EXCEPT ![n] = L]
    OBVIOUS
  <2>4. DiscoverTypeOK'
    BY <2>2, <2>3, <1>b
  <2> QED BY <1>1, <2>1, <2>4 DEF DiscoverStart, ClusterTypeOK
<1>2. CASE DiscoverRemoveFinalizer(n) \/ DiscoverAddFinalizer(n)
  <2> PICK p \in disc[n].todo, f \in BOOLEAN :
        \/ /\ SetPolicy(p, PatchedPolicy(p, f))
           /\ DiscoverReturn(n)
           /\ UNCHANGED budget
        \/ /\ FailsIf(~policies[p].exists)
           /\ DiscoverReturnRequeue(n)
           /\ UNCHANGED <<policies, pstamp>>
    BY <1>2 DEF DiscoverRemoveFinalizer, DiscoverAddFinalizer
  <2>1. p \in Policy /\ disc[n].pc # "idle"
    BY <1>a, <1>2 DEF DiscRec, DiscoverRemoveFinalizer, DiscoverAddFinalizer
  <2>2. UNCHANGED <<data, pods, dstamp, dirty, pq>>
    BY <1>2 DEF DiscoverRemoveFinalizer, DiscoverAddFinalizer
  <2>3. CASE SetPolicy(p, PatchedPolicy(p, f)) /\ DiscoverReturn(n) /\ UNCHANGED budget
    BY <1>c, <2>1, <2>2, <2>3, SetPolicyType, PolicyRecType DEF ClusterTypeOK
  <2>4. CASE /\ FailsIf(~policies[p].exists)
             /\ DiscoverReturnRequeue(n)
             /\ UNCHANGED <<policies, pstamp>>
    <3>1. budget' \in BudgetType
      BY <2>4, FaultType
    <3> QED BY <1>d, <2>1, <2>2, <2>4, <3>1 DEF ClusterTypeOK
  <2> QED BY <2>3, <2>4
<1>3. CASE DiscoverVisitPolicy(n)
  <2> PICK p \in disc[n].todo :
        disc' = [disc EXCEPT ![n] =
                   NextTrap([disc[n] EXCEPT !.todo = disc[n].todo \ {p}, !.pol = p], disc[n].snap[p].traps)]
    BY <1>3 DEF DiscoverVisitPolicy
  <2> DEFINE L == [disc[n] EXCEPT !.todo = disc[n].todo \ {p}, !.pol = p]
  <2>1. L \in DiscRec /\ L.req \in Policy /\ disc[n].snap[p].traps \in SUBSET Trap
    BY <1>a, <1>3 DEF DiscRec, DiscOK, DiscoverVisitPolicy, PolicyRec
  <2>2. NextTrap(L, disc[n].snap[p].traps) \in DiscRec
        /\ DiscOK(NextTrap(L, disc[n].snap[p].traps))
    BY <2>1, NextTrapType
  <2>3. disc' = [disc EXCEPT ![n] = NextTrap(L, disc[n].snap[p].traps)]
    OBVIOUS
  <2>4. DiscoverTypeOK'
    BY <1>b, <2>2, <2>3
  <2> QED BY <1>3, <2>4 DEF DiscoverVisitPolicy, clusterVars, ClusterTypeOK
<1>4. CASE DiscoverListPods(n)
  <2> PICK t \in disc[n].traps :
        LET L == [disc[n] EXCEPT !.traps = disc[n].traps \ {t}, !.trap = t, !.podsnap = pods]
            Selected == Selects[t] \cap ExistingPods
            Pending  == {p \in Selected : pods[p].status = "Pending"}
        IN  \/ /\ \E S \in SUBSET Pending :
                    disc' = [disc EXCEPT ![n] = NextContainer(L, Selected \ S)]
               /\ UNCHANGED budget
            \/ /\ Fault
               /\ disc' = [disc EXCEPT ![n] = NextTrap(L, L.traps)]
    BY <1>4 DEF DiscoverListPods
  <2> DEFINE L == [disc[n] EXCEPT !.traps = disc[n].traps \ {t}, !.trap = t, !.podsnap = pods]
             Selected == Selects[t] \cap ExistingPods
             Pending  == {p \in Selected : pods[p].status = "Pending"}
  <2>1. t \in Trap /\ disc[n].req \in Policy
    BY <1>a, <1>4 DEF DiscRec, DiscOK, DiscoverListPods
  <2>2. L \in DiscRec /\ L.req \in Policy /\ L.trap \in Trap /\ L.traps \in SUBSET Trap
    BY <1>a, <2>1 DEF DiscRec, ClusterTypeOK
  <2>3. \A p \in Pod : PodOK(L.podsnap[p])
    BY <1>a DEF DiscRec, ClusterTypeOK
  <2>4. Selected \in SUBSET Pod
    BY DEF ExistingPods
  <2>5. UNCHANGED <<policies, data, pods, pstamp, dstamp, dq, dirty, pq>>
    BY <1>4 DEF DiscoverListPods
  <2>6. budget' \in BudgetType
    BY FaultType DEF ClusterTypeOK
  <2>7. ClusterTypeOK'
    BY <2>5, <2>6 DEF ClusterTypeOK
  <2>8. CASE \E S \in SUBSET Pending :
               disc' = [disc EXCEPT ![n] = NextContainer(L, Selected \ S)]
    <3> PICK S \in SUBSET Pending :
               disc' = [disc EXCEPT ![n] = NextContainer(L, Selected \ S)]
      BY <2>8
    <3> HIDE DEF L, Selected, Pending
    <3>1. /\ NextContainer(L, Selected \ S) \in DiscRec
          /\ DiscOK(NextContainer(L, Selected \ S))
      BY <2>2, <2>3, <2>4, NextContainerType
    <3> QED BY <1>b, <2>7, <3>1
  <2>9. CASE disc' = [disc EXCEPT ![n] = NextTrap(L, L.traps)]
    <3> HIDE DEF L
    <3>1. NextTrap(L, L.traps) \in DiscRec /\ DiscOK(NextTrap(L, L.traps))
      BY <2>2, NextTrapType
    <3> QED BY <1>b, <2>7, <2>9, <3>1
  <2> QED BY <2>8, <2>9
<1>5. CASE DiscoverRequeue(n)
  <2>1. disc[n].pc # "idle" /\ DiscoverReturnRequeue(n)
    BY <1>5 DEF DiscoverRequeue
  <2> QED BY <1>5, <1>d, <2>1 DEF DiscoverRequeue, ClusterTypeOK
<1>6. CASE DiscoverInspect(n)
  <2> PICK p \in disc[n].pods :
        /\ IsMin(p, disc[n].pods)
        /\ disc[n].podsnap[p].status = "Running"
        /\ FileFound(n, disc[n].trap, p, disc[n].podsnap[p].inst) # 0
        /\ disc' = [disc EXCEPT ![n] = [disc[n] EXCEPT !.pc = "apply",
              !.key = FileFound(n, disc[n].trap, p, disc[n].podsnap[p].inst)]]
    BY <1>6 DEF DiscoverInspect
  <2> DEFINE file == FileFound(n, disc[n].trap, p, disc[n].podsnap[p].inst)
             L == [disc[n] EXCEPT !.pc = "apply", !.key = file]
  <2>1. /\ disc[n].trap \in Trap /\ disc[n].req \in Policy /\ p \in Pod
        /\ disc[n].podsnap[p].inst \in Inst
    BY <1>a, <1>6 DEF DiscRec, DiscOK, DiscoverInspect, PodOK
  <2>2. file \in Key
    BY <2>1 DEF FileFound
  <2>3. L \in DiscRec
    BY <1>a, <2>2 DEF DiscRec, DiscPC
  <2>4. ASSUME NEW q \in disc[n].pods, IsMin(q, disc[n].pods)
        PROVE  q = p
    BY <2>4, <1>a DEF IsMin, DiscRec, Pod
  <2>5. DiscOK(L)
    BY <1>a, <1>6, <2>1, <2>2, <2>4 DEF DiscRec, DiscOK, DiscoverInspect
  <2>6. disc' = [disc EXCEPT ![n] = L]
    OBVIOUS
  <2>7. DiscoverTypeOK'
    BY <1>b, <2>3, <2>5, <2>6
  <2> QED BY <1>6, <2>7 DEF DiscoverInspect, clusterVars, ClusterTypeOK
<1>7. CASE DiscoverSkip(n) \/ DiscoverApply(n)
  <2> PICK p \in disc[n].pods :
        disc' = [disc EXCEPT ![n] = NextContainer(disc[n], disc[n].pods \ {p})]
    BY <1>7 DEF DiscoverSkip, DiscoverApply
  <2>1. /\ disc[n].req \in Policy /\ disc[n].trap \in Trap
        /\ disc[n].pods \ {p} \in SUBSET Pod
        /\ \A q \in disc[n].pods \ {p} : PodOK(disc[n].podsnap[q])
    BY <1>a, <1>7 DEF DiscoverSkip, DiscoverApply, DiscRec, DiscOK
  <2>2. /\ NextContainer(disc[n], disc[n].pods \ {p}) \in DiscRec
        /\ DiscOK(NextContainer(disc[n], disc[n].pods \ {p}))
    BY <1>a, <2>1, NextContainerType
  <2>3. DiscoverTypeOK'
    BY <1>b, <2>2
  <2>4. CASE DiscoverSkip(n)
    <3>1. budget' \in BudgetType
      BY <2>4, FaultType DEF DiscoverSkip
    <3> QED BY <2>3, <2>4, <3>1 DEF DiscoverSkip, ClusterTypeOK
  <2>5. CASE DiscoverApply(n)
    <3> DEFINE L == disc[n]
               name(q) == <<L.key, q, L.podsnap[q].inst>>
               rec(q) == [exists |-> TRUE, deleting |-> data[name(q)].deleting,
                          fin |-> TRUE, trap |-> L.trap, policy |-> L.pol,
                          kernel |-> KernelOf[n], ip |-> L.podsnap[q].ip]
    <3> PICK q \in L.pods :
          /\ IsMin(q, L.pods)
          /\ \/ SetData(name(q), rec(q)) /\ UNCHANGED budget
             \/ Fault /\ UNCHANGED <<data, dstamp, dirty>>
      BY <2>5 DEF DiscoverApply
    <3>1. q \in Pod /\ L.key \in Key /\ L.podsnap[q] \in PodRec /\ L.podsnap[q].inst \in Inst
      BY <1>a, <2>5 DEF DiscoverApply, DiscRec, DiscOK, PodOK
    <3>2. name(q) \in DataName
      BY <3>1 DEF DataName
    <3>3. data[name(q)] \in DataRec /\ L.pol \in Policy \cup {0} /\ L.trap \in Trap \cup {0}
      BY <1>a, <3>2 DEF ClusterTypeOK, DiscRec
    <3>4. rec(q) \in DataRec
      BY <3>1, <3>3 DEF DataRec, PodRec
    <3> HIDE DEF name, rec
    <3>5. /\ data' \in [DataName -> DataRec]
          /\ dstamp' \in SUBSET DataName
          /\ dirty' \in [Kernel -> SUBSET DataName]
      BY <3>2, <3>4, SetDataType DEF ClusterTypeOK
    <3>6. budget' \in BudgetType
      BY FaultType DEF ClusterTypeOK
    <3> QED BY <2>3, <2>5, <3>5, <3>6 DEF DiscoverApply, ClusterTypeOK
  <2> QED BY <1>7, <2>4, <2>5
<1>8. CASE DiscoverListData(n)
  <2>1. disc[n].pc # "idle"
        /\ UNCHANGED <<policies, data, pods, pstamp, dstamp, dirty, pq>>
    BY <1>8 DEF DiscoverListData
  <2>2. CASE DiscoverReturn(n) /\ UNCHANGED <<dq, budget>>
    BY <1>c, <2>1, <2>2 DEF ClusterTypeOK
  <2>3. ASSUME NEW d \in ExistingData, UNCHANGED <<dq, budget>>,
               disc' = [disc EXCEPT ![n] = [disc[n] EXCEPT !.pc = "force", !.target = d]]
        PROVE  ClusterTypeOK' /\ DiscoverTypeOK'
    <3> DEFINE L == [disc[n] EXCEPT !.pc = "force", !.target = d]
    <3>1. d \in DataName
      BY DEF ExistingData
    <3>2. L \in DiscRec /\ DiscOK(L)
      BY <1>a, <2>1, <3>1 DEF DiscRec, DiscPC, DiscOK
    <3>3. disc' = [disc EXCEPT ![n] = L]
      BY <2>3
    <3> QED BY <1>b, <2>1, <2>3, <3>2, <3>3 DEF ClusterTypeOK
  <2>4. CASE Fault /\ DiscoverReturnRequeue(n)
    <3>1. budget' \in BudgetType
      BY <2>4, FaultType
    <3> QED BY <1>d, <2>1, <2>4, <3>1 DEF ClusterTypeOK
  <2> QED BY <1>8, <2>2, <2>3, <2>4 DEF DiscoverListData
<1>9. CASE DiscoverForce(n)
  <2>1. disc[n].target \in DataName
    BY <1>9, <1>a DEF DiscoverForce, DiscOK
  <2>2. budget' \in BudgetType
    BY <1>9, FaultType DEF DiscoverForce, ClusterTypeOK
  <2>3. /\ data' \in [DataName -> DataRec]
        /\ dstamp' \in SUBSET DataName
        /\ dirty' \in [Kernel -> SUBSET DataName]
    BY <1>9, <2>1 DEF DiscoverForce, ForceData, ClusterTypeOK
  <2> QED BY <1>9, <1>c, <2>2, <2>3 DEF DiscoverForce, ClusterTypeOK
<1> QED BY <1>1, <1>2, <1>3, <1>4, <1>5, <1>6, <1>7, <1>8, <1>9 DEF DiscoverNext

\* Every step of a loader reconcile keeps the cluster and the locals typed.
LEMMA LoaderType ==
    ASSUME ClusterTypeOK, LoaderTypeOK, NEW k \in Kernel, LoaderNext(k)
    PROVE  ClusterTypeOK' /\ LoaderTypeOK'
<1> DEFINE BudgetType == [user: Nat, pods: Nat, faults: Nat, crashes: Nat]
<1>a. loader[k] \in LoaderRec /\ LoaderOK(loader[k])
  BY DEF LoaderTypeOK
<1>b. ASSUME NEW L \in LoaderRec, LoaderOK(L), loader' = [loader EXCEPT ![k] = L]
      PROVE  loader' \in [Kernel -> LoaderRec] /\ \A j \in Kernel : LoaderOK(loader'[j])
  BY <1>b DEF LoaderTypeOK
<1>c. ASSUME LoaderReturn(k)
      PROVE  loader' \in [Kernel -> LoaderRec] /\ \A j \in Kernel : LoaderOK(loader'[j])
  BY <1>b, <1>c, IdleType DEF LoaderReturn, LoaderOK, IdleLoader
<1>d. ASSUME loader[k].pc # "idle", LoaderReturnRequeue(k)
      PROVE  /\ loader' \in [Kernel -> LoaderRec] /\ \A j \in Kernel : LoaderOK(loader'[j])
             /\ lq' \in [Kernel -> SUBSET DataName]
  BY <1>a, <1>c, <1>d DEF LoaderReturnRequeue, LoaderOK, LoaderTypeOK
<1>e. ASSUME loader[k].pc # "idle", LoaderContinue(k)
      PROVE  loader' \in [Kernel -> LoaderRec] /\ \A j \in Kernel : LoaderOK(loader'[j])
  <2> DEFINE L == [loader[k] EXCEPT !.pc = "data", !.todo = loader[k].todo \ {loader[k].cur},
                                    !.cur = NoName, !.found = FALSE]
  <2>1. L \in LoaderRec /\ LoaderOK(L)
    BY <1>a, <1>e DEF LoaderRec, LoaderPC, LoaderOK
  <2>2. loader' = [loader EXCEPT ![k] = L]
    BY <1>e DEF LoaderContinue
  <2> QED BY <1>b, <2>1, <2>2
<1>f. /\ ListedData(k) \in [DataName -> DataRec]
      /\ ListedPolicies(k) \in [Policy -> PolicyRec]
  BY DEF ListedData, ListedPolicies, ClusterTypeOK, LoaderTypeOK
<1>g. ASSUME NEW d \in DataName, NEW c, StrayIf(c, k, d) PROVE stray' \in [Kernel -> SUBSET Key]
  BY <1>g DEF StrayIf, LoaderTypeOK, DataName, KeyOf
<1>1. CASE LoaderStart(k)
  <2> DEFINE list == ListedData(k)
             Mine == {d \in DataName : list[d].exists /\ list[d].kernel = k}
             L(r) == [loader[k] EXCEPT !.pc = "listed", !.req = r,
                        !.snapD = [d \in DataName |->
                                     IF d \in Mine THEN list[d] ELSE NoData],
                        !.todo = {d \in Mine : list[d].deleting => list[d].fin}]
  <2> PICK r \in lq[k] : /\ lq' = [lq EXCEPT ![k] = @ \ {r}]
                         /\ loader' = [loader EXCEPT ![k] = L(r)]
    BY <1>1 DEF LoaderStart
  <2>1. r \in DataName /\ lq' \in [Kernel -> SUBSET DataName]
    BY DEF LoaderTypeOK
  <2>2. [d \in DataName |-> IF d \in Mine THEN list[d] ELSE NoData] \in [DataName -> DataRec]
    BY <1>f, IdleType DEF NoDatas
  <2>3. L(r) \in LoaderRec /\ LoaderOK(L(r))
    BY <1>a, <2>1, <2>2 DEF LoaderRec, LoaderPC, LoaderOK
  <2> HIDE DEF L
  <2>4. loader' \in [Kernel -> LoaderRec] /\ \A j \in Kernel : LoaderOK(loader'[j])
    BY <1>b, <2>3
  <2> QED BY <1>1, <2>1, <2>4 DEF LoaderStart, LoadEbpf, clusterVars, ClusterTypeOK, LoaderTypeOK
<1>2. CASE LoaderListPolicies(k)
  <2> DEFINE L == [loader[k] EXCEPT !.pc = "data", !.snapP = ListedPolicies(k)]
  <2>1. loader[k].pc = "listed"
    BY <1>2 DEF LoaderListPolicies
  <2>2. L \in LoaderRec /\ LoaderOK(L)
    BY <1>a, <1>f, <2>1 DEF LoaderRec, LoaderPC, LoaderOK
  <2>3. CASE loader' = [loader EXCEPT ![k] = L] /\ UNCHANGED <<lq, budget>>
    <3>1. loader' \in [Kernel -> LoaderRec] /\ \A j \in Kernel : LoaderOK(loader'[j])
      BY <1>b, <2>2, <2>3
    <3> QED BY <1>2, <2>3, <3>1 DEF LoaderListPolicies, ClusterTypeOK, LoaderTypeOK
  <2>4. CASE Fault /\ LoaderReturnRequeue(k)
    <3>1. budget' \in BudgetType
      BY <2>4, FaultType
    <3> QED BY <1>2, <1>d, <2>1, <2>4, <3>1 DEF LoaderListPolicies, ClusterTypeOK, LoaderTypeOK
  <2> QED BY <1>2, <2>3, <2>4 DEF LoaderListPolicies
<1>3. CASE LoaderRemoveInode(k)
  <2> DEFINE L(d) == [loader[k] EXCEPT !.pc = "unfinal", !.cur = d]
  <2> PICK d \in loader[k].todo :
        /\ \/ /\ RemoveInode(k, KeyOf(d))
              /\ StrayIf(Replaced(k, d), k, d)
              /\ UNCHANGED budget
           \/ /\ Fault
              /\ StrayIf(TRUE, k, d)
              /\ UNCHANGED tracedInodes
        /\ loader' = [loader EXCEPT ![k] = L(d)]
    BY <1>3 DEF LoaderRemoveInode
  <2>1. d \in DataName
    BY <1>a DEF LoaderRec
  <2>2. L(d) \in LoaderRec /\ LoaderOK(L(d))
    BY <1>3, <1>a, <2>1 DEF LoaderRemoveInode, LoaderRec, LoaderPC, LoaderOK
  <2>3. tracedInodes' \in [Kernel -> SUBSET Key]
    <3> DEFINE S == tracedInodes[k] \ {KeyOf(d)}
    <3>1. tracedInodes' = tracedInodes \/ tracedInodes' = [tracedInodes EXCEPT ![k] = S]
      BY DEF RemoveInode
    <3>2. S \in SUBSET Key
      BY DEF LoaderTypeOK
    <3> HIDE DEF S
    <3> QED BY <3>1, <3>2 DEF LoaderTypeOK
  <2>4. loader' \in [Kernel -> LoaderRec] /\ \A j \in Kernel : LoaderOK(loader'[j])
    BY <1>b, <2>2
  <2>5. stray' \in [Kernel -> SUBSET Key]
    BY <1>g, <2>1
  <2>6. budget' \in BudgetType
    BY FaultType DEF ClusterTypeOK
  <2> QED BY <1>3, <2>3, <2>4, <2>5, <2>6 DEF LoaderRemoveInode, ClusterTypeOK, LoaderTypeOK
<1>4. CASE LoaderRemoveFinalizer(k) \/ LoaderAddFinalizer(k)
  <2> PICK d \in DataName, f \in BOOLEAN :
        \/ /\ SetData(d, PatchedData(d, f))
           /\ StrayIf(Replaced(k, d), k, d) \/ UNCHANGED stray
           /\ LoaderReturn(k)
           /\ UNCHANGED <<lq, budget>>
        \/ /\ FailsIf(~data[d].exists)
           /\ LoaderReturnRequeue(k)
           /\ UNCHANGED <<data, dstamp, dirty, stray>>
    <3>1. CASE LoaderRemoveFinalizer(k)
      <4>1. loader[k].cur \in DataName
        BY <1>a, <3>1 DEF LoaderRemoveFinalizer, LoaderOK
      <4> QED BY <3>1, <4>1 DEF LoaderRemoveFinalizer
    <3>2. CASE LoaderAddFinalizer(k)
      <4>1. loader[k].todo \subseteq DataName
        BY <1>a DEF LoaderRec
      <4> QED BY <3>2, <4>1 DEF LoaderAddFinalizer
    <3> QED BY <1>4, <3>1, <3>2
  <2>1. /\ loader[k].pc # "idle"
        /\ UNCHANGED <<leader, loaded, tracedInodes, dcache, pcache>>
        /\ UNCHANGED <<policies, pods, pstamp, dq, pq>>
    BY <1>4 DEF LoaderRemoveFinalizer, LoaderAddFinalizer
  <2>2. CASE /\ SetData(d, PatchedData(d, f))
             /\ StrayIf(Replaced(k, d), k, d) \/ UNCHANGED stray
             /\ LoaderReturn(k)
             /\ UNCHANGED <<lq, budget>>
    <3>1. stray' \in [Kernel -> SUBSET Key]
      BY <1>g, <2>2 DEF LoaderTypeOK
    <3>2. PatchedData(d, f) \in DataRec
      BY DataRecType
    <3>3. /\ data' \in [DataName -> DataRec]
          /\ dstamp' \in SUBSET DataName
          /\ dirty' \in [Kernel -> SUBSET DataName]
      BY <2>2, <3>2, SetDataType
    <3> QED BY <1>c, <2>1, <2>2, <3>1, <3>3 DEF ClusterTypeOK, LoaderTypeOK
  <2>3. CASE /\ FailsIf(~data[d].exists)
             /\ LoaderReturnRequeue(k)
             /\ UNCHANGED <<data, dstamp, dirty, stray>>
    <3>1. budget' \in BudgetType
      BY <2>3, FaultType
    <3> QED BY <1>d, <2>1, <2>3, <3>1 DEF ClusterTypeOK, LoaderTypeOK
  <2> QED BY <2>2, <2>3
<1>5. CASE LoaderCheck(k)
  <2> DEFINE L(d, v) == [loader[k] EXCEPT !.pc = "act", !.cur = d, !.found = v]
  <2> PICK d \in loader[k].todo, v \in BOOLEAN :
        /\ UNCHANGED budget \/ Fault
        /\ loader' = [loader EXCEPT ![k] = L(d, v)]
    BY <1>5 DEF LoaderCheck
  <2>1. L(d, v) \in LoaderRec /\ LoaderOK(L(d, v))
    BY <1>5, <1>a DEF LoaderCheck, LoaderRec, LoaderPC, LoaderOK
  <2>2. budget' \in BudgetType
    BY FaultType DEF ClusterTypeOK
  <2>3. loader' \in [Kernel -> LoaderRec] /\ \A j \in Kernel : LoaderOK(loader'[j])
    BY <1>b, <2>1
  <2> QED BY <1>5, <2>2, <2>3 DEF LoaderCheck, ClusterTypeOK, LoaderTypeOK
<1>6. CASE LoaderAddInode(k)
  <2>1. loader[k].pc # "idle" /\ LoaderContinue(k) /\ loader[k].cur \in DataName
    BY <1>6, <1>a DEF LoaderAddInode, AddInode, LoaderOK
  <2>2. tracedInodes' \in [Kernel -> SUBSET Key]
    BY SMTT(30), <1>6, <2>1 DEF LoaderAddInode, AddInode, LoaderTypeOK, DataName, KeyOf
  <2>3. budget' \in BudgetType
    BY <1>6, FaultType DEF LoaderAddInode, AddInode, ClusterTypeOK
  <2> QED BY <1>6, <1>e, <2>1, <2>2, <2>3 DEF LoaderAddInode, AddInode, ClusterTypeOK, LoaderTypeOK
<1>7. CASE LoaderDelete(k)
  <2>1. loader[k].pc # "idle" /\ LoaderContinue(k) /\ loader[k].cur \in DataName
    BY <1>7, <1>a DEF LoaderDelete, LoaderOK
  <2>2. DeletedData(loader[k].cur) \in DataRec
    BY <2>1, DataRecType
  <2>3. /\ data' \in [DataName -> DataRec]
        /\ dstamp' \in SUBSET DataName
        /\ dirty' \in [Kernel -> SUBSET DataName]
    BY <1>7, <2>1, <2>2, SetDataType DEF LoaderDelete, ClusterTypeOK
  <2>4. budget' \in BudgetType
    BY <1>7, FaultType DEF LoaderDelete, ClusterTypeOK
  <2> QED BY <1>7, <1>e, <2>1, <2>3, <2>4 DEF LoaderDelete, ClusterTypeOK, LoaderTypeOK
<1>8. CASE LoaderEnd(k)
  BY <1>8, <1>c DEF LoaderEnd, clusterVars, ClusterTypeOK, LoaderTypeOK
<1> QED BY <1>1, <1>2, <1>3, <1>4, <1>5, <1>6, <1>7, <1>8 DEF LoaderNext

\* Elections and cache updates of the loaders keep everything typed.
LEMMA InformersType ==
    ASSUME ClusterTypeOK, LoaderTypeOK, NEW k \in Kernel,
           (\E n \in Node : Elect(n)) \/ SyncData(k) \/ SyncPolicies(k)
    PROVE  ClusterTypeOK' /\ LoaderTypeOK'
<1> USE ClusterAssumption
<1>1. ASSUME NEW j \in Kernel, CacheData(j)
      PROVE  dcache' \in [Kernel -> [DataName -> DataRec]]
  BY <1>1 DEF CacheData, ClusterTypeOK, LoaderTypeOK
<1>2. ASSUME NEW j \in Kernel, CachePolicies(j)
      PROVE  pcache' \in [Kernel -> [Policy -> PolicyRec]]
  BY <1>2 DEF CachePolicies, ClusterTypeOK, LoaderTypeOK
<1>3. ASSUME NEW n \in Node, Elect(n)
      PROVE  ClusterTypeOK' /\ LoaderTypeOK'
  <2>1. KernelOf[n] \in Kernel
    OBVIOUS
  <2>2. /\ dcache' \in [Kernel -> [DataName -> DataRec]]
        /\ pcache' \in [Kernel -> [Policy -> PolicyRec]]
    BY <1>1, <1>2, <1>3, <2>1 DEF Elect
  <2> QED BY <1>3, <2>1, <2>2 DEF Elect, ExistingData, ClusterTypeOK, LoaderTypeOK
<1>4. CASE SyncData(k)
  BY <1>1, <1>4 DEF SyncData, ClusterTypeOK, LoaderTypeOK
<1>5. CASE SyncPolicies(k)
  BY <1>2, <1>5 DEF SyncPolicies, clusterVars, ClusterTypeOK, LoaderTypeOK
<1> QED BY <1>3, <1>4, <1>5

\* Every step of the pod controller keeps the cluster and its locals typed.
LEMMA PodControllerType ==
    ASSUME ClusterTypeOK, PodTypeOK, PodNext \/ \E n \in Node : ElectPod(n)
    PROVE  ClusterTypeOK' /\ PodTypeOK'
<1> DEFINE BudgetType == [user: Nat, pods: Nat, faults: Nat, crashes: Nat]
<1>a. ASSUME podc.pc # "idle", NEW b, PodReturn(b), UNCHANGED podLeader
      PROVE  PodTypeOK' /\ pq' \in SUBSET Pod
  BY <1>a, IdleType DEF PodReturn, PodTypeOK, IdlePodc, ClusterTypeOK
<1>1. ASSUME NEW n \in Node, ElectPod(n)
      PROVE  ClusterTypeOK' /\ PodTypeOK'
  BY <1>1 DEF ElectPod, ExistingPods, ClusterTypeOK, PodTypeOK
<1>2. CASE PodStart
  <2> DEFINE snap == [d \in DataName |-> IF data[d].kernel = KernelOf[podLeader]
                                         THEN data[d] ELSE NoData]
  <2> PICK r \in pq : /\ pq' = pq \ {r}
                      /\ podc' = [podc EXCEPT !.pc = "listed", !.req = r, !.snap = snap]
    BY <1>2 DEF PodStart
  <2>1. r \in Pod /\ pq' \in SUBSET Pod
    BY DEF ClusterTypeOK
  <2>2. snap \in [DataName -> DataRec]
    BY IdleType DEF ClusterTypeOK, NoDatas
  <2> HIDE DEF snap
  <2>3. PodTypeOK'
    BY <1>2, <2>1, <2>2 DEF PodStart, PodTypeOK, PodcRec, PodcPC
  <2> QED BY <1>2, <2>1, <2>3 DEF PodStart, ClusterTypeOK
<1>3. CASE PodListPods
  <2> DEFINE Listed == {d \in DataName : podc.snap[d].exists}
             Kept   == {d \in Listed : SamePod(podc.snap[d], d)}
             again  == \E d \in Kept : pods[PodOf(d)].status \notin {"Succeeded", "Failed"}
  <2>1. podc.pc = "listed" /\ podc.req \in Pod
    BY <1>3 DEF PodListPods, PodTypeOK
  <2>2. CASE /\ podc' = [podc EXCEPT !.pc = "data", !.snap = NoDatas,
                                     !.doomed = Listed \ Kept, !.requeue = again]
             /\ UNCHANGED <<pq, budget>>
    <3>1. Listed \ Kept \in SUBSET DataName /\ again \in BOOLEAN
      OBVIOUS
    <3> HIDE DEF Listed, Kept, again
    <3>2. podc' \in PodcRec /\ podc'.pc = "data" /\ podc'.req = podc.req
      BY <2>2, <3>1, IdleType DEF PodTypeOK, PodcRec, PodcPC
    <3> QED BY <1>3, <2>1, <2>2, <3>2 DEF PodListPods, PodTypeOK, ClusterTypeOK
  <2>3. CASE Fault /\ PodReturn(TRUE)
    <3>1. budget' \in BudgetType
      BY <2>3, FaultType
    <3> QED BY <1>3, <1>a, <2>1, <2>3, <3>1 DEF PodListPods, ClusterTypeOK
  <2> QED BY <1>3, <2>2, <2>3 DEF PodListPods
<1>4. CASE PodDelete
  <2> PICK d \in podc.doomed :
        /\ \/ data[d].exists /\ SetData(d, DeletedData(d)) /\ UNCHANGED budget
           \/ FailsIf(~data[d].exists) /\ UNCHANGED <<data, dstamp, dirty>>
        /\ podc' = [podc EXCEPT !.doomed = @ \ {d}]
    BY <1>4 DEF PodDelete
  <2>1. d \in DataName
    BY DEF PodTypeOK, PodcRec
  <2>2. DeletedData(d) \in DataRec
    BY <2>1, DataRecType
  <2>3. /\ data' \in [DataName -> DataRec]
        /\ dstamp' \in SUBSET DataName
        /\ dirty' \in [Kernel -> SUBSET DataName]
    BY <2>1, <2>2, SetDataType DEF ClusterTypeOK
  <2>4. budget' \in BudgetType
    BY FaultType DEF ClusterTypeOK
  <2>5. PodTypeOK'
    BY <1>4 DEF PodDelete, PodTypeOK, PodcRec
  <2> QED BY <1>4, <2>3, <2>4, <2>5 DEF PodDelete, ClusterTypeOK
<1>5. CASE PodListPolicies
  <2>1. podc.pc = "data" /\ podc.req \in Pod
    BY <1>5 DEF PodListPolicies, PodTypeOK
  <2>2. CASE PodReturn(podc.requeue) /\ UNCHANGED budget
    BY <1>5, <1>a, <2>1, <2>2 DEF PodListPolicies, ClusterTypeOK
  <2>3. ASSUME NEW p \in ExistingPolicies, UNCHANGED <<pq, budget>>,
               podc' = [podc EXCEPT !.pc = "force", !.target = p]
        PROVE  ClusterTypeOK' /\ PodTypeOK'
    <3>1. podc' \in PodcRec /\ podc'.req = podc.req /\ podc'.target \in Policy
      BY <2>3 DEF PodTypeOK, PodcRec, PodcPC, ExistingPolicies
    <3> QED BY <1>5, <2>1, <2>3, <3>1 DEF PodListPolicies, PodTypeOK, ClusterTypeOK
  <2>4. CASE Fault /\ PodReturn(TRUE)
    <3>1. budget' \in BudgetType
      BY <2>4, FaultType
    <3> QED BY <1>5, <1>a, <2>1, <2>4, <3>1 DEF PodListPolicies, ClusterTypeOK
  <2> QED BY <1>5, <2>2, <2>3, <2>4 DEF PodListPolicies
<1>6. CASE PodForce
  <2>1. podc.pc = "force" /\ podc.target \in Policy
    BY <1>6 DEF PodForce, PodTypeOK
  <2>2. budget' \in BudgetType
    BY <1>6, FaultType DEF PodForce, ClusterTypeOK
  <2>3. /\ policies' \in [Policy -> PolicyRec]
        /\ pstamp' \in SUBSET Policy
        /\ dq' \in [Node -> SUBSET Policy]
    BY <1>6, <2>1 DEF PodForce, ForcePolicy, ClusterTypeOK
  <2>4. PodTypeOK' /\ pq' \in SUBSET Pod
    BY <1>6, <1>a, <2>1 DEF PodForce
  <2> QED BY <1>6, <2>2, <2>3, <2>4 DEF PodForce, ClusterTypeOK
<1> QED BY <1>1, <1>2, <1>3, <1>4, <1>5, <1>6 DEF PodNext

\* So do the user, the kubelets, the clock, the resync and a crash.
LEMMA EnvironmentType ==
    ASSUME TypeOK, Users \/ Kubelets \/ Tick \/ Resync \/ \E n \in Node : Crash(n)
    PROVE  TypeOK'
<1> DEFINE BudgetType == [user: Nat, pods: Nat, faults: Nat, crashes: Nat]
<1>1. ASSUME NEW p \in Policy, NEW rec \in PolicyRec, SetPolicy(p, rec), UserStep
      PROVE  TypeOK'
  <2>1. /\ policies' \in [Policy -> PolicyRec]
        /\ pstamp' \in SUBSET Policy
        /\ dq' \in [Node -> SUBSET Policy]
    BY <1>1, SetPolicyType DEF TypeOK
  <2>2. budget' \in BudgetType
    BY <1>1 DEF UserStep, TypeOK, ClusterTypeOK
  <2> QED BY <1>1, <2>1, <2>2 DEF UserStep, loaderVars, podVars, TypeOK, ClusterTypeOK,
                                   DiscoverTypeOK, LoaderTypeOK, PodTypeOK
<1>2. CASE Users
  <2> PICK p \in Policy : UserCreatePolicy(p) \/ UserUpdatePolicy(p) \/ UserDeletePolicy(p)
    BY <1>2 DEF Users
  <2>1. CASE UserCreatePolicy(p)
    <3> PICK ts \in SUBSET Trap, f \in BOOLEAN :
          SetPolicy(p, [exists |-> TRUE, deleting |-> FALSE, fin |-> f, traps |-> ts])
      BY <2>1 DEF UserCreatePolicy
    <3>1. [exists |-> TRUE, deleting |-> FALSE, fin |-> f, traps |-> ts] \in PolicyRec
      BY DEF PolicyRec
    <3> QED BY <1>1, <2>1, <3>1 DEF UserCreatePolicy
  <2>2. CASE UserUpdatePolicy(p)
    <3> PICK ts \in SUBSET Trap : SetPolicy(p, [policies[p] EXCEPT !.traps = ts])
      BY <2>2 DEF UserUpdatePolicy
    <3>1. [policies[p] EXCEPT !.traps = ts] \in PolicyRec
      BY DEF TypeOK, ClusterTypeOK, PolicyRec
    <3> QED BY <1>1, <2>2, <3>1 DEF UserUpdatePolicy
  <2>3. CASE UserDeletePolicy(p)
    <3>1. DeletedPolicy(p) \in PolicyRec
      BY PolicyRecType DEF TypeOK
    <3> QED BY <1>1, <2>3, <3>1 DEF UserDeletePolicy
  <2> QED BY <2>1, <2>2, <2>3
<1>3. ASSUME NEW p \in Pod, NEW rec \in PodRec, PodOK(rec), SetPod(p, rec)
      PROVE  TypeOK'
  <2>1. pods' \in [Pod -> PodRec] /\ \A q \in Pod : PodOK(pods'[q])
    BY <1>3 DEF SetPod, TypeOK, ClusterTypeOK
  <2>2. budget' \in BudgetType /\ pq' \in SUBSET Pod
    BY <1>3 DEF SetPod, TypeOK, ClusterTypeOK
  <2> QED BY <1>3, <2>1, <2>2 DEF SetPod, loaderVars, podVars, TypeOK, ClusterTypeOK,
                                   DiscoverTypeOK, LoaderTypeOK, PodTypeOK
<1>4. CASE Kubelets
  <2> PICK p \in Pod : \/ CreatePod(p)
                       \/ StartPod(p)
                       \/ RestartContainer(p)
                       \/ ProbePod(p)
                       \/ EndPod(p)
                       \/ RemovePod(p)
    BY <1>4 DEF Kubelets
  <2>1. pods[p] \in PodRec /\ PodOK(pods[p])
    BY DEF TypeOK, ClusterTypeOK
  <2>2. \E rec \in PodRec : PodOK(rec) /\ SetPod(p, rec)
    <3>1. CASE CreatePod(p)
      BY <2>1, <3>1 DEF CreatePod, PodRec, PodOK, Status
    <3>2. CASE StartPod(p)
      <4> PICK a \in IP : SetPod(p, [status |-> "NotReady", inst |-> pods[p].inst + 1,
                                     ip |-> a])
        BY <3>2 DEF StartPod
      <4> DEFINE rec == [status |-> "NotReady", inst |-> pods[p].inst + 1, ip |-> a]
      <4>1. pods[p].inst + 1 \in Inst
        BY <2>1, <3>2, ClusterAssumption DEF StartPod, PodRec, Inst
      <4>2. rec \in PodRec /\ PodOK(rec)
        BY <4>1 DEF PodRec, PodOK, Status
      <4> QED BY <4>2
    <3>3. CASE RestartContainer(p)
      <4> DEFINE rec == [pods[p] EXCEPT !.status = "NotReady", !.inst = pods[p].inst + 1]
      <4>1. pods[p].inst + 1 \in Inst
        BY <2>1, <3>3, ClusterAssumption DEF RestartContainer, PodRec, Inst
      <4>2. rec \in PodRec /\ PodOK(rec)
        BY <2>1, <4>1 DEF PodRec, PodOK, Status
      <4>3. SetPod(p, rec)
        BY <3>3 DEF RestartContainer
      <4> QED BY <4>2, <4>3
    <3>4. CASE ProbePod(p)
      <4> DEFINE s == IF pods[p].status = "Running" THEN "NotReady" ELSE "Running"
                 rec == [pods[p] EXCEPT !.status = s]
      <4>1. rec \in PodRec /\ PodOK(rec)
        BY <2>1, <3>4 DEF ProbePod, PodRec, PodOK, Status
      <4>2. SetPod(p, rec)
        BY <3>4 DEF ProbePod
      <4> QED BY <4>1, <4>2
    <3>5. CASE EndPod(p)
      <4> PICK s \in {"Succeeded", "Failed"} : SetPod(p, [pods[p] EXCEPT !.status = s])
        BY <3>5 DEF EndPod
      <4>1. [pods[p] EXCEPT !.status = s] \in PodRec /\ PodOK([pods[p] EXCEPT !.status = s])
        BY <2>1, <3>5 DEF EndPod, PodRec, PodOK, Status
      <4> QED BY <4>1
    <3>6. CASE RemovePod(p)
      BY <2>1, <3>6 DEF RemovePod, PodRec, PodOK, Status
    <3> QED BY <3>1, <3>2, <3>3, <3>4, <3>5, <3>6
  <2> QED BY <1>3, <2>2
<1>5. CASE Tick
  BY <1>5 DEF Tick, loaderVars, podVars, TypeOK, ClusterTypeOK, DiscoverTypeOK,
              LoaderTypeOK, PodTypeOK
<1>6. CASE Resync
  BY <1>6 DEF Resync, podVars, ExistingPolicies, ExistingPods, TypeOK, ClusterTypeOK,
              DiscoverTypeOK, LoaderTypeOK, PodTypeOK
<1>7. ASSUME NEW n \in Node, Crash(n) PROVE TypeOK'
  <2>1. ClusterTypeOK'
    BY <1>7 DEF Crash, ExistingPolicies, TypeOK, ClusterTypeOK
  <2>2. DiscoverTypeOK'
    BY <1>7, IdleType DEF Crash, TypeOK, DiscoverTypeOK, DiscOK, IdleDisc
  <2>3. LoaderOK(IdleLoader)
    BY DEF LoaderOK, IdleLoader
  <2>4. LoaderTypeOK'
    BY <1>7, <2>3, IdleType DEF Crash, UnloadEbpf, TypeOK, LoaderTypeOK
  <2>5. PodTypeOK'
    <3>1. \/ podLeader' = None /\ podc' = IdlePodc
          \/ UNCHANGED <<podLeader, podc>>
      BY <1>7 DEF Crash
    <3>2. IdlePodc.pc = "idle"
      BY DEF IdlePodc
    <3> QED BY <3>1, <3>2, IdleType DEF TypeOK, PodTypeOK
  <2> QED BY <2>1, <2>2, <2>4, <2>5 DEF TypeOK
<1> QED BY <1>2, <1>4, <1>5, <1>6, <1>7

-----------------------------------------------------------------------------
\* The initial states are typed.
LEMMA InitType == Init => TypeOK
<1> SUFFICES ASSUME Init PROVE TypeOK
  OBVIOUS
<1>1. pods \in [Pod -> PodRec] /\ \A p \in Pod : PodOK(pods[p])
  BY DEF Init, ClusterInit, NoPod, PodRec, PodOK, Status
<1>2. ClusterTypeOK
  BY <1>1, IdleType, ClusterAssumption DEF Init, ClusterInit, ClusterTypeOK
<1>3. DiscoverTypeOK
  BY IdleType DEF Init, DiscoverInit, DiscoverTypeOK, DiscOK, IdleDisc
<1>4. LoaderOK(IdleLoader)
  BY DEF LoaderOK, IdleLoader
<1>5. LoaderTypeOK
  BY <1>4, IdleType DEF Init, LoaderInit, LoaderTypeOK
<1>6. PodTypeOK
  BY IdleType DEF Init, PodInit, PodTypeOK, IdlePodc
<1> QED BY <1>2, <1>3, <1>5, <1>6 DEF TypeOK

\* Every step preserves the types.
LEMMA NextType == TypeOK /\ [Next]_vars => TypeOK'
<1> SUFFICES ASSUME TypeOK, [Next]_vars PROVE TypeOK'
  OBVIOUS
<1> USE DEF TypeOK
<1>1. CASE Discovery
  BY <1>1, DiscoverType DEF Discovery, loaderVars, podVars, LoaderTypeOK, PodTypeOK
<1>2. CASE Loading
  BY <1>2, LoaderType DEF Loading, podVars, DiscoverTypeOK, PodTypeOK
<1>3. CASE Informers
  <2>1. ASSUME NEW n \in Node, Elect(n) PROVE ClusterTypeOK' /\ LoaderTypeOK'
    BY <2>1, InformersType, ClusterAssumption
  <2>2. ASSUME NEW k \in Kernel, SyncData(k) \/ SyncPolicies(k)
        PROVE ClusterTypeOK' /\ LoaderTypeOK'
    BY <2>2, InformersType
  <2> QED BY <1>3, <2>1, <2>2 DEF Informers, podVars, DiscoverTypeOK, PodTypeOK
<1>4. CASE PodHandling
  BY <1>4, PodControllerType DEF PodHandling, loaderVars, DiscoverTypeOK, LoaderTypeOK
<1>5. CASE Users \/ Kubelets \/ Tick \/ Resync \/ \E n \in Node : Crash(n)
  BY <1>5, EnvironmentType
<1>6. CASE UNCHANGED vars
  BY <1>6 DEF vars, ClusterTypeOK, DiscoverTypeOK, LoaderTypeOK, PodTypeOK
<1> QED BY <1>1, <1>2, <1>3, <1>4, <1>5, <1>6 DEF Next

\* Type correctness of the whole operator.
THEOREM TypeCorrect == Spec => []TypeOK
<1>1. Init => TypeOK
  BY InitType
<1>2. TypeOK /\ [Next]_vars => TypeOK'
  BY NextType
<1> QED BY <1>1, <1>2, PTL DEF Spec
=============================================================================
