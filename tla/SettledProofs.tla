----------------------------- MODULE SettledProofs -----------------------------
(***************************************************************************)
(* PolicySettled and DataSettled for every number of nodes, kernels,       *)
(* objects and failures.                                                   *)
(*                                                                         *)
(* The reconciles of discover and of the loader give up after the first    *)
(* finalizer they patch and count on an event to run again. What makes     *)
(* this work is that an event is on its way, or a request queued, for      *)
(* every object that differs from the snapshot of the running reconcile: a *)
(* patch that changes nothing can only have hit an object that changed     *)
(* since the List, and that change is still to be seen.                    *)
(***************************************************************************)
EXTENDS KiveTypeProofs

\* Nothing is left to do for this object.
Tidy(r) == r.exists => r.fin /\ ~r.deleting

-----------------------------------------------------------------------------
(* PolicySettled *)

\* Kubernetes keeps an object that is marked for deletion only while it has a
\* finalizer.
MarkedHasFin == \A p \in Policy : policies[p].deleting => policies[p].exists /\ policies[p].fin

\* Of a running reconcile: every change since its List has queued a request,
\* and what it has passed in the list needs no work.
Queued(n) == \A p \in Policy : policies[p] # disc[n].snap[p] => p \in dq[n]
Passed(n) == \A p \in Policy \ disc[n].todo : Tidy(disc[n].snap[p])

RunningInv(n) == disc[n].pc # "idle" =>
                     /\ Queued(n)
                     /\ Passed(n)
                     /\ disc[n].pc = "force" => disc[n].todo = {}

SettledInv(n) == DiscoverSettled(n) => \A p \in Policy : Tidy(policies[p])

PolicyInv == /\ MarkedHasFin
             /\ \A n \in Node : RunningInv(n) /\ SettledInv(n)

\* It implies the property that the runs check.
LEMMA PolicyInvImplies == PolicyInv => PolicySettled
BY DEF PolicyInv, SettledInv, Tidy, PolicySettled

\* It holds when the operator is installed: there are no policies.
LEMMA PolicyInvInit == Init => PolicyInv
BY DEF Init, ClusterInit, DiscoverInit, IdleDisc, NoPolicies, NoPolicy, PolicyInv,
       MarkedHasFin, RunningInv, SettledInv, Tidy

\* A change of one policy that keeps MarkedHasFin, made by anybody, and seen
\* from a node whose locals stay as they are.
LEMMA SetPolicyKeeps ==
    ASSUME TypeOK, PolicyInv, NEW p \in Policy, NEW rec \in PolicyRec,
           rec.deleting => rec.exists /\ rec.fin, SetPolicy(p, rec),
           NEW n \in Node, disc'[n] = disc[n]
    PROVE  MarkedHasFin' /\ RunningInv(n)' /\ SettledInv(n)'
<1>1. MarkedHasFin'
  BY DEF PolicyInv, MarkedHasFin, SetPolicy, TypeOK, ClusterTypeOK
<1>2. /\ \A q \in Policy : policies'[q] # policies[q] => q \in dq'[n]
      /\ dq[n] \subseteq dq'[n]
  BY DEF SetPolicy, TypeOK, ClusterTypeOK
<1>3. RunningInv(n)'
  BY <1>2 DEF PolicyInv, RunningInv, Queued, Passed
<1>4. SettledInv(n)'
  BY <1>2 DEF PolicyInv, SettledInv, DiscoverSettled
<1> QED BY <1>1, <1>3, <1>4

\* A step that leaves the policies and the locals of n alone and takes nothing
\* out of its queue.
LEMMA FrameKeeps ==
    ASSUME PolicyInv, NEW n \in Node, policies' = policies, disc'[n] = disc[n],
           dq[n] \subseteq dq'[n]
    PROVE  MarkedHasFin' /\ RunningInv(n)' /\ SettledInv(n)'
BY DEF PolicyInv, MarkedHasFin, RunningInv, Queued, Passed, SettledInv, DiscoverSettled

\* Every step of discover on node n preserves the invariant.
LEMMA DiscoverKeeps ==
    ASSUME TypeOK, PolicyInv, NEW n \in Node, DiscoverNext(n)
    PROVE  PolicyInv'
<1> SUFFICES ASSUME NEW m \in Node
             PROVE  MarkedHasFin' /\ RunningInv(m)' /\ SettledInv(m)'
  BY DEF PolicyInv
<1>a. disc[n] \in DiscRec /\ DiscOK(disc[n])
  BY DEF TypeOK, DiscoverTypeOK
<1>b. ASSUME DiscoverReturnRequeue(n), UNCHANGED policies, disc[n].pc # "idle"
      PROVE  MarkedHasFin' /\ RunningInv(m)' /\ SettledInv(m)'
  <2>1. CASE m = n
    BY <1>b, <2>1 DEF DiscoverReturnRequeue, DiscoverReturn, TypeOK, ClusterTypeOK,
         DiscoverTypeOK, PolicyInv, MarkedHasFin, RunningInv, SettledInv,
         DiscoverSettled, IdleDisc
  <2>2. CASE m # n
    BY <1>b, <2>2, FrameKeeps DEF DiscoverReturnRequeue, DiscoverReturn, TypeOK,
         ClusterTypeOK, DiscoverTypeOK
  <2> QED BY <2>1, <2>2
<1>c. ASSUME DiscoverReturn(n), UNCHANGED <<policies, dq>>, disc[n].pc # "idle",
             disc[n].todo = {}
      PROVE  MarkedHasFin' /\ RunningInv(m)' /\ SettledInv(m)'
  <2>1. CASE m = n
    BY <1>c, <2>1 DEF DiscoverReturn, TypeOK, DiscoverTypeOK, PolicyInv, MarkedHasFin,
         RunningInv, Queued, Passed, SettledInv, DiscoverSettled, IdleDisc
  <2>2. CASE m # n
    BY <1>c, <2>2, FrameKeeps DEF DiscoverReturn, TypeOK, DiscoverTypeOK
  <2> QED BY <2>1, <2>2
<1>d. ASSUME NEW L, disc' = [disc EXCEPT ![n] = L], UNCHANGED <<policies, dq>>,
             L.pc \notin {"idle", "force"}, disc[n].pc # "idle",
             L.snap = disc[n].snap, L.todo = disc[n].todo
      PROVE  MarkedHasFin' /\ RunningInv(m)' /\ SettledInv(m)'
  <2>1. CASE m = n
    BY <1>d, <2>1 DEF TypeOK, DiscoverTypeOK, PolicyInv, MarkedHasFin, RunningInv,
         Queued, Passed, SettledInv, DiscoverSettled
  <2>2. CASE m # n
    BY <1>d, <2>2, FrameKeeps DEF TypeOK, DiscoverTypeOK
  <2> QED BY <2>1, <2>2
<1>e. ASSUME NEW L \in DiscRec, NEW ts
      PROVE  /\ NextTrap(L, ts).snap = L.snap /\ NextTrap(L, ts).todo = L.todo
             /\ NextTrap(L, ts).pc \notin {"idle", "force"}
  BY DEF NextTrap, DiscRec
<1>f. ASSUME NEW L \in DiscRec, NEW ps
      PROVE  /\ NextContainer(L, ps).snap = L.snap /\ NextContainer(L, ps).todo = L.todo
             /\ NextContainer(L, ps).pc \notin {"idle", "force"}
  BY <1>e DEF NextContainer, DiscRec
<1>1. CASE DiscoverStart(n)
  <2> PICK r \in dq[n] :
        /\ dq' = [dq EXCEPT ![n] = @ \ {r}]
        /\ disc' = [disc EXCEPT ![n] =
                      [disc[n] EXCEPT !.pc = "policies", !.req = r, !.snap = policies,
                                !.todo = {p \in ExistingPolicies :
                                            policies[p].deleting => policies[p].fin}]]
    BY <1>1 DEF DiscoverStart
  <2>1. policies' = policies
    BY <1>1 DEF DiscoverStart
  <2>2. /\ disc'[n].pc = "policies" /\ disc'[n].snap = policies
        /\ disc'[n].todo = {p \in ExistingPolicies :
                              policies[p].deleting => policies[p].fin}
    BY <1>a DEF TypeOK, DiscoverTypeOK, DiscRec
  <2>3. CASE m = n
    <3>1. RunningInv(n)'
      BY <2>1, <2>2 DEF PolicyInv, MarkedHasFin, RunningInv, Queued, Passed, Tidy,
           ExistingPolicies
    <3>2. SettledInv(n)' /\ MarkedHasFin'
      BY <2>1, <2>2 DEF PolicyInv, MarkedHasFin, SettledInv, DiscoverSettled
    <3> QED BY <2>3, <3>1, <3>2
  <2>4. CASE m # n
    BY <2>1, <2>4, FrameKeeps DEF TypeOK, ClusterTypeOK, DiscoverTypeOK
  <2> QED BY <2>3, <2>4
<1>2. CASE DiscoverRemoveFinalizer(n) \/ DiscoverAddFinalizer(n)
  <2> PICK p \in disc[n].todo, f \in BOOLEAN :
        /\ \/ disc[n].snap[p].deleting /\ ~f
           \/ ~disc[n].snap[p].fin /\ f
        /\ \/ /\ policies[p].exists
              /\ SetPolicy(p, PatchedPolicy(p, f))
              /\ DiscoverReturn(n)
           \/ /\ DiscoverReturnRequeue(n)
              /\ UNCHANGED policies
    BY <1>2 DEF DiscoverRemoveFinalizer, DiscoverAddFinalizer
  <2>1. p \in Policy /\ disc[n].pc # "idle"
    BY <1>a, <1>2 DEF DiscRec, DiscoverRemoveFinalizer, DiscoverAddFinalizer
  <2>2. CASE DiscoverReturnRequeue(n) /\ UNCHANGED policies
    BY <1>b, <2>1, <2>2
  <2>3. CASE /\ policies[p].exists
             /\ SetPolicy(p, PatchedPolicy(p, f))
             /\ DiscoverReturn(n)
    <3> DEFINE rec == PatchedPolicy(p, f)
    <3>1. rec \in PolicyRec
      BY <2>1, PolicyRecType DEF TypeOK
    <3>2. rec.deleting => rec.exists /\ rec.fin
      BY <2>1, <2>3 DEF PatchedPolicy, NoPolicy, PolicyInv, MarkedHasFin, TypeOK,
           ClusterTypeOK, PolicyRec
    <3>3. CASE m # n
      <4>1. disc'[m] = disc[m]
        BY <2>3, <3>3 DEF DiscoverReturn, TypeOK, DiscoverTypeOK
      <4> QED BY <2>1, <2>3, <3>1, <3>2, <4>1, SetPolicyKeeps
    <3>4. CASE m = n
      \* Either the patch changes the policy, or it already did change.
      <4>1. rec = policies[p] => disc[n].snap[p] # policies[p]
        BY <2>1, <2>3 DEF PatchedPolicy, NoPolicy, TypeOK, ClusterTypeOK, PolicyRec
      <4>2. p \in dq'[n]
        BY <2>1, <2>3, <4>1 DEF SetPolicy, PolicyInv, RunningInv, Queued, TypeOK,
             ClusterTypeOK
      <4>3. MarkedHasFin'
        BY <2>1, <2>3, <3>1, <3>2 DEF PolicyInv, MarkedHasFin, SetPolicy, TypeOK,
             ClusterTypeOK
      <4>4. disc'[n].pc = "idle"
        BY <2>3 DEF DiscoverReturn, IdleDisc, TypeOK, DiscoverTypeOK
      <4> QED BY <3>4, <4>2, <4>3, <4>4 DEF RunningInv, SettledInv, DiscoverSettled
    <3> QED BY <3>3, <3>4
  <2> QED BY <2>2, <2>3
<1>3. CASE DiscoverVisitPolicy(n)
  <2> DEFINE L(p) == [disc[n] EXCEPT !.todo = disc[n].todo \ {p}, !.pol = p]
  <2> PICK p \in disc[n].todo :
        /\ ~disc[n].snap[p].deleting /\ disc[n].snap[p].fin
        /\ disc' = [disc EXCEPT ![n] = NextTrap(L(p), disc[n].snap[p].traps)]
    BY <1>3 DEF DiscoverVisitPolicy
  <2>1. /\ p \in Policy /\ disc[n].pc = "policies"
        /\ policies' = policies /\ dq' = dq
    BY <1>a, <1>3 DEF DiscRec, DiscoverVisitPolicy, clusterVars
  <2>2. /\ L(p) \in DiscRec
        /\ L(p).snap = disc[n].snap /\ L(p).todo = disc[n].todo \ {p}
    BY <1>a, <2>1 DEF DiscRec
  <2> HIDE DEF L
  <2>3. /\ disc'[n].snap = disc[n].snap /\ disc'[n].todo = disc[n].todo \ {p}
        /\ disc'[n].pc \notin {"idle", "force"}
    BY <2>2, <1>e DEF TypeOK, DiscoverTypeOK
  <2>4. CASE m = n
    BY <2>1, <2>3, <2>4 DEF PolicyInv, MarkedHasFin, RunningInv, Queued, Passed, Tidy,
         SettledInv, DiscoverSettled
  <2>5. CASE m # n
    BY <2>1, <2>5, FrameKeeps DEF TypeOK, DiscoverTypeOK
  <2> QED BY <2>4, <2>5
<1>4. CASE DiscoverListPods(n)
  <2> DEFINE L(t) == [disc[n] EXCEPT !.traps = disc[n].traps \ {t}, !.trap = t,
                                     !.podsnap = pods]
  <2> PICK t \in disc[n].traps :
        \/ \E ps \in SUBSET Pod : disc' = [disc EXCEPT ![n] = NextContainer(L(t), ps)]
        \/ disc' = [disc EXCEPT ![n] = NextTrap(L(t), L(t).traps)]
    BY <1>4 DEF DiscoverListPods, ExistingPods
  <2>1. disc[n].pc # "idle" /\ UNCHANGED <<policies, dq>>
    BY <1>4 DEF DiscoverListPods
  <2>2. /\ L(t) \in DiscRec
        /\ L(t).snap = disc[n].snap /\ L(t).todo = disc[n].todo
    BY <1>a DEF DiscRec, TypeOK, ClusterTypeOK
  <2> HIDE DEF L
  <2> QED BY <1>d, <1>e, <1>f, <2>1, <2>2
<1>5. CASE DiscoverRequeue(n)
  BY <1>b, <1>5 DEF DiscoverRequeue
<1>6. CASE DiscoverInspect(n)
  <2> DEFINE L(f) == [disc[n] EXCEPT !.pc = "apply", !.key = f]
  <2> PICK f : disc' = [disc EXCEPT ![n] = L(f)]
    BY <1>6 DEF DiscoverInspect
  <2>1. disc[n].pc # "idle" /\ UNCHANGED <<policies, dq>>
    BY <1>6 DEF DiscoverInspect, clusterVars
  <2>2. /\ L(f).pc = "apply"
        /\ L(f).snap = disc[n].snap /\ L(f).todo = disc[n].todo
    BY <1>a DEF DiscRec
  <2> HIDE DEF L
  <2> QED BY <1>d, <2>1, <2>2
<1>7. CASE DiscoverSkip(n) \/ DiscoverApply(n)
  <2> PICK ps : disc' = [disc EXCEPT ![n] = NextContainer(disc[n], ps)]
    BY <1>7 DEF DiscoverSkip, DiscoverApply
  <2>1. disc[n].pc # "idle" /\ UNCHANGED <<policies, dq>>
    BY <1>7 DEF DiscoverSkip, DiscoverApply
  <2> QED BY <1>a, <1>d, <1>f, <2>1
<1>8. CASE DiscoverListData(n)
  <2>1. disc[n].pc # "idle" /\ disc[n].todo = {} /\ UNCHANGED policies
    BY <1>8 DEF DiscoverListData
  <2>2. CASE DiscoverReturn(n) /\ UNCHANGED dq
    BY <1>c, <2>1, <2>2
  <2>3. ASSUME NEW d, UNCHANGED dq,
               disc' = [disc EXCEPT ![n] = [disc[n] EXCEPT !.pc = "force", !.target = d]]
        PROVE  MarkedHasFin' /\ RunningInv(m)' /\ SettledInv(m)'
    <3>1. /\ disc'[n].pc = "force"
          /\ disc'[n].snap = disc[n].snap /\ disc'[n].todo = disc[n].todo
      BY <1>a, <2>3 DEF DiscRec, TypeOK, DiscoverTypeOK
    <3>2. CASE m = n
      BY <2>1, <2>3, <3>1, <3>2 DEF PolicyInv, MarkedHasFin, RunningInv, Queued, Passed,
           SettledInv, DiscoverSettled
    <3>3. CASE m # n
      BY <2>1, <2>3, <3>3, FrameKeeps DEF TypeOK, DiscoverTypeOK
    <3> QED BY <3>2, <3>3
  <2>4. CASE DiscoverReturnRequeue(n)
    BY <1>b, <2>1, <2>4
  <2> QED BY <1>8, <2>2, <2>3, <2>4 DEF DiscoverListData
<1>9. CASE DiscoverForce(n)
  <2>1. disc[n].pc = "force" /\ DiscoverReturn(n) /\ UNCHANGED <<policies, dq>>
    BY <1>9 DEF DiscoverForce
  <2>2. disc[n].todo = {}
    BY <2>1 DEF PolicyInv, RunningInv
  <2> QED BY <1>c, <2>1, <2>2
<1> QED BY <1>1, <1>2, <1>3, <1>4, <1>5, <1>6, <1>7, <1>8, <1>9 DEF DiscoverNext

\* Every step of the system preserves the invariant.
LEMMA PolicyInvNext == TypeOK /\ PolicyInv /\ [Next]_vars => PolicyInv'
<1> SUFFICES ASSUME TypeOK, PolicyInv, [Next]_vars PROVE PolicyInv'
  OBVIOUS
<1>a. ASSUME UNCHANGED <<policies, disc>>, \A n \in Node : dq[n] \subseteq dq'[n]
      PROVE  PolicyInv'
  <2> SUFFICES ASSUME NEW n \in Node
               PROVE  MarkedHasFin' /\ RunningInv(n)' /\ SettledInv(n)'
    BY <1>a DEF PolicyInv, MarkedHasFin
  <2> QED BY <1>a, FrameKeeps
<1>b. ASSUME NEW p \in Policy, NEW rec \in PolicyRec, SetPolicy(p, rec), UserStep,
             rec.deleting => rec.exists /\ rec.fin
      PROVE  PolicyInv'
  <2>1. ASSUME NEW n \in Node PROVE RunningInv(n)' /\ SettledInv(n)'
    BY <1>b, SetPolicyKeeps DEF UserStep
  <2>2. MarkedHasFin'
    BY <1>b DEF PolicyInv, MarkedHasFin, SetPolicy, TypeOK, ClusterTypeOK
  <2> QED BY <2>1, <2>2 DEF PolicyInv
<1>1. CASE Discovery
  BY <1>1, DiscoverKeeps DEF Discovery
<1>2. CASE Loading
  <2> PICK k \in Kernel : LoaderNext(k) /\ UNCHANGED disc
    BY <1>2 DEF Loading
  <2>1. UNCHANGED <<policies, dq>>
    BY DEF LoaderNext, LoaderStart, LoaderListPolicies, LoaderRemoveInode, RemoveInode,
         LoaderRemoveFinalizer, LoaderAddFinalizer, LoaderCheck, LoaderAddInode, AddInode,
         LoaderDelete, LoaderEnd, clusterVars
  <2> QED BY <1>a, <2>1
<1>3. CASE Informers
  BY <1>3, <1>a DEF Informers, Elect, SyncData, SyncPolicies, clusterVars
<1>4. CASE PodHandling
  <2>1. UNCHANGED <<policies, disc>>
    BY <1>4 DEF PodHandling, PodNext, ElectPod, PodStart, PodListPods, PodDelete,
         PodListPolicies, PodForce, ForcePolicy
  <2>2. \A n \in Node : dq[n] \subseteq dq'[n]
    BY <1>4 DEF PodHandling, PodNext, ElectPod, PodStart, PodListPods, PodDelete,
         PodListPolicies, PodForce, ForcePolicy, TypeOK, ClusterTypeOK
  <2> QED BY <1>a, <2>1, <2>2
<1>5. CASE Users
  <2> PICK p \in Policy : UserCreatePolicy(p) \/ UserUpdatePolicy(p) \/ UserDeletePolicy(p)
    BY <1>5 DEF Users
  <2>1. CASE UserCreatePolicy(p)
    <3> PICK ts \in SUBSET Trap, f \in BOOLEAN :
          SetPolicy(p, [exists |-> TRUE, deleting |-> FALSE, fin |-> f, traps |-> ts])
      BY <2>1 DEF UserCreatePolicy
    <3> DEFINE rec == [exists |-> TRUE, deleting |-> FALSE, fin |-> f, traps |-> ts]
    <3>1. rec \in PolicyRec /\ ~rec.deleting
      BY DEF PolicyRec
    <3> QED BY <1>b, <2>1, <3>1 DEF UserCreatePolicy
  <2>2. CASE UserUpdatePolicy(p)
    <3> PICK ts \in SUBSET Trap : SetPolicy(p, [policies[p] EXCEPT !.traps = ts])
      BY <2>2 DEF UserUpdatePolicy
    <3> DEFINE rec == [policies[p] EXCEPT !.traps = ts]
    <3>1. rec \in PolicyRec /\ (rec.deleting => rec.exists /\ rec.fin)
      BY DEF TypeOK, ClusterTypeOK, PolicyRec, PolicyInv, MarkedHasFin
    <3> QED BY <1>b, <2>2, <3>1 DEF UserUpdatePolicy
  <2>3. CASE UserDeletePolicy(p)
    <3> DEFINE rec == DeletedPolicy(p)
    <3>1. rec \in PolicyRec
      BY PolicyRecType DEF TypeOK
    <3>2. rec.deleting => rec.exists /\ rec.fin
      BY <2>3 DEF UserDeletePolicy, DeletedPolicy, NoPolicy, TypeOK, ClusterTypeOK, PolicyRec
    <3> QED BY <1>b, <2>3, <3>1, <3>2 DEF UserDeletePolicy
  <2> QED BY <2>1, <2>2, <2>3
<1>6. CASE Kubelets
  BY <1>6, <1>a DEF Kubelets, CreatePod, StartPod, RestartContainer, ProbePod, EndPod,
       RemovePod, SetPod
<1>7. CASE Tick
  BY <1>7, <1>a DEF Tick
<1>8. CASE Resync
  <2>1. \A n \in Node : dq[n] \subseteq dq'[n]
    BY <1>8 DEF Resync
  <2> QED BY <1>8, <1>a, <2>1 DEF Resync
<1>9. ASSUME NEW n \in Node, Crash(n) PROVE PolicyInv'
  <2> SUFFICES ASSUME NEW m \in Node
               PROVE  MarkedHasFin' /\ RunningInv(m)' /\ SettledInv(m)'
    BY DEF PolicyInv
  <2>1. /\ policies' = policies /\ dq' = [dq EXCEPT ![n] = ExistingPolicies]
        /\ disc' = [disc EXCEPT ![n] = IdleDisc]
    BY <1>9 DEF Crash
  <2>2. CASE m = n
    <3>1. disc'[n].pc = "idle" /\ dq'[n] = ExistingPolicies
      BY <2>1 DEF IdleDisc, TypeOK, DiscoverTypeOK, ClusterTypeOK
    <3> QED BY <2>1, <2>2, <3>1 DEF PolicyInv, MarkedHasFin, RunningInv, SettledInv,
              DiscoverSettled, Tidy, ExistingPolicies
  <2>3. CASE m # n
    BY <2>1, <2>3, FrameKeeps DEF TypeOK, DiscoverTypeOK, ClusterTypeOK
  <2> QED BY <2>2, <2>3
<1>10. CASE UNCHANGED vars
  BY <1>10, <1>a DEF vars
<1> QED BY <1>1, <1>2, <1>3, <1>4, <1>5, <1>6, <1>7, <1>8, <1>9, <1>10 DEF Next

\* A settled discover controller leaves no policy without its finalizer or
\* half deleted, whatever the nodes, the faults and the crashes.
THEOREM PolicySettledCorrect == Spec => []PolicySettled
<1>1. Init => TypeOK /\ PolicyInv
  BY InitType, PolicyInvInit
<1>2. TypeOK /\ PolicyInv /\ [Next]_vars => (TypeOK /\ PolicyInv)'
  BY NextType, PolicyInvNext
<1>3. PolicyInv => PolicySettled
  BY PolicyInvImplies
<1> QED BY <1>1, <1>2, <1>3, PTL DEF Spec

-----------------------------------------------------------------------------
(* DataSettled, with informer caches that lag behind or not *)

\* The KiveData f, those stored or those in a cache: the marked ones have their
\* finalizer.
MarkedDataHasFin(f) == \A d \in DataName : f[d].deleting => f[d].exists /\ f[d].fin

\* What a List with the label of kernel k shows of a KiveData.
View(k, r) == IF r.exists /\ r.kernel = k THEN r ELSE NoData

\* Only the holder of the lease runs a reconcile. What its cache does not show
\* yet is an event on its way.
LeaseInv(k) ==
    /\ leader[k] = None => loader[k].pc = "idle"
    /\ leader[k] # None /\ ~FreshCaches =>
         \A d \in DataName : dcache[k][d] # data[d] => d \in dirty[k]
    /\ MarkedDataHasFin(dcache[k])

\* Of a running reconcile: every change since its List is an event or a
\* request, and what it has passed in the list, or is about to act on, needs no
\* work on its finalizer.
Pending(k) == \A d \in DataName :
                 View(k, data[d]) # loader[k].snapD[d] => d \in dirty[k] \cup lq[k]
Visited(k) == /\ \A d \in DataName \ loader[k].todo : Tidy(loader[k].snapD[d])
              /\ \A d \in loader[k].todo : loader[k].snapD[d].exists
ActsOn(k)  == LET d == loader[k].cur IN
              /\ loader[k].pc = "unfinal" => /\ d \in loader[k].todo
                                             /\ loader[k].snapD[d].deleting
              /\ loader[k].pc = "act" => Tidy(loader[k].snapD[d])

LoadingInv(k) == loader[k].pc # "idle" => Pending(k) /\ Visited(k) /\ ActsOn(k)

LoadedInv(k) == LoaderSettled(k) => \A d \in DataName : Tidy(View(k, data[d]))

KernelSettles(k) == LeaseInv(k) /\ LoadingInv(k) /\ LoadedInv(k)

DataInv == MarkedDataHasFin(data) /\ \A k \in Kernel : KernelSettles(k)

\* It implies the property that the runs check.
LEMMA DataInvImplies == DataInv => DataSettled
BY DEF DataInv, KernelSettles, LoadedInv, Tidy, View, DataSettled

\* It holds when the operator is installed: there are no KiveData.
LEMMA DataInvInit == Init => DataInv
BY DEF Init, ClusterInit, LoaderInit, IdleLoader, NoDatas, NoData, DataInv, KernelSettles,
       LeaseInv, LoadingInv, LoadedInv, LoaderSettled, MarkedDataHasFin

-----------------------------------------------------------------------------
\* Every change of a KiveData is an event for kernel k, and none is lost.
Events(k) == /\ \A d \in DataName : data'[d] # data[d] => d \in dirty'[k]
             /\ dirty[k] \subseteq dirty'[k]

\* A write of one KiveData has this effect.
LEMMA SetDataEvents ==
    ASSUME TypeOK, NEW d \in DataName, NEW rec, SetData(d, rec), NEW k \in Kernel
    PROVE  Events(k)
BY DEF SetData, Events, TypeOK, ClusterTypeOK

\* A write keeps the marked KiveData with their finalizer if the written one is.
LEMMA SetDataMarked ==
    ASSUME TypeOK, MarkedDataHasFin(data), NEW d \in DataName, NEW rec, SetData(d, rec),
           rec.deleting => rec.exists /\ rec.fin
    PROVE  MarkedDataHasFin(data')
BY DEF SetData, MarkedDataHasFin, TypeOK, ClusterTypeOK

\* So are deletions and patches of finalizers.
LEMMA WritesMarked ==
    ASSUME TypeOK, MarkedDataHasFin(data), NEW d \in DataName, data[d].exists, NEW f \in BOOLEAN,
           SetData(d, DeletedData(d)) \/ SetData(d, PatchedData(d, f))
    PROVE  MarkedDataHasFin(data')
<1>1. data[d] \in DataRec /\ (data[d].deleting => data[d].fin)
  BY DEF TypeOK, ClusterTypeOK, MarkedDataHasFin
<1> DEFINE Fine(r) == r.deleting => r.exists /\ r.fin
<1>2. /\ Fine(NoData)
      /\ data[d].fin => Fine([data[d] EXCEPT !.deleting = TRUE])
      /\ ~data[d].deleting \/ f => Fine([data[d] EXCEPT !.fin = f])
  BY <1>1 DEF NoData, DataRec
<1> HIDE DEF Fine
<1>3. Fine(DeletedData(d)) /\ Fine(PatchedData(d, f))
  BY <1>2 DEF DeletedData, PatchedData
<1> QED BY <1>3, SetDataMarked DEF Fine

\* A step that leaves the loader, its lease and its cache alone, takes no
\* request from its queue and announces what it changes.
LEMMA KernelFrame ==
    ASSUME TypeOK, NEW k \in Kernel, KernelSettles(k), Events(k), lq[k] \subseteq lq'[k],
           loader'[k] = loader[k], leader'[k] = leader[k], dcache'[k] = dcache[k]
    PROVE  KernelSettles(k)'
<1>1. LeaseInv(k)'
  BY DEF KernelSettles, LeaseInv, MarkedDataHasFin, Events
<1>2. LoadingInv(k)'
  BY DEF KernelSettles, LoadingInv, Pending, Visited, ActsOn, Events
<1>3. LoadedInv(k)'
  BY DEF KernelSettles, LoadedInv, LoaderSettled, Events
<1> QED BY <1>1, <1>2, <1>3 DEF KernelSettles

-----------------------------------------------------------------------------
(* The steps *)

\* A reconcile that goes on, with its locals L, after a step that takes no
\* request from the queue.
LEMMA LoaderGoesOn ==
    ASSUME TypeOK, NEW k \in Kernel, KernelSettles(k), Events(k), NEW L,
           loader' = [loader EXCEPT ![k] = L], UNCHANGED <<leader, dcache, lq>>,
           loader[k].pc # "idle", L.pc # "idle", L.snapD = loader[k].snapD,
           \A d \in loader[k].todo \ L.todo : Tidy(L.snapD[d]),
           L.todo \subseteq loader[k].todo,
           L.pc = "unfinal" => L.cur \in L.todo /\ L.snapD[L.cur].deleting,
           L.pc = "act" => Tidy(L.snapD[L.cur])
    PROVE  KernelSettles(k)'
<1>1. loader'[k] = L
  BY DEF TypeOK, LoaderTypeOK
<1>2. leader[k] # None /\ Pending(k) /\ Visited(k)
  BY DEF KernelSettles, LeaseInv, LoadingInv
<1>3. LeaseInv(k)'
  BY <1>2 DEF KernelSettles, LeaseInv, MarkedDataHasFin, Events
<1>4. Pending(k)'
  BY <1>1, <1>2 DEF Pending, Events
<1>5. Visited(k)'
  BY <1>1, <1>2 DEF Visited
<1>6. ActsOn(k)'
  BY <1>1 DEF ActsOn
<1>7. LoadedInv(k)'
  BY <1>1 DEF LoadedInv, LoaderSettled
<1> QED BY <1>3, <1>4, <1>5, <1>6, <1>7 DEF KernelSettles, LoadingInv

\* A reconcile that returns with something left to see: an event or a request.
LEMMA LoaderComesBack ==
    ASSUME TypeOK, NEW k \in Kernel, KernelSettles(k), Events(k),
           LoaderReturn(k), UNCHANGED <<leader, dcache>>,
           dirty'[k] \cup lq'[k] # {}
    PROVE  KernelSettles(k)'
<1>1. loader'[k].pc = "idle"
  BY DEF TypeOK, LoaderTypeOK, LoaderReturn, IdleLoader
<1>2. LeaseInv(k)'
  BY <1>1 DEF KernelSettles, LeaseInv, MarkedDataHasFin, Events
<1> QED BY <1>1, <1>2 DEF KernelSettles, LoadingInv, LoadedInv, LoaderSettled

\* A reconcile that has visited the whole list and returns.
LEMMA LoaderComesToItsEnd ==
    ASSUME TypeOK, NEW k \in Kernel, KernelSettles(k), LoaderReturn(k),
           UNCHANGED <<data, dirty, leader, dcache, lq>>,
           loader[k].pc # "idle", loader[k].todo = {}
    PROVE  KernelSettles(k)'
<1>1. loader'[k].pc = "idle"
  BY DEF TypeOK, LoaderTypeOK, LoaderReturn, IdleLoader
<1>2. LeaseInv(k)'
  BY <1>1 DEF KernelSettles, LeaseInv, MarkedDataHasFin
<1>3. Pending(k) /\ \A d \in DataName : Tidy(loader[k].snapD[d])
  BY DEF KernelSettles, LoadingInv, Visited
<1>4. LoadedInv(k)'
  BY <1>3 DEF Pending, LoadedInv, LoaderSettled
<1> QED BY <1>1, <1>2, <1>4 DEF KernelSettles, LoadingInv

\* Every step of the loader of kernel k, seen from its own kernel.
LEMMA LoaderSettles ==
    ASSUME TypeOK, DataInv, NEW k \in Kernel, LoaderNext(k)
    PROVE  MarkedDataHasFin(data') /\ KernelSettles(k)'
<1>a. loader[k] \in LoaderRec /\ LoaderOK(loader[k]) /\ loader \in [Kernel -> LoaderRec]
  BY DEF TypeOK, LoaderTypeOK
<1>b. KernelSettles(k) /\ MarkedDataHasFin(data)
  BY DEF DataInv
<1>c. lq \in [Kernel -> SUBSET DataName] /\ dirty \in [Kernel -> SUBSET DataName]
  BY DEF TypeOK, LoaderTypeOK, ClusterTypeOK
<1>d. UNCHANGED <<data, dirty>> => Events(k) /\ MarkedDataHasFin(data')
  BY <1>b DEF Events
<1>e. UNCHANGED <<leader, dcache>>
  BY DEF LoaderNext, LoaderStart, LoaderListPolicies, LoaderRemoveInode,
       LoaderRemoveFinalizer, LoaderAddFinalizer, LoaderCheck, LoaderAddInode, LoaderDelete,
       LoaderEnd
<1>f. ASSUME UNCHANGED <<data, dirty>>, LoaderReturnRequeue(k)
      PROVE  MarkedDataHasFin(data') /\ KernelSettles(k)'
  <2>1. lq'[k] # {}
    BY <1>c, <1>f DEF LoaderReturnRequeue
  <2> QED BY <1>b, <1>d, <1>e, <1>f, <2>1, LoaderComesBack DEF LoaderReturnRequeue
<1>g. loader[k].pc # "idle" => Pending(k) /\ Visited(k) /\ ActsOn(k)
  BY <1>b DEF KernelSettles, LoadingInv
<1>1. CASE LoaderStart(k)
  \* The List shows what is stored, except for what is an event still.
  <2> DEFINE list == ListedData(k)
             Mine == {d \in DataName : list[d].exists /\ list[d].kernel = k}
             Todo == {d \in Mine : list[d].deleting => list[d].fin}
             Snap == [d \in DataName |-> IF d \in Mine THEN list[d] ELSE NoData]
             L(r) == [loader[k] EXCEPT !.pc = "listed", !.req = r, !.snapD = Snap, !.todo = Todo]
  <2> PICK r \in lq[k] : loader' = [loader EXCEPT ![k] = L(r)]
    BY <1>1 DEF LoaderStart
  <2>1. UNCHANGED <<data, dirty>> /\ leader[k] # None
    BY <1>1 DEF LoaderStart, clusterVars
  <2>2. /\ loader'[k].pc = "listed" /\ loader'[k].snapD = Snap /\ loader'[k].todo = Todo
    BY <1>a DEF LoaderRec
  <2>3. MarkedDataHasFin(list) /\ \A d \in DataName : list[d] # data[d] => d \in dirty[k]
    BY <1>b, <2>1 DEF KernelSettles, LeaseInv, ListedData
  <2> HIDE DEF list
  <2>4. \A d \in DataName : Snap[d] = View(k, list[d])
    BY DEF View
  <2>5. /\ \A d \in DataName \ Todo : Tidy(Snap[d])
        /\ \A d \in Todo : Snap[d].exists
    BY <2>3 DEF Tidy, NoData, MarkedDataHasFin
  <2> HIDE DEF Snap, Todo, L
  <2>6. Pending(k)'
    BY <2>1, <2>2, <2>3, <2>4 DEF Pending
  <2>7. Visited(k)' /\ ActsOn(k)'
    BY <2>2, <2>5 DEF Visited, ActsOn
  <2>8. LeaseInv(k)'
    BY <1>b, <1>e, <2>1 DEF KernelSettles, LeaseInv, MarkedDataHasFin
  <2>9. LoadedInv(k)'
    BY <2>2 DEF LoadedInv, LoaderSettled
  <2> QED BY <1>d, <2>1, <2>6, <2>7, <2>8, <2>9 DEF KernelSettles, LoadingInv
<1>2. CASE LoaderListPolicies(k)
  <2>1. UNCHANGED <<data, dirty>> /\ loader[k].pc = "listed"
    BY <1>2 DEF LoaderListPolicies
  <2> DEFINE L == [loader[k] EXCEPT !.pc = "data", !.snapP = ListedPolicies(k)]
  <2>2. L.pc = "data" /\ L.todo = loader[k].todo /\ L.snapD = loader[k].snapD
    BY <1>a DEF LoaderRec
  <2>3. CASE loader' = [loader EXCEPT ![k] = L] /\ UNCHANGED lq
    <3> HIDE DEF L
    <3> QED BY <1>b, <1>d, <1>e, <2>1, <2>2, <2>3, LoaderGoesOn
  <2> QED BY <1>2, <1>f, <2>1, <2>3 DEF LoaderListPolicies
<1>3. CASE LoaderRemoveInode(k)
  <2> DEFINE L(d) == [loader[k] EXCEPT !.pc = "unfinal", !.cur = d]
  <2> PICK d \in loader[k].todo : /\ loader[k].snapD[d].deleting
                                  /\ loader' = [loader EXCEPT ![k] = L(d)]
    BY <1>3 DEF LoaderRemoveInode
  <2>1. UNCHANGED <<data, dirty, lq>> /\ loader[k].pc = "data"
    BY <1>3 DEF LoaderRemoveInode, clusterVars
  <2>2. /\ L(d).pc = "unfinal" /\ L(d).cur = d
        /\ L(d).todo = loader[k].todo /\ L(d).snapD = loader[k].snapD
    BY <1>a DEF LoaderRec
  <2> HIDE DEF L
  <2> QED BY <1>b, <1>d, <1>e, <2>1, <2>2, LoaderGoesOn
<1>4. CASE LoaderRemoveFinalizer(k) \/ LoaderAddFinalizer(k)
  <2> PICK d \in loader[k].todo, f \in BOOLEAN :
        /\ \/ loader[k].snapD[d].deleting /\ ~f
           \/ ~loader[k].snapD[d].fin /\ f
        /\ \/ /\ data[d].exists /\ SetData(d, PatchedData(d, f))
              /\ LoaderReturn(k) /\ UNCHANGED lq
           \/ LoaderReturnRequeue(k) /\ UNCHANGED <<data, dirty>>
    BY <1>4, <1>g DEF LoaderRemoveFinalizer, LoaderAddFinalizer, ActsOn
  <2>1. d \in DataName /\ loader[k].pc # "idle"
    BY <1>4, <1>a DEF LoaderRec, LoaderRemoveFinalizer, LoaderAddFinalizer
  <2>2. CASE /\ data[d].exists /\ SetData(d, PatchedData(d, f))
             /\ LoaderReturn(k) /\ UNCHANGED lq
    \* Either the patch changes the KiveData, or it already did change.
    <3>1. UNCHANGED lq
      BY <2>2
    <3>2. data[d] \in DataRec /\ loader[k].snapD[d].exists
      BY <1>g, <2>1 DEF TypeOK, ClusterTypeOK, Visited
    <3>3. PatchedData(d, f) = data[d] => loader[k].snapD[d] # View(k, data[d])
      <4>1. CASE data[d].deleting /\ ~f
        BY <2>2, <4>1 DEF PatchedData, NoData
      <4>2. CASE ~(data[d].deleting /\ ~f)
        <5>1. [data[d] EXCEPT !.fin = f].fin = f
          BY <3>2 DEF DataRec
        <5>2. PatchedData(d, f) = data[d] => data[d].fin = f
          BY <4>2, <5>1 DEF PatchedData
        <5>3. View(k, data[d]) = data[d] \/ ~View(k, data[d]).exists
          BY DEF View, NoData
        <5> QED BY <3>2, <4>2, <5>2, <5>3
      <4> QED BY <4>1, <4>2
    <3>4. Events(k)
      BY <2>1, <2>2, SetDataEvents
    <3>5. d \in dirty'[k] \cup lq'[k]
      BY <1>c, <1>g, <2>1, <2>2, <3>1, <3>3, <3>4 DEF SetData, Pending, Events, TypeOK,
           ClusterTypeOK
    <3>6. MarkedDataHasFin(data')
      BY <1>b, <2>1, <2>2, WritesMarked
    <3> QED BY <1>b, <1>e, <2>2, <3>4, <3>5, <3>6, LoaderComesBack
  <2> QED BY <1>f, <2>2
<1>5. CASE LoaderCheck(k)
  <2> DEFINE L(d, v) == [loader[k] EXCEPT !.pc = "act", !.cur = d, !.found = v]
  <2> PICK d \in loader[k].todo, v \in BOOLEAN :
        /\ ~loader[k].snapD[d].deleting /\ loader[k].snapD[d].fin
        /\ loader' = [loader EXCEPT ![k] = L(d, v)]
    BY <1>5 DEF LoaderCheck
  <2>1. UNCHANGED <<data, dirty, lq>> /\ loader[k].pc = "data"
    BY <1>5 DEF LoaderCheck
  <2>2. /\ L(d, v).pc = "act" /\ L(d, v).cur = d
        /\ L(d, v).todo = loader[k].todo /\ L(d, v).snapD = loader[k].snapD
    BY <1>a DEF LoaderRec
  <2> HIDE DEF L
  <2> QED BY <1>b, <1>d, <1>e, <2>1, <2>2, LoaderGoesOn DEF Tidy
<1>6. CASE LoaderAddInode(k) \/ LoaderDelete(k)
  <2> DEFINE d == loader[k].cur
             L == [loader[k] EXCEPT !.pc = "data", !.todo = loader[k].todo \ {d},
                                    !.cur = NoName, !.found = FALSE]
  <2>1. /\ loader[k].pc = "act" /\ d \in DataName
        /\ loader' = [loader EXCEPT ![k] = L] /\ UNCHANGED lq
        /\ \/ data[d].exists /\ SetData(d, DeletedData(d))
           \/ UNCHANGED <<data, dirty>>
    BY <1>6, <1>a DEF LoaderAddInode, LoaderDelete, LoaderContinue, LoaderOK
  <2>2. Tidy(loader[k].snapD[d])
    BY <1>g, <2>1 DEF ActsOn
  <2>3. L.pc = "data" /\ L.todo = loader[k].todo \ {d} /\ L.snapD = loader[k].snapD
    BY <1>a DEF LoaderRec
  <2> HIDE DEF L, d
  <2>4. Events(k) /\ MarkedDataHasFin(data')
    BY <1>b, <1>d, <2>1, SetDataEvents, WritesMarked
  <2> QED BY <1>b, <1>e, <2>1, <2>2, <2>3, <2>4, LoaderGoesOn
<1>7. CASE LoaderEnd(k)
  BY <1>7, <1>b, <1>d, <1>e, LoaderComesToItsEnd DEF LoaderEnd, clusterVars
<1> QED BY <1>1, <1>2, <1>3, <1>4, <1>5, <1>6, <1>7 DEF LoaderNext

\* Every step of the system preserves the invariant.
LEMMA DataInvNext == TypeOK /\ DataInv /\ [Next]_vars => DataInv'
<1> SUFFICES ASSUME TypeOK, DataInv, [Next]_vars PROVE DataInv'
  OBVIOUS
<1> USE ClusterAssumption
\* Seen from a kernel whose loader takes no part.
<1>a. ASSUME NEW k \in Kernel, Events(k), lq[k] \subseteq lq'[k],
             loader'[k] = loader[k], leader'[k] = leader[k], dcache'[k] = dcache[k]
      PROVE  KernelSettles(k)'
  BY <1>a, KernelFrame DEF DataInv
<1>b. ASSUME MarkedDataHasFin(data'), \A k \in Kernel : KernelSettles(k)' PROVE DataInv'
  BY <1>b DEF DataInv, MarkedDataHasFin
<1>c. UNCHANGED data => MarkedDataHasFin(data')
  BY DEF DataInv
<1>d. ASSUME UNCHANGED <<data, loader, leader, dcache>>,
             \A k \in Kernel : dirty[k] \subseteq dirty'[k] /\ lq[k] \subseteq lq'[k]
      PROVE  DataInv'
  BY <1>a, <1>b, <1>c, <1>d DEF Events
<1>e. ASSUME UNCHANGED loaderVars, NEW d \in DataName, NEW rec, SetData(d, rec),
             MarkedDataHasFin(data')
      PROVE  DataInv'
  <2>1. ASSUME NEW k \in Kernel PROVE Events(k)
    BY <1>e, SetDataEvents
  <2> QED BY <1>a, <1>b, <1>e, <2>1 DEF loaderVars
<1>1. CASE Discovery
  <2> PICK n \in Node : DiscoverNext(n) /\ UNCHANGED loaderVars
    BY <1>1 DEF Discovery
  <2>1. CASE DiscoverApply(n)
    <3> DEFINE L == disc[n]
               name(q) == <<L.key, q, L.podsnap[q].inst>>
               rec(q) == [exists |-> TRUE, deleting |-> data[name(q)].deleting,
                          fin |-> TRUE, trap |-> L.trap, policy |-> L.pol,
                          kernel |-> KernelOf[n], ip |-> L.podsnap[q].ip]
    <3> PICK q \in L.pods : \/ IsMin(q, L.pods) /\ SetData(name(q), rec(q))
                            \/ UNCHANGED <<data, dirty>>
      BY <2>1 DEF DiscoverApply
    <3>1. CASE UNCHANGED <<data, dirty>>
      BY <1>d, <3>1 DEF loaderVars
    <3>2. CASE IsMin(q, L.pods) /\ SetData(name(q), rec(q))
      <4>1. q \in Pod /\ L.key \in Key /\ L.podsnap[q].inst \in Inst
        BY <2>1, <3>2 DEF DiscoverApply, TypeOK, DiscoverTypeOK, DiscRec, DiscOK, PodOK
      <4>2. name(q) \in DataName
        BY <4>1 DEF DataName
      <4>3. rec(q).exists /\ rec(q).fin
        OBVIOUS
      <4> HIDE DEF name, rec
      <4>4. MarkedDataHasFin(data')
        BY <3>2, <4>2, <4>3, SetDataMarked DEF DataInv
      <4> QED BY <1>e, <3>2, <4>2, <4>4
    <3> QED BY <3>1, <3>2
  <2>2. CASE DiscoverForce(n)
    <3>1. UNCHANGED data /\ \A k \in Kernel : dirty[k] \subseteq dirty'[k]
      BY <2>2 DEF DiscoverForce, ForceData, TypeOK, ClusterTypeOK
    <3> QED BY <1>d, <3>1 DEF loaderVars
  <2>3. CASE UNCHANGED <<data, dirty>>
    BY <1>d, <2>3 DEF loaderVars
  <2> QED BY <2>1, <2>2, <2>3 DEF DiscoverNext, DiscoverStart, DiscoverRemoveFinalizer,
            DiscoverAddFinalizer, DiscoverVisitPolicy, DiscoverListPods, DiscoverRequeue,
            DiscoverInspect, DiscoverSkip, DiscoverListData, clusterVars
<1>2. CASE Loading
  <2> PICK k \in Kernel : LoaderNext(k)
    BY <1>2 DEF Loading
  <2>1. MarkedDataHasFin(data') /\ KernelSettles(k)'
    BY LoaderSettles
  <2>2. ASSUME NEW j \in Kernel \ {k} PROVE KernelSettles(j)'
    <3>1. UNCHANGED <<leader, dcache>>
      BY DEF LoaderNext, LoaderStart, LoaderListPolicies, LoaderRemoveInode,
           LoaderRemoveFinalizer, LoaderAddFinalizer, LoaderCheck, LoaderAddInode,
           LoaderDelete, LoaderEnd
    <3>2. loader'[j] = loader[j] /\ lq'[j] = lq[j]
      BY DEF LoaderNext, LoaderStart, LoaderListPolicies, LoaderRemoveInode,
           LoaderRemoveFinalizer, LoaderAddFinalizer, LoaderCheck, LoaderAddInode,
           LoaderDelete, LoaderEnd, LoaderReturn, LoaderReturnRequeue, LoaderContinue,
           TypeOK, LoaderTypeOK
    <3>3. UNCHANGED <<data, dirty>> \/ \E d \in DataName : \E rec : SetData(d, rec)
      <4>1. loader[k] \in LoaderRec /\ LoaderOK(loader[k])
        BY DEF TypeOK, LoaderTypeOK
      <4> QED BY <4>1 DEF LoaderNext, LoaderStart, LoaderListPolicies, LoaderRemoveInode,
                LoaderRemoveFinalizer, LoaderAddFinalizer, LoaderCheck, LoaderAddInode,
                LoaderDelete, LoaderEnd, LoaderOK, LoaderRec, clusterVars
    <3>4. Events(j)
      BY <3>3, SetDataEvents DEF Events
    <3> QED BY <1>a, <3>1, <3>2, <3>4
  <2> QED BY <1>b, <2>1, <2>2
<1>3. CASE Informers
  <2>1. UNCHANGED <<data, loader>>
    BY <1>3 DEF Informers, Elect, SyncData, SyncPolicies, clusterVars
  <2>2. ASSUME NEW n \in Node, Elect(n), NEW j \in Kernel PROVE KernelSettles(j)'
    \* The new leader's queue holds every KiveData, its cache is complete.
    <3> DEFINE k == KernelOf[n]
    <3>1. /\ k \in Kernel /\ leader[k] = None /\ loader[k].pc = "idle"
          /\ leader' = [leader EXCEPT ![k] = n]
          /\ lq' = [lq EXCEPT ![k] = ExistingData] /\ dirty' = [dirty EXCEPT ![k] = {}]
          /\ dcache' = dcache \/ dcache' = [dcache EXCEPT ![k] = data]
          /\ ~FreshCaches => dcache' = [dcache EXCEPT ![k] = data]
      BY <2>2 DEF Elect, CacheData, DataInv, KernelSettles, LeaseInv
    <3> HIDE DEF k
    <3>2. CASE j = k
      <4>1. /\ loader'[k].pc = "idle" /\ lq'[k] = ExistingData
            /\ ~FreshCaches => dcache'[k] = data
            /\ dcache'[k] = dcache[k] \/ dcache'[k] = data
        BY <2>1, <3>1 DEF TypeOK, LoaderTypeOK
      <4>2. LeaseInv(k)'
        BY <2>1, <3>1, <4>1 DEF DataInv, KernelSettles, LeaseInv, MarkedDataHasFin
      <4>3. LoadedInv(k)'
        BY <2>1, <4>1 DEF LoadedInv, LoaderSettled, ExistingData, Tidy, View, NoData
      <4> QED BY <3>2, <4>1, <4>2, <4>3 DEF KernelSettles, LoadingInv
    <3>3. CASE j # k
      BY <1>a, <2>1, <3>1, <3>3 DEF Events, TypeOK, LoaderTypeOK, ClusterTypeOK
    <3> QED BY <3>2, <3>3
  <2>3. ASSUME NEW k \in Kernel, SyncData(k), NEW j \in Kernel PROVE KernelSettles(j)'
    <3>1. /\ UNCHANGED leader /\ leader[k] # None /\ dirty[k] # {}
          /\ lq' = [lq EXCEPT ![k] = @ \cup dirty[k]] /\ dirty' = [dirty EXCEPT ![k] = {}]
          /\ dcache' = dcache \/ dcache' = [dcache EXCEPT ![k] = data]
          /\ ~FreshCaches => dcache' = [dcache EXCEPT ![k] = data]
      BY <2>3 DEF SyncData, CacheData
    <3>2. CASE j = k
      <4>1. /\ lq'[k] = lq[k] \cup dirty[k] /\ dirty'[k] = {}
            /\ ~FreshCaches => dcache'[k] = data
            /\ dcache'[k] = dcache[k] \/ dcache'[k] = data
        BY <3>1 DEF TypeOK, LoaderTypeOK, ClusterTypeOK
      <4>2. LeaseInv(k)'
        BY <2>1, <3>1, <4>1 DEF DataInv, KernelSettles, LeaseInv, MarkedDataHasFin
      <4>3. LoadingInv(k)'
        BY <2>1, <4>1 DEF DataInv, KernelSettles, LoadingInv, Pending, Visited, ActsOn
      <4>4. LoadedInv(k)'
        BY <3>1, <4>1 DEF LoadedInv, LoaderSettled
      <4> QED BY <3>2, <4>2, <4>3, <4>4 DEF KernelSettles
    <3>3. CASE j # k
      BY <1>a, <2>1, <3>1, <3>3 DEF Events, TypeOK, LoaderTypeOK, ClusterTypeOK
    <3> QED BY <3>2, <3>3
  <2>4. ASSUME NEW k \in Kernel, SyncPolicies(k) PROVE DataInv'
    BY <1>d, <2>1, <2>4 DEF SyncPolicies, clusterVars
  <2> QED BY <1>3, <1>b, <1>c, <2>1, <2>2, <2>3, <2>4 DEF Informers
<1>4. CASE PodHandling
  <2>1. UNCHANGED loaderVars
    BY <1>4 DEF PodHandling
  <2>2. CASE PodDelete
    <3> PICK d \in podc.doomed : \/ data[d].exists /\ SetData(d, DeletedData(d))
                                 \/ UNCHANGED <<data, dirty>>
      BY <2>2 DEF PodDelete
    <3>1. d \in DataName
      BY DEF TypeOK, PodTypeOK, PodcRec
    <3>2. CASE data[d].exists /\ SetData(d, DeletedData(d))
      BY <1>e, <2>1, <3>1, <3>2, WritesMarked DEF DataInv
    <3> QED BY <1>d, <2>1, <3>2 DEF loaderVars
  <2>3. CASE UNCHANGED <<data, dirty>>
    BY <1>d, <2>1, <2>3 DEF loaderVars
  <2> QED BY <1>4, <2>2, <2>3 DEF PodHandling, PodNext, ElectPod, PodStart, PodListPods,
            PodListPolicies, PodForce
<1>5. CASE Users
  BY <1>5, <1>d DEF Users, UserCreatePolicy, UserUpdatePolicy, UserDeletePolicy, UserStep,
       loaderVars
<1>6. CASE Kubelets
  BY <1>6, <1>d DEF Kubelets, CreatePod, StartPod, RestartContainer, ProbePod, EndPod,
       RemovePod, SetPod, loaderVars
<1>7. CASE Tick
  BY <1>7, <1>d DEF Tick, loaderVars
<1>8. CASE Resync
  <2>1. \A k \in Kernel : lq[k] \subseteq lq'[k]
    BY <1>8 DEF Resync
  <2> QED BY <1>8, <1>d, <2>1 DEF Resync
<1>9. ASSUME NEW n \in Node, Crash(n) PROVE DataInv'
  <2> DEFINE Led == {k \in Kernel : leader[k] = n}
  <2>1. /\ UNCHANGED <<data, dirty>>
        /\ leader' = [k \in Kernel |-> IF k \in Led THEN None ELSE leader[k]]
        /\ dcache' = [k \in Kernel |-> IF k \in Led THEN NoDatas ELSE dcache[k]]
        /\ lq' = [k \in Kernel |-> IF k \in Led THEN {} ELSE lq[k]]
        /\ loader' = [k \in Kernel |-> IF k \in Led THEN IdleLoader ELSE loader[k]]
    BY <1>9 DEF Crash
  <2> HIDE DEF Led
  <2>2. ASSUME NEW k \in Kernel PROVE KernelSettles(k)'
    <3>1. CASE k \in Led
      <4>1. leader'[k] = None /\ loader'[k].pc = "idle" /\ dcache'[k] = NoDatas
        BY <2>1, <3>1 DEF IdleLoader
      <4> QED BY <4>1 DEF KernelSettles, LeaseInv, LoadingInv, LoadedInv, LoaderSettled,
                MarkedDataHasFin, NoDatas, NoData
    <3>2. CASE k \notin Led
      BY <1>a, <2>1, <3>2 DEF Events
    <3> QED BY <3>1, <3>2
  <2> QED BY <1>b, <1>c, <2>1, <2>2
<1>10. CASE UNCHANGED vars
  BY <1>10, <1>d DEF vars
<1> QED BY <1>1, <1>2, <1>3, <1>4, <1>5, <1>6, <1>7, <1>8, <1>9, <1>10 DEF Next

\* A settled loader leaves no KiveData of its kernel without its finalizer or
\* half deleted, even if its informer cache lags behind the API server,
\* whatever the kernels, the changes of leader, the faults and the crashes.
THEOREM DataSettledCorrect == Spec => []DataSettled
<1>1. Init => TypeOK /\ DataInv
  BY InitType, DataInvInit
<1>2. TypeOK /\ DataInv /\ [Next]_vars => (TypeOK /\ DataInv)'
  BY NextType, DataInvNext
<1>3. DataInv => DataSettled
  BY DataInvImplies
<1> QED BY <1>1, <1>2, <1>3, PTL DEF Spec
=============================================================================
