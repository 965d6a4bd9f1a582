------------------------------- MODULE Discover -------------------------------
(***************************************************************************)
(* The KivePolicy controller: KivePolicyReconciler.Reconcile, which runs   *)
(* on every node without leader election. One reconcile walks over every   *)
(* KivePolicy, every KiveTrap and every selected Pod, asks the container   *)
(* runtime of its own node for the file of the trap, applies a KiveData    *)
(* for it, and at the end pokes one KiveData so that the loaders run.      *)
(*                                                                         *)
(* Each remote call is a step of its own; what the reconcile learnt from   *)
(* a call is kept in disc[n] and may be stale when it is used. The request *)
(* only matters for the work queue: the reconcile never reads it.          *)
(***************************************************************************)
EXTENDS KiveCluster

VARIABLE disc  \* per node, the local variables of the running reconcile

DiscPC == {"idle", "policies", "traps", "containers", "apply", "force"}

DiscRec == [pc: DiscPC,
            req: Policy \cup {0},              \* the request being served
            snap: [Policy -> PolicyRec],       \* kivePolicyList
            todo: SUBSET Policy,               \* items of it still to visit
            pol: Policy \cup {0},              \* kivePolicy of the loop
            traps: SUBSET Trap,                \* its traps still to visit
            trap: Trap \cup {0},               \* kiveTrap of the loop
            podsnap: [Pod -> PodRec],          \* podList
            pods: SUBSET Pod,                  \* items of it still to visit
            key: Key \cup {0},                 \* containerData.Ino and DevID
            target: DataName \cup {NoName}]    \* kiveDataList.Items[0]

IdleDisc == [pc |-> "idle", req |-> 0, snap |-> NoPolicies, todo |-> {},
             pol |-> 0, traps |-> {}, trap |-> 0, podsnap |-> NoPods,
             pods |-> {}, key |-> 0, target |-> NoName]

\* Which locals have a value at which point of the reconcile.
DiscOK(L) ==
    /\ L.pc # "idle" => L.req \in Policy
    /\ L.pc \in {"containers", "apply"} =>
         L.trap \in Trap /\ L.pods # {} /\ \A p \in L.pods : PodOK(L.podsnap[p])
    /\ L.pc = "apply" => /\ L.key \in Key
                         /\ \A p \in L.pods : IsMin(p, L.pods) =>
                                                L.podsnap[p].status = "Running"
    /\ L.pc = "force" => L.target \in DataName

DiscoverTypeOK == disc \in [Node -> DiscRec] /\ \A n \in Node : DiscOK(disc[n])

DiscoverInit == disc = [n \in Node |-> IdleDisc]

\* The loop control: the next trap of the policy, or the next policy.
NextTrap(L, ts) ==
    [L EXCEPT !.pc = IF ts = {} THEN "policies" ELSE "traps",
              !.traps = ts, !.trap = 0, !.podsnap = NoPods, !.pods = {},
              !.key = 0, !.pol = IF ts = {} THEN 0 ELSE @]

\* Mutants: the loop over the containers does not notice its end, or stops one
\* too early.
NextContainerPastEnd(L, ps) ==
    [L EXCEPT !.pc = "containers", !.pods = ps, !.key = 0]

NextContainerNotLast(L, ps) ==
    IF \A p \in ps : IsMin(p, ps) THEN NextTrap(L, L.traps)
    ELSE NextContainerPastEnd(L, ps)

\* The next container selected by the trap, or the next trap.
NextContainer(L, ps) ==
    IF ps = {} THEN NextTrap(L, L.traps)
    ELSE [L EXCEPT !.pc = "containers", !.pods = ps, !.key = 0]

\* The reconcile returns; with Requeue or an error its request is queued again.
DiscoverReturn(n) == disc' = [disc EXCEPT ![n] = IdleDisc]

\* Mutant: Result{} where the code returns Result{Requeue: true}.
DiscoverReturnForgets(n) == DiscoverReturn(n) /\ UNCHANGED dq

DiscoverReturnRequeue(n) ==
    /\ DiscoverReturn(n)
    /\ dq' = [dq EXCEPT ![n] = @ \cup {disc[n].req}]

-----------------------------------------------------------------------------
\* Take a request and list the policies. (If the List fails the request goes
\* back to the queue, which changes nothing.) A policy marked for deletion
\* that has no finalizer any more is skipped.
DiscoverStart(n) ==
    /\ disc[n].pc = "idle"
    /\ \E r \in dq[n] :
         /\ dq' = [dq EXCEPT ![n] = @ \ {r}]
         /\ disc' = [disc EXCEPT ![n] =
                       [disc[n] EXCEPT !.pc = "policies", !.req = r, !.snap = policies,
                                 !.todo = {p \in ExistingPolicies :
                                             policies[p].deleting => policies[p].fin}]]
    /\ UNCHANGED <<policies, data, pods, pstamp, dstamp, dirty, pq, budget>>

\* Mutant: the patch is made from the unchanged object and drops nothing.
DiscoverKeepFinalizer(n) ==
    /\ disc[n].pc = "policies"
    /\ \E p \in disc[n].todo :
         /\ IsMin(p, disc[n].todo)
         /\ disc[n].snap[p].deleting
    /\ DiscoverReturn(n)
    /\ UNCHANGED clusterVars

\* The next policy is being deleted: drop the finalizer and return, the patch
\* makes an event. A failed patch is tried again.
DiscoverRemoveFinalizer(n) ==
    /\ disc[n].pc = "policies"
    /\ \E p \in disc[n].todo :
         /\ IsMin(p, disc[n].todo)
         /\ disc[n].snap[p].deleting
         /\ \/ /\ policies[p].exists
               /\ SetPolicy(p, PatchedPolicy(p, FALSE))
               /\ DiscoverReturn(n)
               /\ UNCHANGED budget
            \/ /\ FailsIf(~policies[p].exists)
               /\ DiscoverReturnRequeue(n)
               /\ UNCHANGED <<policies, pstamp>>
    /\ UNCHANGED <<data, pods, dstamp, dirty, pq>>

\* The next policy has no finalizer yet: add it and return.
DiscoverAddFinalizer(n) ==
    /\ disc[n].pc = "policies"
    /\ \E p \in disc[n].todo :
         /\ IsMin(p, disc[n].todo)
         /\ ~disc[n].snap[p].deleting /\ ~disc[n].snap[p].fin
         /\ \/ /\ policies[p].exists
               /\ SetPolicy(p, PatchedPolicy(p, TRUE))
               /\ DiscoverReturn(n)
               /\ UNCHANGED budget
            \/ /\ FailsIf(~policies[p].exists)
               /\ DiscoverReturnRequeue(n)
               /\ UNCHANGED <<policies, pstamp>>
    /\ UNCHANGED <<data, pods, dstamp, dirty, pq>>

\* The next policy is in force: visit its traps.
DiscoverVisitPolicy(n) ==
    /\ disc[n].pc = "policies"
    /\ \E p \in disc[n].todo :
         /\ IsMin(p, disc[n].todo)
         /\ ~disc[n].snap[p].deleting /\ disc[n].snap[p].fin
         /\ disc' = [disc EXCEPT ![n] =
                       NextTrap([disc[n] EXCEPT !.todo = disc[n].todo \ {p}, !.pol = p],
                                disc[n].snap[p].traps)]
    /\ UNCHANGED clusterVars

\* List the pods of the next trap; a pending pod may have no container
\* statuses yet, then there is nothing to visit in it. If the List fails the
\* trap is skipped.
DiscoverListPods(n) ==
    /\ disc[n].pc = "traps"
    /\ \E t \in disc[n].traps :
         /\ IsMin(t, disc[n].traps)
         /\ LET L == [disc[n] EXCEPT !.traps = disc[n].traps \ {t}, !.trap = t, !.podsnap = pods]
                Selected == Selects[t] \cap ExistingPods
                Pending  == {p \in Selected : pods[p].status = "Pending"}
            IN  \/ /\ \E S \in SUBSET Pending :
                        disc' = [disc EXCEPT ![n] = NextContainer(L, Selected \ S)]
                   /\ UNCHANGED budget
                \/ /\ Fault
                   /\ disc' = [disc EXCEPT ![n] = NextTrap(L, L.traps)]
    /\ UNCHANGED <<policies, data, pods, pstamp, dstamp, dq, dirty, pq>>

\* A selected container that does not run, or is not ready: the whole
\* reconcile is given up and queued again.
DiscoverRequeue(n) ==
    /\ disc[n].pc = "containers"
    /\ \E p \in disc[n].pods :
         /\ IsMin(p, disc[n].pods)
         /\ disc[n].podsnap[p].status # "Running"
    /\ DiscoverReturnRequeue(n)
    /\ UNCHANGED <<policies, data, pods, pstamp, dstamp, dirty, pq, budget>>

\* What GetContainerData finds on node n: 0 if the runtime has no task for the
\* container (it is on another node, or gone), or there is no file.
FileFound(n, t, p, i) ==
    IF NodeOf[p] = n /\ Alive(p, i) THEN FileOf[<<t, p, i>>] ELSE 0

\* The file was found: its inode and device are known.
DiscoverInspect(n) ==
    /\ disc[n].pc = "containers"
    /\ \E p \in disc[n].pods :
         LET file == FileFound(n, disc[n].trap, p, disc[n].podsnap[p].inst) IN
         /\ IsMin(p, disc[n].pods)
         /\ disc[n].podsnap[p].status = "Running"
         /\ file # 0
         /\ disc' = [disc EXCEPT ![n] = [disc[n] EXCEPT !.pc = "apply", !.key = file]]
    /\ UNCHANGED clusterVars

\* It was not, or the runtime failed: the container is skipped.
DiscoverSkip(n) ==
    /\ disc[n].pc = "containers"
    /\ \E p \in disc[n].pods :
         /\ IsMin(p, disc[n].pods)
         /\ disc[n].podsnap[p].status = "Running"
         /\ FailsIf(FileFound(n, disc[n].trap, p, disc[n].podsnap[p].inst) = 0)
         /\ disc' = [disc EXCEPT ![n] = NextContainer(disc[n], disc[n].pods \ {p})]
    /\ UNCHANGED <<policies, data, pods, pstamp, dstamp, dq, dirty, pq>>

\* Server-side apply with force: creates the KiveData, or overwrites the
\* labels and annotations of the one with this name, marked for deletion or
\* not. A failed apply is logged.
DiscoverApply(n) ==
    /\ disc[n].pc = "apply"
    /\ \E p \in disc[n].pods :
         LET L == disc[n]
             d == <<L.key, p, L.podsnap[p].inst>>
         IN  /\ IsMin(p, L.pods)
             /\ \/ /\ SetData(d, [exists |-> TRUE, deleting |-> data[d].deleting,
                                  fin |-> TRUE, trap |-> L.trap, policy |-> L.pol,
                                  kernel |-> KernelOf[n], ip |-> L.podsnap[p].ip])
                   /\ UNCHANGED budget
                \/ Fault /\ UNCHANGED <<data, dstamp, dirty>>
             /\ disc' = [disc EXCEPT ![n] = NextContainer(L, L.pods \ {p})]
    /\ UNCHANGED <<policies, pods, pstamp, dq, pq>>

\* All policies visited: list the KiveData and take the first.
DiscoverListData(n) ==
    /\ disc[n].pc = "policies" /\ disc[n].todo = {}
    /\ \/ /\ ExistingData = {}
          /\ DiscoverReturn(n)
          /\ UNCHANGED <<dq, budget>>
       \/ /\ \E d \in ExistingData :
               /\ IsFirst(d, ExistingData)
               /\ disc' = [disc EXCEPT ![n] = [disc[n] EXCEPT !.pc = "force", !.target = d]]
          /\ UNCHANGED <<dq, budget>>
       \/ Fault /\ DiscoverReturnRequeue(n)
    /\ UNCHANGED <<policies, data, pods, pstamp, dstamp, dirty, pq>>

\* Force a reconciliation of the loaders by touching it. Errors are logged.
DiscoverForce(n) ==
    /\ disc[n].pc = "force"
    /\ LET d == disc[n].target IN
       \/ data[d].exists /\ ForceData(d) /\ UNCHANGED budget
       \/ FailsIf(~data[d].exists) /\ UNCHANGED <<data, dstamp, dirty>>
    /\ DiscoverReturn(n)
    /\ UNCHANGED <<policies, pods, pstamp, dq, pq>>

DiscoverNext(n) ==
    \/ DiscoverStart(n)
    \/ DiscoverRemoveFinalizer(n)
    \/ DiscoverAddFinalizer(n)
    \/ DiscoverVisitPolicy(n)
    \/ DiscoverListPods(n)
    \/ DiscoverRequeue(n)
    \/ DiscoverInspect(n)
    \/ DiscoverSkip(n)
    \/ DiscoverApply(n)
    \/ DiscoverListData(n)
    \/ DiscoverForce(n)
=============================================================================
