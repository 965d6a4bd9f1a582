----------------------------- MODULE PodController -----------------------------
(***************************************************************************)
(* The KivePod controller: KivePodReconciler.Reconcile, which runs in the  *)
(* one process of the cluster that holds the lease "kive". It deletes the  *)
(* KiveData whose pod is gone and pokes one KivePolicy so that every node  *)
(* discovers again. All its Lists are uncached.                            *)
(***************************************************************************)
EXTENDS KiveCluster

CONSTANT PodCandidate  \* nodes that contend for the lease "kive"

ASSUME PodAssumption == PodCandidate \subseteq Node

VARIABLES
    podLeader,  \* the node that holds the lease
    podc        \* local variables of the running reconcile

podVars == <<podLeader, podc>>

PodcPC == {"idle", "listed", "data", "force"}

PodcRec == [pc: PodcPC,
            req: Pod \cup {0},             \* the request being served
            snap: [DataName -> DataRec],   \* kiveDataList
            doomed: SUBSET DataName,       \* items whose pod was not found
            requeue: BOOLEAN,              \* shouldRequeue
            target: Policy \cup {0}]       \* kivePolicyList.Items[0]

IdlePodc == [pc |-> "idle", req |-> 0, snap |-> NoDatas, doomed |-> {},
             requeue |-> FALSE, target |-> 0]

PodTypeOK == /\ podLeader \in Node \cup {None}
             /\ podc \in PodcRec
             /\ podc.pc # "idle" => podc.req \in Pod
             /\ podc.pc = "force" => podc.target \in Policy

PodInit == podLeader = None /\ podc = IdlePodc

\* A node gets the lease: its queue holds every pod.
ElectPod(n) ==
    /\ n \in PodCandidate
    /\ podLeader = None
    /\ podLeader' = n
    /\ pq' = ExistingPods
    /\ UNCHANGED podc
    /\ UNCHANGED <<policies, data, pods, pstamp, dstamp, dq, dirty, budget>>

\* The reconcile returns; again tells whether the request is queued again.
PodReturn(again) ==
    /\ podc' = IdlePodc
    /\ pq' = IF again THEN pq \cup {podc.req} ELSE pq

\* Take a request and list the KiveData of the kernel this process runs on.
\* (A failed List queues the request again, which changes nothing.)
PodStart ==
    /\ podLeader # None
    /\ podc.pc = "idle"
    /\ \E r \in pq :
         /\ pq' = pq \ {r}
         /\ podc' = [podc EXCEPT !.pc = "listed", !.req = r,
                       !.snap = [d \in DataName |->
                          IF data[d].kernel = KernelOf[podLeader]
                          THEN data[d] ELSE NoData]]
    /\ UNCHANGED podLeader
    /\ UNCHANGED <<policies, data, pods, pstamp, dstamp, dq, dirty, budget>>

\* Mutant: a pod that is not ready counts as gone.
SamePodReady(rec, d) == /\ pods[PodOf(d)].status = "Running"
                        /\ pods[PodOf(d)].ip = rec.ip

\* The pod the KiveData refers to, by name and address, whatever its phase.
SamePod(rec, d) == /\ pods[PodOf(d)].status # "Absent"
                   /\ pods[PodOf(d)].ip = rec.ip

\* List the pods: which KiveData to delete, and whether to come back.
PodListPods ==
    /\ podc.pc = "listed"
    /\ LET Listed == {d \in DataName : podc.snap[d].exists}
           Kept   == {d \in Listed : SamePod(podc.snap[d], d)}
       IN  \/ /\ podc' = [podc EXCEPT !.pc = "data", !.snap = NoDatas,
                            !.doomed = Listed \ Kept,
                            !.requeue = \E d \in Kept :
                               pods[PodOf(d)].status \notin {"Succeeded", "Failed"}]
              /\ UNCHANGED <<pq, budget>>
           \/ Fault /\ PodReturn(TRUE)
    /\ UNCHANGED podLeader
    /\ UNCHANGED <<policies, data, pods, pstamp, dstamp, dq, dirty>>

\* Delete the next one, by name. A failed call is logged.
PodDelete ==
    /\ podc.pc = "data"
    /\ \E d \in podc.doomed :
         /\ IsFirst(d, podc.doomed)
         /\ \/ data[d].exists /\ SetData(d, DeletedData(d)) /\ UNCHANGED budget
            \/ FailsIf(~data[d].exists) /\ UNCHANGED <<data, dstamp, dirty>>
         /\ podc' = [podc EXCEPT !.doomed = @ \ {d}]
    /\ UNCHANGED podLeader
    /\ UNCHANGED <<policies, pods, pstamp, dq, pq>>

\* List the policies and take the first.
PodListPolicies ==
    /\ podc.pc = "data" /\ podc.doomed = {}
    /\ \/ /\ ExistingPolicies = {}
          /\ PodReturn(podc.requeue)
          /\ UNCHANGED budget
       \/ /\ \E p \in ExistingPolicies :
               /\ IsMin(p, ExistingPolicies)
               /\ podc' = [podc EXCEPT !.pc = "force", !.target = p]
          /\ UNCHANGED <<pq, budget>>
       \/ Fault /\ PodReturn(TRUE)
    /\ UNCHANGED podLeader
    /\ UNCHANGED <<policies, data, pods, pstamp, dstamp, dq, dirty>>

\* Force a reconciliation of it on every node. Errors are logged.
PodForce ==
    /\ podc.pc = "force"
    /\ LET p == podc.target IN
       \/ policies[p].exists /\ ForcePolicy(p) /\ UNCHANGED budget
       \/ FailsIf(~policies[p].exists) /\ UNCHANGED <<policies, pstamp, dq>>
    /\ PodReturn(podc.requeue)
    /\ UNCHANGED podLeader
    /\ UNCHANGED <<data, pods, dstamp, dirty>>

PodNext == \/ PodStart
           \/ PodListPods
           \/ PodDelete
           \/ PodListPolicies
           \/ PodForce
=============================================================================
