------------------------------ MODULE TracedFiles ------------------------------
(***************************************************************************)
(* What the KiveData and the eBPF maps promise each other, with the        *)
(* controllers, queues, caches and file descriptors left out: a file is    *)
(* traced on a kernel only while some KiveData of that kernel names it,    *)
(* because a KiveData leaves the API server only after its key has left    *)
(* the map. Nothing keeps a KiveData when the removal of its key fails, or *)
(* when it loses its finalizer to the deletion of an earlier object of its *)
(* name: its key is stray from then on. Kive (a cluster) and Tracer (one   *)
(* operator process and its eBPF objects) both implement this              *)
(* specification.                                                          *)
(***************************************************************************)
CONSTANTS
    Kernel,        \* kernels with a map each
    Data,          \* names of KiveData
    KeyOfData,     \* the file (inode, device) a KiveData names
    KernelOfData   \* the kernel its label names

VARIABLES
    stored,   \* KiveData in the API server
    marked,   \* those of them with a deletion timestamp
    traced,   \* per kernel, the keys an attached kprobe finds in its map
    stray     \* per kernel, keys whose removal nothing assures any more

vars == <<stored, marked, traced, stray>>

Init == /\ stored = {} /\ marked = {}
        /\ traced = [k \in Kernel |-> {}]
        /\ stray = [k \in Kernel |-> {}]

Store(d) == /\ stored' = stored \cup {d}
            /\ UNCHANGED <<marked, traced, stray>>

Mark(d) == /\ d \in stored
           /\ marked' = marked \cup {d}
           /\ UNCHANGED <<stored, traced, stray>>

GoesAstray(d) ==
    stray' = [stray EXCEPT ![KernelOfData[d]] = @ \cup {KeyOfData[d]}]

\* A loader only traces what a KiveData of its own kernel names.
Trace(k, d) == /\ KernelOfData[d] = k
               /\ d \in stored \/ KeyOfData[d] \in stray[k]
               /\ traced' = [traced EXCEPT ![k] = @ \cup {KeyOfData[d]}]
               /\ UNCHANGED <<stored, marked, stray>>

\* It stops tracing a key for a KiveData that is being deleted or is gone. For
\* one that is neither, the key is stray.
Untrace(k, d) == /\ KernelOfData[d] = k
                 /\ \/ (d \in stored => d \in marked) /\ UNCHANGED stray
                    \/ GoesAstray(d)
                 /\ traced' = [traced EXCEPT ![k] = @ \ {KeyOfData[d]}]
                 /\ UNCHANGED <<stored, marked>>

\* Some other KiveData names the key of d on its kernel.
Shared(d) == \E e \in stored \ {d} : /\ KernelOfData[e] = KernelOfData[d]
                                     /\ KeyOfData[e] = KeyOfData[d]

\* The object goes after its key, unless the key is stray.
Erase(d) == LET k == KernelOfData[d] IN
            /\ \/ KeyOfData[d] \notin traced[k]
               \/ Shared(d)
               \/ KeyOfData[d] \in stray'[k]
            /\ UNCHANGED stray \/ GoesAstray(d)
            /\ stored' = stored \ {d} /\ marked' = marked \ {d}
            /\ UNCHANGED traced

\* A removal fails, or a KiveData that stays loses its finalizer.
Stray(d) == /\ GoesAstray(d)
            /\ UNCHANGED <<stored, marked, traced>>

\* Operator processes end, and the kernels give up their probes and maps.
Lose(Ks) ==
    /\ traced' = [k \in Kernel |-> IF k \in Ks THEN {} ELSE traced[k]]
    /\ stray' = [k \in Kernel |-> IF k \in Ks THEN {} ELSE stray[k]]
    /\ UNCHANGED <<stored, marked>>

Next == \/ \E d \in Data : Store(d) \/ Mark(d) \/ Erase(d) \/ Stray(d)
        \/ \E k \in Kernel, d \in Data : Trace(k, d) \/ Untrace(k, d)
        \/ \E Ks \in SUBSET Kernel : Lose(Ks)

Spec == Init /\ [][Next]_vars

\* Every traced key that is not stray is named by a stored KiveData of the
\* kernel.
Backed == \A k \in Kernel : \A key \in traced[k] \ stray[k] :
            \E d \in stored : KernelOfData[d] = k /\ KeyOfData[d] = key
=============================================================================
