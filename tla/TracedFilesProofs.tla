--------------------------- MODULE TracedFilesProofs ---------------------------
(***************************************************************************)
(* What TracedFiles promises is enough: a key without a KiveData is never  *)
(* traced, unless it is stray.                                             *)
(***************************************************************************)
EXTENDS TracedFiles, TLAPS

\* traced and stray are functions on the kernels, and every key that is traced
\* and not stray is backed.
BackedInv == /\ traced = [k \in Kernel |-> traced[k]]
             /\ stray = [k \in Kernel |-> stray[k]]
             /\ Backed

\* Keys stay stray, and the one of d becomes so.
Strays(d) == /\ stray' = [k \in Kernel |-> stray'[k]]
             /\ \A k \in Kernel : /\ stray[k] \subseteq stray'[k]
                                  /\ k = KernelOfData[d] => KeyOfData[d] \in stray'[k]

LEMMA GoesAstrayGrows ==
    ASSUME BackedInv, NEW d, GoesAstray(d) PROVE Strays(d)
<1>1. stray' = [stray EXCEPT ![KernelOfData[d]] = @ \cup {KeyOfData[d]}]
  BY DEF GoesAstray
<1>2. stray = [k \in Kernel |-> stray[k]]
  BY DEF BackedInv
<1> QED BY <1>1, <1>2 DEF Strays

\* Each step of the promise keeps the keys backed.
LEMMA BackedNext == BackedInv /\ [Next]_vars => BackedInv'
<1> SUFFICES ASSUME BackedInv, [Next]_vars PROVE BackedInv'
  OBVIOUS
<1>1. ASSUME NEW d \in Data, Store(d) PROVE BackedInv'
  BY <1>1 DEF Store, BackedInv, Backed
<1>2. ASSUME NEW d \in Data, Mark(d) PROVE BackedInv'
  BY <1>2 DEF Mark, BackedInv, Backed
<1>3. ASSUME NEW d \in Data, Erase(d) PROVE BackedInv'
  <2>1. /\ stray' = [k \in Kernel |-> stray'[k]]
        /\ \A k \in Kernel : stray[k] \subseteq stray'[k]
    BY <1>3, GoesAstrayGrows DEF Erase, Strays, BackedInv
  <2>2. UNCHANGED traced /\ stored' = stored \ {d}
    BY <1>3 DEF Erase
  <2>3. ASSUME NEW k \in Kernel, NEW key \in traced[k] \ stray'[k]
        PROVE  \E e \in stored' : KernelOfData[e] = k /\ KeyOfData[e] = key
    <3>1. PICK e \in stored : KernelOfData[e] = k /\ KeyOfData[e] = key
      BY <2>1, <2>3 DEF BackedInv, Backed
    \* When d itself backs the key, another one shares it.
    <3>2. CASE e = d
      BY <1>3, <2>2, <2>3, <3>1, <3>2 DEF Erase, Shared
    <3> QED BY <2>2, <3>1, <3>2
  <2> QED BY <2>1, <2>2, <2>3 DEF BackedInv, Backed
<1>4. ASSUME NEW k \in Kernel, NEW d \in Data, Trace(k, d) PROVE BackedInv'
  <2>1. /\ traced' = [traced EXCEPT ![k] = @ \cup {KeyOfData[d]}]
        /\ d \in stored \/ KeyOfData[d] \in stray[k]
        /\ KernelOfData[d] = k /\ UNCHANGED <<stored, stray>>
    BY <1>4 DEF Trace
  <2>2. traced' = [j \in Kernel |-> traced'[j]]
    BY <2>1 DEF BackedInv
  <2>3. ASSUME NEW j \in Kernel, NEW key \in traced'[j] \ stray[j]
        PROVE  \E e \in stored : KernelOfData[e] = j /\ KeyOfData[e] = key
    <3>1. CASE key \in traced[j]
      BY <2>3, <3>1 DEF BackedInv, Backed
    <3>2. CASE key \notin traced[j]
      <4>1. j = k /\ key = KeyOfData[d]
        BY <2>1, <2>3, <3>2 DEF BackedInv
      <4> QED BY <2>1, <2>3, <4>1
    <3> QED BY <3>1, <3>2
  <2> QED BY <2>1, <2>2, <2>3 DEF BackedInv, Backed
<1>5. ASSUME NEW k \in Kernel, NEW d \in Data, Untrace(k, d) PROVE BackedInv'
  <2>1. /\ stray' = [j \in Kernel |-> stray'[j]]
        /\ \A j \in Kernel : stray[j] \subseteq stray'[j]
    BY <1>5, GoesAstrayGrows DEF Untrace, Strays, BackedInv
  <2>2. /\ traced' = [traced EXCEPT ![k] = @ \ {KeyOfData[d]}]
        /\ UNCHANGED stored
    BY <1>5 DEF Untrace
  <2>3. traced' = [j \in Kernel |-> traced'[j]]
    BY <2>2 DEF BackedInv
  <2>4. \A j \in Kernel : traced'[j] \subseteq traced[j]
    BY <2>2 DEF BackedInv
  <2> QED BY <2>1, <2>2, <2>3, <2>4 DEF BackedInv, Backed
<1>6. ASSUME NEW Ks \in SUBSET Kernel, Lose(Ks) PROVE BackedInv'
  BY <1>6 DEF Lose, BackedInv, Backed
<1>7. ASSUME NEW d \in Data, Stray(d) PROVE BackedInv'
  BY <1>7, GoesAstrayGrows DEF Stray, Strays, BackedInv, Backed
<1>8. CASE UNCHANGED vars
  BY <1>8 DEF vars, BackedInv, Backed
<1> QED BY <1>1, <1>2, <1>3, <1>4, <1>5, <1>6, <1>7, <1>8 DEF Next

\* In every system that implements TracedFiles the eBPF program reports only
\* files present in a KiveData of its kernel, and files whose key went astray.
THEOREM PromiseBacked == Spec => []Backed
<1>1. Init => BackedInv
  BY DEF Init, BackedInv, Backed
<1>2. BackedInv => Backed
  BY DEF BackedInv
<1> QED BY <1>1, <1>2, BackedNext, PTL DEF Spec
=============================================================================
