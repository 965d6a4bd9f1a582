----------------------------- MODULE TracerProofs -----------------------------
(***************************************************************************)
(* For every number of KiveData, loads, faults, accesses and shutdowns:    *)
(* the safety properties of Tracer are invariants, and Tracer implements   *)
(* TracedFiles.                                                            *)
(*                                                                         *)
(* None of the properties is inductive. OnePath needs to know how far      *)
(* LoadEbpf has come at each of its steps; OneEvent that the maps of       *)
(* generations that failed are empty, which holds because keys are only    *)
(* put into a map when Loaded is set; Backed that what a reconcile read    *)
(* from the API server at its start is still there when it is used.        *)
(***************************************************************************)
EXTENDS Tracer, FiniteSetTheorems, TLAPS

-----------------------------------------------------------------------------
(* The inductive invariant *)

\* Before a shutdown nothing is closed.
Open == ~stopping =>
    /\ \A u \in Unloader : unload[u] = "off"
    /\ mapfd = 1..loads /\ objfd = 1..loads
    /\ Objs = loads

\* The probe of the current objects is attached and fits the kernel.
Probed == /\ Objs # 0 /\ Kprobe = Objs
          /\ attached[Objs] # "none"
          /\ ParamOf(attached[Objs]) = InodeParam(release)

Reads == RingbuffReader = Objs /\ Objs \in reading

\* How far LoadEbpf has come.
Progress == ~stopping =>
    /\ rec.pc \in {"objects", "probe", "reader", "loaded"} => ~Loaded
    /\ rec.pc \in {"list", "data", "patch"} => Loaded
    /\ rec.pc = "probe" => Objs # 0
    /\ Loaded \/ rec.pc \in {"reader", "loaded"} => Probed
    /\ Loaded \/ rec.pc = "loaded" => Reads

\* Only the map of the current objects holds keys, and that once loaded.
OneMap == ~stopping => \A g \in Gen : map[g] # {} => Loaded /\ g = Objs

\* Every key in any map has a KiveData of this kernel, unless it is stray.
Named == \A g \in Gen : \A k \in map[g] \ stray : \E d \in Mine(stored) : Key(d) = k

\* A running reconcile relies on a list that still holds.
Listed ==
    /\ rec.pc = "data" => rec.todo \subseteq Mine(stored) /\ rec.del \subseteq Mine(marked)
    /\ rec.pc = "patch" => /\ rec.cur \in Mine(marked)
                           /\ ~stopping => Key(rec.cur) \notin map[Objs] \ stray

\* A reconcile has a request to answer.
Serves == rec.pc # "idle" => rec.req \in Data

Inv == TypeOK /\ Serves /\ Open /\ Progress /\ OneMap /\ Named /\ Listed
-----------------------------------------------------------------------------
(* Types *)

LEMMA TypeInit == Init => TypeOK
<1> SUFFICES ASSUME Init PROVE TypeOK
  OBVIOUS
<1>1. rec \in RecType
  BY DEF Init, IdleRec, RecType, RecPC
<1>2. out \in [Gen -> OutType]
  <2>1. NoOut \in OutType
    BY DEF NoOut, OutType, OutPC
  <2> QED
    BY <2>1 DEF Init
<1>3. budget \in [faults: Nat, access: Nat, changes: Nat, stops: Nat]
  BY TracerAssumption DEF Init
<1>4. /\ unload \in [Unloader -> UnloadPC]
      /\ attached \in [Gen -> Program \cup {"none"}]
      /\ map \in [Gen -> SUBSET Keys]
  BY DEF Init, UnloadPC
<1>5. ring \in [Gen -> Seq(Keys)]
  BY DEF Init
<1>6. Loaded \in BOOLEAN /\ stopping \in BOOLEAN
  BY Zenon DEF Init
<1> QED
  BY <1>1, <1>2, <1>3, <1>4, <1>5, <1>6, TracerAssumption DEF Init, TypeOK

\* A change from outside, or of the queue alone.
LEMMA TypeOutside ==
    ASSUME TypeOK, NEW d \in Data, CreateData(d) \/ DeleteData(d)
    PROVE  TypeOK'
<1>1. Enqueued(d) \in SUBSET Data
  BY DEF TypeOK, Enqueued
<1>2. budget' \in [faults: Nat, access: Nat, changes: Nat, stops: Nat]
  BY SMTT(30) DEF TypeOK, CreateData, DeleteData, Change
<1>3. /\ stored' \in SUBSET Data /\ marked' \in SUBSET stored'
      /\ queue' \in SUBSET Data
      /\ UNCHANGED <<kernel, package, fds, rec, out, unload, stopping, history>>
  BY <1>1 DEF TypeOK, CreateData, DeleteData, Change
<1> QED
  BY <1>2, <1>3 DEF TypeOK, kernel, package, fds, history

Budget == [faults: Nat, access: Nat, changes: Nat, stops: Nat]

LEMMA TypeFault ==
    ASSUME TypeOK, Fault \/ UNCHANGED budget
    PROVE  budget' \in Budget
<1>1. budget \in Budget
  BY DEF TypeOK, Budget
<1>2. CASE Fault
  <2>1. budget.faults - 1 \in Nat
    BY <1>1, <1>2 DEF Fault, Budget
  <2> QED
    BY <1>1, <1>2, <2>1 DEF Fault, Budget
<1> QED
  BY <1>1, <1>2

\* A call of LoadEbpf returns to Reconcile, or its error ends the reconcile.
LEMMA TypeRequeue ==
    ASSUME TypeOK, Serves, rec.req \in Data,
           \/ RecRequeue
           \/ /\ UNCHANGED queue
              /\ \E pc \in RecPC : rec' = [rec EXCEPT !.pc = pc]
    PROVE  rec' \in RecType /\ queue' \in SUBSET Data /\ Serves'
<1>1. CASE RecRequeue
  BY <1>1 DEF TypeOK, Serves, RecRequeue, Enqueued, IdleRec, RecType, RecPC
<1>2. CASE UNCHANGED queue /\ \E pc \in RecPC : rec' = [rec EXCEPT !.pc = pc]
  <2>1. PICK pc \in RecPC : rec' = [rec EXCEPT !.pc = pc]
    BY <1>2
  <2>2. rec' \in RecType /\ rec'.req = rec.req
    BY <2>1 DEF TypeOK, RecType
  <2> QED
    BY <1>2, <2>2 DEF TypeOK, Serves
<1> QED
  BY <1>1, <1>2

\* LoadEbpf, and the start of a reconcile.
LEMMA TypeLoad ==
    ASSUME TypeOK, Serves,
           RecStart \/ LoadObjects \/ LoadKprobe \/ LoadReader \/ LoadDone
    PROVE  TypeOK' /\ Serves'
<1>1. CASE RecStart
  <2>1. PICK d \in queue :
          /\ rec' = [rec EXCEPT !.pc = IF Loaded THEN "list" ELSE "objects", !.req = d]
          /\ queue' = queue \ {d}
    BY <1>1 DEF RecStart
  <2>2. rec' \in RecType /\ queue' \in SUBSET Data /\ Serves'
    BY <2>1 DEF TypeOK, Serves, RecType, RecPC
  <2> QED
    BY <1>1, <2>2 DEF TypeOK, RecStart, PlainStep, RecStep, history, store, kernel, package, fds
<1>2. CASE LoadObjects
  <2>1. rec.req \in Data
    BY <1>2 DEF LoadObjects, Serves
  <2>2. rec' \in RecType /\ queue' \in SUBSET Data /\ Serves'
    <3>1. \/ RecRequeue
          \/ /\ UNCHANGED queue
             /\ \E pc \in RecPC : rec' = [rec EXCEPT !.pc = pc]
      BY <1>2 DEF LoadObjects, RecPC
    <3> QED
      BY <2>1, <3>1, TypeRequeue
  <2>3. budget' \in Budget
    BY <1>2, TypeFault DEF LoadObjects
  <2>4. /\ Objs' \in 0..loads' /\ Kprobe' \in 0..loads' /\ RingbuffReader' \in 0..loads'
        /\ loads' \in 0..MaxLoads
        /\ mapfd' \in SUBSET (1..loads') /\ objfd' \in SUBSET (1..loads')
        /\ reading' \in SUBSET (1..loads')
    <3>1. CASE UNCHANGED <<Objs, loads, mapfd, objfd>>
      BY <1>2, <3>1 DEF LoadObjects, TypeOK
    <3>2. CASE /\ loads < MaxLoads /\ loads' = loads + 1 /\ Objs' = loads'
               /\ mapfd' = mapfd \cup {loads'} /\ objfd' = objfd \cup {loads'}
      <4>1. /\ loads \in Nat /\ loads' \in Nat
            /\ 0..loads \subseteq 0..loads' /\ 1..loads \subseteq 1..loads'
            /\ loads' \in 0..MaxLoads /\ loads' \in 1..loads' /\ loads' \in 0..loads'
        BY <3>2, TracerAssumption DEF TypeOK
      <4>2. Kprobe' = Kprobe /\ RingbuffReader' = RingbuffReader /\ reading' = reading
        BY <1>2 DEF LoadObjects
      <4> QED
        BY <3>2, <4>1, <4>2 DEF TypeOK
    <3> QED
      BY <1>2, <3>1, <3>2 DEF LoadObjects
  <2> QED
    BY <1>2, <2>2, <2>3, <2>4 DEF TypeOK, Budget, LoadObjects, PlainStep, RecStep, history, store, kernel
<1>3. CASE LoadKprobe
  <2>1. rec.req \in Data
    BY <1>3 DEF LoadKprobe, Serves
  <2>2. rec' \in RecType /\ queue' \in SUBSET Data /\ Serves'
    <3>1. \/ RecRequeue
          \/ /\ UNCHANGED queue
             /\ \E pc \in RecPC : rec' = [rec EXCEPT !.pc = pc]
      BY <1>3 DEF LoadKprobe, RecPC
    <3> QED
      BY <2>1, <3>1, TypeRequeue
  <2>3. budget' \in Budget
    BY <1>3, TypeFault DEF LoadKprobe
  <2>4. attached' \in [Gen -> Program \cup {"none"}] /\ Kprobe' \in 0..loads
    <3>1. \/ attached' = attached
          \/ attached' = [attached EXCEPT ![Objs] = IF isKernelOld(release) THEN "old" ELSE "new"]
      BY <1>3 DEF LoadKprobe
    <3>2. attached' \in [Gen -> Program \cup {"none"}]
      BY <3>1 DEF TypeOK, Program
    <3>3. Kprobe' \in {0, Kprobe, Objs}
      BY <1>3 DEF LoadKprobe
    <3> QED
      BY <3>2, <3>3 DEF TypeOK
  <2> QED
    BY <1>3, <2>2, <2>3, <2>4 DEF TypeOK, Budget, LoadKprobe, PlainStep, RecStep, history, store, fds
<1>4. CASE LoadReader
  <2>1. rec.req \in Data
    BY <1>4 DEF LoadReader, Serves
  <2>2. rec' \in RecType /\ queue' \in SUBSET Data /\ Serves'
    <3>1. \/ RecRequeue
          \/ /\ UNCHANGED queue
             /\ \E pc \in RecPC : rec' = [rec EXCEPT !.pc = pc]
      BY <1>4 DEF LoadReader, RecPC
    <3> QED
      BY <2>1, <3>1, TypeRequeue
  <2>3. budget' \in Budget
    BY <1>4, TypeFault DEF LoadReader
  <2>4. reading' \in SUBSET (1..loads) /\ RingbuffReader' \in 0..loads
    BY <1>4 DEF LoadReader, TypeOK
  <2> QED
    BY <1>4, <2>2, <2>3, <2>4 DEF TypeOK, Budget, LoadReader, PlainStep, RecStep, history, store, kernel
<1>5. CASE LoadDone
  <2>1. rec' \in RecType /\ Serves'
    BY <1>5 DEF LoadDone, TypeOK, Serves, RecType, RecPC
  <2>2. out' \in [Gen -> OutType]
    <3>1. [NoOut EXCEPT !.pc = "top"] \in OutType
      BY DEF NoOut, OutType, OutPC
    <3> QED
      BY <1>5, <3>1 DEF LoadDone, TypeOK
  <2>3. Loaded' \in BOOLEAN
    BY <1>5, Zenon DEF LoadDone
  <2> QED
    BY <1>5, <2>1, <2>2, <2>3 DEF TypeOK, LoadDone, store, kernel, fds, history
<1> QED
  BY <1>1, <1>2, <1>3, <1>4, <1>5

\* The pass over the KiveData.
LEMMA TypePass ==
    ASSUME TypeOK, Serves, Listed,
           \/ RecList \/ RecAdd \/ RecDelete \/ RecRemove \/ RecPatch \/ RecEnd
    PROVE  TypeOK' /\ Serves'
<1>1. CASE RecList
  <2>1. rec' \in RecType /\ Serves'
    BY <1>1 DEF RecList, TypeOK, Serves, RecType, RecPC, Mine
  <2> QED
    BY <1>1, <2>1 DEF TypeOK, RecList, PlainStep, RecStep, history, store, kernel, package, fds
<1>2. CASE RecAdd
  <2>1. PICK d \in rec.todo :
          /\ map' = map \/ map' = [map EXCEPT ![Objs] = map[Objs] \cup {Key(d)}]
          /\ missed' = missed \ {Key(d)} \/ missed' = missed \cup {Key(d)}
          /\ rec' = [rec EXCEPT !.todo = @ \ {d}]
          /\ Fault \/ UNCHANGED budget
    BY <1>2 DEF RecAdd
  <2>2. Key(d) \in Keys
    BY DEF TypeOK, RecType, Keys
  <2>3. rec' \in RecType /\ rec'.pc = rec.pc /\ rec'.req = rec.req
    BY <2>1 DEF TypeOK, RecType
  <2>4. map' \in [Gen -> SUBSET Keys]
    <3>3. CASE map' = [map EXCEPT ![Objs] = map[Objs] \cup {Key(d)}]
      <4>1. Objs \in Gen => map[Objs] \cup {Key(d)} \in SUBSET Keys
        BY <2>2 DEF TypeOK
      <4> QED
        BY <3>3, <4>1 DEF TypeOK
    <3> QED
      BY <2>1, <3>3 DEF TypeOK
  <2>5. missed' \in SUBSET Keys /\ budget' \in Budget
    BY <2>1, <2>2, TypeFault DEF TypeOK
  <2>6. Serves'
    BY <1>2, <2>3 DEF RecAdd, Serves
  <2> QED
    BY <1>2, <2>3, <2>4, <2>5, <2>6 DEF TypeOK, Budget, RecAdd, RecStep, store, package, fds
<1>3. CASE RecDelete
  <2>1. PICK d \in rec.todo :
          /\ \/ /\ marked' = marked \cup {d}
                /\ queue' = IF d \in marked THEN queue ELSE Enqueued(d)
                /\ UNCHANGED <<missed, budget>>
             \/ Fault /\ missed' = missed \cup {Key(d)} /\ UNCHANGED <<marked, queue>>
          /\ rec' = [rec EXCEPT !.todo = @ \ {d}]
    BY <1>3 DEF RecDelete
  <2>2. d \in stored /\ d \in Data /\ Key(d) \in Keys
    BY <1>3 DEF RecDelete, Listed, Mine, TypeOK, Keys
  <2>3. rec' \in RecType /\ Serves'
    BY <2>1, <2>2, <1>3 DEF RecDelete, TypeOK, Serves, RecType, RecPC
  <2>4. /\ queue' \in SUBSET Data /\ marked' \in SUBSET stored
        /\ missed' \in SUBSET Keys /\ budget' \in Budget
    BY <2>1, <2>2, TypeFault DEF TypeOK, Enqueued
  <2> QED
    BY <1>3, <2>3, <2>4 DEF TypeOK, Budget, RecDelete, RecStep, kernel, package, fds
<1>4. CASE RecRemove
  <2>1. rec' \in RecType /\ Serves'
    BY <1>4 DEF RecRemove, TypeOK, Serves, RecType, RecPC
  <2>2. map' \in [Gen -> SUBSET Keys]
    <3>1. PICK d : map' = map \/ map' = [map EXCEPT ![Objs] = map[Objs] \ {Key(d)}]
      BY <1>4 DEF RecRemove
    <3>2. map[Objs] \ {Key(d)} \subseteq map[Objs]
      OBVIOUS
    <3> QED
      BY <3>1, <3>2 DEF TypeOK
  <2>3. stray' \in SUBSET Keys
    <3>1. PICK d \in rec.todo : stray' = stray \/ stray' = stray \cup {Key(d)}
      BY <1>4 DEF RecRemove
    <3>2. Key(d) \in Keys
      BY DEF TypeOK, RecType, Keys
    <3> QED
      BY <3>1, <3>2 DEF TypeOK
  <2>4. budget' \in Budget
    BY <1>4, TypeFault DEF RecRemove
  <2> QED
    BY <1>4, <2>1, <2>2, <2>3, <2>4 DEF TypeOK, Budget, RecRemove, RecStep, store, package, fds
<1>5. CASE RecPatch
  <2>1. rec.req \in Data /\ rec.cur \in Data
    BY <1>5 DEF RecPatch, Serves, Listed, Mine, TypeOK
  <2>2. rec' \in RecType /\ queue' \in SUBSET Data /\ Serves'
    BY <1>5, <2>1, TypeRequeue
       DEF RecPatch, TypeOK, Serves, RecType, RecPC, RecRequeue, IdleRec, Enqueued
  <2>3. budget' \in Budget
    BY <1>5, TypeFault DEF RecPatch
  <2>4. stored' \in SUBSET Data /\ marked' \in SUBSET stored'
    BY <1>5 DEF RecPatch, TypeOK, store
  <2> QED
    BY <1>5, <2>2, <2>3, <2>4 DEF TypeOK, Budget, RecPatch, PlainStep, RecStep, history, kernel, package, fds
<1>6. CASE RecEnd
  <2>1. rec' \in RecType /\ Serves'
    BY <1>6 DEF RecEnd, Serves, IdleRec, RecType, RecPC
  <2> QED
    BY <1>6, <2>1 DEF TypeOK, RecEnd, PlainStep, RecStep, history, store, kernel, package, fds
<1> QED
  BY <1>1, <1>2, <1>3, <1>4, <1>5, <1>6

\* The kernel's steps.
LEMMA TypeKernel ==
    ASSUME TypeOK, (\E k \in Keys : Access(k)) \/ (\E g \in Gen : Collect(g))
    PROVE  TypeOK'
<1>1. ASSUME NEW k \in Keys, Access(k) PROVE TypeOK'
  <2>1. budget' \in Budget
    <3>1. budget \in Budget /\ budget.access - 1 \in Nat
      BY <1>1 DEF TypeOK, Budget, Access
    <3> QED
      BY <1>1, <3>1 DEF Access, Budget
  <2>2. ring' \in [Gen -> Seq(Keys)]
    BY <1>1 DEF Access, TypeOK
  <2> QED
    BY <1>1, <2>1, <2>2 DEF TypeOK, Budget, Access, store, package, fds, procs, history
<1>2. ASSUME NEW g \in Gen, Collect(g) PROVE TypeOK'
  BY <1>2 DEF TypeOK, Collect, store, package, fds, procs, history
<1> QED
  BY <1>1, <1>2

\* Output.
LEMMA TypeOutput ==
    ASSUME TypeOK, NEW o \in Gen, OutEnter(o) \/ OutRead(o) \/ OutList(o) \/ OutSend(o)
    PROVE  TypeOK'
<1>0. reading \subseteq Gen
  BY TracerAssumption DEF TypeOK, Gen
<1>1. out[o] \in OutType /\ [NoOut EXCEPT !.pc = "top"] \in OutType
  BY DEF TypeOK, NoOut, OutType, OutPC
<1>2. \E t \in OutType : out' = [out EXCEPT ![o] = t]
  <2>1. CASE OutEnter(o)
    <3>1. RingbuffReader \in Gen
      BY SMTT(30), <2>1, TracerAssumption DEF OutEnter, TypeOK, Gen
    <3>2. [out[o] EXCEPT !.pc = "read", !.on = RingbuffReader] \in OutType
      BY <1>1, <3>1 DEF OutType, OutPC
    <3> QED
      BY <2>1, <3>2 DEF OutEnter
  <2>2. CASE OutRead(o)
    <3> DEFINE g == out[o].on
    <3>1. CASE g \in reading /\ ring[g] # <<>>
      <4>1. g \in Gen
        BY <3>1, <1>0
      <4>2. Head(ring[g]) \in Keys
        BY <3>1, <4>1 DEF TypeOK
      <4>3. [out[o] EXCEPT !.pc = "list", !.on = 0, !.ev = Head(ring[g])] \in OutType
        BY <1>1, <4>2 DEF OutType, OutPC
      <4> QED
        BY <2>2, <3>1, <4>3, <1>1 DEF OutRead
    <3> QED
      BY <2>2, <3>1, <1>1 DEF OutRead
  <2>3. CASE OutList(o)
    <3>1. CASE \E d \in Candidates(out[o].ev) :
                 out' = [out EXCEPT ![o] = [out[o] EXCEPT !.pc = "send", !.data = d]]
      <4>1. PICK d \in Candidates(out[o].ev) :
                 out' = [out EXCEPT ![o] = [out[o] EXCEPT !.pc = "send", !.data = d]]
        BY <3>1
      <4>2. d \in Data
        BY DEF Candidates, TypeOK
      <4>3. [out[o] EXCEPT !.pc = "send", !.data = d] \in OutType
        BY <1>1, <4>2 DEF OutType, OutPC
      <4> QED
        BY <4>1, <4>3
    <3> QED
      BY <2>3, <3>1, <1>1 DEF OutList
  <2>4. CASE OutSend(o)
    BY <2>4, <1>1 DEF OutSend
  <2> QED
    BY <2>1, <2>2, <2>3, <2>4
<1>3. out' \in [Gen -> OutType]
  BY <1>2 DEF TypeOK
<1>4. ring' \in [Gen -> Seq(Keys)]
  <2>1. ring' = ring \/ \E g \in reading : ring[g] # <<>> /\ ring' = [ring EXCEPT ![g] = Tail(@)]
    BY DEF OutEnter, OutRead, OutList, OutSend
  <2>2. ASSUME NEW g \in reading, ring[g] # <<>>, ring' = [ring EXCEPT ![g] = Tail(@)]
        PROVE  ring' \in [Gen -> Seq(Keys)]
    <3>1. g \in Gen /\ ring[g] \in Seq(Keys)
      BY <1>0 DEF TypeOK
    <3>2. Tail(ring[g]) \in Seq(Keys)
      BY <2>2, <3>1
    <3> QED
      BY <2>2, <3>2 DEF TypeOK
  <2> QED
    BY <2>1, <2>2 DEF TypeOK
<1>5. budget' \in Budget
  BY TypeFault DEF OutEnter, OutRead, OutList, OutSend
<1>6. OutStep
  BY DEF OutEnter, OutRead, OutList, OutSend
<1> QED
  BY <1>3, <1>4, <1>5, <1>6 DEF TypeOK, Budget, OutStep, store, package, fds, history

\* Shutdown.
LEMMA TypeUnload ==
    ASSUME TypeOK, NEW u \in Unloader, UnloadEbpf(u)
    PROVE  TypeOK'
<1>1. unload' \in [Unloader -> UnloadPC]
  <2>1. PICK pc \in UnloadPC : unload' = [unload EXCEPT ![u] = pc]
    <3>1. ASSUME NEW pc, pc \in UnloadPC, UnloadTo(u, pc)
          PROVE  \E q \in UnloadPC : unload' = [unload EXCEPT ![u] = q]
      BY <3>1 DEF UnloadTo
    <3>2. {"done", "map", "objects", "reader", "loaded"} \subseteq UnloadPC
      BY DEF UnloadPC
    <3> QED
      BY <3>1, <3>2 DEF UnloadEbpf, UnloadKprobe, UnloadMap, UnloadObjects, UnloadReader,
         UnloadDone
  <2> QED
    BY <2>1 DEF TypeOK
<1>2. attached' \in [Gen -> Program \cup {"none"}] /\ ring' \in [Gen -> Seq(Keys)]
  <2>1. \/ attached' = attached
        \/ attached' = [g \in Gen |-> IF g = Kprobe THEN "none" ELSE attached[g]]
    BY DEF UnloadEbpf, UnloadKprobe, UnloadMap, UnloadObjects, UnloadReader, UnloadDone
  <2>2. \/ ring' = ring
        \/ ring' = [g \in Gen |-> IF g = RingbuffReader THEN <<>> ELSE ring[g]]
    BY DEF UnloadEbpf, UnloadKprobe, UnloadMap, UnloadObjects, UnloadReader, UnloadDone
  <2>3. attached' \in [Gen -> Program \cup {"none"}]
    BY <2>1 DEF TypeOK
  <2>4. ring' \in [Gen -> Seq(Keys)]
    <3>1. <<>> \in Seq(Keys) /\ \A g \in Gen : ring[g] \in Seq(Keys)
      BY DEF TypeOK
    <3>2. [g \in Gen |-> IF g = RingbuffReader THEN <<>> ELSE ring[g]] \in [Gen -> Seq(Keys)]
      BY <3>1, Zenon
    <3> QED
      BY <2>2, <3>2 DEF TypeOK
  <2> QED
    BY <2>3, <2>4
<1>3. Loaded' \in BOOLEAN
  <2>1. Loaded' = Loaded \/ Loaded' = FALSE
    BY DEF UnloadEbpf, UnloadKprobe, UnloadMap, UnloadObjects, UnloadReader, UnloadDone
  <2> QED
    BY <2>1, Zenon DEF TypeOK
<1>4. /\ mapfd' \in SUBSET (1..loads) /\ objfd' \in SUBSET (1..loads)
      /\ reading' \in SUBSET (1..loads)
  BY DEF TypeOK, UnloadEbpf, UnloadKprobe, UnloadMap, UnloadObjects, UnloadReader,
         UnloadDone
<1>5. UNCHANGED <<store, release, map, queue, rec, out, stopping, history, budget,
                  loads, Objs, Kprobe, RingbuffReader>>
  BY DEF UnloadEbpf, UnloadKprobe, UnloadMap, UnloadObjects, UnloadReader, UnloadDone,
         UnloadTo
<1> QED
  BY <1>1, <1>2, <1>3, <1>4, <1>5 DEF TypeOK, store, history

LEMMA TypeEnd ==
    ASSUME TypeOK, Stop \/ ManagerReturns \/ Exit \/ Crash
    PROVE  TypeOK'
<1>1. budget' \in Budget
  <2>1. budget \in Budget
    BY DEF TypeOK, Budget
  <2>2. CASE Stop \/ Crash
    <3>1. budget.stops - 1 \in Nat
      BY <2>1, <2>2 DEF Stop, Crash, Budget
    <3> QED
      BY <2>1, <2>2, <3>1 DEF Stop, Crash, Budget
  <2> QED
    BY <2>1, <2>2 DEF ManagerReturns, Exit
<1>2. CASE Stop \/ ManagerReturns
  <2>1. unload' \in [Unloader -> UnloadPC]
    BY <1>2 DEF TypeOK, Stop, ManagerReturns, UnloadPC
  <2>2. stopping' = TRUE \/ stopping' = stopping
    BY <1>2 DEF Stop, ManagerReturns
  <2>3. stopping' \in BOOLEAN
    BY <2>2, Zenon DEF TypeOK
  <2> QED
    BY <1>1, <1>2, <2>1, <2>3
       DEF TypeOK, Budget, Stop, ManagerReturns, store, kernel, package, fds, history
<1>3. CASE Exit \/ Crash
  <2>1. ProcessEnds
    BY <1>3 DEF Exit, Crash
  <2>2. rec' \in RecType
    BY <2>1 DEF ProcessEnds, IdleRec, RecType, RecPC
  <2>3. out' \in [Gen -> OutType]
    <3>1. NoOut \in OutType
      BY DEF NoOut, OutType, OutPC
    <3> QED
      BY <2>1, <3>1 DEF ProcessEnds
  <2>4. /\ unload' \in [Unloader -> UnloadPC]
        /\ attached' \in [Gen -> Program \cup {"none"}]
        /\ map' \in [Gen -> SUBSET Keys]
    BY <2>1 DEF ProcessEnds, UnloadPC
  <2>5. ring' \in [Gen -> Seq(Keys)]
    BY <2>1 DEF ProcessEnds
  <2>6. Loaded' \in BOOLEAN /\ stopping' \in BOOLEAN
    BY <2>1, Zenon DEF ProcessEnds
  <2>7. UNCHANGED <<stored, marked, release>> /\ queue' = stored
    BY <2>1 DEF ProcessEnds, store
  <2>8. /\ loads' = 0 /\ mapfd' = {} /\ objfd' = {} /\ reading' = {}
        /\ Objs' = 0 /\ Kprobe' = 0 /\ RingbuffReader' = 0
        /\ stray' = {} /\ missed' = {}
    BY <2>1 DEF ProcessEnds
  <2> QED
    BY <1>1, <2>2, <2>3, <2>4, <2>5, <2>6, <2>7, <2>8, TracerAssumption DEF TypeOK, Budget
<1> QED
  BY <1>2, <1>3

-----------------------------------------------------------------------------
(* The rest of the invariant *)

Rest == Open /\ Progress /\ OneMap /\ Named /\ Listed

LEMMA RestInit == Init => Rest
BY TracerAssumption
   DEF Init, Rest, Open, Progress, OneMap, Named, Listed, IdleRec, Unloader

\* A step that leaves the maps, the generations and the reconcile alone, and
\* takes no KiveData away.
LEMMA RestSame ==
    ASSUME TypeOK, Rest, stored \subseteq stored', marked \subseteq marked',
           UNCHANGED <<kernel, package, fds, rec, unload, stopping, history>>
    PROVE  Rest'
<1>1. Open' /\ OneMap'
  BY DEF Rest, Open, OneMap, kernel, package, fds
<1>2. Progress'
  BY DEF Rest, Progress, Probed, Reads, kernel, package, fds
<1>3. Mine(stored) \subseteq Mine(stored') /\ Mine(marked) \subseteq Mine(marked')
  BY DEF Mine
<1>4. Named'
  BY <1>3 DEF Rest, Named, Mine, kernel, history
<1>5. Listed'
  BY <1>3 DEF Rest, Listed, Mine, kernel, package, history
<1> QED
  BY <1>1, <1>2, <1>4, <1>5 DEF Rest

LEMMA RestOutside ==
    ASSUME TypeOK, Rest, NEW d \in Data, CreateData(d) \/ DeleteData(d)
    PROVE  Rest'
BY RestSame DEF CreateData, DeleteData, Change

\* Until a shutdown nothing can go wrong in LoadEbpf but a fault, and each of
\* its steps builds on the one before.
LEMMA RestLoad ==
    ASSUME TypeOK, Rest,
           RecStart \/ LoadObjects \/ LoadKprobe \/ LoadReader \/ LoadDone
    PROVE  Rest'
<1>1. CASE RecStart
  <2>1. rec'.pc = IF Loaded THEN "list" ELSE "objects"
    BY <1>1 DEF RecStart, TypeOK, RecType
  <2>2. Open' /\ OneMap' /\ Named'
    BY <1>1 DEF RecStart, PlainStep, RecStep, history, Rest, Open, OneMap, Named, Mine, store, kernel, package, fds
  <2>3. Progress'
    BY <1>1, <2>1
       DEF RecStart, PlainStep, RecStep, history, Rest, Progress, Probed, Reads, kernel, package, fds, TypeOK
  <2>4. Listed'
    BY <2>1 DEF Listed
  <2> QED
    BY <2>2, <2>3, <2>4 DEF Rest
<1>2. CASE LoadObjects
  <2>1. CASE /\ loads' = loads + 1 /\ Objs' = loads'
             /\ mapfd' = mapfd \cup {loads'} /\ objfd' = objfd \cup {loads'}
             /\ rec' = [rec EXCEPT !.pc = "probe"]
    <3>1. rec'.pc = "probe"
      BY <2>1 DEF TypeOK, RecType
    <3>2. Open'
      <4>1. loads \in Nat /\ (1..loads) \cup {loads + 1} = 1..(loads + 1)
        BY DEF TypeOK
      <4> QED
        BY <1>2, <2>1, <4>1 DEF LoadObjects, PlainStep, RecStep, history, Rest, Open
    <3>3. Progress'
      BY <1>2, <2>1, <3>1 DEF LoadObjects, PlainStep, RecStep, history, Rest, Progress, TypeOK
    <3>4. OneMap' /\ Named'
      BY <1>2 DEF LoadObjects, PlainStep, RecStep, history, Rest, Progress, OneMap, Named, Mine, store, kernel
    <3> QED
      BY <3>1, <3>2, <3>3, <3>4 DEF Rest, Listed
  <2>2. CASE RecRequeue /\ UNCHANGED <<Objs, loads, mapfd, objfd>>
    <3>1. rec'.pc = "idle"
      BY <2>2 DEF RecRequeue, IdleRec
    <3>2. Open' /\ Named' /\ OneMap'
      BY <1>2, <2>2
         DEF LoadObjects, PlainStep, RecStep, history, Rest, Open, Named, OneMap, Mine, store, kernel
    <3>3. Progress'
      BY <1>2, <2>2, <3>1
         DEF LoadObjects, PlainStep, RecStep, history, Rest, Progress, Probed, Reads, kernel
    <3> QED
      BY <3>1, <3>2, <3>3 DEF Rest, Listed
  <2> QED
    BY <1>2, <2>1, <2>2 DEF LoadObjects
<1>3. CASE LoadKprobe
  <2>1. Open' /\ Named' /\ OneMap'
    BY <1>3 DEF LoadKprobe, PlainStep, RecStep, history, Rest, Open, Named, OneMap, Mine, store, fds
  <2>2. CASE /\ attached' = [attached EXCEPT ![Objs] =
                               IF isKernelOld(release) THEN "old" ELSE "new"]
             /\ Kprobe' = Objs
             /\ rec' = [rec EXCEPT !.pc = "reader"]
    <3>1. rec'.pc = "reader"
      BY <2>2 DEF TypeOK, RecType
    <3>2. ASSUME ~stopping PROVE Probed'
      <4>1. Objs \in Gen /\ Objs # 0
        BY SMTT(30), <1>3, <3>2, TracerAssumption DEF LoadKprobe, Rest, Progress, TypeOK, Gen
      <4>2. attached'[Objs] = IF isKernelOld(release) THEN "old" ELSE "new"
        BY <2>2, <4>1 DEF TypeOK
      <4>3. release \in Nat \X Nat
        BY TracerAssumption DEF TypeOK
      <4>4. ParamOf(attached'[Objs]) = InodeParam(release)
        BY <4>2, <4>3 DEF ParamOf, InodeParam, isKernelOld
      <4> QED
        BY <1>3, <2>2, <4>1, <4>2, <4>4 DEF LoadKprobe, Probed
    <3>3. Progress'
      BY <1>3, <3>1, <3>2 DEF LoadKprobe, PlainStep, RecStep, history, Rest, Progress, TypeOK
    <3> QED
      BY <2>1, <3>1, <3>3 DEF Rest, Listed
  <2>3. CASE RecRequeue
    <3>1. rec'.pc = "idle"
      BY <2>3 DEF RecRequeue, IdleRec
    <3>2. Progress'
      BY <1>3, <3>1 DEF LoadKprobe, PlainStep, RecStep, history, Rest, Progress, TypeOK
    <3> QED
      BY <2>1, <3>1, <3>2 DEF Rest, Listed
  <2> QED
    BY <1>3, <2>2, <2>3 DEF LoadKprobe
<1>4. CASE LoadReader
  <2>1. Open' /\ Named' /\ OneMap'
    BY <1>4 DEF LoadReader, PlainStep, RecStep, history, Rest, Open, Named, OneMap, Mine, store, kernel
  <2>2. CASE /\ RingbuffReader' = Objs
             /\ reading' = reading \cup {Objs}
             /\ rec' = [rec EXCEPT !.pc = "loaded"]
    <3>1. rec'.pc = "loaded"
      BY <2>2 DEF TypeOK, RecType
    <3>2. Progress'
      BY <1>4, <2>2, <3>1
         DEF LoadReader, PlainStep, RecStep, history, Rest, Progress, Probed, Reads, TypeOK, kernel
    <3> QED
      BY <2>1, <3>1, <3>2 DEF Rest, Listed
  <2>3. CASE RecRequeue
    <3>1. rec'.pc = "idle"
      BY <2>3 DEF RecRequeue, IdleRec
    <3>2. Progress'
      BY <1>4, <3>1 DEF LoadReader, PlainStep, RecStep, history, Rest, Progress, TypeOK
    <3> QED
      BY <2>1, <3>1, <3>2 DEF Rest, Listed
  <2> QED
    BY <1>4, <2>2, <2>3 DEF LoadReader
<1>5. CASE LoadDone
  <2>1. rec'.pc = "list"
    BY <1>5 DEF LoadDone, TypeOK, RecType
  <2>2. Open' /\ Named' /\ OneMap'
    BY <1>5 DEF LoadDone, Rest, Open, Named, OneMap, Mine, store, kernel, fds, history
  <2>3. Progress'
    BY <1>5, <2>1 DEF LoadDone, Rest, Progress, Probed, Reads, kernel, fds
  <2> QED
    BY <2>1, <2>2, <2>3 DEF Rest, Listed
<1> QED
  BY <1>1, <1>2, <1>3, <1>4, <1>5

\* The pass over the KiveData. What it lists stays stored until it takes the
\* finalizer itself, and by then the key is out of the only map with keys.
LEMMA RestPass ==
    ASSUME TypeOK, Rest,
           RecList \/ RecAdd \/ RecDelete \/ RecRemove \/ RecPatch \/ RecEnd
    PROVE  Rest'
<1>1. CASE RecList \/ RecEnd
  <2>1. UNCHANGED <<store, kernel, package, fds, unload, stopping, stray>>
    BY <1>1 DEF RecList, RecEnd, PlainStep, RecStep, history
  <2>2. Open' /\ OneMap' /\ Named'
    BY <2>1 DEF Rest, Open, OneMap, Named, Mine, store, kernel, package, fds
  <2>3. \/ rec'.pc = "idle"
        \/ rec.pc = "list" /\ rec'.pc = "data" /\ rec'.todo = Mine(stored) /\ rec'.del = Mine(marked)
    <3>1. CASE RecList
      BY <3>1 DEF RecList, TypeOK, RecType
    <3>2. CASE RecEnd
      BY <3>2 DEF RecEnd, IdleRec
    <3> QED
      BY <1>1, <3>1, <3>2
  <2>4. Progress'
    BY <2>1, <2>3 DEF Rest, Progress, Probed, Reads, kernel, package, fds
  <2>5. Listed'
    BY <2>1, <2>3 DEF Listed, Mine, store
  <2> QED
    BY <2>2, <2>4, <2>5 DEF Rest
<1>2. CASE RecAdd
  <2>1. PICK d \in rec.todo :
          /\ map' = map \/ map' = [map EXCEPT ![Objs] = map[Objs] \cup {Key(d)}]
          /\ rec' = [rec EXCEPT !.todo = @ \ {d}]
    BY <1>2 DEF RecAdd
  <2>2. d \in Mine(stored) /\ rec.pc = "data"
    BY <1>2 DEF RecAdd, Rest, Listed
  <2>3. UNCHANGED <<store, release, attached, package, fds, unload, stopping, stray>>
    BY <1>2 DEF RecAdd, RecStep
  <2>4. /\ rec'.pc = "data" /\ rec'.todo = rec.todo \ {d} /\ rec'.del = rec.del
    BY <2>1, <2>2 DEF TypeOK, RecType
  <2>5. ASSUME NEW g \in Gen
        PROVE  map'[g] = map[g] \/ (g = Objs /\ map'[g] = map[g] \cup {Key(d)})
    BY <2>1 DEF TypeOK
  <2>6. Named'
    BY <2>2, <2>3, <2>5 DEF Rest, Named, Mine, store
  <2>7. OneMap'
    BY <2>2, <2>3, <2>5 DEF Rest, OneMap, Progress, package
  <2>8. Open' /\ Progress'
    BY <2>2, <2>3, <2>4 DEF Rest, Open, Progress, Probed, Reads, package, fds
  <2>9. Listed'
    BY <2>2, <2>3, <2>4 DEF Rest, Listed, Mine, store
  <2> QED
    BY <2>6, <2>7, <2>8, <2>9 DEF Rest
<1>3. CASE RecDelete
  <2>1. PICK d \in rec.todo :
          /\ marked' = marked \cup {d} \/ marked' = marked
          /\ rec' = [rec EXCEPT !.todo = @ \ {d}]
    BY <1>3 DEF RecDelete
  <2>2. /\ UNCHANGED <<stored, kernel, package, fds, unload, stopping, stray>>
        /\ rec.pc = "data"
    BY <1>3 DEF RecDelete, RecStep
  <2>3. /\ rec'.pc = "data" /\ rec'.todo = rec.todo \ {d} /\ rec'.del = rec.del
    BY <2>1, <2>2 DEF TypeOK, RecType
  <2>4. Open' /\ Progress' /\ OneMap' /\ Named'
    BY <2>2, <2>3
       DEF Rest, Open, Progress, Probed, Reads, OneMap, Named, Mine, kernel, package, fds
  <2>5. Listed'
    BY <2>1, <2>2, <2>3 DEF Rest, Listed, Mine
  <2> QED
    BY <2>4, <2>5 DEF Rest
<1>4. CASE RecRemove
  <2>1. PICK d \in rec.todo \cap rec.del :
          /\ \/ /\ map' = IF Objs \in mapfd
                          THEN [map EXCEPT ![Objs] = map[Objs] \ {Key(d)}] ELSE map
                /\ UNCHANGED stray
             \/ UNCHANGED map /\ stray' = stray \cup {Key(d)}
          /\ rec' = [rec EXCEPT !.pc = "patch", !.cur = d]
    BY <1>4 DEF RecRemove
  <2>2. /\ UNCHANGED <<store, release, attached, package, fds, unload, stopping>>
        /\ rec.pc = "data" /\ stray \subseteq stray'
    BY <1>4 DEF RecRemove, RecStep
  <2>3. rec'.pc = "patch" /\ rec'.cur = d
    BY <2>1 DEF TypeOK, RecType
  <2>4. ASSUME NEW g \in Gen PROVE map'[g] \subseteq map[g]
    <3>1. map' = map \/ map' = [map EXCEPT ![Objs] = map[Objs] \ {Key(d)}]
      BY <2>1
    <3> QED
      BY <3>1 DEF TypeOK
  <2>5. Open' /\ Progress'
    BY SMTT(30), <2>2, <2>3 DEF Rest, Open, Progress, Probed, Reads, package, fds
  <2>6. OneMap' /\ Named'
    BY <2>2, <2>4 DEF Rest, OneMap, Named, Mine, store, package
  <2>7. d \in Mine(marked)
    BY <2>2 DEF Rest, Listed
  <2>8. ASSUME ~stopping PROVE Key(d) \notin map'[Objs] \ stray'
    <3>1. Objs \in mapfd /\ Objs \in Gen
      BY <2>2, <2>8, TracerAssumption DEF Rest, Open, Progress, Probed, TypeOK, Gen
    <3> QED
      BY <2>1, <3>1 DEF TypeOK
  <2>9. Listed'
    BY <2>2, <2>3, <2>7, <2>8 DEF Listed, Mine, Key, store, package
  <2> QED
    BY <2>5, <2>6, <2>9 DEF Rest
<1>5. CASE RecPatch
  <2>1. UNCHANGED <<kernel, package, fds, unload, stopping, stray>> /\ rec.pc = "patch"
    BY <1>5 DEF RecPatch, PlainStep, RecStep, history
  <2>2. rec'.pc = "idle"
    BY <1>5 DEF RecPatch, RecRequeue, IdleRec
  <2>3. Open' /\ Progress' /\ OneMap'
    BY <2>1, <2>2 DEF Rest, Open, Progress, Probed, Reads, OneMap, kernel, package, fds
  <2>4. Named'
    <3>1. CASE UNCHANGED store
      BY <2>1, <3>1 DEF Rest, Named, Mine, store, kernel
    <3>2. CASE ~stopping /\ stored' = stored \ {rec.cur}
      <4>1. ASSUME NEW g \in Gen, NEW k \in map[g] \ stray
            PROVE  \E d \in Mine(stored') : Key(d) = k
        <5>1. PICK d \in Mine(stored) : Key(d) = k
          BY DEF Rest, Named
        <5>2. g = Objs
          BY <3>2 DEF Rest, OneMap
        <5>3. d # rec.cur
          BY <2>1, <3>2, <5>1, <5>2 DEF Rest, Listed
        <5> QED
          BY <3>2, <5>1, <5>3 DEF Mine
      <4> QED
        BY <4>1, <2>1 DEF Named, Mine, kernel
    <3> QED
      BY <1>5, <3>1, <3>2 DEF RecPatch
  <2> QED
    BY <2>2, <2>3, <2>4 DEF Rest, Listed
<1> QED
  BY <1>1, <1>2, <1>3, <1>4, <1>5

\* An access, and a probe closed by the garbage collector.
LEMMA RestKernel ==
    ASSUME TypeOK, Rest, (\E k \in Keys : Access(k)) \/ (\E g \in Gen : Collect(g))
    PROVE  Rest'
<1>1. UNCHANGED <<store, release, map, package, fds, rec, unload, stopping, stray>>
  BY DEF Access, Collect, procs, history
<1>2. Open' /\ OneMap' /\ Named' /\ Listed'
  BY <1>1 DEF Rest, Open, OneMap, Named, Listed, Mine, store, package, fds
<1>3. Progress'
  <2>1. attached' = attached \/ \E g \in Gen : g # Kprobe /\ attached' = [attached EXCEPT ![g] = "none"]
    BY DEF Access, Collect
  <2>2. Kprobe \in Gen => attached'[Kprobe] = attached[Kprobe]
    BY <2>1 DEF TypeOK
  <2>3. Kprobe # 0 => Kprobe \in Gen
    BY TracerAssumption DEF TypeOK, Gen
  <2>4. Probed => Probed'
    BY <1>1, <2>2, <2>3 DEF Probed, package
  <2> QED
    BY <1>1, <2>4 DEF Rest, Progress, Reads, package, fds
<1> QED
  BY <1>2, <1>3 DEF Rest

LEMMA RestOutput ==
    ASSUME TypeOK, Rest, NEW o \in Gen, OutEnter(o) \/ OutRead(o) \/ OutList(o) \/ OutSend(o)
    PROVE  Rest'
<1>1. UNCHANGED <<store, release, attached, map, package, fds, rec, unload, stopping,
                  stray>>
  BY DEF OutEnter, OutRead, OutList, OutSend, OutStep, history
<1>2. Open' /\ OneMap' /\ Named' /\ Listed'
  BY <1>1 DEF Rest, Open, OneMap, Named, Listed, Mine, store, package, fds
<1>3. Progress'
  BY <1>1 DEF Rest, Progress, Probed, Reads, package, fds
<1> QED
  BY <1>2, <1>3 DEF Rest

\* UnloadEbpf only runs in a shutdown, and closes descriptors only.
LEMMA RestUnload ==
    ASSUME TypeOK, Rest, NEW u \in Unloader, UnloadEbpf(u)
    PROVE  Rest'
<1>1. unload[u] # "off"
  BY DEF UnloadEbpf, UnloadKprobe, UnloadMap, UnloadObjects, UnloadReader, UnloadDone
<1>2. UNCHANGED <<store, map, rec, stopping, Objs, stray>>
  BY DEF UnloadEbpf, UnloadKprobe, UnloadMap, UnloadObjects, UnloadReader, UnloadDone,
         UnloadTo, history
<1>3. stopping /\ stopping'
  BY <1>1, <1>2 DEF Rest, Open
<1> QED
  BY <1>2, <1>3 DEF Rest, Open, Progress, OneMap, Named, Listed, Mine, store

LEMMA RestEnd ==
    ASSUME TypeOK, Rest, Stop \/ ManagerReturns \/ Exit \/ Crash
    PROVE  Rest'
<1>1. CASE Stop \/ ManagerReturns
  <2>1. stopping' /\ UNCHANGED <<store, kernel, package, rec, stray>>
    BY <1>1 DEF Stop, ManagerReturns, history
  <2> QED
    BY <2>1 DEF Rest, Open, Progress, OneMap, Named, Listed, Mine, store, kernel, package
<1>2. CASE Exit \/ Crash
  <2>1. ProcessEnds
    BY <1>2 DEF Exit, Crash
  <2>2. /\ rec'.pc = "idle" /\ Loaded' = FALSE /\ loads' = 0 /\ Objs' = 0
        /\ mapfd' = {} /\ objfd' = {}
        /\ map' = [g \in Gen |-> {}]
        /\ unload' = [u \in Unloader |-> "off"]
    BY <2>1 DEF ProcessEnds, IdleRec
  <2> QED
    BY <2>2 DEF Rest, Open, Progress, OneMap, Named, Listed
<1> QED
  BY <1>1, <1>2

-----------------------------------------------------------------------------
(* The theorems *)

LEMMA InvInit == Init => Inv
BY TypeInit, RestInit DEF Inv, Rest, Serves, Init, IdleRec

\* Every step keeps the invariant.
LEMMA InvStep == Inv /\ [Next]_vars => Inv'
<1> SUFFICES ASSUME Inv, [Next]_vars PROVE Inv'
  OBVIOUS
<1>0. TypeOK /\ Serves /\ Rest /\ Listed
  BY DEF Inv, Rest
<1> SUFFICES TypeOK' /\ Serves' /\ Rest'
  BY DEF Inv, Rest
<1>1. ASSUME NEW d \in Data, CreateData(d) \/ DeleteData(d)
      PROVE  TypeOK' /\ Serves' /\ Rest'
  BY <1>0, <1>1, TypeOutside, RestOutside DEF Serves, CreateData, DeleteData, Change
<1>2. CASE RecStart \/ LoadObjects \/ LoadKprobe \/ LoadReader \/ LoadDone
  BY <1>0, <1>2, TypeLoad, RestLoad
<1>3. CASE RecList \/ RecAdd \/ RecDelete \/ RecRemove \/ RecPatch \/ RecEnd
  BY <1>0, <1>3, TypePass, RestPass
<1>4. CASE (\E k \in Keys : Access(k)) \/ (\E g \in Gen : Collect(g))
  BY <1>0, <1>4, TypeKernel, RestKernel DEF Serves, Access, Collect, procs, history
<1>5. ASSUME NEW o \in Gen, OutEnter(o) \/ OutRead(o) \/ OutList(o) \/ OutSend(o)
      PROVE  TypeOK' /\ Serves' /\ Rest'
  <2>1. rec' = rec
    BY <1>5 DEF OutEnter, OutRead, OutList, OutSend, OutStep
  <2> QED
    BY <1>0, <1>5, <2>1, TypeOutput, RestOutput DEF Serves
<1>6. ASSUME NEW u \in Unloader, UnloadEbpf(u)
      PROVE  TypeOK' /\ Serves' /\ Rest'
  <2>1. rec' = rec
    BY <1>6 DEF UnloadEbpf, UnloadKprobe, UnloadMap, UnloadObjects, UnloadReader,
                UnloadDone, UnloadTo
  <2> QED
    BY <1>0, <1>6, <2>1, TypeUnload, RestUnload DEF Serves
<1>7. CASE Stop \/ ManagerReturns \/ Exit \/ Crash
  <2>1. rec' = rec \/ rec'.pc = "idle"
    BY <1>7 DEF Stop, ManagerReturns, Exit, Crash, ProcessEnds, IdleRec
  <2> QED
    BY <1>0, <1>7, <2>1, TypeEnd, RestEnd DEF Serves
<1>8. CASE UNCHANGED vars
  <2>1. TypeOK' /\ Serves'
    BY <1>0, <1>8 DEF TypeOK, Serves, vars, store, kernel, package, fds, procs, history
  <2>2. Rest'
    BY <1>0, <1>8, RestSame DEF vars, store, procs, history
  <2> QED
    BY <2>1, <2>2
<1> QED
  BY <1>1, <1>2, <1>3, <1>4, <1>5, <1>6, <1>7, <1>8 DEF Next, Reconcile

LEMMA InvAlways == Spec => []Inv
BY InvInit, InvStep, PTL DEF Spec

\* What the probes report while nobody stops the process: the keys in the map
\* of the current objects, once these are loaded.
Current == IF Loaded THEN map[Objs] ELSE {}

LEMMA HitsCurrent ==
    ASSUME Inv, ~stopping, NEW k \in Keys
    PROVE  /\ Hits(k) \subseteq {Objs}
           /\ Hits(k) # {} <=> k \in Current
<1>1. \A g \in Gen : k \in map[g] => Loaded /\ g = Objs
  BY DEF Inv, OneMap
<1>2. Hits(k) \subseteq {Objs}
  BY <1>1 DEF Hits
<1>3. ASSUME k \in Current PROVE Hits(k) # {}
  <2>1. Loaded /\ k \in map[Objs]
    BY <1>3 DEF Current
  <2>2. Probed /\ Objs \in Gen
    BY <2>1, TracerAssumption DEF Inv, Progress, Probed, TypeOK, Gen
  <2> QED
    BY <2>1, <2>2 DEF Hits, Probed
<1>4. ASSUME Hits(k) # {} PROVE k \in Current
  BY <1>1, <1>4 DEF Hits, Current
<1> QED
  BY <1>2, <1>3, <1>4

\* All variables keep their types through any sequence of loads, faults,
\* shutdowns and crashes: no event or request is ever malformed.
THEOREM TracerTypeCorrect == Spec => []TypeOK
BY InvAlways, PTL DEF Inv

\* Loaded is never set over a half-loaded LoadEbpf, and the probe always runs
\* the program for the kernel's release.
THEOREM OnePathCorrect == Spec => []OnePath
<1>1. Inv => OnePath
  BY TracerAssumption DEF Inv, OnePath, Open, Progress, Probed, Reads, TypeOK
<1> QED
  BY <1>1, InvAlways, PTL

\* However many probes earlier calls of LoadEbpf left attached, an access
\* makes at most one event.
THEOREM OneEventCorrect == Spec => []OneEvent
<1>1. Inv => OneEvent
  <2> SUFFICES ASSUME Inv, ~stopping, NEW k \in Keys
               PROVE  Cardinality(Hits(k)) <= 1
    BY DEF OneEvent
  <2>1. Hits(k) \subseteq {Objs}
    BY HitsCurrent
  <2>2. IsFiniteSet({Objs}) /\ Cardinality({Objs}) = 1
    BY FS_Singleton
  <2> QED
    BY <2>1, <2>2, FS_Subset
<1> QED
  BY <1>1, InvAlways, PTL

\* At every moment, those of a shutdown included, what a probe reports is a
\* file of a stored KiveData of this kernel, or one whose RemoveInode failed on
\* the open map.
THEOREM BackedCorrect == Spec => []Backed
<1>1. Inv => Backed
  BY DEF Inv, Backed, Named, Hits
<1> QED
  BY <1>1, InvAlways, PTL

-----------------------------------------------------------------------------
(* Tracer implements TracedFiles *)

TracedNow   == IF stopping THEN {} ELSE {key \in Keys : Hits(key) # {}}
PromiseStep == [Promise!Next]_(Promise!vars)

StrayNow    == IF stopping THEN {} ELSE stray

Mapped == TracedNow = IF stopping THEN {} ELSE Current

LEMMA TracedIsCurrent == Inv => Mapped
<1> SUFFICES ASSUME Inv PROVE Mapped
  OBVIOUS
<1>1. ASSUME ~stopping PROVE Current \subseteq Keys
  BY <1>1, TracerAssumption DEF Inv, TypeOK, Current, Progress, Probed, Gen
<1> QED
  BY <1>1, HitsCurrent DEF TracedNow, Mapped

LEMMA TracedIsCurrentNext == Inv' => Mapped'
BY TracedIsCurrent, PTL

LEMMA StutterStep ==
    ASSUME Mine(stored') = Mine(stored), Mine(marked') = Mine(marked), TracedNow' = TracedNow,
           StrayNow' = StrayNow
    PROVE  PromiseStep
BY DEF PromiseStep, Promise!vars, TracedNow, StrayNow, Mine

LEMMA StoreStep ==
    ASSUME NEW d \in Data, stored' = stored \cup {d}, marked' = marked, TracedNow' = TracedNow,
           StrayNow' = StrayNow
    PROVE  PromiseStep
<1>1. CASE d \in Mine(Data)
  <2>1. Promise!Store(d)
    BY <1>1 DEF Promise!Store, TracedNow, StrayNow, Mine
  <2> QED
    BY <1>1, <2>1 DEF PromiseStep, Promise!Next
<1>2. CASE d \notin Mine(Data)
  BY <1>2, StutterStep DEF Mine
<1> QED
  BY <1>1, <1>2

LEMMA MarkStep ==
    ASSUME NEW d \in Data, d \in stored, stored' = stored, marked' = marked \cup {d},
           TracedNow' = TracedNow, StrayNow' = StrayNow
    PROVE  PromiseStep
<1>1. CASE d \in Mine(Data)
  <2>1. Promise!Mark(d)
    BY <1>1 DEF Promise!Mark, TracedNow, StrayNow, Mine
  <2> QED
    BY <1>1, <2>1 DEF PromiseStep, Promise!Next
<1>2. CASE d \notin Mine(Data)
  BY <1>2, StutterStep DEF Mine
<1> QED
  BY <1>1, <1>2

\* The process ends, or is told to.
LEMMA LoseStep ==
    ASSUME UNCHANGED store, TracedNow' = {}, StrayNow' = {}
    PROVE  PromiseStep
<1>1. Promise!Lose({Here})
  BY DEF Promise!Lose, TracedNow, StrayNow, Mine, store
<1> QED
  BY <1>1 DEF PromiseStep, Promise!Next

\* A load that has its probe works on a generation that exists ...
LEMMA CurrentGen ==
    ASSUME Inv, ~stopping, Loaded \/ rec.pc \in {"reader", "loaded"}
    PROVE  Objs \in Gen
<1>1. Objs # 0
  BY DEF Inv, Progress, Probed
<1>2. Objs \in 0..loads /\ loads \in 0..MaxLoads
  BY DEF Inv, TypeOK
<1> QED
  BY <1>1, <1>2, TracerAssumption DEF Gen

\* ... and whose map is empty until Loaded is set.
LEMMA LoadingEmpty ==
    ASSUME Inv, ~stopping, rec.pc = "loaded"
    PROVE  ~Loaded /\ map[Objs] = {}
<1>1. ~Loaded
  BY DEF Inv, Progress
<1> QED
  BY <1>1, CurrentGen DEF Inv, OneMap

\* The steps of a reconcile.
LEMMA ReconcilePromise ==
    ASSUME Inv, Inv', Reconcile
    PROVE  PromiseStep
<1>a. /\ TracedNow = IF stopping THEN {} ELSE Current
      /\ TracedNow' = IF stopping' THEN {} ELSE Current'
  BY TracedIsCurrent, TracedIsCurrentNext DEF Mapped
<1>b. stopping' = stopping /\ (~RecRemove => stray' = stray)
  BY DEF Reconcile, RecStart, LoadObjects, LoadKprobe, LoadReader, LoadDone, RecList,
         RecAdd, RecDelete, RecRemove, RecPatch, RecEnd, PlainStep, RecStep, history
<1>c. stray' = stray => StrayNow' = StrayNow
  BY <1>b DEF StrayNow
<1>1. CASE RecStart \/ RecList \/ RecEnd
  <2>1. UNCHANGED <<store, kernel, package, stray>>
    BY <1>1 DEF RecStart, RecList, RecEnd, PlainStep, history
  <2> QED
    BY <1>a, <1>b, <1>c, <2>1, StutterStep DEF Current, Mine, store, kernel, package
<1>2. CASE LoadObjects \/ LoadKprobe \/ LoadReader
  <2>1. UNCHANGED <<store, Loaded, stray>>
    BY <1>2 DEF LoadObjects, LoadKprobe, LoadReader, PlainStep, history
  <2>2. ~stopping => ~Loaded
    BY <1>2 DEF LoadObjects, LoadKprobe, LoadReader, Inv, Progress
  <2> QED
    BY <1>a, <1>b, <1>c, <2>1, <2>2, StutterStep DEF Current, Mine, store
<1>3. CASE LoadDone
  <2>1. UNCHANGED <<store, map, Objs, stray>> /\ rec.pc = "loaded"
    BY <1>3 DEF LoadDone, kernel, history
  <2>2. ~stopping => ~Loaded /\ map[Objs] = {}
    BY <2>1, LoadingEmpty
  <2> QED
    BY <1>a, <1>b, <1>c, <2>1, <2>2, StutterStep DEF Current, Mine, store
<1>4. CASE RecAdd
  <2>1. PICK d \in rec.todo :
          map' = map \/ map' = [map EXCEPT ![Objs] = map[Objs] \cup {Key(d)}]
    BY <1>4 DEF RecAdd
  <2>2. UNCHANGED <<store, package, stray>> /\ rec.pc = "data"
    BY <1>4 DEF RecAdd
  <2>3. CASE stopping \/ map' = map
    BY <1>a, <1>b, <1>c, <2>2, <2>3, StutterStep DEF Current, Mine, store, package
  <2>4. CASE ~stopping /\ map' = [map EXCEPT ![Objs] = map[Objs] \cup {Key(d)}]
    <3>0. Loaded
      BY <2>2, <2>4 DEF Inv, Progress
    <3>1. Loaded /\ Objs \in Gen
      BY <2>4, <3>0, CurrentGen
    <3>2. TracedNow' = TracedNow \cup {Key(d)}
      BY <1>a, <1>b, <2>2, <2>4, <3>1 DEF Current, package, Inv, TypeOK
    <3>3. d \in Mine(stored) /\ d \in Mine(Data)
      BY <2>2 DEF Inv, Listed, TypeOK, Mine
    <3>4. Promise!Trace(Here, d)
      BY <1>b, <1>4, <2>2, <3>2, <3>3 DEF Promise!Trace, TracedNow, Mine, store, RecAdd
    <3> QED
      BY <3>3, <3>4 DEF PromiseStep, Promise!Next
  <2> QED
    BY <2>1, <2>3, <2>4
<1>5. CASE RecDelete
  <2>1. PICK d \in rec.todo : marked' = marked \cup {d} \/ marked' = marked
    BY <1>5 DEF RecDelete
  <2>2. UNCHANGED <<stored, kernel, package>> /\ rec.pc = "data"
    BY <1>5 DEF RecDelete
  <2>3. d \in stored /\ d \in Data
    BY <2>2 DEF Inv, Listed, TypeOK, Mine
  <2>4. UNCHANGED <<TracedNow, StrayNow>>
    BY <1>a, <1>b, <1>5, <2>2 DEF Current, StrayNow, kernel, package, RecDelete
  <2> QED
    BY <2>1, <2>2, <2>3, <2>4, MarkStep, StutterStep
<1>6. CASE RecRemove
  <2>1. PICK d \in rec.todo \cap rec.del :
          \/ /\ map' = IF Objs \in mapfd
                       THEN [map EXCEPT ![Objs] = map[Objs] \ {Key(d)}] ELSE map
             /\ UNCHANGED stray
          \/ UNCHANGED map /\ stray' = stray \cup {Key(d)}
    BY <1>6 DEF RecRemove
  <2>2. UNCHANGED <<store, package>> /\ rec.pc = "data"
    BY <1>6 DEF RecRemove
  <2>3. CASE stopping \/ (map' = map /\ stray' = stray)
    BY <1>a, <1>b, <2>2, <2>3, StutterStep DEF Current, StrayNow, Mine, store, package
  <2>4. CASE /\ ~stopping /\ stray' = stray
             /\ map' = [map EXCEPT ![Objs] = map[Objs] \ {Key(d)}]
    <3>0. Loaded
      BY <2>2, <2>4 DEF Inv, Progress
    <3>1. Loaded /\ Objs \in Gen
      BY <2>4, <3>0, CurrentGen
    <3>2. TracedNow' = TracedNow \ {Key(d)}
      BY <1>a, <1>b, <2>2, <2>4, <3>1 DEF Current, package, Inv, TypeOK
    <3>3. d \in Mine(marked) /\ d \in Mine(Data)
      BY <2>2 DEF Inv, Listed, TypeOK, Mine
    <3>4. Promise!Untrace(Here, d)
      BY <1>b, <2>2, <2>4, <3>2, <3>3 DEF Promise!Untrace, TracedNow, Mine, store
    <3> QED
      BY <3>3, <3>4 DEF PromiseStep, Promise!Next
  \* RemoveInode fails on the open map.
  <2>5. CASE ~stopping /\ map' = map /\ stray' = stray \cup {Key(d)}
    <3>1. TracedNow' = TracedNow /\ StrayNow' = StrayNow \cup {Key(d)}
      BY <1>a, <1>b, <2>2, <2>5 DEF Current, StrayNow, package
    <3>2. d \in Mine(Data)
      BY <2>2 DEF Inv, Listed, TypeOK, Mine
    <3>3. Promise!Stray(d)
      BY <2>2, <3>1, <3>2 DEF Promise!Stray, Promise!GoesAstray, TracedNow, StrayNow, Mine, store
    <3> QED
      BY <3>2, <3>3 DEF PromiseStep, Promise!Next
  <2> QED
    BY <2>1, <2>3, <2>4, <2>5
<1>7. CASE RecPatch
  <2>1. UNCHANGED <<kernel, package, stray>> /\ rec.pc = "patch"
    BY <1>7 DEF RecPatch, PlainStep, history
  <2>2. TracedNow' = TracedNow
    BY <1>a, <1>b, <2>1 DEF Current, kernel, package
  <2>3. CASE UNCHANGED store
    BY <1>c, <2>1, <2>2, <2>3, StutterStep DEF Mine, store
  <2>4. CASE ~stopping /\ stored' = stored \ {rec.cur} /\ marked' = marked \ {rec.cur}
    <3>1. rec.cur \in Mine(Data)
      BY <2>1 DEF Inv, Listed, TypeOK, Mine
    <3>2. PICK d \in Mine(Data) : d = rec.cur
      BY <3>1
    <3>3. Key(d) \notin TracedNow \/ Key(d) \in StrayNow'
      BY <1>a, <1>b, <1>7, <2>1, <2>4, <3>2 DEF Inv, Listed, Current, StrayNow, RecRemove
    <3>4. UNCHANGED StrayNow
      BY <1>c, <2>1
    <3>5. Promise!Erase(d)
      BY <2>2, <2>4, <3>2, <3>3, <3>4 DEF Promise!Erase, TracedNow, StrayNow, Mine
    <3> QED
      BY <3>5 DEF PromiseStep, Promise!Next
  <2> QED
    BY <1>7, <2>3, <2>4 DEF RecPatch
<1> QED
  BY <1>1, <1>2, <1>3, <1>4, <1>5, <1>6, <1>7 DEF Reconcile

\* Every step is one of the promise, or none.
LEMMA NextPromise == Inv /\ Inv' /\ [Next]_vars => PromiseStep
<1> SUFFICES ASSUME Inv, Inv', [Next]_vars PROVE PromiseStep
  OBVIOUS
<1>a. /\ TracedNow = IF stopping THEN {} ELSE Current
      /\ TracedNow' = IF stopping' THEN {} ELSE Current'
  BY TracedIsCurrent, TracedIsCurrentNext DEF Mapped
<1>1. ASSUME NEW d \in Data, CreateData(d) \/ DeleteData(d) PROVE PromiseStep
  <2>1. UNCHANGED <<TracedNow, StrayNow>>
    BY <1>a, <1>1 DEF CreateData, DeleteData, Change, Current, StrayNow, kernel, package, history
  <2> QED
    BY <1>1, <2>1, StoreStep, MarkStep DEF CreateData, DeleteData
<1>2. CASE Reconcile
  BY <1>2, ReconcilePromise
<1>3. CASE \/ \E k \in Keys : Access(k)
           \/ \E g \in Gen : Collect(g)
           \/ \E o \in Gen : OutEnter(o) \/ OutRead(o) \/ OutList(o) \/ OutSend(o)
           \/ UNCHANGED vars
  <2>1. UNCHANGED <<store, map, package, stopping, stray>>
    BY <1>3 DEF Access, Collect, OutEnter, OutRead, OutList, OutSend, OutStep, procs, history,
                vars, kernel
  <2> QED
    BY <1>a, <2>1, StutterStep DEF Current, StrayNow, Mine, store, package
<1>4. ASSUME NEW u \in Unloader, UnloadEbpf(u) PROVE PromiseStep
  <2>1. UNCHANGED <<store, stopping, stray>> /\ unload[u] # "off"
    BY <1>4 DEF UnloadEbpf, UnloadKprobe, UnloadMap, UnloadObjects, UnloadReader,
                UnloadDone, UnloadTo, history
  <2>2. stopping
    BY <2>1 DEF Inv, Open
  <2> QED
    BY <1>a, <2>1, <2>2, StutterStep DEF StrayNow, Mine, store
<1>5. CASE Stop \/ ManagerReturns \/ Exit \/ Crash
  <2>1. UNCHANGED store /\ (stopping' \/ (~Loaded' /\ stray' = {}))
    BY <1>5 DEF Stop, ManagerReturns, Exit, Crash, ProcessEnds
  <2> QED
    BY <1>a, <2>1, LoseStep DEF Current, StrayNow
<1> QED
  BY <1>1, <1>2, <1>3, <1>4, <1>5 DEF Next

\* The process and its eBPF objects implement TracedFiles: neither half-loaded
\* objects, crashes, nor probes the garbage collector closes late trace a file
\* that no KiveData of this kernel names. A finalizer goes only after its key,
\* unless RemoveInode failed for the key, which is then stray.
THEOREM TracerKeepsPromise == Spec => KeepsPromise
<1>1. Init => Promise!Init
  BY DEF Init, Promise!Init, Mine, Hits
<1>2. Inv /\ Inv' /\ [Next]_vars => [Promise!Next]_(Promise!vars)
  BY NextPromise DEF PromiseStep
<1> QED
  BY <1>1, <1>2, InvAlways, PTL DEF Spec, KeepsPromise, Promise!Spec
=============================================================================
