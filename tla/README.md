# A TLA+ model of the kive operator

kive is a Kubernetes operator that reports accesses to files inside containers.
A user writes a `KivePolicy` with traps (a path and the pods it applies to); the
operator finds the inode of each file on each node, stores it in a `KiveData`
object, and puts it into a hash map that an eBPF program attached to
`inode_permission` consults on every access.

This directory holds three models, the TLC runs that check them, and TLAPS proofs
of their main invariants:

* `Kive`, a cluster: the control loops that keep policies, `KiveData` and kernel
  maps in step;
* `Tracer`, one operator process and what it has in the kernel: loading and
  unloading of the eBPF objects, the probe, the ring buffer, the alerts;
* `TrapDiscovery`, one pass over one trap: matching, containers, files.

`TracedFiles` is the contract that the first two share; both are shown to
implement it.

## 1. Inventory of the system

| Part | Code | State | Operations | Talks to |
|---|---|---|---|---|
| Discover controller, one per node, no leader election | `internal/controller/kivepolicy_controller.go` | locals of `Reconcile`: policy list, position in the policy / trap / match / container loops | finish or prepare a policy (finalizer), list pods, inspect containers, apply `KiveData`, poke one `KiveData` | API server (uncached reads), container runtime |
| Loader controller, one per kernel (lease = boot id) | `kivedata_controller.go` | locals of `Reconcile`, informer caches, `ebpf.Loaded`, `traced_inodes` | load the program, finish deletions, add finalizers, judge each `KiveData`, add the key or delete the object | API server (cached reads of kive objects, uncached reads of pods), kernel |
| Pod controller, one per cluster (lease `kive`) | `kivepod_controller.go` | locals of `Reconcile` | delete `KiveData` without a pod, poke one `KivePolicy` | API server (uncached) |
| Operator process | `cmd/main.go` | three managers, leases | start, exit when a lease is lost, unload | client-go |
| Container runtime access | `container/*.go` | connection | not ready / not here / no file / inode and device; may create the file | containerd, procfs |
| eBPF life cycle and map | `ebpf/ebpf.go`, `ebpf/utils.go`, end of `cmd/main.go` | `Objs`, `Kprobe`, `RingbuffReader`, `Loaded`, and descriptors nothing refers to any more | `LoadEbpf`, `UnloadEbpf`, `AddInode`, `RemoveInode` | kernel |
| Kernel probe, ring buffer | `ebpf/tracer.bpf.c`, `maps.h`, `log_data.h` | map, ring buffer | look up, emit | - |
| Alerts | `ebpf/ebpf.go` `ReadAlert`, `output.go` | a goroutine per load | read an event, find its `KiveData`, post or log | API server, callback |
| Matching, names, hashes | `utils.go` | - | `RegexMatch`, `KiveTrapHashID`, `NewKiveDataName`, comparisons | - |
| API types and conversion | `api/v1`, `api/v2alpha1` | - | v1 <-> v2alpha1 | API server |
| Webhooks, callback server, generated code, deployment | `*_webhook.go`, `callback/`, `zz_generated*`, `config/`, `hack/`, `k8s-lab/` | - | - | - |

The controllers never call each other. They communicate through objects: a write
makes a watch event, an event makes a request, and since `Reconcile` ignores its
request and walks over everything, a request only means "look again". Two of the
events are made on purpose: discover touches the annotation `force-reconcile` of
the first `KiveData` so that the loaders run, the pod controller touches the
first `KivePolicy` so that discover runs. Finalizers make a deletion wait for the
controller that has to clean up.

What makes this hard (PROJECT.json lists each hazard at its line): several nodes
patch the same policy; what a reconcile listed is stale when it acts; the loader
reads caches that lag, and lag differently for two kinds of object; merge patches
carry no resourceVersion; a reconcile returns early and relies on the event of
its own patch; `force-reconcile` has a resolution of one second; calls fail
half-way through a list; processes crash and the map dies with them; pods restart
with another container under the same name; loading fails half-way and is tried
again; a shutdown closes the eBPF objects under the goroutines that use them.

What makes each part correct:

* discover: no policy is left without a finalizer or half deleted; every file a
  policy asks for on a running container gets a `KiveData`;
* loader: the map only holds keys that some `KiveData` of this kernel will take
  out again, but for the two ways in which the code gives a key up (`stray`, below);
  the map ends up equal to what the policies ask for; deletions finish;
* pod controller: no `KiveData` of a container that is alive is deleted;
* process and kernel: what is attached, open and read belongs together and fits the
  kernel; an access is reported once, and only for files with a `KiveData`; the
  alert names the file that was accessed;
* matching: one container in a bad state, or one bad item, does not keep the
  others from being found; no container is taken twice;
* together: convergence once the users, the pods and the faults are quiet.

## 2. Modules

| Module | Content |
|---|---|
| `KiveCluster` | the objects in the API server, the writes the controllers make, the events they produce, the bounds |
| `Discover` | `KivePolicyReconciler.Reconcile`, one action per remote call, locals in `disc[n]` |
| `Loader` | `KiveDataReconciler.Reconcile`, locals in `loader[k]`; lease, caches (`dcache`, `pcache`), queue and map of each kernel |
| `PodController` | `KivePodReconciler.Reconcile`, locals in `podc`; its lease |
| `Kive` | composition, the environment (user, kubelets, clock, crashes, resync), fairness, the properties |
| `TracedFiles` | abstract specification: what `KiveData` and maps promise each other |
| `Tracer` | `LoadEbpf`, `UnloadEbpf`, the reconciler as far as it touches the map, both kprobe programs, ring buffer, `ReadAlert`, `Output`, SIGTERM, crash |
| `TrapDiscovery` | the loops over `matchAny`, pods and containers, `RegexMatch`, `GetContainerData`, creation of files |
| `DeviceNumber` | `UserDevToKernelDev` against the kernel's two encodings of a device, with its proofs |
| `MCKive`, `MCTracer`, `MCTrap` | values of the function-valued constants for TLC |
| `KiveTypeProofs`, `SettledProofs`, `MapProofs`, `OriginProofs` | proofs about `Kive`: types; finalizers and deletions; keys and the contract; where keys and addresses come from |
| `TracedFilesProofs`, `TracerProofs`, `TrapProofs` | proofs about `TracedFiles`, `Tracer` and `TrapDiscovery` |

`Kive` composes `Discover`, `Loader` and `PodController`. It leaves out what
happens inside a call; `Tracer` and `TrapDiscovery` are about that and leave out
why a `KiveData` comes and goes, and what becomes of it.

Definitions named "Mutant" in the comments are wrong versions of the definition
that follows; no specification uses them. They exist to show that a property
notices the mistake.

### How state and actions correspond to the code

* A `Reconcile` is a sequence of steps, cut before every call that leaves the
  process. `pc` is the place in the code; the other fields are its local
  variables. Steps that only compute are part of the step before or after.
* `dq`, `lq`, `pq` are the controller-runtime work queues: sets, because equal
  requests are merged. A request that arrives while it is being served is served
  again. Requeue puts the request back.
* `dirty[k]` holds `KiveData` whose last change the cache of loader `k` has not
  seen. With `FreshCaches` a List returns what the API server stores, without it
  `dcache[k]` and `pcache[k]` are as of the last `SyncData` / `SyncPolicies`. At
  election the caches are complete: controllers start after the cache sync.
* `SetPolicy` and `SetData` are writes: a write that changes nothing makes no
  event (the API server leaves the resourceVersion alone). `PatchedPolicy` and
  `PatchedData` are the merge patches of `metadata.finalizers`; the diff made by
  `client.MergeFrom` holds neither resourceVersion nor uid, so it applies to the
  object that has the name at that time. A missing object is an error.
* `pstamp` and `dstamp` hold the objects whose `force-reconcile` annotation
  equals the current second; `Tick` starts another second.
* `Fault` is an API, runtime or kernel call that fails. Every action of a
  controller that makes a call has a branch for it, the eBPF calls `AddInode` and
  `RemoveInode` included. Written out are only failures that change something: a List
  that fails at the very start of a reconcile queues the request again, and a
  `RemoveInode` that fails for a key which is not in the map is one of a call that
  had nothing to do.
* What a failed call leaves undone is often left for good: the code logs the error of
  `RemoveInode` and drops the finalizer (`kivedata_controller.go:89-96`), it logs
  that of `AddInode` or `Delete` and goes on (`:178-192`) without another request.
  Two history variables, which no guard of `Loader` or `Tracer` reads, say which keys
  this has happened to, so that the properties can demand everything of all others:
  - `stray` (`Loader`, `Tracer`, `TracedFiles`): keys whose removal nothing assures
    any more. In `Loader` a key becomes stray when its `RemoveInode` failed, and when
    the loader takes the key or the finalizer for an object that it listed as deleted
    and that has been replaced by a new one of the same name (`Replaced`, the fault
    that run `leak` shows). In `Tracer` only the former happens. No key is stray in
    the map of a process that has just started.
  - `missed` (`Tracer`): keys whose last `AddInode`, or the `Delete` of whose
    `KiveData`, failed. `Traced` excuses these, since without a resync nobody looks
    again; `Converged` of `Kive`, where there are resyncs, does not.
* The order of lists: uncached lists come sorted by name, so names are numbers
  and discover visits the smallest first. Cached lists come in any order, so the
  loader may take any item.
* `Tracer`: every successful `loadBpfObjects` is a generation; `Objs`, `Kprobe`
  and `RingbuffReader` name the generation they belong to, 0 is nil. `mapfd`,
  `objfd` and `reading` are the generations whose descriptors are open, whoever
  refers to them. A load that fails half-way leaves its generation open and the
  next one overwrites the variables; a probe that nothing refers to stays attached
  until the garbage collector (`Collect`) comes, which may be never. `Hits` are
  the probes that find a key: attached, with the program that takes the inode from
  the register in which this kernel passes it, and the key in their own map.
* Shutdown in `Tracer`: SIGTERM cancels the context of the `KiveData` manager.
  One goroutine runs `UnloadEbpf` at once; the manager takes nothing new, but works
  off its queue, each API call failing; then `main` runs `UnloadEbpf` again and
  returns. The reconciler may load everything again in between, since `Loaded` is
  false by then. (The comment at `main.go:297` says "Wait until leadership is
  lost"; the context is the signal's, a lost lease ends the process.)
* `TrapDiscovery`: `pass` holds the locals of the loops; `id[c]` stands for the
  container id. A List by `metadata.podIP` is refused by the API server, which
  does not know the field, so that items with an `ip` never match. `steady` is a
  history variable: the containers that neither an event nor a failed call was
  about since the pass began.
* `VerdictsOnFault`: when the Pod List fails, `found` keeps the value the trap
  comparison left, until a later trap overwrites it. The set holds what can come
  out for any order of the policies.

### Abstractions

* `Kive`: one container per pod, one `matchAny` item per trap. Which pods a trap selects
  (`Selects`) and which file it names in a container (`FileOf`, 0 for none) are
  constants. A trap is a number, standing for its hash: `KiveTrapHashID` covers
  the whole trap, alertVersion included, and alertVersion is fixed.
* The traps of a policy are a set visited in increasing order.
* A key stands for the pair (inode, device). Inode reuse is covered by `FileOf`
  giving two containers the same key.
* `Tracer` lists current `KiveData`, all with their finalizer, and chooses freely
  which of them have a policy and a container; `Loader` has the caches, the
  finalizers and the reasons. It lists nothing that has been replaced, so a key
  becomes stray by a failed call only. An event keeps inode and device only.
* `TrapDiscovery`: which names an expression accepts (`NameFits`, `Broken`), which
  pods a selector selects (`Picked`) and `matchID` are constants. The pid of a
  container is its own as long as the container lives: the window between
  `task.Pid()` and `creat` in which the pid ends and is given to another process is
  left out.
* At the start there are no kive objects; each pod is absent, pending, not ready or
  running, so that one pod event is enough for a pod to become ready, restart, end or
  disappear.
* A pod name stays on its node. A container id is the pair (pod name, number of
  the start).
* A lost lease ends the process (the manager returns an error and `main` exits),
  so it is a crash; two processes never hold a lease at the same time.

## 3. Model checking

The runs of `Kive` and `Tracer` switch deadlock checking off, because an operator
may really have nothing to do; in `TrapDiscovery` there is always another pass, and
it stays on. Unless said otherwise the instances of `Kive` have one node, one
kernel, one policy, trap, pod and file, a map with room for two keys, fresh caches,
no faults or crashes.

| Run | Instance | Checks | Result |
|---|---|---|---|
| `nodes` | 2 nodes with a kernel each, 2 user operations | `PolicySettled`, `KernelLocal` | hold |
| `lag` | fair, lagging caches, no resync, 3 user operations, 1 fault | `PolicySettled`, `DataSettled`, `MapBacked`, `PolicyDeleted`, `DataDeleted`, `KeepsPromise` | hold |
| `live` | fair, 2 traps on one file, 2 user operations, 1 fault, 1 crash, resync | `DataSettled`, `Converged`, `KeepsPromise` | hold |
| `livepods` | fair, pod controller, 1 user operation, 1 pod event, 2 containers with a file each, map of 1, resync | `TypeOK`, `MapBacked`, `PodSparesLive`, `Converged` | hold |
| `tracer` | fair, 2 `KiveData` of one file, one with a callback, kernels 5.11 and 5.12, 3 loads, ring buffer of 1, 2 accesses, 2 changes, 1 fault, 1 shutdown or crash | `TypeOK`, `OnePath`, `OneEvent`, `Backed`, `KeepsPromise`, `Traced`, `Drained` | hold |
| `traps` | fair, 2 pods, 3 containers, 4 items, 2 inodes, with and without `create`, 1 event, 1 fault | `TypeOK`, `Covered`, `OnePerPass`, `Monitored` | hold |
| `leak` | lagging caches, 4 user operations, resync | `TracedHasData` | violated |
| `orphan` | 2 user operations | `NoOrphans` | violated |
| `lost` | 2 traps, pod controller, 2 user operations | `QuietMonitored` | violated |
| `blocked` | fair, 2 pods with a file each, 1 pod event, resync | `AlwaysMonitored` | violated |
| `misattributed` | 2 files on 2 devices with one inode number | `RightData` | violated |
| `registered` | `traps` with one `matchID` for containers of two pods, no event, no fault | `SkipsRegistered` | violated |

Why these bounds are enough to be interesting: a deletion that races a new
creation takes three user operations (create, delete, create), and with lagging
caches this is also how a key becomes stray; the race of two
nodes for one finalizer takes two nodes and two operations, mixing inode numbers
two kernels; a map of one is full as soon as the second container has a file of its
own; one fault or one crash can fall between any two steps of any reconcile, in `live`
one of each; two traps on one file are the case in which two reconciles ask for one
`KiveData` with different labels. In
`tracer` two `KiveData` of one file are the case in which the deletion of one takes
the key of the other; three loads are one that fails, one that works and one during
a shutdown; a ring buffer of one loses the second event; the two kernels are the
ones between which `inode_permission` changed. In `traps` the items are one of each
kind, two of them select the same container, and one event can fall between the
List, the open, the stat and the next item.

The pod controller runs in `livepods` and `lost` only, where calls do not fail and
processes do not crash: with a fault or a crash these runs have over half a million
states with fairness. Its failing calls, and a crash of the process that holds its
lease, are covered by the theorems of section 4 and by no run.

### Fairness

`FairSpec` of `Kive` adds weak fairness of each controller's next step (one worker
goroutine per controller, which controller-runtime keeps running), of each
informer, of taking a free lease, of the clock and, where `ResyncOn`, of the
resync of the informers (ten hours by default). User, kubelets, faults and
crashes are under no obligation.

`Converged` needs the resync: without it `orphan` and `lost` show states where
everything is quiet and wrong. `PolicyDeleted` and `DataDeleted` do not.
`Converged` and `PolicyDeleted` except a `Blocked` cluster, in which a selected
pod is not ready: discover gives up at that pod each time, as `blocked` shows.

`FairSpec` of `Tracer`: every goroutine takes its next step (reconciler, each
Output, both unloaders, `main`), except an Output that posts to a callback:
`http.Post` uses a client without a timeout, so a server that does not answer keeps
it for ever. Accesses, signals and the garbage collector are under no obligation.
`Drained` excuses an Output that hangs.

`FairSpec` of `TrapDiscovery`: the pass takes its next step, and is requested again
(by requeues, pokes of the pod controller and resyncs). `Monitored` excuses a
selected container that stays unready, for the same reason as above.

### What the violated runs show

* `leak`: the loader's cached snapshot of a deleted `KiveData` is old; the name
  has been applied again, and the merge patch drops the finalizer of the new
  object. Its deletion then bypasses the loader and its key stays in the map.
  The loader does add missing finalizers, but only when it runs before the
  deletion.
* `orphan`: create and delete a policy within a second; the second poke of
  discover is an empty patch.
* `lost`: the loader decides that a `KiveData` has no policy, a policy for
  another trap on the same file arrives, discover overwrites the labels of the
  same object, the loader deletes it.
* `blocked`: a pod that ended, or is not ready yet, and comes first in the list.
* `misattributed`: map and event hold inode and device, `ReadAlert` compares the
  inode only, and takes the first `KiveData` in the list of all kernels.
* `registered`: `matchID` (`kivepolicy_controller.go:175`) has no separators, so that
  pod `a` in namespace `bc` and pod `ab` in namespace `c` share one if the container
  names agree. The second is passed over with the comment "This container was already
  registered", nothing was made for it, and its file is not traced. In `traps` no two
  containers share a `matchID`; `Covered` and `Monitored` except one that does
  (`Alone`), and `CoveredCorrect` shows that no other container suffers from it.

### Observed, without a run

* `metadata.podIP` (`kivepolicy_controller.go:148`) is not a field pods can be
  selected by; an item with an `ip` is refused and skipped. `Covered` says that the
  other items do not suffer from it.
* `creat` (`containerd.go:119`) empties a file that exists, at every pass, while
  `kivetrap_type.go:18` says "Whether to create the file or not if It was not
  found". Contents of files are not modelled.
* A pod in phase Failed or Succeeded only suppresses the requeue of the pod
  controller: `found` is set all the same (`kivepod_controller.go:76-81`), and its
  container status is still listed for the loader, so its `KiveData` is kept.
  `kivepod_controller.go:45` and `docs/DESIGN.md:669` say "Failures are treated as
  terminations." `PodSparesLive` is about containers that are alive, and holds of
  either behaviour.
* `ReadAlert` fills the ip of the pod from the annotation `ip`, discover writes
  `pod-ip`.
* While a process stops, a reconciler that drains its queue may load everything
  again; a probe of that load reports beside one that was never closed, so
  `OneEvent` and `OnePath` are stated for a process that is not stopping. `Backed`
  and `Traced` hold all the same.

## 4. Proofs

Every safety property of a passing run is a theorem, for every value of the
constants that satisfies the named assumptions (`ClusterAssumption`,
`LoaderAssumption`, `PodAssumption`, `ResyncAssumption`, `TracerAssumption`,
`TrapAssumption`: bounds are naturals, functions have their domains, `None` is none
of the things). No theorem has another hypothesis: caches lag as they like, any
number of calls fail, any process crashes.

| Theorem | Property | Invariant |
|---|---|---|
| `TypeCorrect` | `TypeOK` of `Kive` | itself |
| `PolicySettledCorrect` | `PolicySettled` | `PolicyInv` |
| `DataSettledCorrect` | `DataSettled` | `DataInv` |
| `KernelLocalCorrect` | `KernelLocal` | `OriginInv` |
| `PodSparesLiveCorrect` | `PodSparesLive` | `AddressInv` |
| `MapBackedCorrect` | `MapBacked` | `MapInv` |
| `KiveKeepsPromise` | `KeepsPromise` of `Kive` | `MapInv` |
| `PromiseBacked` | `Backed` of `TracedFiles` | itself |
| `TracerTypeCorrect`, `OnePathCorrect`, `OneEventCorrect`, `BackedCorrect`, `TracerKeepsPromise` | of `Tracer` | `Inv` |
| `TrapTypeCorrect` | `TypeOK` of `TrapDiscovery` | `TrapType` |
| `OnePerPassCorrect` | `OnePerPass` | `OnceInv` |
| `CoveredCorrect` | `Covered` | `CoverInv` |
| `SameDevice`, `DistinctDevices` | of `UserDevToKernelDev` | - |

### The cluster

* `TypeCorrect`. Inductive as it stands, because `TypeOK` includes which locals have
  a value at which `pc` (`DiscOK`, `LoaderOK`): a `KiveData` name built by discover is
  only well formed because the pod it looked at was listed as running, hence had a
  container.
* `PolicySettledCorrect`. `PolicyInv` says, for each node: a policy that is marked
  has its finalizer (else it would be gone); while a reconcile runs, a policy that is
  no longer as in its snapshot is in the queue again, and the ones already passed
  were in order; a settled node has them all in order. The delicate case is the patch
  that changes nothing: it makes no event, but then the policy differs from the
  snapshot and its request is already queued.
* `DataSettledCorrect`. The same argument for the loader, with the cache between the
  store and the queue, and so without an assumption on how far caches lag. `DataInv`
  says, for each kernel: what the cache of the lease holder does not show yet is an
  event on its way (`LeaseInv`); while a reconcile runs, every `KiveData` whose
  stored form differs from the snapshot is such an event or a queued request
  (`Pending`), what it has passed was in order in the snapshot (`Visited`), and it
  only acts on what the snapshot lets it act on (`ActsOn`); a settled loader leaves
  all in order (`LoadedInv`). A patch decided on a stale snapshot is the hard case:
  it may hit an object that was created again, but then the object differs from the
  snapshot and the request is already there. A crash ends the reconcile, and the next
  holder of the lease starts with a full cache and a request for every `KiveData`.
* `KernelLocalCorrect`. `OriginInv` follows a key through its four copies: what
  discover found (`DiscoverSound`), the stored `KiveData` and the cached one
  (`AllSound`), what the loader visits and its map (`LoaderSound`). Each is of a
  selected container with a file, and labelled with the kernel of the node it is on.
  Caches may lag, so the map may hold more than the stored `KiveData` say, but never
  a key from elsewhere.
* `PodSparesLiveCorrect`. The pod controller compares the address in a `KiveData` it
  listed with that of a pod it listed later. `AddressInv` says that a record of a
  container, in the store, in the snapshot or in discover's list of pods, has the
  address its pod has now whenever the pod still lists that container; containers have
  increasing numbers, so one that is no longer listed never will be again. Hence a
  `KiveData` that is doomed is `Gone` when the decision is made, and stays so until
  the delete; what is `Gone` is not alive.
* `MapBackedCorrect`. A `KiveData` loses its finalizer only by the hand of a loader,
  and only `LoaderRemoveFinalizer` does that (`StepsHold`). `MapInv` says, for each
  kernel and for the `KiveData` of its home nodes whose keys are not stray (`Sure`):
  what the loader would list as in use is stored with its finalizer, however old its
  cache is (`CacheHolds`), and so is what its snapshot still has to visit
  (`SnapHolds`); a loader that acts on a verdict found the `KiveData` in use, one about
  to drop a finalizer has taken the key out or made it stray (`CurHolds`); and every
  key in the map that is not stray has its `KiveData` (`KernelBacked`). The patch that
  drops a finalizer is the case where all of it is needed: it hits the object that was
  listed as deleted, whose key is out of the map and which neither store nor cache
  shows as in use, or one that replaced it, and then its key is stray. That the loader
  of another kernel is not affected comes from `OriginInv`: every copy of a `KiveData`
  is labelled with the kernel of its pod's node.
* `KiveKeepsPromise`: `Spec => Promise!Spec`, with `TracedFiles` instantiated by the
  sets of stored and marked `KiveData`, the maps and the stray keys. Every action is a
  step of `TracedFiles` or a stutter, from `MapInv`, `OriginInv` and `TypeOK`: a key is
  added for a stored `KiveData` of the same kernel or is stray; it is taken out for a
  marked `KiveData` or one that has gone, or becomes stray; and an object goes when its
  key is out of the map, is stray, or is that of another `KiveData` as well. What
  `TracedFiles` does not promise is that the key of a `KiveData` stays in the map: it
  goes with a marked `KiveData` of the same file. That it comes back is `Traced`.
* `PromiseBacked`: `TracedFiles` itself implies that every traced key that is not stray is
  named by a stored `KiveData` of the kernel; through the refinements this holds of `Kive` and
  `Tracer`.

### The process

* `TracerTypeCorrect`, `OnePathCorrect`, `OneEventCorrect`, `BackedCorrect`,
  `TracerKeepsPromise`: from one inductive invariant `Inv`. Its parts:
  a reconcile has a request (`Serves`); outside a shutdown everything that was ever
  loaded is open and `Objs` is the last load (`Open`), and a load under way has got
  as far as its `pc` says, the probe running the program for this kernel
  (`Progress`); only the generation that is loaded holds keys, because a
  reconcile that fails to load never reaches the map (`OneMap`); every key in any
  map that is not stray is named by a stored `KiveData` (`Named`); and what the reconciler has listed
  is still stored, and still marked if it was (`Listed`). `Backed` is delicate during a
  shutdown: `RemoveInode` fails on a closed map while an attached probe may still
  look at it, but then the context is cancelled, the patch fails too and the
  `KiveData` stays, so that nothing becomes stray by it.
* `SameDevice`, `DistinctDevices`: `UserDevToKernelDev` takes the device number
  `stat` reports to the one the eBPF program reads, for all 2^12 major and 2^20 minor
  numbers, and is injective on them. Masks and shifts are written as remainders
  and quotients by powers of two.

### The pass over a trap

* `TrapTypeCorrect`. `TypeOK` does not hold by itself: that `apply` has a container
  id and an inode other than 0 comes from the List, which shows only containers with
  a status, and from the check of stat's error (`PassOK`).
* `OnePerPassCorrect`. `OnceInv`: what was applied is matched, and the container
  under inspection was matched just now, so that nothing is applied for it yet.
* `CoveredCorrect`. `CoverInv` has four parts. `ListFresh`: what the List said still
  holds of the containers nothing happened to. `PastServed` and `MatchServed`: a
  selected container that the loop of some item has passed, or that is matched and
  not under inspection, is served: this pass has made its `KiveData`, or it needs none,
  or something happened to it. `Inspection`: what `GetContainerData` found out is still so. Each
  `continue` in the code is one case: a name that does not fit, a container matched by
  an earlier item, a failed or refused List, a container containerd does not know, a
  missing file. What is served stays served: the model's `creat` gives a new inode only
  where there was no file, so that no `KiveData` named it. `Alone` is used at one
  place, where a container is entered in `matched`: the same name then cannot be that
  of another selected container. With `AppliedStored` (what the pass applied is in the
  store) this gives `Covered`.

The inductive invariants were checked by TLC on the instances of section 3 before
they were proved.

Only model-checked: everything with fairness (`Converged`, `PolicyDeleted`,
`DataDeleted`, `Traced`, `Drained`, `Monitored`). Liveness and ENABLED are beyond the
proof system; so would be induction over recursive definitions, of which there are
none here.

## 5. Plan

The model covers what it set out to cover, and every invariant that a passing run
checks is proved. What would say more:

1. The steps on which the liveness properties rest, as action properties: that a
   reconcile makes progress through its list whatever the others do.
2. Runs in which calls of the pod controller fail and the process that holds its lease
   crashes, with fairness.

## 6. Not modelled

* Conversion v1 - v2alpha1: copies of fields one by one, no state; a model would be
  a transcription of it.
* `vmlinux*.h`: the types of a Linux kernel, generated from its debug information,
  150 000 lines that declare data. `tracer.bpf.c`, `maps.h` and `log_data.h`, the eBPF
  code proper, are modelled; `hack/stat.c` prints a device number for debugging.
* Connection to containerd: `Connect` sets a flag at the first call, nothing resets
  it before the process ends; a failed call is a fault.
* Two holders of one lease: client-go ends the process of the old one before the
  new one may take it, clocks permitting.
* Text of alerts and logs, `parseCmdline` (its use is commented out).
* Webhooks (disabled in `main.go`), the sample callback server, generated code,
  metrics, TLS and health checks, deployment.
