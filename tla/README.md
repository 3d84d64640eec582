# A TLA+ model of the special-resource-operator

The operator installs Helm charts of driver stacks on an OpenShift cluster and
keeps them installed. It is one process with three controllers, each with one
worker (`MaxConcurrentReconciles` is 1), an informer cache it reads from and a
work queue behind an event filter:

| controller | object | what a pass does |
|---|---|---|
| SpecialResource | `SpecialResource` | resolve dependencies, add a finalizer, run the chart state by state, label nodes; on deletion or `Removed` take everything away |
| SpecialResourceModule | `SpecialResourceModule` | register watches on cluster objects, compute the OCP versions they name, build a chart per version |
| PreflightValidation | `PreflightValidation` | render the chart of every SpecialResource for a coming OCP image and record a verdict each |

All of them share a `helmer` (chart rendering and installation), a resource
package (create or update one object and wait for it) and a client. What makes
the code hard is what happens between two of its calls: users edit and delete,
caches are behind, writes conflict, the garbage collector runs, another
controller uses the same helmer, the process restarts.

## Inventory

`PROJECT.json` lists every part with its sources and whether it is modelled, and
the hazards with the line where each bites and the properties that would catch it.
The state and the concurrency, in short:

* **SpecialResource controller** (`controllers/specialresource*.go`,
  `controllers/resources.go`): the stored objects, their cached versions, the
  config map `special-resource-dependencies`, owned objects, node labels, the
  queue, the work item of the pass. Actors: users, informers, garbage collector,
  the worker.
* **Finalizer, status updater, storage** (`internal/controllers`, `pkg/storage`):
  called by the worker; every write may conflict or fail.
* **Filter** (`pkg/filter`): decides which events become requests.
* **Watcher** (`pkg/watcher`): two maps, written by the worker of the module
  controller and by the mapper, which informer goroutines call.
* **SpecialResourceModule and PreflightValidation controllers**: stored object,
  cache, queue and pass again, with status writes of their own kind.
* **Helmer** (`pkg/helmer`): the action configuration with its release storage,
  shared by the workers; config maps that mark hooks as done.
* **Resource, poll, lifecycle** (`pkg/resource`, `pkg/poll`, `pkg/lifecycle`): two package
  variables (`UpdateVendor`, `clients.Namespace`) that all workers write; the
  objects, pods and builds belong to the controllers of the cluster.
* **Upgrade and registry** (`pkg/upgrade`, `pkg/registry`, `pkg/preflight`): the
  cache of toolkit entries, shared by two controllers; otherwise functions of
  what is published.
* **Kernel, cluster, runtime, proxy, assets, metrics, utils**: no state besides
  gauges.

## Modules

| module | models | state |
|---|---|---|
| `Filter` | `pkg/filter`: the predicates, as operators | none |
| `SpecialResource` | `Reconcile`, `SpecialResourcesReconcile`, `ReconcileSpecialResourceChart`, the finalizer, the status updater, the dependency config map | `api`, `pending`, `cache`: stored object, versions under way to the cache, cached version; `depcm`, `cmcache`: the config map, stored and cached; `deployed`, `labelled`; `status`; `queue`, `objEvents`; the worker's `pc`, `wi` and the copies `sr` it holds |
| `Ownership` | what the finalizer of a SpecialResource promises, without copies, queue or worker: the abstract specification `SpecialResource` implements | per SpecialResource a phase, whether it owns objects, whether nodes bear its label |
| `ChartStates` | `ReconcileChartStates`, `labelNodesAccordingToState`, `finalizeNodes` | nodes with kernel, taint and labels, the image stream, replicas and their availability, the two loops |
| `Watcher` | `pkg/watcher` and how a module's pass uses it | the two maps, started handlers, the mapper call that holds the lock, the removal and addition loops |
| `Registry` | `pkg/registry`: references, manifests, lists and layers, and the files read from layers | none |
| `Upgrade` | `pkg/upgrade` and `GetDTKImages`: the toolkit of each running kernel | none (the cache is an argument) |
| `Versions` | `getOCPVersions`: selectors, update channels, release images | none |
| `SpecialResourceModule` | the module controller's `Reconcile` and `reconcileChart`, on `Versions` | stored and cached module, watched objects, namespace, deployed templates, the pass |
| `PreflightCheck` | `pkg/preflight`: which driver containers count and whether their image fits | none |
| `Preflight` | the validation controller, on `PreflightCheck` | stored and cached validation, charts, published images, the toolkit cache, the verdicts in memory, the pass |
| `Helmer` | `Run`, `ExecHook`, `dryRunHelmChart`, and `crud`/`afterCRUD` under them | the chart's objects, hook markers, whose configuration is current and whether it holds this run's release, the run |
| `Poll` | `pkg/poll`: the rule of availability of each kind, on the status that is published | none |
| `Resource` | `CreateFromYAML`: create or update, rebuild of driver containers, wait; on `Poll` and `Filter` | objects with hash and generation, pods, builds, images, the two package variables, the workers |
| `*Proofs` | theorems about the module they extend; `SpecialResourceProofs` also about `Ownership`, `RestProofs` about `SpecialResource` at rest | |
| `MC*` | instances for TLC: chart shapes, watch lists, images, symmetry sets | |

Every step of a worker is one call that others can observe. A pass that ends
with an error or asks for a requeue puts its name back into the queue. A `Fault`
or `Mishap` is a call that fails without the state of the model explaining it; a
conflict follows from the versions. `Restart` loses everything in memory; the
informers' first list then queues what exists. Calls that only compute or read
are operators that return the set of their results, empty for an error; `Panic`
among them ends the process.

`SpecialResource`, `SpecialResourceModule` and `Resource` compose with `Filter`
by `INSTANCE`; `ChartStates`, `SpecialResourceModule` and `Preflight` work on the
same `Registry` and `Upgrade`. The other modules meet at calls: `ReconcileChart`
of `SpecialResource` is a step whose inside `ChartStates` models, a template run
of `ChartStates` is a run of `Helmer`, whose objects are installed as `Resource`
does, and the pass of `Watcher` is that of `SpecialResourceModule` seen from the
registered watches.

### Abstractions

* **SpecialResource**: `Force` and the empty management state are `Managed`. The
  dependency config map exists; it is read from the informer's cache
  (`pkg/storage/storage.go:81` is a typed read), which follows in a step of its own
  (`SyncConfigMap`). A chart has no CR file of its own and bears the dependency's
  name. What a chart creates is one set of owned objects with the values it was
  installed with; a chart installed or removed in part leaves the set as it was.
  The selected nodes run `KernelVersions` kernel versions throughout, and one of
  them has no taint when a chart is installed (without one the pass fails). Nodes
  one by one are left to `ChartStates`. Deleting the namespace and waiting for it
  is a call that may fail. Delays of the rate limiter are left out. The generation
  filter passes extra events of kernel-affine objects; they add requests only and
  are left out.
* **ChartStates**: a state template is one object that is waited for; the nodes
  are those of the cache, so a change the cache has not seen is a conflict. The
  SpecialResource is nobody's dependency.
* **Watcher**: one kind of object; the watched objects exist; selectors are left
  out; paths of a resource and watches of a spec are sets; requests of a mapper
  call are queued when it returns.
* **Registry, Upgrade, Versions**: a reference is known by how it is written, a
  kernel version by its base and whether it names the architecture, a version by
  its toolkit image. What is published does not change, except for the driver
  images of `Preflight`; a call to a registry may fail all the same.
* **SpecialResourceModule**: how watches are kept is `Watcher`'s subject; here a
  new value at a watched path queues the module. Every template with a state
  name creates one object, of the kind the controller owns. The module may be
  kept from disappearing by a finalizer that is not the operator's: without one
  the deletion branch of `Reconcile` is never reached. When it disappears, its
  objects are garbage collected; its namespace, which has no owner reference
  (`pkg/resource/resource.go:197`), stays.
* **Preflight**: a chart is a function from kernels to objects, so rendering it
  is applying it; the SpecialResources are those of the cache. Of the
  SpecialResource controller only `GetClusterInfo`, which fills the same cache,
  is there.
* **Helmer**: one run is of one chart (or one state of it). Contents of objects
  are left out, they are in `SpecialResource` and `Resource`. Other controllers appear only by
  what they do to the shared configuration; in the window in which theirs has no
  in-memory storage yet, a call of this run has any outcome the code allows.
* **Resource**: each owner has a namespace, a vendor and at most one DaemonSet
  and one BuildConfig with pods and builds of their own. An object's content is
  the revision of its template. Poll looks once per call, as the code does: a
  wait that is not over ends the pass. Deployments and StatefulSets have two
  replicas. DaemonSets and pods are looked up in the informers' caches
  (`pkg/lifecycle/lifecycle.go:39`, `:72`): a `Mishap` of a wait is also a cache
  that is behind. BuildConfigs of different owners have different names.

### Errors the code does not report

Some errors end a pass as if it had succeeded, so that nothing repeats it. The
models have them, and history variables, which no action reads, say where they have
happened. A property excepts what they name and nothing else.

| variable | what happened | excepted in |
|---|---|---|
| `skipped` | the finalization left labels on nodes: a node had a taint or was no longer selected, or its Update failed otherwise than as Forbidden or Conflict (`internal/controllers/finalizers/specialresource.go:103`) | `FinalizerGuardsCluster`, `DeletedIsGone`, `ImplementsOwnership` |
| `unlisted` | the latest removal could not list a kind (`internal/controllers/finalizers/specialresource.go:182`) | `RemovedIsGone` |
| `dropped` | with several kernel versions, the latest pass ignored the error of a state's replica that was not the last, or of a state that is not kernel-affine (`controllers/resources.go:227`) | `ManagedIsDeployed`, `ReadyIsEarned` |
| `missed` | the latest request of a dependency met a cached config map without its entry (`controllers/specialresource_controller.go:132`) | `DependenciesExist` |
| `blind` | the latest pass of an owner waited for pods that a failed read or a cache that is behind did not show (`pkg/lifecycle/lifecycle.go:72`) | `OldPodsAreSeen` |
| `raced` | since the process started, the removal loop of the watcher, which takes no lock (`pkg/watcher/watcher.go:130`), and `mapper` have written a map under each other | `MapsAgree`, `RegistrationsMatchSpecs`, `SeenUnlessRaced`, `OthersStayRegistered`, `EventuallySeen` |

An entry is cleared by what makes good for it: an installation, removal or
finalization that is complete, a new request, a new pass, a restart.

## What TLC checks

Bounds are constants: `MaxEdits`, `MaxChanges`, `MaxDeletes`, `MaxRevisions` count what
users do, `MaxLag` the versions a cache may be behind, `MaxFaults` failing calls (and
nodes tainted when they are finalized), `MaxFailures` failing hooks, `MaxRestarts`
restarts, `MaxHandlers` started watches, `MaxOthers` dry runs of other controllers;
`MaxMishaps` counts all of these together, where their mixture matters more than their
number. Two edits and a lag of two suffice for a create, edit or delete that the pass
sees late and a second one that conflicts; three are used where two modules register and
one changes. `sr_dep` has two kernel versions, so that errors of replicas are dropped;
`sr_rest` has one, as liveness is dearer and a dropped error ends a pass like a success.
All runs set `CHECK_DEADLOCK FALSE`: users may stop, and a controller with an empty
queue has nothing to do.

Runs that pass:

| run | shows |
|---|---|
| `sr_dep` | a SpecialResource and its dependency: `FinalizerGuardsCluster` (what the operator leaves in the cluster is guarded by a stored finalizer), `ImplementsOwnership`, `ReadyIsEarned` (the condition Ready is written only when the stored values, the labels and the dependencies are in place, or their loss is being reported), and, whenever nothing is on its way, `ManagedIsDeployed`, `RemovedIsGone`, `DeletedIsGone`, `DependenciesExist` |
| `sr_rest` | `ComesToRest`: the controller's own writes do not keep it awake |
| `watch_named` | two modules that watch one object: `SeenUnlessRaced` (at rest each has seen the current value), `MapsAgree`, `RegistrationsMatchSpecs`, `OthersStayRegistered` (a module loses a registration in its own pass only, and for want of the watch in its spec) |
| `watch_kind` | `EventuallySeen`: a module that watches a whole kind sees each change in the end |
| `chart_states` | `LaterStatesWait`, `SteadyNodesLabelled`, `SteadyNodesClean`, `OwnToolkit` on two nodes, two kernels, two states and an upgrade of the image stream |
| `preflight` | `RestMeansVerified`, `TrueIsEarned`, `ToolkitsAsPublished`: a validation ends only with all verdicts `True`, each of them earned by an image that could be read; `Completes`: and it ends if all fit. Images are single, for several architectures, in an unknown list format, on a registry with a port |
| `srm` | `ActiveIsDeployed`, `StatusIsComplete` at rest, `StatusIsEarned` (a version enters the status only after its templates were run with the stored spec), `WipedStaysEmpty`, and `ComesToRest`. Watched objects hold images, versions, both, nothing, an image without layers, nonsense; channels disagree |
| `helm` | `InOrder`, `HooksOnce`, `SuccessIsComplete`, and `ComesToRest` |
| `resource` | `WaitIsSound`, `BuildIsNeeded`, `OldPodsAreSeen`, and `ComesToRest`, for five pairs of charts: a driver that is built when its image is missing, two vendors on two workers, a rolling DaemonSet whose logs are matched, and all other kinds that are waited for |

In all runs of `Watcher` the mapper may run at any time, during the removal loop too.
In the passing runs the properties claim nothing once the two have written a map
under each other (`raced`), except `TypeOK`, which holds anyhow; `watch_race` checks
`SeenIsCurrent`, which is `SeenUnlessRaced` without that exception.

Runs in which the code contradicts a statement of the repository (quoted in
`PROJECT.json`, "findings"):

| run | what happens |
|---|---|
| `watch_race` | the mapper holds a copy of an entry while the removal loop, which takes no lock, deletes the entry and its path; it writes the entry back, the watch added again counts as registered without its path, and a change is missed |
| `helm_one_timer` | one-timers are never created: the release of the same run counts as installed |
| `resource_old_pods` | the wait for an updated DaemonSet is given the generation from before the update and accepts the old pods. `OldPodsAreSeen` shows that the next pass, which the update causes, does not |

### What the properties do not claim

The models contain the following behaviour too, and the properties are worded or
instantiated so as not to claim the contrary:

* the deletion of an `Unmanaged` SpecialResource is filtered out
  (`pkg/filter/filter.go:191`): it keeps its finalizer until it is made `Managed`
  (`DeletedIsGone` exempts it);
* a dependency is left `Progressing` by its parent's pass, even an `Unmanaged`
  one, and when its chart has states it is installed with its own values rather than those its
  parent gives: the status write at `controllers/resources.go:151` replaces the
  copy (`ManagedIsDeployed` asks for the stored values);
* the config map records one parent of a dependency; when two share it and the
  recorded one is gone, a deleted dependency of the other is not restored
  (`DependenciesExist` is about dependencies with one parent);
* the errors listed above are not reported, and what they concern is not repeated;
* the labels of a SpecialResource in state `Removed` stay on the nodes: only the
  finalizer takes them off (`RemovedIsGone` is about objects);
* a watch of a whole kind hides that of a named object of the kind
  (`pkg/watcher/watcher.go:279`; no run has both);
* with several kernel versions nodes are labelled although a replica other than
  the last was not available (`controllers/resources.go:227`; `LaterStatesWait`
  asks for one available replica);
* a node tainted while a SpecialResource is deleted keeps its labels, as does one
  whose Update fails otherwise than as Forbidden or Conflict
  (`internal/controllers/finalizers/specialresource.go:103`; `SteadyNodesClean` is
  about the other nodes, `FinalizerGuardsCluster` and `DeletedIsGone` about the
  other labels);
* a node that joins with a new kernel wakes nobody: its replica waits for the next
  pass;
* while the newest toolkit of the image stream is for a kernel no node runs,
  every pass fails (`pkg/upgrade/upgrade.go:131`; no liveness is claimed of
  `ChartStates`);
* verdicts of a validation survive an edit of its image
  (`controllers/preflightvalidation_controller.go:128`; `TrueIsEarned` asks for
  some image);
* a SpecialResource deleted after its preset keeps the verdict `Unknown`, and the
  validation does not end (`Completes` asks that those listed stay);
* versions that are gone stay in a module's status when none is left
  (`StatusIsComplete` asks for one);
* an image with a tag, on a registry with a port, is never verified
  (`pkg/registry/registry.go:166`);
* a release image without layers, or in an unknown list format, ends the process
  (`pkg/registry/registry.go:65`), again after each restart (`Completes` and
  `ComesToRest` of `SpecialResourceModule` ask for readable ones);
* a change of a watched object that only selectors notice wakes no module, nor
  does one deleted and created again with the value it had
  (`pkg/watcher/watcher.go:296`; `silent` in `SpecialResourceModule`);
* a deleted module that a foreign finalizer keeps is reconciled for ever, as its
  namespace is not found (`ComesToRest` leaves it out);
* hooks are never deleted, as the client of a dry run only prints
  (`pkg/helmer/helmer.go:233`), so the object of a failed hook blocks its chart
  until someone deletes it (`ComesToRest` of `Helmer` allows for it);
* a Deployment counts as available before its ReplicaSet exists, and while only
  the replicas of its old template run; a StatefulSet likewise
  (`pkg/poll/poll.go:212`; `WaitIsSound` leaves them out);
* two driver containers that both need a build can overwrite each other's request
  in `UpdateVendor` for ever (`ComesToRest` of `Resource` asks for one);
* a DaemonSet wanted on no node is never available (`pkg/poll/poll.go:322`;
  `ComesToRest` has a node for each).

### Fairness

A worker with something to do, an informer with a version to deliver, the garbage
collector, a handler being started and an object becoming available
proceed (weak fairness): controller-runtime runs each in a goroutine of its own.
Taking a name from the queue is strongly fair where other names or steps can
disable it for a while, since the work queue is first in, first out. In `Resource`
the controllers of the cluster do their work, and an administrator deletes the old
pods of a DaemonSet with the strategy `OnDelete` some time: nobody else does, and
the operator waits for it. Nothing is assumed of users, faults and restarts, whose
numbers are bounded. `Completes` assumes that the SpecialResources in the list
stay and fit: the verdict `Unknown` of one that was deleted stays in the list.

## What TLAPS proves

The theorems hold for every value of the constants that satisfies the named assumptions
of the modules: any number of objects, nodes, versions, charts, watches and workers, and
any bound. `PROJECT.json` lists them. Every safety property of a passing run is a
theorem. (`TypeOK` of `Helmer` is proved only; no run checks it.) The assumptions say
what kind of thing a constant is (charts are sequences of manifests, `None` is none of
the values it stands beside, bounds are natural numbers) and a few facts the code or the
model relies on:

* `SRAssumption`: nothing depends on itself;
* `HelmerAssumption`: the objects are in the installation order;
* `ResourceAssumption`: an owner has at most one DaemonSet, as the pods of an owner
  are not told apart by object;
* `VersionsAssumption`, `SRMAssumption`: indices of layers and manifests are natural
  numbers; update channels and the toolkit references of images name published images.

TLC evaluates all of them in the runs. One theorem has a hypothesis besides, about
what users write, without which the code does not have the property: `Unmixed`
(`NoChangeMissed`), explained below.

Each module has an inductive invariant, `IInv` or built on it, facts `Initially` and
`Inductive` with one lemma per action (or group of actions that touch the same state),
and a theorem per property. Why the properties are not inductive by themselves:

**`SpecialResourceProofs`** (`TypeOK`, `FinalizerGuardsCluster`,
`ImplementsOwnership`, and the action property `ReadyIsEarned`). The worker deploys
on the strength of a copy that says there is a finalizer, and the copy may be old.
`CacheFollows`: cache and pending versions end with the stored object.
`FinalizerStays`: a version with the finalizer that no removal follows means that
the stored object has it. Only the worker takes it away, and the API server then
removes the object, as it is being deleted. `HeldIsSound`: a copy the worker holds
whose object was not removed since does not claim a finalizer that is not stored.
`WorkerInv`: at the steps that deploy and label, the copy has the finalizer; at the
step that removes it, the labels are gone or were passed over (`Marked` are the
others).

The refinement mapping to `Ownership` reads the phase
off the stored object. Every step is one of `Ownership` or a stutter
(`StepSimulation`), given `DInv`: a stored object that is being deleted has the
finalizer, a copy whose resourceVersion is current agrees with the stored object
on finalizer and deletion, and the worker finalizes only what it has seen deleted.
The second is what makes an Update from a copy safe: a copy that disagrees is
refused by the API server.

`ReadyIsEarned` needs to know, at the step that writes the condition, what the pass has
done many steps before (`ReadyInv`): the charts of the dependencies behind the worker
are installed, reported as gone or dropped (`BehindIsReported`, and `MainIsReported` for
the main chart), the main chart comes after all of them (`InTurn`), and a copy whose
resourceVersion is current has the stored values (`ValuesAgree`), so that what was
installed from it has them too.

**`RestProofs`** (`ManagedIsDeployed`, `RemovedIsGone`, `DeletedIsGone`,
`DependenciesExist`). That nothing is owed at rest follows from an account of what
will make the worker pay, in every state (`Owed`): for each SpecialResource whose
chart, removal or deletion is not done, its name is queued, or a version on its way
will pass the filter (`Awake`), or an owned object has been reported, or an orphan
waits for the garbage collector, or the pass under way serves it with the stored
values (`CInv`: its copy has them, or something newer will wake it), or the latest pass
is one that ignored an error. The filter drops versions
without a new generation; `Versions` says that these differ from the stored object
in nothing the controller acts on, and that what is new wakes the worker unless it
is `Unmanaged`. Two lemmas carry most cases: a write announces what it changes
(`StoreWakes`), and a step outside the pass of a SpecialResource leaves the account
as it was (`ElsewhereOwes`). For dependencies (`PInv`) the account names the config
map: the parent is recorded, or the pass that records it is still to come
(`DependencyAt`), what the cached config map says of it is stored (`RecordAt`), and a
copy of a dependency that is gone means that its removal will be noticed (`LostAt`).
It is for dependencies with one parent (`OnlyParent`): the config map has room for one.

**`ChartStatesProofs`** (`TypeOK`, `SteadyNodesLabelled`, `LaterStatesWait`,
`SteadyNodesClean`, `OwnToolkit`). A node that has not changed since the pass began
is among the listed ones until it is labelled (`Labelling`), and among those left
to finalize until it is clean (`Finalizing`); a state is left behind only when a
replica of it was available (`Waiting`). `OwnToolkit` rests on lemmas about
`nodeVersionInfo` and `updateInfo`, for any published images.

**`HelmerProofs`** (`TypeOK`, `InOrder`, `SuccessIsComplete`, and the action property
`HooksOnce`). What lies behind the run has been created, and available if it is
waited for, and a mark stands for hooks that were (`Behind`); an object behind the
run is still there, or its deletion has queued the owner (`BehindIsComplete`).

**`SpecialResourceModuleProofs`** (`TypeOK`, `WipedStaysEmpty`, `ActiveIsDeployed`,
`StatusIsComplete`, and the action property `StatusIsEarned`). A deletion cannot be taken back
by a status write, so along cache, pending versions and stored object "deleted"
never turns to "not deleted" (`Monotone`). After the namespace is deleted the cache
has a deleted module (`WipedIsOver`), and no later pass gets past the first lines.
`TypeOK` needs lemmas about all that is read from images, down to the layers: each
call of `Registry`, `Upgrade` and `Versions` has at most one result, and a version
found is a published one. At rest: the copies after the last announced change differ
from the stored module in the status only (`Follows`), so a pass that nothing
interrupts works for the stored spec (`Reading`); what it has behind it is deployed
and recorded in its copy, and once the first version is done also stored (`Running`,
`Recorded`); and when no other pass is due all of it is (`Resting`). `StatusIsEarned`
holds also for a pass that is interrupted: as long as its resourceVersion is the
stored one, it works for the stored spec, adds to the stored status, and the templates
it has run are there or reported as gone (`Earning`).

**`WatcherProofs`** (`TypeOK`, `MapsAgree`, `RegistrationsMatchSpecs`,
`SeenUnlessRaced`, and the action property `OthersStayRegistered`). The invariant has
two parts. `TInv` holds whatever races: types, and that the copy of an entry in the
removal loop is empty or names the module, so that the name it removes has a place
(`FirstPlace`, from the well-foundedness of the numbers). `Sound` holds until there was
a race, so the inductive invariant is `UnlessRaced`: `TInv`, and `raced` or `Sound`
(`RacesAreNoted`: once set, `raced` stays until a restart, and that empties the maps).
In `Sound`, the copies that the removal loop and the mapper write back are the entries
in the map (`Copied`): exactly this is lost when one writes while the other holds its
copy, which sets `raced`. In the middle of a pass the registrations of the module at
hand are right up to what is left of the loop (`Progress`); a module neither at hand nor
queued has those of its cached spec (`Settled`). As the copies are the entries, writing
one back loses nobody else's name (`DropNameTakes`, `OthersTakeNone`). `SeenUnlessRaced`
is proved from an account of the events under way (`Watching`): a
module that has not seen the current value of a watch will be queued by a call of the
mapper still to come, by the comparison or the write or the return of the one under
way, or by the first handler, which is starting and delivers every object. What makes
a later call find a difference is that a stored value is compared with the values an
event carries, and the last event of an object carries the current ones.
`Unmixed`: the watches name objects, or they are for the whole kind, but not both, as
an entry for the kind hides the others from the mapper.

**`PreflightProofs`** (`TypeOK`, `RestMeansVerified`, `TrueIsEarned`,
`ToolkitsAsPublished`). Merge patches carry the whole list from the pass's copy, so
not only the stored verdicts but those of every copy on its way are earned
(`AllEarned`). The worker leaves the queue only if the cached list is verified
(`Rest`), and the cache lacks nothing but what is pending (`Latest`). `TrueMeansReady`
says that `handleYAMLsCheck` returns `True` only for a chart that is `ReadyFor` the
kernel.

**`ResourceProofs`** (`TypeOK`, `BuildIsNeeded`, `WaitIsSound`, `OldPodsAreSeen`).
`UpdateVendor` names an owner whose
image was refused, whichever worker wrote it last (`Globals`); a pod in
`ImagePullBackOff` is of such an owner, and a worker about to write a vendor's
BuildConfig works for one (`Working`).
`WaitIsSound`: the status of an object lags behind its pods, so the invariant is
about both: what is available, or whose status says so, was available at some time
(`Seen`); pods run on nodes the DaemonSet wants (`PodsOnNodes`), so that counting
them against the wanted number is sound; and what a worker has come past was
available (`SoundInv`). `OldPodsAreSeen`: for a DaemonSet with old pods its owner is
queued, or its latest pass was blind, or the pass of the owner has still to look at it
with the current generation (`Seeing`); a call that fails puts the owner back. It is
for DaemonSets that are waited for (`OldPods`): nothing else looks at the generation
of pods.

Only model-checked: all liveness (`ComesToRest` of four modules, `EventuallySeen`,
`Completes`), as fairness and `ENABLED` are out of the prover's reach. The three
violation runs need no proof.

## Plan

1. An abstract specification of a controller that converges, implemented by
   `SpecialResource` and by `SpecialResourceModule`.
2. Two charts in one namespace for `Helmer`, deletion of modules in `Watcher`, watches
   of a kind beside named ones.

## Not modelled

* Loading and downloading charts (`Load`, `AddorUpdateRepo`), credentials, mirrors and
  certificates of registries, the command line and the leader election lease, the
  `helm-cm-getter` plugin: I/O, whose outcome is an input or a call that may fail.
* Metrics, proxy settings, rendering of templates, the metadata `createObjFromYAML`
  and `SetAffineAttributes` write, parsing of version strings, JSONPath: functions
  without state, of which the models use only what they tell apart.
* Generated deep copies and mocks.

`PROJECT.json` gives the reason for each part.
