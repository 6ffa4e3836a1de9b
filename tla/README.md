# Verification of the Cisco ACI AIM operator

TLA+ specifications of the operator in this repository, checked with TLC on
small instances and, where stated, proved with TLAPS for every value of the
constants. Paths below are relative to the repository (`src/`).

## 1. The system

The operator watches one custom resource, `CiscoAciAim`, and keeps a
StatefulSet of AIM pods for it. It reads what other operators of the same
OpenStack control plane produce and writes four kinds of objects.

| Part | State | Operations | Talks to |
|---|---|---|---|
| controller, `internal/controller/ciscoaciaim_controller.go` | work queue, informer caches, locals of the running Reconcile | `Reconcile` and its `ensure*` steps, the map functions of the watches | API server, through a caching client |
| log claim resizing, `internal/controller/log_pvc_resize.go` | none (claims are in the cluster) | `ensureLogPVCStorage`, `prepareLogPVCResize` | API server |
| builders, `pkg/ciscoaciaim/` | none | `StatefulSet`, `ConfigMap`, `GenerateConfigMapChecksum`, `LogVolumeClaimTemplate`, `GetVolumes`, `GetVolumeMounts` | called by the controller |
| rendering, `generateConfigFiles` and `templates/*.tmpl` | none | spec and inputs to six files | called by the controller |
| initialisation, `templates/init.sh` | hash file on the log claim, AIM database | runs in pod 0 before the service | AIM database, ConfigMap volume |
| container files, `templates/aim_supervisord.conf`, `aim_healthcheck.sh`, `kolla_config.json` | states of three programs, failed probes in a row | start, retry, give up; check; copy files | kubelet, ConfigMap volumes |
| custom resource, `api/v1alpha1` | spec, conditions | written by users; conditions by the controller | API server |
| manager, `cmd/main.go` | process | start, restart, optional leader election | API server |
| inputs (other operators) | NeutronAPI, MariaDBDatabase, MariaDBAccount, TransportURL; secrets `neutron-db-secret`, `rabbitmq-transport-url-neutron-neutron-transport`, `neutron-dhcp-agent-neutron-config`, `rootca-internal` | created, rotated, removed at any time | read by the controller |
| cluster controllers | claims, pods | garbage collection, claim provisioning, rollout | API server |

What is hard about it:

* Reads come from caches, writes go to the live objects. Every decision of
  `Reconcile` may rest on an old version of the resource, the StatefulSet, the
  ConfigMap, the claims or the secrets, and each at a different age.
* `Reconcile` makes up to seven writes. Each may fail, be applied with its
  reply lost, or be the last one before a restart. Nothing is remembered
  between two Reconciles except what is in the cluster.
* Updates carry a resource version, the deletion of the StatefulSet does not.
* Changing an immutable field takes two Reconciles (delete, create) with the
  logs of all pods at stake in between.
* Only the resource, the StatefulSet and three secrets are watched.
* Two managers may run at once during a rolling update of the operator.
* Files, mounts and checksum of a pod come from different functions and reach it
  at different times; a container may be restarted in between.
* Go visits maps in a random order, and the checksum of what is rendered from
  them decides whether all pods are rolled.
* Two supervisors, supervisord and the liveness probe, act on the same programs.
* `init.sh` must survive being killed between any two commands, and reads a
  file that the kubelet may replace under it.

`PROJECT.json` lists these hazards one by one, with line and property.

## 2. Modules

| Module | Models | Kind |
|---|---|---|
| `LogStorage` | claim template, comparison of templates, decision for one claim | pure |
| `AimObjects` | rendered files, checksum, StatefulSet, recreation test, updated version (extends `LogStorage`) | pure |
| `AimReconciler` | the controller, the API server it sees, users, other operators, garbage collector, StatefulSet controller (extends `AimObjects`) | state machine |
| `MCAimReconciler` | instances of `AimReconciler` for TLC | model |
| `LogClaims` | what is promised about log claims: each appears once and then only grows | abstract |
| `ConfigRollout` | what is promised about a configuration: published, then rolled | abstract |
| `AimRefinement` | the mapping from the controller to both (extends `AimReconciler`) | refinement |
| `AimManagers` | two managers during a rolling update, with and without a lease (extends `AimRefinement`, with a second instance of `AimReconciler`) | composition |
| `InitScript` | `init.sh` in pod 0 | state machine, checked directly |
| `AimPod` | volumes, mounts, ConfigMap keys, what kolla copies, refresh and restart of a pod | state machine |
| `AimContainer` | liveness probe and supervisord around the three AIM programs | state machine, timed |
| `AimCtlConf` | fabric part of `aimctl.conf`: switches, links, physical and VMM domains | state machine over map orders |
| `MCAimManagers`, `MCAimPod`, `MCAimContainer`, `MCAimCtlConf` | instances for TLC | model |
| `AimReconcilerProofs` | watch-stream lemmas, type correctness; the controller implements `LogClaims`, claims only grow | proofs |
| `AimHistoryProofs` | what the history of the streams allows: the status loop ends, deletions are examined | proofs |
| `AimRolloutProofs` | order of ConfigMap, CA secret, StatefulSet and status; the controller implements `ConfigRollout`; when a cached match is fresh | proofs |
| `AimManagersProofs` | two managers implement `LogClaims`, their deletions are examined (extends `AimHistoryProofs`, with a second instance of it) | proofs |
| `AimPodProofs` | mounts are backed, containers find their files | proofs |
| `AimContainerProofs` | the probe kills with cause | proofs |
| `InitScriptProofs` | the hash file never runs ahead | proofs |
| `AimCtlConfProofs` | the rendered file is a function of the fabric and says what it says | proofs |

### How AimReconciler corresponds to the code

*Watch streams.* `cr`, `sts`, `cm`, `claims` and `secrets` are sequences of
versions: the last element (`Live`) is the object in the API server, the first
(`Cached`) is what the manager's client returns, and those in between are
events on their way. A write appends; `SyncCr`, `SyncSts`, ... deliver one
event. `None` is an absent object. Streams are independent, so the controller
may see a new resource next to an old StatefulSet. `neutron` stands for the
four Neutron objects as the cache shows them: nothing depends on when their
events arrive, because the operator does not subscribe to them.

*Steps.* `pc` names the function that runs next, `r` holds the locals.

| Action | Code |
|---|---|
| `FetchInstance` | request taken from the queue, `Get`, "not found" ignored |
| `ensureDB`, `ensureMessageBus` | the functions of the same name; conditions are set on the local copy |
| `RenderConfigFiles` | `getNeutronRabbitConfig`, `generateConfigFiles`, checksum |
| `ensureConfigMap`, `ensureRabbitMQCaSecret` | the functions of the same name: create, update if the cached data differ, or nothing |
| `ensureStatefulSet` | first half: build, create, refuse a class change, list the claims |
| `ensureLogPVCStorage` | one turn of the loop over the listed claims |
| `applyStatefulSet` | second half: delete and come back, or update |
| `updateStatus` | `AimReady` and `Status().Update` |

A step makes all the reads of its function and at most one write. Merging the
reads of one function loses nothing: between two of them only the caches can
move, and each stream is read once per function, except `secrets` in
`ensureRabbitMQCaSecret`, where `rootca-internal` is written by others and
`rabbitmq-ca-secret` only by this operator.

*Writes.* `Create` succeeds only when nothing is live, `Update` only when the
live object is the version that was read, `Delete` by name takes what is
live. `Reply` adds the lost reply: applied, and an error for the code.
`Requeue` is both an error and a `RequeueAfter`; delays are not modelled, so
every retry is possible at once. Claims are compared by value in place of
their resource version: a claim has only a size and a class here, sizes only
grow, and so equal values mean equal versions.

*The API server* fills in the update strategy and the retention policy
(`Defaulted`). The code compares the found object with its own, which has those
fields nil, so it sends an update on every Reconcile; the server answers with an
unchanged version. That is the disjunct of `applyStatefulSet` in which the
stream stays as it is.

*Data.* A spec is `conf` (everything rendered), `pod` (everything that reaches
only the pod template), `replicas`, `log`. A rendered configuration is the
record of its inputs, so two configurations are equal exactly if all inputs
are. Secrets have a value, lack the key (`NoKey`) or are absent. A size is a
number, or `Unparsable` for the strings that the CRD pattern admits and
`ParseQuantity` refuses.

### How InitScript corresponds to the code

One action per command of the script. Each `aimctl` command reads the file as it
is mounted at that moment; the hash is the one computed at the start. `file` is
the hash file: on the log claim when `LogToDisk`, otherwise gone with the
container. `aim` records which configuration each command applied last.

### The abstract specifications

`AimRefinement` maps the controller's state to theirs with the live objects
alone; queue, caches and locals are invisible. `LogClaims` sees `Live(claims)`.
`ConfigRollout` sees the data of the live ConfigMap as `published` and the
checksum annotation of the live StatefulSet as `rolled`; a configuration is the
record of its inputs, so the annotation names it. A step of the controller is a
step of the abstract specification or changes nothing it can see.

### How AimManagers corresponds to the code

The old manager is the `AimReconciler` that the module extends, the new one an
instance of the same module with streams, queue and locals of its own. The live
objects are one: what one manager writes is appended to the streams of both, so
that the last elements agree and each cache has its own age. `stage` is `old`,
`both`, then `new`; the old manager may end at any step of a Reconcile.
`MayReconcile` is `LeaderElectionID` with `--leader-elect` in `cmd/main.go`: the
lease is not released on exit (`LeaderElectionReleaseOnCancel` is not set), so
the new one waits until the old one is gone. `config/manager/manager.yaml` and
the bundle pass the flag, `config/aim_configs/aim_operator_deployment.yaml` does
not; both are checked.

`leaderElect` is chosen in the initial state, so one run has both. `fresh` is a
history variable: whether the new manager's cache showed the live StatefulSet when
the old one ended. `Restart` of the old manager in stage `both` is the case in which
its new process gets the lease again; the case in which the other one does is
`OldManagerStops`. The informers' resync, 10 hours apart, is left out.

Steps that read only objects of others are taken at once (`Reading`). None of
those objects changes in these runs (`InputWrites = {}` is assumed), so they
commute with every step of the other manager. Without the lease two managers whose
caches lag may delete and create the StatefulSet in turns, without an end in
sight before the events arrive; `MaxVersions` is the number of versions after
which the next Reconcile waits for the events of StatefulSet, ConfigMap and secrets,
while those of the resource and the claims may still lag. The bound applies only without the lease,
and the theorems hold for every value of it; because of it nothing is claimed about
liveness here.

### How AimPod corresponds to the code

`GetVolumes`, `GetVolumeMounts` and `generateConfigFiles` (its keys) are sets of
the same names. A name is the pair of its stem and its ending, `_private_key` or
none: concatenation in the code, and yet two names are equal exactly if the strings
are, so a certificate can be called like a key or like `scripts`. `AimConfNames` is the login branch of `aim.conf.tmpl`,
`ServiceFiles` what `kolla_config.json`, `aim_supervisord.conf` and the probe
name. Reconcile is three writes for one spec; its caches, faults and requeues are
in `AimReconciler`. A pod keeps the template it was made from; its three
ConfigMap volumes are refreshed one by one by the kubelet; `init.sh` and kolla
read them when the container starts, and what kolla copied stays until the
container is restarted.

### How AimContainer corresponds to the code

`Probe` is the probe of the StatefulSet builder with its defaults and overrides,
`Programs`, `startsecs` and `startretries` those of `aim_supervisord.conf`,
`HealthCheck` the loop of `aim_healthcheck.sh`. Time passes in
ticks of 5 seconds, which divide every setting of the run; a probe that is due
happens before the next tick.

### How AimCtlConf corresponds to the code

`ListSwitches`, `OpenSwitch`, `VisitHost` and `WriteSwitch` are the loops of
`buildSwitchConfigs`, `AddMapping` and `AddDomain` those of `populateAimCtlConfData`,
one turn per step, and `LoopEnds` goes from one loop to the next. Wherever the code
ranges over a map, the model takes every order of its keys; the slices that
`sort.Strings` sorts are built in that order. `physDomSet` is the set of the sections
written so far. `RenderAgain` renders the same fabric again.

## 3. Runs

All passing runs of the controller start from a settled or an empty cluster and
let users, other operators and one fault act at any moment.

| Run | Question | Bounds |
|---|---|---|
| `storage` | do claims survive resizing, scaling, disabling, migration from the StatefulSet of earlier releases, faults? | 2 edits out of 6 specs with 3 sizes, 1 fault, 2 ordinals |
| `rotation` | do rotations and edits reach the pods in a safe order, by events alone? | 2 writes to resource or secrets, 1 fault |
| `bootstrap` | does it come up whatever the order in which inputs appear and vanish? | 5 writes, 1 fault, no secret at the start |
| `deletion` | does deletion clean up, keep the claims and allow a fresh start? | 2 deletions or creations, no faults |
| `init_script` | is each lasting configuration applied and recorded in order? | 3 configurations, 2 changes, 2 crashes |
| `managers` | is a rolling update of the operator safe for claims and StatefulSet, with and without the lease, wherever the old manager stops? | StatefulSet of an earlier release replaced, 1 edit that grows the claims, 1 ordinal, `MaxVersions` 1 |
| `aimctl_conf` | is `aimctl.conf` the one the spec asks for, in every map order? | 2 switches, 3 hosts, 2 ports; 2 networks, 3 ranges, 2 mappings, 1 unread override |
| `pod_files` | does a container find its files, whatever is refreshed or restarted meanwhile? | 6 specs, 2 edits, 1 death of container or pod |
| `container` | do probe and supervisord heal outages and leave healthy containers alone? | 5 probe settings, start of 5, 15 or 35 s, 2 outages, 2 probes that time out |
| `configmap_up_to_date` | violated: see below | 2 edits |
| `ready_means_deployed` | violated: see below | 1 edit |
| `init_rollback` | violated: see below | 3 configurations, 2 changes, 2 crashes |

Two edits are what the races need: one makes a write and its event outstanding,
the other arrives while the caches are stale. One fault at any call
is enough for every partial sequence of writes, since a Reconcile ends at its
first error and starts from the cluster's state. `bootstrap` needs more writes
because the Neutron objects, the secrets of database and message bus and the root CA
have to appear before a StatefulSet does; the fifth creates the resource where there is
none yet, or completes, changes or withdraws an input.
In `storage` three sizes let a claim grow to the second one while a Reconcile that
listed it at the first still wants another size. `MaxOrphans` bounds
only how often the garbage collector and the operator undo each other before
the event of the resource's deletion arrives. `Deletes` is off where the
question is about the operator's own deletions.

With two managers one ordinal and one edit are what TLC manages: each manager
multiplies the states by its own caches. The interesting races are between
their writes to the same object, for which one StatefulSet and one claim do.
There are two sizes, so a resize computed from a list that is out of date occurs there
only in the proof, which has any.
In `pod_files` one death suffices, as the container starts from scratch each
time, and two edits make the refresh of one meet the rollout of the other. In
`container` two outages let a second program fail while the first is given up,
and two probes that time out stay below the threshold of three by one.

The properties:

* `ClaimsOnlyGrow` no step loses, shrinks or moves a claim; the shared claim of
  earlier releases is not touched.
* `DeletesOnlyExamined` the StatefulSet that `Delete` removes is the one that
  was compared. The deletion is followed by a return, and the next Reconcile
  cannot create before the cache shows the object gone; the mutant that creates
  at once breaks it. With other deleters (`Deletes`) the property does not hold,
  and the code does not promise it: a name can be reused between `Get` and
  `Delete`.
* `MountsExist` pods are never started before the objects they mount exist.
* `ImplementsConfigRollout` the configuration that pods are rolled to is published
  at that moment, and never withdrawn.
* `ImplementsLogClaims` seen from outside, claims appear one at a time and grow one
  at a time. `deletion` checks it for one manager, `managers` for two.
* `StatusFollowsStatefulSet` whenever the conditions change, the live StatefulSet is
  built from the spec they stand next to: the status write is refused if the spec
  changed under the Reconcile. `ReadyMeansApplied` when `AimReady` appears, the live
  ConfigMap holds that spec as well.
* `FreshMatch` a ConfigMap that `ensureConfigMap` leaves alone, because the cached
  data match, is live with the same data. It holds as long as no input returns to
  an earlier value, as in `rotation`; with rollbacks it fails
  (`configmap_up_to_date`).
* `StatusWritesBounded` the status update does not feed itself.
* `SecretsReachPods` rotations arrive by events alone, without the resync.
* `Convergence` once users, inputs and faults are quiet, an acceptable resource
  is realised: files, CA, StatefulSet, sizes of all claims, status.
* `Cleanup` nothing owned outlives the resource.
* `RecordedIsApplied`, `SetupApplied` the hash file and the AIM database.
* `ManagersDeleteExamined` `DeletesOnlyExamined` for both managers. It needs the
  lease: without one both hold a StatefulSet to be replaced, and the slower
  manager deletes the replacement. The mutant that ignores the lease shows it. And
  it needs `fresh`, see below.
* `RenderingIsStable` no map order shows in the rendered file; `LinksAsSpecified`,
  `DomainsAsSpecified` the file says what the spec says. For the domains this is
  claimed only of networks that `NeutronPhysicalDevMappings` does not name.
* `MountsBacked` each mount has its volume, each sub-path its item, each item its
  key, no two mounts share a path, and kolla copies over none of them (they are
  read-only). `StartsUsable` a container that starts from the
  files of its pod's spec finds every file they name. `PodSettles` in the end that
  is so for the last spec, whatever was mixed on the way.
* `KillsHaveCause` a probe that asks for nothing stricter than the default
  (`Patient`) kills a container in which no program died only when its start was
  slow, with the probes that timed out counted against it, or when three probes
  timed out; an initial delay of zero is the case in point, which the builder takes
  as 30 seconds. `SelfHealing` in the end all programs run.

Deadlock is checked where the resync or the next rendering keeps the system
alive for ever. It is off in `bootstrap` and `deletion`, which reach states
without a resource, in `init_script`, where the script is done, and in `managers`,
`pod_files` and `container`, where everything has settled or the StatefulSet was
refused.

### What the violated runs show

* `configmap_up_to_date`: the configuration changes and changes back. The first
  change is written, its event is not yet in the cache when the second Reconcile
  compares, and the cached ConfigMap, still the original, equals the wanted one.
  The live ConfigMap keeps the value in between while the StatefulSet carries
  the checksum of the other. ConfigMaps are not watched: it stays until an
  unrelated event or the resync. In `rotation` no value ever comes back, which is
  the condition under which events alone suffice.
* `ready_means_deployed`: no path sets `AimReady` to False. After an edit that the
  builder refuses, each Reconcile fails and the resource says ready next to a spec
  that is never applied. The ConfigMap is rewritten before the builder fails, so
  the volumes of running pods do follow that spec.
* `init_rollback`: configuration 2 is applied in part, fails, and is rolled back
  to 1, whose hash is on record: the script exits and the database keeps what 2
  left.

### Other observations

Met while modelling, and visible in the models without a run of their own.

* A spec that comes back is also what `pod_files` excludes (`Rollbacks = FALSE`).
  With `Rollbacks = TRUE` TLC finds `PodSettles` violated: a container restarts after
  its volumes were refreshed and before its pod is replaced, so it runs on the
  new files; the spec is changed back, the template is the pod's own again, and
  nothing restarts the container.
* A RabbitMQ secret without `transport_url` is neither an error nor a reason to
  wait: the pods are configured with an empty URL and `AimReady` is reported
  without `RabbitMQReady`. `rotation` contains this secret; once the key is there
  it reaches the pods.
* `init.sh` swallows a failure of `infra create` whatever its cause and records the
  configuration, while the comment before the recording says that all commands
  have succeeded. `CommandFails` has this branch.
* The comment on `NeutronPhysicalDevMappings` (`ciscoaciaim_types.go:201-207`) says that
  a network maps to `pdom_<network>` by default and "This parameter allows user to
  override the mapping". No code reads the field: a network it names gets the domain of
  `AciPhysDomMappings` or the default. The fabrics of `aimctl_conf` have the field;
  `DomainsAsSpecified` makes no claim for the networks it names, since the code and the
  comment disagree there.
* The certificate of the APIC is mounted in `/etc/aim` under `ACIApicCertName`, next to
  `<user>_private_key`, `scripts` and the files that kolla copies. A certificate called
  `scripts`, or like the key, gives two mounts one path, and Kubernetes refuses the pod;
  one called `aim.conf` is mounted, read-only, where kolla has to copy. So does a CA
  path that is one of the mounted paths. No code checks this; `Complete` excludes it,
  and with such a spec TLC finds `MountsBacked` violated.
* For a user name that is the empty string the mounts take `admin`
  (`PrivateKeyFile`) and the template takes the empty string (`AimConfNames`): the
  key is not where `aim.conf` says. The specs of `pod_files` have names.
* The type admits a `SuccessThreshold` above 1 and a test expects it in the probe;
  Kubernetes refuses it for a liveness probe. `container` has this setting, and
  ends in `Reject`.
* The kuttl suite expects the pod management policy `Parallel`, the builder says
  `OrderedReady` (and recreates StatefulSets that say otherwise), and the suite
  waits for a condition `Ready`, which no code sets.
* A hand-over with a lease does not implement `ConfigRollout`: the new manager's
  cache of the resource may lag behind what the old one already published, and it
  renders the older value once more. The ConfigMap can stay behind until the next
  event or resync.
* Nor does the lease alone make deletions safe. When the old manager has just
  replaced the StatefulSet and ends, and the events of that have not reached the new
  one when it gets the lease, the new one reads the old StatefulSet from its cache
  and deletes the replacement, since `Delete` carries no precondition; the next
  Reconcile creates it again. In practice the lease takes seconds to expire and events
  take much less, but no code waits for them. TLC shows it when `fresh` is taken out of
  `ManagersDeleteExamined`.
* When `init.sh` takes longer than about 40 seconds, the default probe kills the
  container before the check exists, each time anew; `InitTimes` stays below that.

### Fairness

`WF` on `Reconcile`: the worker is a goroutine that takes requests as long as
there are any, and each client call returns. `WF` on each `Sync`: informers
deliver events in order and reconnect. `WF` on the garbage collector, the
finalisation of deletions and the provisioning of claims: loops of the cluster.
`WF` on `Resync` only in `FairSpec` (controller-runtime's default period of 10
hours); `WatchSpec` leaves it out, and asks what happens within that time. Users,
other operators and faults have no fairness, and are bounded: "quiet in the end".
In `InitScript` the shell goes on, the kubelet refreshes volumes and the rollout
proceeds. In `AimPod` Reconcile,
StatefulSet controller, kubelet and container are fair, edits and deaths bounded.
In `AimContainer` time passes, kubelet and supervisord work, and an outage ends:
what a program depends on comes back. `AimManagers` and `AimCtlConf` have none.

## 4. Proofs

The theorems hold for every set of specs, secrets, storage classes, ordinals and
probe settings and every bound on edits, faults, deaths and outages, under the
named assumptions on the constants (`ClassAssumption`, `NoneAssumption`,
`ConfAssumption`, `ReconcilerAssumption`, `InitScriptAssumption`,
`AimPodAssumption`, `AimContainerAssumption`, `ManagersAssumption`,
`FabricAssumption`), which TLC evaluates in the runs. Where a theorem has a hypothesis
of its own, it is named below.

The controller:

* `TypeCorrect`: `Spec => []TypeOK`. `TypeOK` allows `None` in every local; the
  inductive invariant `TypeInv` adds `LocalsOK`, which says what each local
  holds at each `pc`. The point with content is the size of claims: it is a
  number because `StatefulSet` has parsed it before `ensureLogPVCStorage` runs.
  Four lemmas on streams (append, tail, relist, type) carry all actions.
* `ControllerImplementsLogClaims`: `Spec => ImplementsLogClaims`, the refinement of
  `LogClaims`, from `TypeInv`. Streams that only deliver events keep their last
  element; of the steps that append to `claims`, the loop of
  `ensureLogPVCStorage` is a `Grow` and the provisioning a `Provision`. A resize is
  sent only for a larger size and applied only to the claim that was listed;
  removing a StatefulSet leaves claims alone because every version that can exist
  has the policy `Retain`.
* `ClaimsNeverShrink`: `Spec => ClaimsOnlyGrow`. Every step of `LogClaims` keeps or
  grows what was there, so this follows from the refinement; that the shared claim
  of earlier releases stays is shown beside it, as it has no ordinal.
* `StatusWritesStop`: `Spec => []StatusWritesBounded`. A bound on a counter says
  nothing about the next write, so the invariant `StatusInv` keeps a budget: versions
  so far, and the writes that the live conditions still allow (`Budget`). A write
  takes from it only if the conditions grow. `Versions` and `Fetched` give that, since
  the update is accepted only if the instance is the live version, and `DbFirst`
  excludes a third write for `DBReady` alone.
* `DeletionsAreExamined`: with `Deletes = FALSE` (nobody but the operator deletes
  the StatefulSet or the resource), `Spec => DeletesOnlyExamined`. The property is
  about two reads of different age, so the inductive invariant `DeleteInv` speaks
  of whole streams: there is one identity of the resource and it owns every
  version of the StatefulSet; the stream of the StatefulSet shows one object,
  which appears once or disappears once; between `Get` and `Delete` it shows the
  object that was found, or nothing. Each action is first reduced to one of a few
  moves of a stream (append, tail, relist), and the invariant is proved for the
  moves.
* `MountsAlwaysExist`: with `Deletes = FALSE`, `Spec => []MountsExist`. What Reconcile
  reads is cached: `OrderInv` says that a ConfigMap and a CA secret seen in any version
  are in every later one (`CmStays`, `CaStays`, `CmOwned`: the garbage collector has
  nothing to collect), so a cached object that was found is live, and `Prepared` that a
  Reconcile past a step has left its object behind.
* `StatusFollows`: with `Deletes = FALSE`, `Spec => StatusFollowsStatefulSet`. `Applied`
  says that a Reconcile about to report has brought the live StatefulSet to its spec,
  by creation, by update, or because the server found nothing to change; the accepted
  status write says (`Fetched`) that this is still the live spec.
* `ReadyIsApplied`, `ControllerImplementsConfigRollout`: with `Deletes = FALSE`,
  `Spec /\ []FreshMatch => ReadyMeansApplied` and
  `Spec /\ []FreshMatch => ImplementsConfigRollout`, the refinement of `ConfigRollout`.
  The invariant `Current` carries the published data from `ensureConfigMap` to the
  report. The hypothesis `FreshMatch` is the one thing the code does not ensure: the
  proof of `Current` fails at the branch of `ensureConfigMap` that skips the update, and
  `configmap_up_to_date` is the execution that goes there. So the theorems say that
  nothing else can go wrong.
* `MatchesAreFresh`, `RolloutIsHonest`: with `Deletes = FALSE` and an order `e` in which
  the values of each input appear (`Strict(e)`: irreflexive, transitive),
  `Spec /\ NeverReturns(e) => []FreshMatch`, and with it both results of the previous
  item. `NeverReturns` is a condition on users and other operators alone: the live
  inputs of the files (resource, Neutron objects, three secrets, each as far as it is
  rendered) never go back, and the ConfigMap found at the start was rendered from
  none that comes later. Caches, faults, lost replies and restarts stay arbitrary.
  `FreshInv` says that the versions in each stream ascend, and that what is published
  comes no later than what the running Reconcile holds (`Held`: part read, part still
  in the caches), and that no later than what the caches offer. If the cached ConfigMap
  equals what Reconcile rendered, the live one lies between two equal ends and is
  equal to them. `configmap_up_to_date` shows that the condition is needed.

`Deletes = FALSE` means that nobody but the operator deletes the StatefulSet or the
resource. With deletions `MountsExist` and the others do not hold: the objects of a
resource that is gone are collected one by one, and the operator, on its cached copy,
may create some of them anew meanwhile. `deletion` covers that case with `Cleanup` and
`Convergence`.

Two managers:

* `ManagersImplementLogClaims`: `ManagersSpec => ImplementsLogClaims`, with or without
  the lease, whoever deletes. The results on one manager are used twice: as they
  stand for the old one, and in an instance of `AimHistoryProofs` over the new one's
  streams. What is added is the invariant `SharedInv`: both sides have their types and
  agree on the live objects (`Agree`), because a step appends at most one version to a
  stream and `Fed` appends the same one on the other side, while events and relists
  pass nothing on (`PassedOn`, `FedLive`). So a step of `LogClaims` on one
  view is one on the other.
* `ManagersDeleteWhatTheyExamined`: with `Deletes = FALSE`,
  `ManagersSpec => ManagersDeleteExamined`. The invariant `LeaseInv` says that under the
  lease `DeleteInv` holds of the old manager before the hand-over and of the new one
  after it. At the hand-over a cache without outstanding StatefulSet events is enough:
  the single version it holds is the live one, which the old manager's `Owned` covers,
  and versions of the resource may lag. The first attempt, without `fresh`, failed at
  that step and led to the execution described under "Other observations"; the run had
  missed it because the bound on versions then applied under the lease as well.

Pod, container and script:

* `TemplatesAreBacked`, `ContainersStartUsable`: if every spec is `Complete`,
  `Spec => []MountsBacked` and `Spec => []StartsUsable`. `Complete` asks that a login by
  certificate names the user (the CRD defaults it) and the key, that the certificate
  has a name of its own in `/etc/aim`, and that a CA bundle is mounted outside of it and
  on none of the other mounts; TLC evaluates it on the specs of `pod_files`, one of which
  has a certificate called like another user's key.
  User, certificate and CA are otherwise arbitrary: `NamesDiffer` and `CaElsewhere`
  derive from `Complete` that no two mounts meet (`PathsDiffer`) and that kolla copies
  over none of them (`CopiesOverNone`). The condition on the certificate's name is
  needed as it stands; a CA bundle in `/etc/aim` under a name that is free would do, too.
  Volumes, mounts, items and keys are treated separately for an arbitrary spec, with
  key, CA and log claim each present or not; the invariant `Written` says
  that only specs the user wrote reach ConfigMap, template and volumes.
* `KillsAreJustified`: if the tick divides 10 seconds, `Spec => KillsHaveCause`. The
  invariant is an account of time: `InStep` says how far the programs have come since
  the container started, `OnTime` that the probe has had at least 30 seconds and a
  period for each failure, and how many of its failures fell after the start. The
  attempt showed that three probes that time out suffice by themselves, which the
  property now says and the bound of two in `container` had hidden.
* `RecordedConfigurationIsApplied`: with configurations that only move forward,
  the hash file never names one newer than both commands applied. The inductive
  invariant bounds the hash of a running script by what the commands before the
  current one have applied, and the mounted file from below. `init_rollback`
  shows that the assumption is needed.

Rendering:

* `RenderingStable`, `LinksRendered`, `DomainsRendered`: `Spec => []RenderingIsStable`,
  `Spec => []LinksAsSpecified`, `Spec => []DomainsAsSpecified`, for fabrics of any size.
  The invariant `RenderInv` says what every loop has produced so far: a prefix of
  the sections of the switches, the visited hosts under their ports, the last of the
  mappings of each network so far, the first range of each domain so far. It says so for
  all networks, the ones of `NeutronPhysicalDevMappings` too: what is weaker than the
  code there is the property, because the comment asks for something else. At the end
  the data are `Rendering(fab)`, a function of the fabric. The lemmas under it are about
  sorting: a finite set of numbers has exactly one ascending list (`OrderUnique`), a
  permutation that sorts exists (each element goes to its rank), and so
  `SortStrings` of any listing of the set is that list. Uniqueness takes the least
  position at which two lists differ; this, and stating the loops as steps, does
  without induction over data.

Only model-checked:

* The liveness properties `Convergence`, `SecretsReachPods`, `Cleanup`,
  `SetupApplied`, `PodSettles`, `SelfHealing`: they need fairness, which is out of the
  prover's reach.

Every other property of a passing run is stated by a theorem.

## 5. Not modelled

* The rollout order of several pods. Pods have no readiness probe, so
  `OrderedReady` does not wait for `init.sh`, and one pod stands for all in `AimPod`.
  The status of the StatefulSet and of claims: writes of the StatefulSet
  controller to it change the resource version and make an update fail;
  `CallFails` stands for that.
* Errors of reads. `getNeutronRabbitConfig` takes the defaults on any error of `Get`,
  the model when the secret or its key is absent. The client reads secrets from an
  informer cache, and `ensureDB` has waited for that cache to be filled in the same
  Reconcile, so `Get` returns no other error there.
* Time, except in `AimContainer`: delays and backoff of the work queue.
* A program without `startsecs` that dies at once, again and again (`aim-aid`):
  supervisord restarts it for ever and it never counts as given up. The check
  sees it running most of the time.
* Text: what the templates render, apart from the inputs it depends on, the file
  names, and the sections of `aimctl.conf`.
* `templates/config.json`, which nothing reads; manifests; generated deep copies and
  the registration of the API group; flags, metrics and webhook set-up of
  `cmd/main.go`.
* More than one resource in the namespace: requests of different resources
  share only `rabbitmq-ca-secret`, with equal content.
* Creation of an object whose owner is gone is accepted by the API server and
  collected afterwards, as in the model.

## 6. Plan

1. (done) `LogStorage`, `AimObjects`, `AimReconciler`, `InitScript`, their runs and
   theorems.
2. (done) Rendering: `AimCtlConf`.
3. (done) Pod specification and container: `AimPod`, `AimContainer`.
4. (done) `LogClaims` and `ConfigRollout`, with `AimReconciler` as implementation.
5. (done) A second manager: `AimManagers`.
6. (done) Proofs of `MountsExist`, `ReadyMeansApplied`, `StatusWritesBounded` and
   `ImplementsConfigRollout`, and of the safety properties of `AimPod` and
   `AimContainer`.
7. (done) Proofs about two managers: `LogClaims` and the deletions under the lease.
8. (done) Proofs of `FreshMatch` from a condition on the inputs, and of the rendering of
   `aimctl.conf`.
9. `InitScript` in pod 0 of `AimPod`, composed with several pods.
