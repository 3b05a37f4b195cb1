# A verified model of the Nacos operator

TLA+ modules, TLC runs and TLAPS proofs about nacos-k8s: above all the operator
(`src/operator`), which turns a `Nacos` resource into a StatefulSet, services,
ConfigMaps and a job, and reports in the status of that resource whether the
Nacos members are well. Paths below are relative to `src/operator` unless they
begin with `src/`.

## 1. Inventory

| part | state it keeps | operations | what makes it correct |
|---|---|---|---|
| Reconcile loop: `controllers/nacos_controller.go`, `pkg/service/operator/operaror.go` | the work queue, `RequeueAfter` timers, the informer's copy of the resource, one reconcile in progress | `Reconcile` -> `ReconcileWork`: `PreCheck`, `MakeEnsure`, `CheckAndMakeHeal`, `UpdateStatus`; `globalExceptHandle` for panics | a verdict is about the newest spec and true; failures are retried and reported; the objects converge |
| Status: `pkg/service/operator/Status.go` | `status.phase`, `status.event` (bounded log), `status.conditions` | `UpdateStatusRunning`, `UpdateStatus`, `UpdateExceptionStatus`, `updateLastEvent` | the phase is explained by the newest event; no verdict overwrites another one unseen; the log is bounded and alternates |
| Object clients: `pkg/service/k8s/*.go` | none (the API server's objects) | create-if-absent, create-or-update, update-then-create, `checkSts`, foreground deletion | only the difference asked for leads to a deletion; a lost race is an error, not an overwrite |
| Object builders: `pkg/service/operator/Kind.go` | none | `Ensure*`, `build*`, default values, SQL script | the objects carry the mode, scale, storage, environment and database of the spec |
| Member check: `Check.go`, `pkg/service/nacos/cluster.go` | the conditions of the copy in hand | `CheckKind` (replicas, quorum of ready pods), `CheckNacos` (each pod's view of the members, their state and leader) | no verdict of Running without a quorum of healthy members |
| Pod spec merge: `pkg/util/merge`, `pkg/util/contains` | none | `PodSpec`, `Containers`, `Envs`, `VolumeMounts`, ... | the user's fields win, nothing is lost, the result does not depend on order |
| Member start script: `Kind.go:35-50` | one position per pod | ping every member until all answer, then start | a cluster starts; a restarted member rejoins |
| Database initialisation: `Kind.go` job, ConfigMap, init container | job, ConfigMap, database tables | create once, import, wait for the database | members find their tables |
| Manager process: `main.go` | - | start, leader election (default off) | restarts lose nothing that matters |
| Helm chart: `src/helm` | generated credentials | lookup and reuse | an upgrade keeps its credentials |
| Peer finder: `src/plugin/peer` | `cluster.conf` | `on-start.sh`, `on-change.sh` | every member ends up with the whole list |
| API types, manifests, operator chart, CI: `api`, `config`, `chart`, `src/deploy`, `src/openshift`, `src/hack` | none | - | declarative |

How they interact. The informer delivers resources and changes of owned
StatefulSets (`SetupWithManager`) to the work queue. `Reconcile` takes one
resource and reads it from the informer, so that it may be old. Control flow is
by panics: `*errors.Err` with `CODE_NORMAL` accepts a new resource, other codes
are failures for the status, every other error (of the API server, or a nil
dereference) is only logged; all of them end in a retry after five seconds. The
objects are read and written through the API server directly, the status
through `Status().Update`, which the API server refuses when the copy is not of
the newest version. The StatefulSet controller, the kubelet, the garbage
collector, the user, and possibly a second manager act in between.

What is hard here: every reconcile is a long non-atomic sequence on an old copy;
the deletion of a StatefulSet is neither versioned nor awaited; a GET of a member that
accepts and never answers has no timeout and holds the only worker; what is built
is compared byte by byte with what the API server has completed; failures are
withheld for three minutes; a panic of the wrong kind is never reported; nothing
but the StatefulSet is watched; an optional field is dereferenced in four
places. `PROJECT.json` lists the hazards at their lines, with the properties
that cover each of them.

## 2. Plan

Modules in the order in which they are written:

1. `EventLog` - the log of events, pure operators. **Done**; its lemmas are in
   `NacosStatusProofs`.
2. `NacosStatus` - abstract specification of the status. **Done, proved.**
3. `Reconciler` - the reconcile loop with its environment; implements
   `NacosStatus`. **Done, checked; every safety property proved, two of them for
   one manager.**
4. `ClusterCheck` - `CheckNacos` pod by pod, among members that fail and elect.
   **Done, checked; its safety proved.** It is tied to `Reconciler` by what the
   check returns (section 3).
5. `Merge` - `pkg/util/merge` as operators on sequences and records. **Done, the
   lists by name, their order and what they keep proved** (`MergeProofs`).
6. `NacosBuild` - defaults, environment and pods of `Kind.go`, with the merge and
   the comparison with what is stored. **Done, checked; all its safety proved**
   (`NacosBuildProofs`).
7. `Startup` - the start barrier of the members with names and lost pods, together
   with the import job, its retries and the database: one waits for the other.
   **Done, checked; the barrier proved.**

Runs and bounds: one run per question, with the smallest instance in which the
interesting case happens. Theorems: one inductive invariant per stateful module.

## 3. What is modelled

### EventLog
`UpdateLastEvent` is `Status.go:58-97`. An event is its code and its status flag;
times and messages are left out. The head is dropped only when the log is
already longer than `EVENT_MAX_SIZE`, and never after the append, so that a log
holds up to eleven events (`Bounded` says `EVENT_MAX_SIZE + 1`). The code's 10 is
a constant: the theorems hold for any natural number, the runs use 0 and 1, which
makes the log wrap around early.

### NacosStatus
Three variables, `phase`, `events` and `overdue` (older than three minutes), and the
only changes a reader may see: `Accept`, `Succeed`, `Fail(code)`, `Expire`.

### Reconciler
| variable | stands for |
|---|---|
| `cr`, `overdue` | the stored resource (alive, spec, status) and its age |
| `store` | the seven kinds of owned objects by kind: `cm`, `sts`, `svc`, `hsvc`, `csvc`, `sqlcm`, `job` |
| `terminating`, `ready`, `nacos` | a foreground deletion is under way; ready pods; what the GETs of a check meet: members that are well, one that fails, one that hangs |
| `cache`, `behind` | each manager's informer copy, and who has an old one |
| `dirty`, `timer` | work queue and `RequeueAfter` |
| `w`, `stale`, `raced` | the reconcile of each manager (position, copy of the resource, kind at hand, what was read, error code, ready pods), who works on an old resource, who has read an old StatefulSet |
| `upsets` | bound on edits, faults, restarts and deletions together |

Actions and code:

| action | code |
|---|---|
| `Reconcile` (`Begin`) | `nacos_controller.go:57-78`, `PreCheck`, the switch of `MakeEnsure` |
| `UpdateConfigMap`, `GetObject`, `CreateObject`, `UpdateObject`, `DeleteStatefulSet`, `BuildPanic` | the ensures, one action per API call; order from `MakeEnsure` (`First`, `After`) |
| `CheckSts`, `ClassPanics` | `checkSts`, `checkVolumeClaimTemplates` with their nil dereferences |
| `CheckKind`, `GetStatefulSetReadPod`, `CheckNacos` | `Check.go`, `statefulset.go:54-85` |
| `UpdateStatusRunning`, `GlobalExceptHandle` | the two writes of a verdict |
| `Requeue`, `Panic` | ends of a reconcile by an unknown and by a coded error |
| `ApiError`, `Reply`, `Restart` | a call without effect, an effect without a reply, a crash |
| `Deliver`, `TimerFires`, `Resync` | informer, timer, periodic resync |
| `EditSpec`, `DeleteResource`, `ThreeMinutesPass`, `PodReady`, `PodUnready`, `PodRemoved`, `StatefulSetGone`, `NacosChanges`, `GarbageCollect` | the user, the clock and the cluster |

Abstractions, and why they are safe:

- A resource version is only ever compared for equality. `behind`, `stale` and
  `raced` say of each copy whether it is still the newest, which is all that the
  API server's optimistic locking tells apart.
- The informer delivers the newest version and may skip versions, as watches do.
- `RequeueAfter` may fire at any time after it was set.
- A spec has the fields the loop tells apart. `image` stands for every field of
  the pod template that `checkSts` does not compare; `mysql` for a mysql database
  with `mysqlInitImage`. Storage classes are compared as equal or not
  (`EqualFold` in the code).
- `nacos` stands for the answers of all members; `CheckNacos` is one step, which
  passes, or fails at any pod and leaves the conditions of the pods before it. While
  a member hangs it is not enabled: `http.Client` (`cluster.go:51-54`) has no timeout,
  so that the worker stays there until the member answers or the manager is
  restarted. The step takes from the check that a success leaves one condition for each ready pod,
  whatever happens between the GETs: `ClusterCheck` proves that as
  `ConditionsMatch`.
- The environment of a spec is opaque here and taken as one the API server has nothing
  to add to; `NacosBuild` has the other case.
- Negative replicas, a resource created again under its name, and a request of a
  crashed process that lands after its restart are left out.

### Merge and NacosBuild
`Merge` has one operator per function of `pkg/util/merge` that `PodSpec` reaches; the
many copies of the same two schemes are `Fields` (set fields replace) and
`MergeNamed` (two maps by name, then a sorted list). Go walks a map in an order
of its own: every operator that makes a list from a map takes that order as its
argument `walk`. The sort of the ephemeral containers is commented out in the code,
and they are left in that order here; no pod template may have any, so that this
shows in no StatefulSet. Within a container, one
field stands for several of the same treatment (`image` for all plain fields,
`probe` for three, `command` for the arguments too).

Byte order is the position in `Alphabet`, which lists all names that occur, each
once (`AlphabetAssumption`); a `walk` is any other list of the same names
(`IsWalk`). Loops that select and sort are not recursive: `Arranged` puts at
place `k` the entry that has `k` entries up to it, by position (`Picked`) or by name
and position (`ByName`, a stable sort). For the proofs, `IsSpec` and
`IsPod` say what Go's types and the API server leave of a spec and a wrapper:
fields, lists, and replicas that are a number. `BuildAssumption` asks for it of the
constants, and that the operator's own names are known; `NilAssumption` that the
zero value is neither a text nor an object.

| variable of `NacosBuild` | stands for |
|---|---|
| `spec` | the spec of the stored resource, with its `k8sWrapper` |
| `sts`, `job` | the stored StatefulSet and database job, with their pods |
| `ensured` | the StatefulSet was ensured since the last edit |

The API server completes what it stores. `Completions` maps a source of a variable
that leaves a field out (a `fieldRef` without `apiVersion`) to the source as stored;
`StoredSts` and `StoredPod` do so in every container. Such a variable then differs from
the one built, byte by byte, at every reconcile (`statefulset.go:159-166`). The other
defaults of a pod are in fields that nothing in this code compares. They are left out,
and so are quantities finer than a thousandth, which the API server rounds.

`EditSpec` is the user; `EnsureStatefulset` is `EnsureStatefulset`,
`EnsureStatefulsetCluster` and `CreateOrUpdateStatefulSet` in one step, with any
order of the maps; `EnsureJob` is `Kind.go:212-217`. What `Reconciler` has in
detail (failed and interleaved calls, the time a deletion takes, nil panics) is
left out here, and what it leaves abstract (`res`, `env`) is spelled out: of
`CheckSts` it assumes that the first container is that of Nacos, which is so
without a wrapper. Of five settings of the database `host` is one; the names of
all members are one string made of replicas and domain. `Accepted` is the part of
the validation of pods by the API server that a merge can run into. It refuses a
job at its creation and, for a StatefulSet, only the pods made from it.

### ClusterCheck
| variable | stands for |
|---|---|
| `checking`, `asked`, `left`, `known`, `conds` | the check in progress: the ready pods it was given, those still to ask, the variable `leader`, the conditions of the copy |
| `status` | verdict and conditions as stored |
| `reach`, `elected` | what a GET of each pod meets; the leader |
| `current` | the members whose own list of members is up to date |
| `heard` | history, for the properties: the leaders named in accepted answers |
| `upsets` | bound on failures, changes of leader and of scale |

| action | code |
|---|---|
| `Begin` | `Check.go:44-54`, with the list of pods of `CheckKind` |
| `PodPasses` (`Asks`, `Accepted`, `AllUp`, `Agreed`, `Type`) | one turn of the loop `Check.go:56-93`, `GetClusterNodes` included |
| `PodFails` | the panics with `CODE_CLUSTER_FAILE`, and `UpdateExceptionStatus` |
| `Pass` | `UpdateStatusRunning` |
| `MemberFails`, `OtherScale`, `MemberReturns`, `Elect`, `CatchesUp` (`Ups`, `Leaders`) | the Nacos servers, external |

Each member answers a GET from its own list (`Ups`, `Leaders`). Until it has caught up with the
last change (`CatchesUp`) that list may name any leaders and have anybody UP or not, so
that the answers of one check may contradict each other. A pod that cannot be reached,
or whose answer is no JSON, refuses; one that never answers hangs, and then the check
does not go on, because `http.Client` is used without a timeout. That a check passed
does not mean that all members were ever UP at one time: their lists may all be old.
`Agreed` is the inner loop as one formula: the first leader that is not
empty is taken, and from then on an empty one is a difference. What surrounds the
check is `Reconciler`'s: a failure is withheld for three minutes, the status may be
refused, and the verdict is about one version of the spec.

### Startup
| variable | stands for |
|---|---|
| `labels`, `selects` | what the labels of the resource select now; what the selector of the stored headless service selects |
| `script`, `job`, `tries` | the operator's image has the SQL file; the job's newest pod; its retries |
| `dbUp`, `db` | mysql answers; the database does not exist, exists, has its tables |
| `place`, `at` | each pod: waits for the database, is in the loop of the script (with the names it is done with), is up |
| `unseen` | history: members that had no address all the time since this script began |
| `upsets` | bound on failures and edits |

| action | code |
|---|---|
| `EnsureHeadlessServiceCluster` | `Kind.go:194-198` with `CreateOrUpdateService` (`service.go:77-94`) |
| `EnsureJob` | `CreateIfNotExistsJob` (`job.go:50-59`) |
| `PingDatabase`, `CreateDatabase`, `ImportSql`, `ImportFails` | the three commands of `buildJob`, `RestartPolicy: Never`, `readSql` |
| `CheckDatabase`, `Ping`, `Start`, `StartFails` | `AddCheckDatabase`, `initScrit`, `exec bin/docker-startup.sh` |
| `PodCreated`, `PodLost`, `ContainerFails`, `DatabaseFails`, `DatabaseUp`, `EditLabels` | Kubernetes, mysql and the user, external |

A name resolves when the service selects the pod and the pod has an address, ready
or not: `PublishNotReadyAddresses` is what keeps the barrier from being a deadlock.
The selector of the services follows the labels of the resource, while the pods keep
the labels the StatefulSet was made with: `checkSts` does not compare them. So after
an edit of the labels no name resolves until the edit is taken back, and
`MembersStart` must assume that it is. The script of the import creates tables only
if they do not exist, so that a second try completes a partial first one: `db` needs
no value for half of the tables. That Nacos does not come up without its tables, and
that its container is started again then, is an assumption about Nacos.

The operators marked "Seeded fault" are plausible bugs of the neighbouring
definition, used to show that each property can fail.

## 4. What the runs show

| run | instance | shows |
|---|---|---|
| `OneManager` | one manager; a spec and an edit for each answer of `checkSts` (volume, class, scale, mode, mysql), both nil panics, the empty cluster and an unknown type; two edits or faults; `EVENT_MAX_SIZE = 1`; members fail and recover at will | `StatusRefines`, `StatusCoherent`, `JobHasScript`; Running is recorded only for the newest spec, with a quorum of healthy members and every object in place (`RunningVerified`, `RunningMatches`); only a changed volume claim deletes a StatefulSet (`DeletesOnlyOnVolumeChange`) |
| `TwoManagers` | two symmetric managers, one edit or fault | `CopiesCurrent`, `StatusRefines`, `RunningVerified` in spite of interleaved reconciles; nothing is made of a resource before its acceptance is stored (`NothingBeforeAccepted`) |
| `Liveness` | one manager, fairness, an edit that replaces both StatefulSet and ConfigMap, two upsets of any kind including deletion; members fail, hang and recover at will | if no GET hangs for ever (`MembersAnswer`): `Converges`, `OutageReported`, `TimeoutReported`; `RecoveryReported`, where the members answer by assumption; `ChildrenCollected` in any case |
| `Templates` | seventeen specs (both types, scale and domain, function mode, certification on, off and omitted, mysql, claim and config; wrappers with a patch of Nacos, sidecars before and after it, volumes, init containers, a wrapper that does not fit; a field reference with and without its `apiVersion`) edited into each other without limit; maps walked forwards and backwards | `Settled`: building again finds a difference exactly when the API server completed a variable of the first container, and then an update; `ContainersStay`: until the next edit no container changes in spite of that; `EnvArrives`, `CertificationArrives`: the variables stored are the last ones asked for; `NothingLost`, `PodsAccepted`: a wrapper that fits yields a complete pod that Kubernetes accepts |
| `ClusterCheck` | three members, leaders by host name (with addresses no condition says leader and less can go wrong; the proofs cover both); elections while there is no leader, and one failure, change of leader or of scale at any moment, also between the GETs of one check; lists that lag behind | a stored status names one leader at most (`OneLeader`), all leaders a check accepted are the same (`LeadersAgree`), and a check that passed leaves one condition for each pod it asked (`ConditionsMatch`); members that stay well are reported well (`WellReported`), a member that stays down is reported even if its pod is never asked (`FailureReported`) |
| `Startup` | three members, one retry of the job; with and without the SQL file, mysql up or not, the database empty, created or filled; three lost pods, failed containers, failed imports, database failures or edits of the labels | nobody is up before all members were there (`StartsAfterAll`), once all are there everybody comes up, in spite of a late import and of restarts (`MembersStart`), the import is completed or has used up its retries (`ImportCompletes`) |
| `UnmarkedSuccess`, `StuckCreating`, `ImageIgnored`, `RunningWhileDeleted`, `SidecarFirst`, `JobRefused` | the smallest instance of each | one disagreement of the code with its documentation each, see `PROJECT.json` |

Bounds. Two upsets suffice for a fault inside the repair of another one, and for
an edit hit by a fault; two members for a scale, a quorum and a partial failure;
in `ClusterCheck` one upset after the first election: the lists that have not caught
up give every answer already, and a second failure would only fail the check as the first does; two managers for every race on a version, since versions are only compared with
the newest. Two opposite orders of a map differ on every pair of its keys, which
is all that a sort by name has to undo. Three members are the least with which a quorum
leaves one out, and with which a leader can change to a member already asked or
still to ask; three upsets in `Startup` lose a pod while another is restarted and
the import fails. Deadlock is looked for in `ClusterCheck` only; the other systems
rest when nothing is to do, or when all wait for mysql.

`RunningMatches` and `DeletesOnlyOnVolumeChange` are stated for one manager only.
With two, the other one may replace the StatefulSet between the comparison and a
deletion by name.

Fairness (`Fairness` in `Reconciler`): the worker of each manager takes its next
step (goroutines are scheduled, calls of the API server return or fail), watches
deliver and timers fire, the clock runs, and the cluster completes deletions, scale-downs
and garbage collection. No pod is assumed ever to become ready, no edit to
happen, and no GET of a member that hangs to return: with such a member nothing is
reported and no edit has an effect, for this resource and all others. `Converges`,
`OutageReported` and `TimeoutReported` have that as their premise, `MembersAnswer`: from
some time on no member hangs. A hang before that is made up for.

In `ClusterCheck` the check goes on and is begun again, by `RequeueAfter` after
a failure and after a success by an event or, at the latest, by the resync of the informer (`main.go` leaves its period at the default of hours, which is how
late a member that fails behind a ready pod may be noticed); a GET that hangs is not
assumed to return. In `Startup` the operator retries, and the containers of the job
and of each pod run; no pod is assumed to be scheduled, nor mysql to come up.
The user and the failures stop after `MaxUpsets`, and the properties are
about what holds from then on. `NacosBuild` states safety only and assumes none.

## 5. What is proved

For any managers, specs, edits, maximum of events and number of upsets, from
`SpecsAssumption` and `EventMaxAssumption` unless said otherwise:

- `TypeCorrect`: `Spec => []TypeOK`, and `AcceptedBeforeMade`: `Spec =>
  []NothingBeforeAccepted`.
- `CopiesAreCurrent`: `Spec => []CopiesCurrent`.
- `StatusRefined`: `Spec => StatusRefines`, the reconcile loop implements
  `NacosStatus`.
- `StatusStaysCoherent`: `Spec => []StatusCoherent`, inherited from
  `NacosStatusProofs!StatusIsCoherent` through that refinement.
- `JobAlwaysHasScript`: `Spec => []JobHasScript`, and `RunningIsVerified`:
  `Spec => RunningVerified`, both in `EnsureProofs`, from `WorkStaysEnsured`:
  `Spec => [](Ensured /\ Verified)`.
- for one manager, in `SingleManagerProofs`: `RunningAlwaysMatches` (`Spec =>
  RunningMatches`) and `DeletesForVolumesOnly` (`Spec =>
  DeletesOnlyOnVolumeChange`), from `StatefulSetHeld`.
- for any number of members and failures, from `ClusterAssumption`, in
  `ClusterCheckProofs`: `OneLeaderOnly`, `LeadersAlwaysAgree`,
  `ConditionsAlwaysMatch`, from `CheckedSoFar`.
- for any number of members, retries and failures, from `StartupAssumption`, in
  `StartupProofs`: `StartsAfterAllMembers`, from `SeenSoFar`.
- `TypeCorrect` in both: `Spec => []TypeOK`.
- `StatusTypeCorrect`, `StatusIsCoherent` in `NacosStatusProofs`, from its lemmas
  about the log.
- for any lists, in `MergeProofs`, from `AlphabetAssumption`: `MergeNamedSettles`
  and `ContainersSettle`, what is merged by name does not depend on the walk.
- for any specs, wrappers and walks, in `NacosBuildProofs`, from
  `AlphabetAssumption`, `BuildAssumption` and `NilAssumption`: `TypeCorrect`,
  `EnsuredIsLeftAlone` (`Spec => []Settled`), `PodsAreNotReplaced` (`Spec =>
  ContainersStay`), `EnvironmentArrives` (`[]EnvArrives`),
  `CertificationIsFollowed` (`[]CertificationArrives`), `NothingIsLost`
  (`[]NothingLost`), `FittingPodsAccepted` (`[]PodsAccepted`), and
  `EnvironmentArrivesAlways`.

So every invariant and every action property of the passing runs is proved.

The argument. Refinement alone is not inductive: a verdict is computed from a
copy of the resource (`w[m].inst`), and it would replace the log by an older one
if that copy were old. `CopiesCurrent` says that a copy the API server still
accepts equals the stored resource but for its conditions; it needs to know that
each step of a reconcile keeps its copy (`RunningFollows`), that a reconcile
begins with the informer's copy (`ReconcileBegins`) and that each new version
outdates all copies (`PublishKeepsCurrent`). `AcceptedFirst` (lemma `WorkAccepted`) gives
the guards of the abstract actions: the code of success is handled exactly when there
was no phase. So the inductive invariant is `TypeOK /\ AcceptedFirst /\ CopiesCurrent`.
`AcceptedBeforeMade` adds to it that no copy in a cache has a phase while the stored
resource has none (`Unseen`): then no reconcile gets past `PreCheck`, and none of any
manager makes anything.

What holds of the objects rests on a second invariant, in `EnsureProofs`:
`Ensured` says that a reconcile has behind it the objects of every kind before
its own in the order of `MakeEnsure` (`Before`), `Verified` that it has behind it
the checks before its position. Two of its lemmas carry the argument: going on
adds exactly the current kind (`AfterPasses`), and while the resource exists
nobody removes an object other than the StatefulSet (`ObjectsStay`), so that what
one manager has ensured survives all others. `RunningIsVerified` combines it with
`CopiesCurrent`: the spec that was verified is the stored one.

With one manager (`Managers = {o}`) more holds of the StatefulSet. `Holds` says that
a reconcile past its StatefulSet has left it as its spec asks for, and that one
about to delete it has found its volume claims different. It is inductive because
everybody else only takes the StatefulSet away (`LeavesSts`), and because `checkSts`
reports no difference only between equal ones (`NoneMeets`). With a second manager
it is false: the other one may replace the StatefulSet in between.

A check in progress is described by `Carried` (all leaders heard are the variable
`leader`) and `Counted` (each pod asked has its one condition). Neither needs anything
of the lists the members answer from but that they name members (`ListsName`). For the barrier, `StartsAfterAll` is not inductive: it follows from what
a script knows in its loop, `Seen`, `Passed` and `Complete`.

The merge is proved without induction. `Arranged` counts: the place of an entry is
the number of entries up to it in a total order. Places differ and do not exceed the
number of entries (`PlacesDiffer`, `PlacesGrow`), so that they are exactly `1..n`, and
the arranged list is a bijection from places to entries (`OrderingLists`); any two
lists of the same entries in the same order are equal (`OrderingUnique`). A map by
name, walked in any order, has each name once; sorting by name gives the one list in the
order of `Alphabet` (`SortedWalk`, `SameRearrangement`). The rest follows from
what `Overlay` and `Named` do to a single name: which names a merged list has, whose
item each is (`MergedContainers`, `MergedFields`, `MergedVolumes`, `MergedItems`), and
that items keep the fields that make them items.

The invariant of `NacosBuild` is `Reached /\ Settled /\ FromSpec`. `Reached` says that a
stored StatefulSet was built of some spec with some walk and completed, not which: the
spec may have been edited since. `FromSpec` says that, once ensured, one whose first
container the API server completes was built of the current spec: it never compares equal,
so that it was written after the last edit. `Settled` alone is not inductive, because "None" leaves an old
StatefulSet in place for a new spec; what compares equal in one walk does so in every
other (`ComparisonSettles`), and that rests on `ContainersSettle`. `EnvArrives` then
needs no history: equal in the comparison means that the first containers have the
same variables, and `ComparesNacos` that they are those of Nacos. This is the limit
`SidecarFirst` shows. `EnvironmentArrivesAlways` makes it a condition on the specs: if
no wrapper has a container whose name sorts before that of Nacos
(`SidecarsSortLater`), the first container is always that of Nacos (`NacosFirst`),
and the environment arrives without further condition. `PodsAccepted` is about a single
build and holds of all of them: `MountsFit` and `ProbesFit` show what
`WrapperFits` asks of a patch, `WrappedRuns` joins containers and init containers.

What the statements leave out: `NothingLost` works by name. Two tolerations of one key
with different effects become one in the code (`merge.go:497-525`, the last one stays),
and so do two ports without a name, which it cannot tell from one. It says nothing inside a container or a
volume that a wrapper names twice (the last one stays), nothing of the host names
inside an alias; `PodsAccepted` asks of a wrapper that
its init containers have neither mounts nor probes.

Only model-checked: all liveness properties, since the provers reason neither about
fairness nor about `ENABLED`. Induction over data is out of their reach as well: the two
folds, the host names of an alias and the domain among the variables, are opaque in
the proofs, which need nothing of them.

## 6. What is not modelled

- Helm chart (`src/helm`). The templates have no state and no steps: what is hard is
  in Helm's `lookup` and release store and in the rollout of a StatefulSet, none of
  which is in this repository. What a reader should know: the pods are replaced when
  the hash of the authentication values changes (`_helpers.tpl:50-58`), which does
  not include the generated credentials, so that a rollback may bring back the hash
  of pods that run with other ones.
- Peer finder (`src/plugin/peer`). Two scripts that write what the `peer-finder`
  binary passes them; the binary is not in this repository and the operator does not
  use them.
- Manifests, operator chart and CI: declarative. Generated code, logging, metrics.
- The functions of the object clients and of `pkg/util/merge` that nothing calls
  (`merge_statefulset.go` among them), and `buildDefaultConfigMap` and
  `EnsureServiceCluster`, which nothing calls either.
- Annotations, and the ports and address families of the services: written through,
  and read by nothing in this code. The version in the status.
