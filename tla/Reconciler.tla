----------------------------- MODULE Reconciler -----------------------------
(***************************************************************************)
(* The operator's reconcile loop for one Nacos resource                    *)
(* (src/operator/controllers/nacos_controller.go and the clients it calls).*)
(* Managers are operator processes: one in a quiet installation, two       *)
(* without leader election or while a former leader has not noticed yet.   *)
(* One action is one call to the API server or one check; between two of   *)
(* them the user, the pods, the other manager and the garbage collector    *)
(* move.                                                                   *)
(*                                                                         *)
(* Resource versions are abstracted to what the code tells apart: behind   *)
(* holds the managers whose informer has not seen the newest resource,     *)
(* stale those whose running reconcile works on an outdated copy of it,    *)
(* raced those whose StatefulSet read is no longer the stored one.         *)
(***************************************************************************)
EXTENDS EventLog, FiniteSets

CONSTANTS
    Managers,   \* operator processes
    Specs,      \* the specs a user may write
    NIL,        \* a nil pointer, an empty field, an absent object
    Edits,      \* the edits <<from, to>> a user may make
    Disturbances,  \* what may go wrong: edits, faults of the API, deletion, Nacos failing, hanging
    MaxUpsets   \* bound on edits, faults and deletions together

\* The objects MakeEnsure makes.
Kinds == {"cm", "sts", "svc", "hsvc", "csvc", "sqlcm", "job"}

\* A spec holds what the reconcile loop tells apart.  env and res are the
\* user's environment and resources, image stands for every pod template
\* field checkSts does not compare, mysql says that the database is mysql
\* and mysqlInitImage is set.
ASSUME SpecsAssumption ==
    /\ Specs # {}
    /\ NIL \notin Int /\ NIL \notin Kinds /\ NIL # TRUE
    /\ \A s \in Specs : s.replicas \in Nat \cup {NIL}
    /\ Edits \subseteq Specs \X Specs
    /\ Disturbances \subseteq {"edit", "fault", "delete", "nacos", "hang"}
    /\ MaxUpsets \in Nat

VARIABLES
    cr,           \* the Nacos resource in the API server
    overdue,      \* it is more than three minutes old
    store,        \* the objects the operator ensures, NIL when absent
    terminating,  \* the StatefulSet is being deleted in the foreground
    ready,        \* number of ready pods
    nacos,        \* what the GETs of a check meet: members that are well, fail or hang
    cache,        \* each manager's informer copy of the resource
    behind,       \* managers whose informer copy is outdated
    dirty,        \* managers whose work queue holds the resource
    timer,        \* managers with a pending RequeueAfter
    w,            \* each manager's reconcile in progress
    stale,        \* managers whose reconcile works on an outdated resource
    raced,        \* managers whose read of the StatefulSet is outdated
    upsets        \* edits, faults and deletions so far

user   == <<cr, overdue>>
world  == <<store, terminating, ready, nacos>>
queue  == <<dirty, timer>>
copies == <<cache, behind>>
work   == <<w, stale, raced>>
vars   == <<user, world, queue, copies, work, upsets>>

Phases == {"", "Creating", "Running", "Failed"}
Status == [phase : Phases, events : Seq(Event), conds : Nat]
Resource == [live : BOOLEAN, spec : Specs, status : Status]

PCs == {"idle", "ensure", "apply", "checkKind", "list", "checkNacos", "running", "handle"}
Reads == {"absent", "update", "delete"}

\* What the first pod that is not well does to its GET: "well" stands for
\* none, when all answer, all members are UP and agree on the leader.
Answers == {"well", "fails", "hangs"}

Worker == [pc : PCs, inst : Resource \cup {NIL}, kind : Kinds \cup {NIL},
           got : Reads \cup {NIL}, err : Codes \cup {NIL}, pods : Nat]
Idle == [pc |-> "idle", inst |-> NIL, kind |-> NIL, got |-> NIL, err |-> NIL, pods |-> 0]

-----------------------------------------------------------------------------
(***************************************************************************)
(* What the code computes from a spec.                                     *)
(***************************************************************************)

\* setDefaultNacosType: standalone unless said otherwise.
Mode(s) == IF s.type = "" THEN "standalone" ELSE s.type

\* The order of MakeEnsure.
First(s) == IF s.config # NIL THEN "cm" ELSE "sts"
\* Seeded fault: the job is made before the ConfigMap it mounts.
AfterJobFirst(k, s) ==
    CASE k = "cm" -> "sts"
      [] k = "sts" -> IF Mode(s) = "cluster" THEN "hsvc" ELSE "svc"
      [] k = "hsvc" -> "csvc"
      [] k \in {"svc", "csvc"} -> IF s.mysql THEN "job" ELSE NIL
      [] k = "job" -> "sqlcm"
      [] k = "sqlcm" -> NIL
After(k, s) ==
    CASE k = "cm" -> "sts"
      [] k = "sts" -> IF Mode(s) = "cluster" THEN "hsvc" ELSE "svc"
      [] k = "hsvc" -> "csvc"
      [] k \in {"svc", "csvc"} -> IF s.mysql THEN "sqlcm" ELSE NIL
      [] k = "sqlcm" -> "job"
      [] k = "job" -> NIL
EnsureSet(s) ==
    {"sts"} \cup (IF s.config # NIL THEN {"cm"} ELSE {})
            \cup (IF Mode(s) = "cluster" THEN {"hsvc", "csvc"} ELSE {"svc"})
            \cup (IF s.mysql THEN {"sqlcm", "job"} ELSE {})

\* The object built for kind k.  A StatefulSet without replicas is stored
\* with the API server's default of one.
\* Seeded fault: the default is missing.
RenderStsUndefaulted(s) ==
    [mode |-> Mode(s), replicas |-> s.replicas,
     volume |-> s.volume, res |-> s.res, env |-> s.env, mysql |-> s.mysql, image |-> s.image]
RenderSts(s) ==
    [mode |-> Mode(s), replicas |-> IF s.replicas = NIL THEN 1 ELSE s.replicas,
     volume |-> s.volume, res |-> s.res, env |-> s.env, mysql |-> s.mysql, image |-> s.image]
Render(k, s) ==
    CASE k = "sts" -> RenderSts(s)
      [] k = "cm"  -> s.config
      [] OTHER     -> TRUE

\* buildStatefulset and buildStatefulsetCluster dereference the replicas and
\* slice an empty server list.
BuildPanics(k, s) == k = "sts" /\ Mode(s) = "cluster" /\ s.replicas \in {NIL, 0}

\* The built environment: the user's, the mode's and the database's variables.
SameEnv(old, s) == old.mode = Mode(s) /\ old.env = s.env /\ old.mysql = s.mysql

\* Equal sizes: the storage classes are dereferenced to be compared.
ClassPanics(old, new) ==
    /\ old # NIL /\ new # NIL
    /\ old.size = new.size
    /\ NIL \in {old.class, new.class}

\* checkSts on the stored StatefulSet and the one built from s.
\* Seeded faults: the volume claims are not compared; a change of scale deletes.
CheckStsNoVolume(old, s) ==
    IF s.replicas = NIL THEN "panic"
    ELSE IF old.res # s.res \/ old.replicas # s.replicas \/ ~SameEnv(old, s) THEN "update"
    ELSE "none"
CheckStsDeletes(old, s) ==
    IF s.replicas = NIL THEN "panic"
    ELSE IF old.volume # s.volume \/ old.replicas # s.replicas THEN "delete"
    ELSE IF old.res # s.res \/ ~SameEnv(old, s) THEN "update"
    ELSE "none"
CheckSts(old, s) ==
    IF ClassPanics(old.volume, s.volume) THEN "panic"
    ELSE IF old.volume # s.volume THEN "delete"
    ELSE IF old.res # s.res THEN "update"
    ELSE IF s.replicas = NIL THEN "panic"
    ELSE IF old.replicas # s.replicas \/ ~SameEnv(old, s) THEN "update"
    ELSE "none"

Quorum(s) == (s.replicas + 1) \div 2

\* The stored StatefulSet has the mode, scale, storage, resources and
\* environment of the spec, whatever checkSts makes of the two.
StsMatches(s) ==
    /\ store["sts"] # NIL
    /\ [store["sts"] EXCEPT !.image = s.image] = RenderSts(s)

-----------------------------------------------------------------------------
(***************************************************************************)
(* Effects shared by the actions.                                          *)
(***************************************************************************)

\* A new version of the resource: every copy of it is outdated.
Publish(new) ==
    /\ cr' = new
    /\ behind' = Managers
    /\ stale' = {m \in Managers : w[m].pc # "idle"}

\* A new version of the StatefulSet: whoever has read it holds an outdated
\* resource version, and Owns queues the resource in every manager.
\* Seeded fault: the StatefulSet is not watched.
StsChangesUnwatched ==
    /\ raced' = {m \in Managers : w[m].got = "update"}
    /\ UNCHANGED dirty
StsChanges ==
    /\ dirty' = Managers
    /\ raced' = {m \in Managers : w[m].got = "update"}
ObjectChanges(k) == IF k = "sts" THEN StsChanges ELSE UNCHANGED <<dirty, raced>>

Put(k, x) == store' = [store EXCEPT ![k] = x]
Goto(m, step) == w' = [w EXCEPT ![m] = step]

\* A panic ends in ReconcileWork returning false: retry in five seconds.
\* EnsureNormal panics with the error itself and a nil dereference with a
\* runtime error; globalExceptHandle only logs these, so they end here.
\* Seeded fault: a failed reconcile is not retried.
RequeueNever(m) ==
    /\ Goto(m, Idle)
    /\ UNCHANGED timer
Requeue(m) ==
    /\ Goto(m, Idle)
    /\ timer' = timer \cup {m}

\* A panic with a code of the operator's own goes to the handler.
Panic(m, code) == Goto(m, [w[m] EXCEPT !.pc = "handle", !.err = code])

Upset(what) ==
    /\ what \in Disturbances
    /\ upsets < MaxUpsets
    /\ upsets' = upsets + 1

\* An API error, a lost reply or a crash.
Fault == Upset("fault")

\* Past the ensure of the current kind.
NextStep(m) ==
    LET next == After(w[m].kind, w[m].inst.spec)
    IN  [w[m] EXCEPT !.pc = IF next = NIL THEN "checkKind" ELSE "ensure",
                     !.kind = next, !.got = NIL]

\* The call took effect; its reply arrives, or the caller sees an error.
Reply(m, step) ==
    \/ Goto(m, step) /\ UNCHANGED <<timer, upsets>>
    \/ Fault /\ Requeue(m)

\* The status is written with the version of the copy it was computed from;
\* the API server accepts only the newest.
\* Seeded fault: no optimistic locking.
LandsAnyway(m) == cr.live
Lands(m) == cr.live /\ m \notin stale

\* A status that differs from the stored one, in a time at least, is a new
\* version; one written again within the same second is not.
StoreStatus(new) ==
    \/ Publish([cr EXCEPT !.status = new])
    \/ cr.status = new /\ UNCHANGED <<cr, behind, stale>>

-----------------------------------------------------------------------------
(***************************************************************************)
(* The work queue and the informer of manager m (SetupWithManager).        *)
(***************************************************************************)

\* The watch delivers the newest version and queues the resource.
Deliver(m) ==
    /\ m \in behind
    /\ cache' = [cache EXCEPT ![m] = cr]
    /\ behind' = behind \ {m}
    /\ dirty' = dirty \cup {m}
    /\ UNCHANGED <<user, world, timer, work, upsets>>

\* The five seconds of RequeueAfter are over.
TimerFires(m) ==
    /\ m \in timer
    /\ timer' = timer \ {m}
    /\ dirty' = dirty \cup {m}
    /\ UNCHANGED <<user, world, copies, work, upsets>>

\* The informer's periodic resync, or an event of no consequence.
Resync(m) ==
    /\ m \notin dirty
    /\ dirty' = dirty \cup {m}
    /\ UNCHANGED <<user, world, timer, copies, work, upsets>>

-----------------------------------------------------------------------------
(***************************************************************************)
(* One reconcile by manager m.                                             *)
(***************************************************************************)

\* Seeded fault: a new resource is marked and worked on at once, without
\* storing its phase.
BeginUnstored(seen) ==
    [Idle EXCEPT !.pc = "ensure", !.kind = First(seen.spec),
                 !.inst = [seen EXCEPT !.status.phase = IF @ = "" THEN "Creating" ELSE @]]

\* PreCheck and the type switch of MakeEnsure, before any call is made.
Begin(seen) ==
    LET read == [Idle EXCEPT !.inst = seen]
    IN  IF seen.status.phase = ""
          THEN [read EXCEPT !.pc = "handle", !.err = CODE_NORMAL]
        ELSE IF Mode(seen.spec) \notin {"standalone", "cluster"}
          THEN [read EXCEPT !.pc = "handle", !.err = CODE_PARAMETER_ERROR]
        ELSE [read EXCEPT !.pc = "ensure", !.kind = First(seen.spec)]

\* Seeded fault: a deleted resource is reconciled like any other.
ReconcileDeleted(m) ==
    /\ m \in dirty
    /\ w[m].pc = "idle"
    /\ dirty' = dirty \ {m}
    /\ Goto(m, Begin(cache[m]))
    /\ stale' = IF m \in behind THEN stale \cup {m} ELSE stale \ {m}
    /\ UNCHANGED <<user, world, timer, copies, raced, upsets>>

\* The resource is read from the informer; a deleted one needs no work.
Reconcile(m) ==
    /\ m \in dirty
    /\ w[m].pc = "idle"
    /\ dirty' = dirty \ {m}
    /\ IF cache[m].live
         THEN /\ Goto(m, Begin(cache[m]))
              /\ stale' = IF m \in behind THEN stale \cup {m} ELSE stale \ {m}
         ELSE UNCHANGED <<w, stale>>
    /\ UNCHANGED <<user, world, timer, copies, raced, upsets>>

\* Building the object dereferences nil or slices an empty string.
BuildPanic(m) ==
    /\ w[m].pc = "ensure"
    /\ BuildPanics(w[m].kind, w[m].inst.spec)
    /\ Requeue(m)
    /\ UNCHANGED <<user, world, dirty, copies, stale, raced, upsets>>

\* Seeded fault: the ConfigMap is left alone once it exists.
UpdateConfigMapOnce(m) ==
    LET k == w[m].kind
    IN  /\ w[m].pc = "ensure" /\ k \in {"cm", "sqlcm"}
        /\ IF store[k] = NIL
             THEN Goto(m, [w[m] EXCEPT !.pc = "apply", !.got = "absent"])
             ELSE Goto(m, NextStep(m))
        /\ UNCHANGED <<user, world, queue, copies, stale, raced, upsets>>

\* CreateIfNotExistsConfigMap: an update without a resource version first.
UpdateConfigMap(m) ==
    LET k == w[m].kind
    IN  /\ w[m].pc = "ensure" /\ k \in {"cm", "sqlcm"}
        /\ IF store[k] = NIL
             THEN /\ Goto(m, [w[m] EXCEPT !.pc = "apply", !.got = "absent"])
                  /\ UNCHANGED <<store, timer, upsets>>
             ELSE /\ Put(k, Render(k, w[m].inst.spec))
                  /\ Reply(m, NextStep(m))
        /\ UNCHANGED <<user, terminating, ready, nacos, dirty, copies, stale, raced>>

\* What the first read of the other ensures leads to.
Decision(k, s) ==
    IF store[k] = NIL THEN "absent"
    ELSE CASE k = "sts" -> CheckSts(store[k], s)
           [] k = "hsvc" -> "update"
           [] OTHER -> "none"

GetObject(m) ==
    LET k == w[m].kind
        found == Decision(k, w[m].inst.spec)
    IN  /\ w[m].pc = "ensure" /\ k \notin {"cm", "sqlcm"}
        /\ ~BuildPanics(k, w[m].inst.spec)
        /\ raced' = raced \ {m}
        /\ CASE found = "panic" -> Requeue(m)
             [] found = "none"  -> Goto(m, NextStep(m)) /\ UNCHANGED timer
             [] OTHER -> /\ Goto(m, [w[m] EXCEPT !.pc = "apply", !.got = found])
                         /\ UNCHANGED timer
        /\ UNCHANGED <<user, world, dirty, copies, stale, upsets>>

\* Create: somebody else may have created the object since.
CreateObject(m) ==
    LET k == w[m].kind
    IN  /\ w[m].pc = "apply" /\ w[m].got = "absent"
        /\ IF store[k] = NIL
             THEN /\ Put(k, Render(k, w[m].inst.spec))
                  /\ ObjectChanges(k)
                  /\ Reply(m, NextStep(m))
             ELSE Requeue(m) /\ UNCHANGED <<store, dirty, raced, upsets>>
        /\ UNCHANGED <<user, terminating, ready, nacos, copies, stale>>

\* Update with the resource version that was read.  The API server refuses
\* another version, and a StatefulSet of another mode: its service name is
\* immutable.  The spec of the headless service never changes.
UpdateObject(m) ==
    LET k == w[m].kind
        s == w[m].inst.spec
        accepted == /\ store[k] # NIL
                    /\ k = "sts" => m \notin raced /\ store[k].mode = Mode(s)
    IN  /\ w[m].pc = "apply" /\ w[m].got = "update"
        /\ IF accepted
             THEN /\ Put(k, Render(k, s))
                  /\ ObjectChanges(k)
                  /\ Reply(m, NextStep(m))
             ELSE Requeue(m) /\ UNCHANGED <<store, dirty, raced, upsets>>
        /\ UNCHANGED <<user, terminating, ready, nacos, copies, stale>>

\* A foreground deletion by name; the ensures that follow go on at once.
DeleteStatefulSet(m) ==
    /\ w[m].pc = "apply" /\ w[m].got = "delete"
    /\ IF store["sts"] = NIL
         THEN Requeue(m) /\ UNCHANGED <<terminating, dirty, raced, upsets>>
         ELSE /\ terminating' = TRUE
              /\ IF terminating THEN UNCHANGED <<dirty, raced>> ELSE StsChanges
              /\ Reply(m, NextStep(m))
    /\ UNCHANGED <<user, store, ready, nacos, copies, stale>>

CheckKind(m) ==
    LET s == w[m].inst.spec
    IN  /\ w[m].pc = "checkKind"
        /\ IF store["sts"] = NIL \/ s.replicas = NIL
             THEN Requeue(m)
             ELSE /\ IF store["sts"].replicas # s.replicas
                       THEN Panic(m, CODE_ERR_UNKNOW)
                       ELSE Goto(m, [w[m] EXCEPT !.pc = "list"])
                  /\ UNCHANGED timer
        /\ UNCHANGED <<user, world, dirty, copies, stale, raced, upsets>>

\* Seeded fault: the number of ready pods is not compared.
GetStatefulSetAnyPod(m) ==
    /\ w[m].pc = "list"
    /\ Goto(m, [w[m] EXCEPT !.pc = "checkNacos", !.pods = ready])
    /\ UNCHANGED <<user, world, queue, copies, stale, raced, upsets>>

\* The second half of CheckKind.  An error of the list is not looked at: no
\* pod is ready then.
GetStatefulSetReadPod(m) ==
    /\ w[m].pc = "list"
    /\ \E pods \in {0, ready} :
         /\ \/ pods = (IF store["sts"] = NIL THEN 0 ELSE ready) /\ UNCHANGED upsets
            \/ pods = 0 /\ Fault
         /\ IF pods < Quorum(w[m].inst.spec)
              THEN Panic(m, CODE_ERR_UNKNOW)
              ELSE Goto(m, [w[m] EXCEPT !.pc = "checkNacos", !.pods = pods])
    /\ UNCHANGED <<user, world, queue, copies, stale, raced>>

\* A condition is recorded for each pod up to the first that fails.  The
\* client has no timeout: while a pod hangs, the check does not go on.
CheckNacos(m) ==
    /\ w[m].pc = "checkNacos"
    /\ \/ /\ nacos = "well" \/ w[m].pods = 0
          /\ Goto(m, [w[m] EXCEPT !.pc = "running", !.inst.status.conds = w[m].pods])
       \/ /\ nacos = "fails"
          /\ \E passed \in 0..(w[m].pods - 1) :
               Goto(m, [w[m] EXCEPT !.pc = "handle", !.err = CODE_CLUSTER_FAILE,
                                    !.inst.status.conds = passed])
    /\ UNCHANGED <<user, world, queue, copies, stale, raced, upsets>>

\* The verdict of a reconcile that passed every check.  Success is not
\* requeued; a refused or lost write is retried.
RunningStatus(status) ==
    [status EXCEPT !.phase = "Running",
                   !.events = UpdateLastEvent(@, CODE_NORMAL, TRUE)]
UpdateStatusRunning(m) ==
    /\ w[m].pc = "running"
    /\ IF Lands(m)
         THEN StoreStatus(RunningStatus(w[m].inst.status)) /\ Reply(m, Idle)
         ELSE Requeue(m) /\ UNCHANGED <<cr, behind, stale, upsets>>
    /\ UNCHANGED <<overdue, world, dirty, cache, raced>>

\* globalExceptHandle on a code: a new resource is accepted, a failure is
\* recorded unless the resource is still being created.  Errors of the write
\* are ignored, and the reconcile is retried in any case.
\* Seeded fault: the failure is not logged.
FailedStatusSilent(status, code) == [status EXCEPT !.phase = "Failed"]
FailedStatus(status, code) ==
    [status EXCEPT !.phase = "Failed", !.events = UpdateLastEvent(@, code, FALSE)]
HandledStatus(status, code) ==
    IF code = CODE_NORMAL THEN [status EXCEPT !.phase = "Creating"]
    ELSE FailedStatus(status, code)
\* Seeded faults: the three minutes are not waited for; they never end.
ReportedAtOnce(m) == TRUE
ReportedLater(m) ==
    w[m].err = CODE_NORMAL \/ w[m].inst.status.phase # "Creating"
Reported(m) ==
    w[m].err = CODE_NORMAL \/ w[m].inst.status.phase # "Creating" \/ overdue
GlobalExceptHandle(m) ==
    /\ w[m].pc = "handle"
    /\ Requeue(m)
    /\ IF Reported(m) /\ Lands(m)
         THEN StoreStatus(HandledStatus(w[m].inst.status, w[m].err))
         ELSE UNCHANGED <<cr, behind, stale>>
    /\ UNCHANGED <<overdue, world, dirty, cache, raced, upsets>>

\* A call fails without effect.
ApiError(m) ==
    /\ w[m].pc \in {"ensure", "apply", "checkKind", "running", "handle"}
    /\ Fault
    /\ Requeue(m)
    /\ UNCHANGED <<user, world, dirty, copies, stale, raced>>

\* The process dies and starts again: its queue and its cache are built from
\* a fresh list.
Restart(m) ==
    /\ Fault
    /\ Goto(m, Idle)
    /\ cache' = [cache EXCEPT ![m] = cr]
    /\ behind' = behind \ {m}
    /\ dirty' = IF cr.live THEN dirty \cup {m} ELSE dirty \ {m}
    /\ timer' = timer \ {m}
    /\ UNCHANGED <<user, world, stale, raced>>

Work(m) ==
    \/ Reconcile(m)
    \/ BuildPanic(m) \/ UpdateConfigMap(m) \/ GetObject(m)
    \/ CreateObject(m) \/ UpdateObject(m) \/ DeleteStatefulSet(m)
    \/ CheckKind(m) \/ GetStatefulSetReadPod(m) \/ CheckNacos(m)
    \/ UpdateStatusRunning(m) \/ GlobalExceptHandle(m)

Manager(m) ==
    \/ Work(m)
    \/ Deliver(m) \/ TimerFires(m) \/ Resync(m)
    \/ ApiError(m) \/ Restart(m)

-----------------------------------------------------------------------------
(***************************************************************************)
(* The user and the cluster around the operator.                           *)
(***************************************************************************)
EditSpec ==
    /\ cr.live /\ Upset("edit")
    /\ \E edit \in Edits : /\ edit[1] = cr.spec
                           /\ Publish([cr EXCEPT !.spec = edit[2]])
    /\ UNCHANGED <<overdue, world, queue, cache, w, raced>>

DeleteResource ==
    /\ cr.live /\ Upset("delete")
    /\ Publish([cr EXCEPT !.live = FALSE])
    /\ UNCHANGED <<overdue, world, queue, cache, w, raced>>

ThreeMinutesPass ==
    /\ ~overdue
    /\ overdue' = TRUE
    /\ UNCHANGED <<cr, world, queue, copies, work, upsets>>

\* The StatefulSet controller and the kubelet.  A change of the number of
\* ready pods is a change of the StatefulSet's status.
PodsChange(n) ==
    /\ ready' = n
    /\ StsChanges
    /\ UNCHANGED <<user, nacos, timer, copies, w, stale, upsets>>
Surplus == terminating \/ store["sts"] = NIL \/ ready > store["sts"].replicas
PodReady ==
    /\ store["sts"] # NIL /\ ~terminating /\ ready < store["sts"].replicas
    /\ PodsChange(ready + 1)
    /\ UNCHANGED <<store, terminating>>
PodUnready ==
    /\ ready > 0 /\ ~Surplus
    /\ PodsChange(ready - 1)
    /\ UNCHANGED <<store, terminating>>
PodRemoved ==
    /\ ready > 0 /\ Surplus
    /\ PodsChange(ready - 1)
    /\ UNCHANGED <<store, terminating>>
\* A foreground deletion ends when the pods are gone.
StatefulSetGone ==
    /\ terminating /\ ready = 0
    /\ Put("sts", NIL)
    /\ terminating' = FALSE
    /\ PodsChange(0)

\* Members fail, or hang, and recover.
NacosChanges ==
    /\ \/ "nacos" \in Disturbances /\ nacos' \in {"well", "fails"}
       \/ "hang" \in Disturbances /\ nacos' = "hangs"
    /\ UNCHANGED <<user, store, terminating, ready, queue, copies, work, upsets>>

\* Every object has a controller reference to the resource, so that it is
\* collected once the resource is gone; a StatefulSet takes its pods along.
GarbageCollect(k) ==
    /\ ~cr.live /\ store[k] # NIL
    /\ Put(k, NIL)
    /\ IF k = "sts"
         THEN terminating' = FALSE /\ ready' = 0
         ELSE UNCHANGED <<terminating, ready>>
    /\ ObjectChanges(k)
    /\ UNCHANGED <<user, nacos, timer, copies, w, stale, upsets>>

Environment ==
    \/ EditSpec \/ DeleteResource \/ ThreeMinutesPass
    \/ PodReady \/ PodUnready \/ PodRemoved \/ StatefulSetGone
    \/ NacosChanges
    \/ \E k \in Kinds : GarbageCollect(k)

-----------------------------------------------------------------------------
Init ==
    /\ \E s \in Specs :
         cr = [live |-> TRUE, spec |-> s,
               status |-> [phase |-> "", events |-> << >>, conds |-> 0]]
    /\ overdue = FALSE
    /\ store = [k \in Kinds |-> NIL]
    /\ terminating = FALSE
    /\ ready = 0
    /\ nacos = "well"
    /\ cache = [m \in Managers |-> cr]
    /\ behind = {}
    /\ dirty = Managers
    /\ timer = {}
    /\ w = [m \in Managers |-> Idle]
    /\ stale = {}
    /\ raced = {}
    /\ upsets = 0

Next == Environment \/ \E m \in Managers : Manager(m)

Spec == Init /\ [][Next]_vars

\* Goroutines, watches and timers make progress, the clock runs, and the
\* cluster finishes what it has begun to delete.  The API server answers or
\* fails; a GET of CheckNacos may hang, and Work is not enabled then, so that
\* nothing is assumed of it.  Pods need not become ready.
Fairness ==
    /\ \A m \in Managers :
         /\ WF_vars(Work(m))
         /\ WF_vars(Deliver(m))
         /\ WF_vars(TimerFires(m))
    /\ WF_vars(ThreeMinutesPass)
    /\ WF_vars(PodRemoved)
    /\ WF_vars(StatefulSetGone)
    /\ \A k \in Kinds : WF_vars(GarbageCollect(k))

FairSpec == Spec /\ Fairness
-----------------------------------------------------------------------------
(***************************************************************************)
(* What must hold.                                                         *)
(***************************************************************************)

\* The one type invariant of the module.
ResourceOK ==
    /\ cr \in Resource
    /\ overdue \in BOOLEAN
    /\ upsets \in 0..MaxUpsets
WorldOK ==
    /\ DOMAIN store = Kinds
    /\ \A k \in Kinds : store[k] \in {NIL} \cup {Render(k, s) : s \in Specs}
    /\ store["sts"] # NIL => store["sts"].replicas \in Nat
    /\ terminating \in BOOLEAN
    /\ ready \in Nat
    /\ nacos \in Answers
CopiesOK ==
    /\ cache \in [Managers -> Resource]
    /\ behind \subseteq Managers /\ dirty \subseteq Managers /\ timer \subseteq Managers
    /\ stale \subseteq Managers /\ raced \subseteq Managers
WorkOK ==
    /\ w \in [Managers -> Worker]
    /\ \A m \in Managers : w[m].pc \in {"ensure", "apply"} => w[m].kind \in Kinds
TypeOK == ResourceOK /\ WorldOK /\ CopiesOK /\ WorkOK

\* The status as its readers see it.
Promise == INSTANCE NacosStatus WITH phase <- cr.status.phase, events <- cr.status.events

\* The operator implements that promise: whatever two managers, lost replies
\* and stale copies do, the stored phase and events only change the way the
\* abstract status does, and no recorded event is overwritten.
StatusRefines == Promise!Spec

\* The phase of the stored status always agrees with its newest event
\* (UpdateStatusRunning and UpdateExceptionStatus change both in one write),
\* and the log is bounded, alternating and honest.
StatusCoherent == Promise!StatusCoherent

\* The API server's optimistic locking does its work: a copy the server would
\* still accept is the stored resource but for the conditions CheckNacos has
\* set, so that a verdict is always added to the newest log.
SameResource(copy) ==
    /\ copy.live = cr.live /\ copy.spec = cr.spec
    /\ copy.status.phase = cr.status.phase /\ copy.status.events = cr.status.events
CopiesCurrent ==
    \A m \in Managers :
        /\ m \notin behind => cache[m] = cr
        /\ w[m].pc # "idle" /\ m \notin stale => SameResource(w[m].inst)

\* Nothing is made for a resource before a reader of its status can see that
\* it was accepted: the phase PreCheck panics for has been stored, by this
\* manager or another, when the first object is created.
NothingBeforeAccepted ==
    cr.status.phase = "" => \A k \in Kinds : store[k] = NIL

\* An uncollected job of mysql-init always finds the ConfigMap with its
\* script: MakeEnsure goes on to the job only when the ConfigMap is there.
JobHasScript == cr.live /\ store["job"] # NIL => store["sqlcm"] # NIL

\* Phase Running is only ever recorded for the newest spec, with a healthy
\* member for each pod of the quorum CheckKind asks for and every other
\* object of MakeEnsure in place.
RecordsRunning == cr'.status # cr.status /\ cr'.status.phase = "Running"
RunningVerified ==
    [][RecordsRunning =>
         /\ cr.live
         /\ cr'.status.conds >= Quorum(cr.spec)
         /\ \A k \in EnsureSet(cr.spec) \ {"sts"} : store[k] # NIL]_vars

\* With one manager the StatefulSet is the one checkSts asks for, too,
\* unless it is on its way out.
RunningMatches ==
    [][RecordsRunning =>
         terminating \/ store["sts"] = NIL \/ StsMatches(cr.spec)]_vars

\* With one manager a StatefulSet is deleted only when its volume claims
\* differ from those of the spec the manager works on: the deletion is by
\* name, so that this depends on nobody having replaced it since the read.
DeletesOnlyOnVolumeChange ==
    [][~terminating /\ terminating' =>
         \E m \in Managers : /\ w[m].got = "delete"
                             /\ store["sts"].volume # w[m].inst.spec.volume]_vars

\* The liveness of the operator depends on members answering a GET, well or
\* not: one that hangs for ever holds the only worker (cluster.go:51-54).
MembersAnswer == <>[](nacos # "hangs")

\* Once the user stops editing, the API server stops failing and no GET
\* hangs any more, the StatefulSet and the ConfigMap are what the spec asks
\* for, for good: what a hanging check has held up is made up for.
Converges ==
    MembersAnswer =>
        <>[](cr.live => /\ StsMatches(cr.spec) /\ ~terminating
                        /\ cr.spec.config # NIL => store["cm"] = cr.spec.config)

\* A lasting lack of ready pods is reported, unless a GET of an earlier check
\* hangs for ever.
OutageReported ==
    MembersAnswer /\ <>[](cr.live /\ ready < Quorum(cr.spec))
        => <>[](cr.status.phase = "Failed")

\* A lasting recovery is reported.
RecoveryReported ==
    <>[](cr.live /\ nacos = "well" /\ ready >= Quorum(cr.spec)) => <>[](cr.status.phase = "Running")

\* Three minutes after its creation no resource stays Creating, unless a GET
\* of its first check hangs for ever.
TimeoutReported ==
    MembersAnswer =>
        ((overdue /\ cr.status.phase = "Creating")
            ~> (~cr.live \/ cr.status.phase # "Creating"))

\* Nothing the operator made outlives the resource, even if a reconcile was
\* under way when it was deleted.
ChildrenCollected == <>[](~cr.live => \A k \in Kinds : store[k] = NIL)

\* Any success recorded is marked as one (Status.go:33 passes status true).
SuccessEventsAreMarked ==
    \A i \in 1..Len(cr.status.events) :
        cr.status.events[i].code = CODE_NORMAL => cr.status.events[i].status

\* CreateOrUpdateStatefulSet "will update the statefulset": a changed image
\* reaches it in the end.
ImageConverges == <>[](cr.live => store["sts"] # NIL /\ store["sts"].image = cr.spec.image)

\* Phase Running says that the instance is normal: it is not recorded for a
\* StatefulSet that is being deleted.
RunningIsNormal == [][RecordsRunning => ~terminating]_vars
=============================================================================
