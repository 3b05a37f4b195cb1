------------------------ MODULE SingleManagerProofs ------------------------
(***************************************************************************)
(* What holds of the StatefulSet when a single manager works on it, as the *)
(* operator is deployed: Running is recorded only for the StatefulSet that *)
(* checkSts asks for, and a StatefulSet is deleted only for its volume     *)
(* claims.                                                                 *)
(*                                                                         *)
(* The inductive invariant is Holds: a reconcile past its StatefulSet has  *)
(* left it as its spec asks for, and one about to delete it has found its  *)
(* claims different.  Both survive because all others only take the        *)
(* StatefulSet away.  With a second manager they are false.                *)
(***************************************************************************)
EXTENDS EnsureProofs

Meets(objects, ending, s) ==
    \/ ending \/ objects["sts"] = NIL
    \/ [objects["sts"] EXCEPT !.image = s.image] = RenderSts(s)
Differs(objects, ending, s) ==
    ending \/ objects["sts"] = NIL \/ objects["sts"].volume # s.volume

\* A step behind the ensure of the StatefulSet.
Past(step) ==
    \/ step.pc \in {"checkKind", "list", "checkNacos", "running"}
    \/ step.pc \in {"ensure", "apply"} /\ step.kind \notin {"cm", "sts"}

HoldsAt(step, objects, ending) ==
    /\ Past(step) => Meets(objects, ending, step.inst.spec)
    /\ step.pc = "apply" /\ step.got = "delete" => Differs(objects, ending, step.inst.spec)
Holds == \A m \in Managers : HoldsAt(w[m], store, terminating)

\* The StatefulSet is left alone, or taken away.
LeavesSts ==
    /\ store'["sts"] \in {store["sts"], NIL}
    /\ terminating => terminating' \/ store'["sts"] = NIL

-----------------------------------------------------------------------------
(***************************************************************************)
(* checkSts.                                                               *)
(***************************************************************************)

\* It finds no difference only in what the spec asks for.
LEMMA NoneMeets ==
    ASSUME WorldOK, store["sts"] # NIL, NEW s \in Specs, CheckSts(store["sts"], s) = "none"
    PROVE  [store["sts"] EXCEPT !.image = s.image] = RenderSts(s)
<1> DEFINE old == store["sts"]
<1>1. PICK t \in Specs : old = RenderSts(t)
  BY DEF WorldOK, Render, Kinds
<1>2. /\ old.volume = s.volume /\ old.res = s.res
      /\ s.replicas # NIL /\ old.replicas = s.replicas /\ SameEnv(old, s)
  BY DEF CheckSts
<1>3. /\ old.mode = Mode(s) /\ old.env = s.env /\ old.mysql = s.mysql
  BY <1>2 DEF SameEnv
<1> QED BY <1>1, <1>2, <1>3 DEF RenderSts

\* It deletes only for the volume claims.
LEMMA DeleteDiffers ==
    ASSUME NEW old, NEW s, CheckSts(old, s) = "delete"
    PROVE  old.volume # s.volume
BY DEF CheckSts

\* What was built from the spec is what it asks for.
LEMMA RenderMeets ==
    ASSUME NEW s, NEW objects, NEW ending, objects["sts"] = RenderSts(s)
    PROVE  Meets(objects, ending, s)
BY DEF Meets, RenderSts

LEMMA LeavesHolds ==
    ASSUME LeavesSts, NEW s
    PROVE  /\ Meets(store, terminating, s) => Meets(store', terminating', s)
           /\ Differs(store, terminating, s) => Differs(store', terminating', s)
BY DEF LeavesSts, Meets, Differs

-----------------------------------------------------------------------------
(***************************************************************************)
(* One reconcile of the manager o.                                         *)
(***************************************************************************)

\* A reconcile that ends, or begins, has nothing to keep.
LEMMA IdleHolds ==
    \A objects, ending : HoldsAt(Idle, objects, ending)
BY DEF HoldsAt, Past, Idle

LEMMA BeginHolds ==
    ASSUME NEW seen, NEW objects, NEW ending
    PROVE  HoldsAt(Begin(seen), objects, ending)
<1> DEFINE step == Begin(seen)
<1>1. \/ step.pc = "handle"
      \/ step.pc = "ensure" /\ step.kind = First(seen.spec)
  BY DEF Begin, Idle
<1> HIDE DEF step
<1> QED BY <1>1 DEF HoldsAt, Past, First, step

\* The StatefulSet comes right after the ConfigMap.
LEMMA AfterPast ==
    ASSUME NEW s, NEW k \in Kinds
    PROVE  k = "cm" => After(k, s) = "sts"
BY DEF After, Kinds

\* The reconcile goes on from the ensure of its kind.
LEMMA NextStepHolds ==
    ASSUME NEW m \in Managers, GoodStep(w[m]), w[m].pc \in {"ensure", "apply"},
           HoldsAt(w[m], store, terminating),
           w[m].kind = "sts" => Meets(store', terminating', w[m].inst.spec),
           w[m].kind # "sts" => LeavesSts
    PROVE  HoldsAt(NextStep(m), store', terminating')
<1> DEFINE s == w[m].inst.spec
           k == w[m].kind
           next == After(k, s)
           step == NextStep(m)
<1>1. /\ step.pc = IF next = NIL THEN "checkKind" ELSE "ensure"
      /\ step.kind = next /\ step.inst = w[m].inst
  BY DEF NextStep, GoodStep, Worker
<1>2. k \in Kinds
  BY DEF GoodStep
<1>3. k = "cm" => next = "sts"
  BY <1>2, AfterPast
<1>4. "sts" # NIL
  BY SpecsAssumption DEF Kinds
<1> HIDE DEF step, next
<1>5. step.pc # "apply"
  BY <1>1
<1>6. ASSUME k = "cm" PROVE HoldsAt(step, store', terminating')
  BY <1>1, <1>3, <1>4, <1>6 DEF HoldsAt, Past
<1>7. ASSUME k # "cm" PROVE HoldsAt(step, store', terminating')
  <2>1. CASE k = "sts"
    BY <1>1, <1>5, <2>1 DEF HoldsAt
  <2>2. CASE k # "sts"
    <3>1. Meets(store, terminating, s)
      BY <1>2, <1>7, <2>2 DEF HoldsAt, Past
    <3> QED BY <1>1, <1>5, <2>2, <3>1, LeavesHolds DEF HoldsAt
  <2> QED BY <2>1, <2>2
<1> QED BY <1>6, <1>7 DEF step

LEMMA ReplyHolds ==
    ASSUME NEW m \in Managers, WorkOK, GoodStep(w[m]), w[m].pc \in {"ensure", "apply"},
           HoldsAt(w[m], store, terminating),
           w[m].kind = "sts" => Meets(store', terminating', w[m].inst.spec),
           w[m].kind # "sts" => LeavesSts,
           Reply(m, NextStep(m))
    PROVE  HoldsAt(w'[m], store', terminating')
BY NextStepHolds, IdleHolds DEF Reply, Requeue, Goto, WorkOK

\* A reconcile that goes on with the same kind.
LEMMA ApplyHolds ==
    ASSUME NEW m \in Managers, WorkOK, GoodStep(w[m]), w[m].pc = "ensure", NEW got,
           HoldsAt(w[m], store, terminating), LeavesSts,
           got = "delete" => Differs(store, terminating, w[m].inst.spec),
           Goto(m, [w[m] EXCEPT !.pc = "apply", !.got = got])
    PROVE  HoldsAt(w'[m], store', terminating')
<1> DEFINE step == [w[m] EXCEPT !.pc = "apply", !.got = got]
<1>1. /\ step.pc = "apply" /\ step.kind = w[m].kind /\ step.inst = w[m].inst
      /\ step.got = got
  BY DEF GoodStep, Worker
<1>2. w'[m] = step
  BY DEF Goto, WorkOK
<1> HIDE DEF step
<1> QED BY <1>1, <1>2, LeavesHolds DEF HoldsAt, Past

\* A check goes on with its copy, or ends in the handler, or ends.
LEMMA ChecksHold ==
    ASSUME NEW m \in Managers, WorkOK, GoodStep(w[m]), HoldsAt(w[m], store, terminating),
           CheckKind(m) \/ GetStatefulSetReadPod(m) \/ CheckNacos(m)
    PROVE  HoldsAt(w'[m], store', terminating')
<1>0. /\ LeavesSts
      /\ w[m].pc \in {"checkKind", "list", "checkNacos"}
  <2>1. UNCHANGED <<store, terminating>>
    BY DEF CheckKind, GetStatefulSetReadPod, CheckNacos, world
  <2>2. LeavesSts
    BY <2>1 DEF LeavesSts
  <2> QED BY <2>2 DEF CheckKind, GetStatefulSetReadPod, CheckNacos
<1>1. ASSUME Goto(m, Idle) PROVE HoldsAt(w'[m], store', terminating')
  BY <1>1, IdleHolds DEF Goto, WorkOK
<1>2. ASSUME NEW step, Goto(m, step), step.inst.spec = w[m].inst.spec,
             step.pc \in {"handle", "list", "checkNacos", "running"}
      PROVE  HoldsAt(w'[m], store', terminating')
  <2>1. w'[m] = step
    BY <1>2 DEF Goto, WorkOK
  <2> QED BY <1>0, <1>2, <2>1, LeavesHolds DEF HoldsAt, Past
<1>3. ASSUME NEW code, Panic(m, code) PROVE HoldsAt(w'[m], store', terminating')
  <2> DEFINE step == [w[m] EXCEPT !.pc = "handle", !.err = code]
  <2>1. step.pc = "handle" /\ step.inst = w[m].inst
    BY DEF GoodStep, Worker
  <2>2. Goto(m, step)
    BY <1>3 DEF Panic
  <2> HIDE DEF step
  <2> QED BY <1>2, <2>1, <2>2
<1>4. CASE CheckKind(m)
  <2> DEFINE step == [w[m] EXCEPT !.pc = "list"]
  <2>1. step.pc = "list" /\ step.inst = w[m].inst
    BY DEF GoodStep, Worker
  <2>2. Goto(m, Idle) \/ Panic(m, CODE_ERR_UNKNOW) \/ Goto(m, step)
    BY <1>4 DEF CheckKind, Requeue
  <2> HIDE DEF step
  <2> QED BY <1>1, <1>2, <1>3, <2>1, <2>2
<1>5. CASE GetStatefulSetReadPod(m)
  <2>1. PICK pods : \/ Panic(m, CODE_ERR_UNKNOW)
                    \/ Goto(m, [w[m] EXCEPT !.pc = "checkNacos", !.pods = pods])
    BY <1>5 DEF GetStatefulSetReadPod
  <2> DEFINE step == [w[m] EXCEPT !.pc = "checkNacos", !.pods = pods]
  <2>2. step.pc = "checkNacos" /\ step.inst = w[m].inst
    BY DEF GoodStep, Worker
  <2> HIDE DEF step
  <2> QED BY <1>2, <1>3, <2>1, <2>2 DEF step
<1>6. CASE CheckNacos(m)
  <2>0. w[m].inst \in Resource
    BY <1>0 DEF GoodStep
  <2>1. CASE Goto(m, [w[m] EXCEPT !.pc = "running", !.inst.status.conds = w[m].pods])
    <3> DEFINE step == [w[m] EXCEPT !.pc = "running", !.inst.status.conds = w[m].pods]
    <3>1. step.pc = "running" /\ step.inst.spec = w[m].inst.spec
      BY <2>0 DEF GoodStep, Worker, Resource, Status
    <3> HIDE DEF step
    <3> QED BY <1>2, <2>1, <3>1 DEF step
  <2>2. ASSUME NEW passed,
               Goto(m, [w[m] EXCEPT !.pc = "handle", !.err = CODE_CLUSTER_FAILE,
                                    !.inst.status.conds = passed])
        PROVE  HoldsAt(w'[m], store', terminating')
    <3> DEFINE step == [w[m] EXCEPT !.pc = "handle", !.err = CODE_CLUSTER_FAILE,
                                    !.inst.status.conds = passed]
    <3>1. step.pc = "handle" /\ step.inst.spec = w[m].inst.spec
      BY <2>0 DEF GoodStep, Worker, Resource
    <3> HIDE DEF step
    <3> QED BY <1>2, <2>2, <3>1 DEF step
  <2> QED BY <1>6, <2>1, <2>2 DEF CheckNacos
<1> QED BY <1>4, <1>5, <1>6

\* Every action of a running reconcile.
LEMMA RunningHolds ==
    ASSUME NEW m \in Managers, WorkOK, WorldOK, Verified, GoodStep(w[m]),
           HoldsAt(w[m], store, terminating), Running(m)
    PROVE  HoldsAt(w'[m], store', terminating')
<1> DEFINE s == w[m].inst.spec
           k == w[m].kind
<1>0. ASSUME Goto(m, Idle) PROVE HoldsAt(w'[m], store', terminating')
  BY <1>0, IdleHolds DEF Goto, WorkOK
<1>1. CASE BuildPanic(m) \/ ApiError(m) \/ Restart(m) \/ GlobalExceptHandle(m)
  BY <1>0, <1>1 DEF BuildPanic, ApiError, Restart, GlobalExceptHandle, Requeue
<1>2. CASE UpdateStatusRunning(m)
  BY <1>0, <1>2 DEF UpdateStatusRunning, Reply, Requeue
<1>3. CASE CheckKind(m) \/ GetStatefulSetReadPod(m) \/ CheckNacos(m)
  BY <1>3, ChecksHold
<1>4. ASSUME Put(k, Render(k, s)), UNCHANGED terminating, w[m].pc \in {"ensure", "apply"}
      PROVE  (k = "sts" => Meets(store', terminating', s)) /\ (k # "sts" => LeavesSts)
  <2>1. k = "sts" => store'["sts"] = RenderSts(s)
    BY <1>4 DEF Put, Render, WorldOK, Kinds
  <2>2. k # "sts" => store'["sts"] = store["sts"]
    BY <1>4 DEF Put
  <2> QED BY <1>4, <2>1, <2>2, RenderMeets DEF LeavesSts
<1>5. CASE UpdateConfigMap(m)
  <2>0. w[m].pc = "ensure" /\ UNCHANGED terminating
    BY <1>5 DEF UpdateConfigMap
  <2>1. CASE store[k] = NIL
    <3>1. UNCHANGED store /\ Goto(m, [w[m] EXCEPT !.pc = "apply", !.got = "absent"])
      BY <1>5, <2>1 DEF UpdateConfigMap
    <3> QED BY <2>0, <3>1, ApplyHolds DEF LeavesSts
  <2>2. CASE store[k] # NIL
    <3>1. Put(k, Render(k, s)) /\ Reply(m, NextStep(m))
      BY <1>5, <2>2 DEF UpdateConfigMap
    <3> QED BY <1>4, <2>0, <3>1, ReplyHolds
  <2> QED BY <2>1, <2>2
<1>6. CASE GetObject(m)
  <2> DEFINE found == Decision(k, s)
  <2>0. w[m].pc = "ensure" /\ UNCHANGED <<store, terminating>>
    BY <1>6 DEF GetObject, world
  <2>1. CASE found = "panic"
    BY <1>0, <1>6, <2>1 DEF GetObject, Requeue
  <2>2. CASE found = "none"
    <3>1. Goto(m, NextStep(m))
      BY <1>6, <2>2 DEF GetObject
    <3>2. k = "sts" => Meets(store, terminating, s)
      <4>1. s \in Specs
        BY <2>0 DEF GoodStep, Resource
      <4>2. k = "sts" => store["sts"] # NIL /\ CheckSts(store["sts"], s) = "none"
        BY <2>2 DEF Decision
      <4> QED BY <4>1, <4>2, NoneMeets DEF Meets
    <3>3. HoldsAt(NextStep(m), store', terminating')
      BY <2>0, <3>2, NextStepHolds DEF LeavesSts
    <3> QED BY <3>1, <3>3 DEF Goto, WorkOK
  <2>3. CASE found \notin {"panic", "none"}
    <3>1. Goto(m, [w[m] EXCEPT !.pc = "apply", !.got = found])
      BY <1>6, <2>3 DEF GetObject
    <3>2. found = "delete" => Differs(store, terminating, s)
      BY DeleteDiffers DEF Decision, Differs
    <3> HIDE DEF found
    <3> QED BY <2>0, <3>1, <3>2, ApplyHolds DEF LeavesSts
  <2> QED BY <2>1, <2>2, <2>3
<1>7. CASE CreateObject(m) \/ UpdateObject(m)
  <2>1. CASE Put(k, Render(k, s)) /\ Reply(m, NextStep(m))
    <3>1. w[m].pc = "apply" /\ UNCHANGED terminating
      BY <1>7 DEF CreateObject, UpdateObject
    <3> QED BY <1>4, <2>1, <3>1, ReplyHolds
  <2>2. CASE Requeue(m)
    BY <1>0, <2>2 DEF Requeue
  <2> QED BY <1>7, <2>1, <2>2 DEF CreateObject, UpdateObject
<1>8. CASE DeleteStatefulSet(m)
  <2>1. CASE store["sts"] = NIL
    BY <1>0, <1>8, <2>1 DEF DeleteStatefulSet, Requeue
  <2>2. CASE store["sts"] # NIL
    <3>1. /\ w[m].pc = "apply" /\ w[m].got = "delete"
          /\ UNCHANGED store /\ terminating' = TRUE
          /\ Reply(m, NextStep(m))
      BY <1>8, <2>2 DEF DeleteStatefulSet
    <3>2. k = "sts"
      BY <3>1 DEF Verified, VerifiedBy
    <3>3. Meets(store', terminating', s)
      BY <3>1 DEF Meets
    <3> QED BY <3>1, <3>2, <3>3, ReplyHolds
  <2> QED BY <2>1, <2>2
<1> QED BY <1>1, <1>2, <1>3, <1>5, <1>6, <1>7, <1>8 DEF Running

-----------------------------------------------------------------------------
(***************************************************************************)
(* The theorems.                                                           *)
(***************************************************************************)

\* The user and the cluster only take the StatefulSet away.
LEMMA EnvironmentLeaves ==
    ASSUME WorldOK, Environment
    PROVE  LeavesSts /\ UNCHANGED w
<1>1. UNCHANGED w
  BY DEF Environment, EditSpec, DeleteResource, ThreeMinutesPass, PodReady, PodUnready,
         PodRemoved, StatefulSetGone, PodsChange, NacosChanges, GarbageCollect, work
<1>2. ASSUME StatefulSetGone PROVE LeavesSts
  BY <1>2 DEF StatefulSetGone, Put, LeavesSts, WorldOK, Kinds
<1>3. ASSUME NEW k \in Kinds, GarbageCollect(k) PROVE LeavesSts
  <2>1. CASE k = "sts"
    BY <1>3, <2>1 DEF GarbageCollect, Put, LeavesSts, WorldOK
  <2>2. CASE k # "sts"
    <3>1. UNCHANGED terminating /\ store'["sts"] = store["sts"]
      BY <1>3, <2>2 DEF GarbageCollect, Put
    <3> QED BY <3>1 DEF LeavesSts
  <2> QED BY <2>1, <2>2
<1>4. ASSUME Environment, ~StatefulSetGone, \A k \in Kinds : ~GarbageCollect(k)
      PROVE  LeavesSts
  <2>1. UNCHANGED <<store, terminating>>
    BY <1>4
    DEF Environment, EditSpec, DeleteResource, ThreeMinutesPass, PodReady, PodUnready,
        PodRemoved, NacosChanges, world
  <2> QED BY <2>1 DEF LeavesSts
<1> QED BY <1>1, <1>2, <1>3, <1>4

\* Every step keeps what the only manager has made of the StatefulSet.
LEMMA StaysHeld ==
    ASSUME NEW o, Managers = {o}, Known, Verified, Holds, [Next]_vars
    PROVE  Holds'
<1>0. WorkOK /\ WorldOK /\ CopiesOK /\ GoodStep(w[o]) /\ HoldsAt(w[o], store, terminating)
  BY CurrentGood DEF Known, TypeOK, Holds
<1>1. SUFFICES HoldsAt(w'[o], store', terminating')
  BY DEF Holds
<1>2. ASSUME LeavesSts, UNCHANGED w PROVE HoldsAt(w'[o], store', terminating')
  BY <1>0, <1>2, LeavesHolds DEF HoldsAt
<1>3. CASE Environment
  BY <1>0, <1>2, <1>3, EnvironmentLeaves
<1>4. CASE Running(o)
  BY <1>0, <1>4, RunningHolds
<1>5. CASE Reconcile(o)
  <2>1. CASE cache[o].live
    <3>1. w'[o] = Begin(cache[o])
      BY <1>0, <1>5, <2>1 DEF Reconcile, Goto, WorkOK
    <3> QED BY <3>1, BeginHolds
  <2>2. CASE ~cache[o].live
    <3>1. UNCHANGED <<w, store, terminating>>
      BY <1>5, <2>2 DEF Reconcile, world
    <3> QED BY <1>2, <3>1 DEF LeavesSts
  <2> QED BY <2>1, <2>2
<1>6. CASE Deliver(o) \/ TimerFires(o) \/ Resync(o)
  <2>1. UNCHANGED <<w, store, terminating>>
    BY <1>6 DEF Deliver, TimerFires, Resync, world, work
  <2> QED BY <1>2, <2>1 DEF LeavesSts
<1>7. CASE UNCHANGED vars
  <2>1. UNCHANGED <<w, store, terminating>>
    BY <1>7 DEF vars, world, work
  <2> QED BY <1>2, <2>1 DEF LeavesSts
<1> QED BY <1>3, <1>4, <1>5, <1>6, <1>7 DEF Next, Manager, Work, Running

\* Nothing but DeleteStatefulSet begins a deletion.
LEMMA OnlyDeleteTerminates ==
    ASSUME [Next]_vars, ~terminating, terminating'
    PROVE  \E m \in Managers : DeleteStatefulSet(m)
<1>1. ~UNCHANGED terminating
  OBVIOUS
<1>2. ~Environment
  <2>1. ASSUME NEW k \in Kinds PROVE ~GarbageCollect(k)
    <3>1. GarbageCollect(k) => terminating' = FALSE \/ UNCHANGED terminating
      BY DEF GarbageCollect
    <3> QED BY <1>1, <3>1
  <2>2. StatefulSetGone => terminating' = FALSE
    BY DEF StatefulSetGone
  <2>3. EditSpec \/ DeleteResource \/ ThreeMinutesPass \/ PodReady \/ PodUnready
           \/ PodRemoved \/ NacosChanges => UNCHANGED terminating
    BY DEF EditSpec, DeleteResource, ThreeMinutesPass, PodReady, PodUnready, PodRemoved,
           NacosChanges, world
  <2> QED BY <1>1, <2>1, <2>2, <2>3 DEF Environment
<1>3. PICK m \in Managers : Manager(m)
  BY <1>1, <1>2 DEF Next, vars, world
<1>4. ~DeleteStatefulSet(m) => UNCHANGED terminating
  BY <1>3
  DEF Manager, Work, Reconcile, BuildPanic, UpdateConfigMap, GetObject, CreateObject,
      UpdateObject, CheckKind, GetStatefulSetReadPod, CheckNacos, UpdateStatusRunning,
      GlobalExceptHandle, Deliver, TimerFires, Resync, ApiError, Restart, world
<1> QED BY <1>1, <1>3, <1>4

\* With one manager, a reconcile past its StatefulSet has left it as its spec
\* asks for, whatever fails, is edited or deleted in the meantime.
THEOREM StatefulSetHeld == ASSUME NEW o, Managers = {o} PROVE Spec => []Holds
<1>1. Init => Holds
  <2>1. ASSUME Init, NEW m \in Managers PROVE w[m] = Idle
    BY <2>1 DEF Init
  <2>2. HoldsAt(Idle, store, terminating)
    BY IdleHolds, Zenon
  <2> QED BY <2>1, <2>2 DEF Holds
<1>2. Known /\ Verified /\ Holds /\ [Next]_vars => Holds'
  BY StaysHeld
<1> QED BY <1>1, <1>2, WorkAccepted, WorkStaysEnsured, PTL DEF Spec, Known

\* With one manager, Running is only recorded for a StatefulSet with the
\* mode, scale, storage, resources and environment of the newest spec, or for
\* one that is on its way out (CreateOrUpdateStatefulSet, UpdateStatusRunning).
THEOREM RunningAlwaysMatches == ASSUME NEW o, Managers = {o} PROVE Spec => RunningMatches
<1> DEFINE Claim == terminating \/ store["sts"] = NIL \/ StsMatches(cr.spec)
<1>1. ASSUME Known, CopiesCurrent, Holds, [Next]_vars, RecordsRunning PROVE Claim
  <2>1. PICK m \in Managers : UpdateStatusRunning(m) /\ Lands(m)
    BY <1>1, RunningRecorded
  <2>2. w[m].pc = "running" /\ SameResource(w[m].inst)
    BY <1>1, <2>1 DEF UpdateStatusRunning, Lands, CopiesCurrent
  <2>3. Meets(store, terminating, w[m].inst.spec) /\ w[m].inst.spec = cr.spec
    BY <1>1, <2>2 DEF Holds, HoldsAt, Past, SameResource
  <2> QED BY <2>3 DEF Meets, StsMatches
<1>2. Known /\ CopiesCurrent /\ Holds /\ [Next]_vars => [RecordsRunning => Claim]_vars
  BY <1>1
<1> QED
  BY <1>2, WorkAccepted, CopiesAreCurrent, StatefulSetHeld, PTL
  DEF Spec, Known, RunningMatches, Claim

\* With one manager, a StatefulSet is deleted only when its volume claims
\* differ from those of the spec worked on: checkSts read them just before,
\* and nobody else replaces what it read.
THEOREM DeletesForVolumesOnly ==
    ASSUME NEW o, Managers = {o} PROVE Spec => DeletesOnlyOnVolumeChange
<1> DEFINE Claim == \E m \in Managers : /\ w[m].got = "delete"
                                        /\ store["sts"].volume # w[m].inst.spec.volume
<1>1. ASSUME Known, Holds, [Next]_vars, ~terminating, terminating' PROVE Claim
  <2>1. PICK m \in Managers : DeleteStatefulSet(m)
    BY <1>1, OnlyDeleteTerminates
  <2>2. /\ w[m].pc = "apply" /\ w[m].got = "delete" /\ store["sts"] # NIL
    BY <1>1, <2>1 DEF DeleteStatefulSet
  <2> QED BY <1>1, <2>2 DEF Holds, HoldsAt, Differs
<1>2. Known /\ Holds /\ [Next]_vars => [~terminating /\ terminating' => Claim]_vars
  BY <1>1
<1> QED
  BY <1>2, WorkAccepted, StatefulSetHeld, PTL
  DEF Spec, Known, DeletesOnlyOnVolumeChange, Claim
=============================================================================
