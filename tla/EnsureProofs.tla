---------------------------- MODULE EnsureProofs ----------------------------
(***************************************************************************)
(* What a reconcile has already ensured and verified stays so while the    *)
(* resource exists: the job never runs without its script, and Running is  *)
(* recorded only with every object in place and a quorum of healthy        *)
(* members, for any number of managers.                                    *)
(*                                                                         *)
(* The inductive invariant is Ensured /\ Verified: each reconcile has      *)
(* behind it the objects of the kinds before its own in the order of       *)
(* MakeEnsure, and the checks before its position.  It is inductive        *)
(* because nobody but the garbage collector removes an object other than   *)
(* the StatefulSet, and the collector waits for the end of the resource.   *)
(***************************************************************************)
EXTENDS ReconcilerProofs

\* The kinds MakeEnsure has passed when it is at k, but for the StatefulSet.
Before(k, s) ==
    LET config   == IF s.config # NIL THEN {"cm"} ELSE {}
        services == IF Mode(s) = "cluster" THEN {"hsvc", "csvc"} ELSE {"svc"}
    IN  CASE k = "cm" -> {}
          [] k \in {"sts", "svc", "hsvc"} -> config
          [] k = "csvc"  -> config \cup {"hsvc"}
          [] k = "sqlcm" -> config \cup services
          [] k = "job"   -> config \cup services \cup {"sqlcm"}

AllThere(objects, kinds) == \A k \in kinds : objects[k] # NIL

\* What a reconcile at a step has ensured.
EnsuredBy(step, objects) ==
    LET s == step.inst.spec
    IN  /\ step.pc \in {"ensure", "apply"} =>
             step.kind \in EnsureSet(s) /\ AllThere(objects, Before(step.kind, s))
        /\ step.pc \in {"checkKind", "list", "checkNacos", "running"} =>
             AllThere(objects, EnsureSet(s) \ {"sts"})

\* What a reconcile at a step has verified.
VerifiedBy(step) ==
    LET s == step.inst.spec
    IN  /\ step.pc = "apply" /\ step.got = "delete" => step.kind = "sts"
        /\ step.pc = "list" => s.replicas \in Nat
        /\ step.pc = "checkNacos" => s.replicas \in Nat /\ step.pods >= Quorum(s)
        /\ step.pc = "running" => step.inst.status.conds >= Quorum(s)

Ensured  == cr.live => \A m \in Managers : EnsuredBy(w[m], store)
Verified == \A m \in Managers : VerifiedBy(w[m])
Known    == TypeOK /\ AcceptedFirst

-----------------------------------------------------------------------------
(***************************************************************************)
(* The order of MakeEnsure.                                                *)
(***************************************************************************)

\* The kinds it goes through are those it is to ensure.
LEMMA EnsureSetKinds == \A s : EnsureSet(s) \subseteq Kinds
BY DEF EnsureSet, Kinds

\* Going on adds the current kind to those passed, and ends when all are.
LEMMA AfterPasses ==
    ASSUME NEW s, NEW k \in EnsureSet(s)
    PROVE  LET next == After(k, s)
           IN  /\ next = NIL => EnsureSet(s) \ {"sts"} \subseteq Before(k, s) \cup {k}
               /\ next # NIL => /\ next \in EnsureSet(s)
                                /\ Before(next, s) \subseteq (Before(k, s) \cup {k}) \ {"sts"}
BY SpecsAssumption DEF EnsureSet, After, Before, Kinds

\* It begins with nothing passed.
LEMMA FirstPasses ==
    ASSUME NEW s
    PROVE  First(s) \in EnsureSet(s) /\ Before(First(s), s) = {}
BY DEF First, EnsureSet, Before

\* The StatefulSet is never among those passed: it may be deleted meanwhile.
LEMMA BeforeKinds ==
    ASSUME NEW s, NEW k \in EnsureSet(s)
    PROVE  Before(k, s) \subseteq Kinds \ {"sts"}
BY SpecsAssumption DEF Before, EnsureSet, Kinds

\* An object that is ensured is there afterwards.
LEMMA RenderThere ==
    ASSUME NEW s, NEW k \in EnsureSet(s) \ {"sts"}
    PROVE  Render(k, s) # NIL
<1>1. CASE k = "cm"
  BY <1>1 DEF EnsureSet, Render
<1>2. CASE k # "cm"
  <2>1. Render(k, s) = TRUE
    BY <1>2 DEF Render
  <2> QED BY <2>1, SpecsAssumption
<1> QED BY <1>1, <1>2

-----------------------------------------------------------------------------
(***************************************************************************)
(* One reconcile.                                                          *)
(***************************************************************************)

\* A step of the reconcile of m that keeps what is ensured and verified.
Advances(m, step) ==
    /\ Goto(m, step)
    /\ VerifiedBy(step)
    /\ EnsuredBy(w[m], store) => EnsuredBy(step, store')

\* Between two reconciles nothing is claimed.
LEMMA IdleClaimsNothing == VerifiedBy(Idle) /\ \A objects : EnsuredBy(Idle, objects)
BY DEF VerifiedBy, EnsuredBy, Idle

\* A reconcile that ends.
LEMMA RequeueAdvances ==
    ASSUME NEW m \in Managers, Goto(m, Idle)
    PROVE  \E step : Advances(m, step)
BY IdleClaimsNothing DEF Advances

\* A reconcile that panics with a code.
LEMMA PanicAdvances ==
    ASSUME NEW m \in Managers, GoodStep(w[m]), NEW code, Panic(m, code)
    PROVE  \E step : Advances(m, step)
<1> DEFINE step == [w[m] EXCEPT !.pc = "handle", !.err = code]
<1>1. step.pc = "handle"
  BY DEF GoodStep, Worker
<1>2. Goto(m, step)
  BY DEF Panic
<1> HIDE DEF step
<1> QED BY <1>1, <1>2 DEF Advances, VerifiedBy, EnsuredBy

\* What is there is not lost on the way.
Keeps(objects) == \A k \in Kinds \ {"sts"} : store[k] # NIL => objects[k] # NIL

\* The reconcile goes on when the object of its kind is there.
LEMMA NextStepAdvances ==
    ASSUME NEW m \in Managers, GoodStep(w[m]), w[m].pc \in {"ensure", "apply"},
           EnsuredBy(w[m], store) =>
               Keeps(store') /\ (w[m].kind = "sts" \/ store'[w[m].kind] # NIL),
           Goto(m, NextStep(m))
    PROVE  \E step : Advances(m, step)
<1> DEFINE s == w[m].inst.spec
           k == w[m].kind
           next == After(k, s)
           step == NextStep(m)
<1>1. /\ step.pc = IF next = NIL THEN "checkKind" ELSE "ensure"
      /\ step.kind = next /\ step.inst = w[m].inst
  BY DEF NextStep, GoodStep, Worker
<1>2. VerifiedBy(step)
  BY <1>1 DEF VerifiedBy
<1>3. ASSUME EnsuredBy(w[m], store) PROVE EnsuredBy(step, store')
  <2>1. k \in EnsureSet(s) /\ AllThere(store, Before(k, s))
    BY <1>3 DEF EnsuredBy
  <2>2. Keeps(store') /\ (k = "sts" \/ store'[k] # NIL)
    BY <1>3
  <2>3. Before(k, s) \subseteq Kinds \ {"sts"}
    BY <2>1, BeforeKinds
  <2>4. AllThere(store', (Before(k, s) \cup {k}) \ {"sts"})
    BY <2>1, <2>2, <2>3 DEF AllThere, Keeps
  <2>5. /\ next = NIL => AllThere(store', EnsureSet(s) \ {"sts"})
        /\ next # NIL => next \in EnsureSet(s) /\ AllThere(store', Before(next, s))
    BY <2>1, <2>4, AfterPasses DEF AllThere
  <2> HIDE DEF next, step
  <2> QED BY <1>1, <2>5 DEF EnsuredBy
<1> QED BY <1>2, <1>3 DEF Advances

\* It does, or an error ends it.
LEMMA ReplyAdvances ==
    ASSUME NEW m \in Managers, GoodStep(w[m]), w[m].pc \in {"ensure", "apply"},
           EnsuredBy(w[m], store) =>
               Keeps(store') /\ (w[m].kind = "sts" \/ store'[w[m].kind] # NIL),
           Reply(m, NextStep(m))
    PROVE  \E step : Advances(m, step)
BY NextStepAdvances, RequeueAdvances DEF Reply, Requeue

\* A reconcile that changes its position in the same ensure.
LEMMA ApplyAdvances ==
    ASSUME NEW m \in Managers, GoodStep(w[m]), w[m].pc = "ensure",
           NEW got, got = "delete" => w[m].kind = "sts", UNCHANGED store,
           Goto(m, [w[m] EXCEPT !.pc = "apply", !.got = got])
    PROVE  \E step : Advances(m, step)
<1> DEFINE step == [w[m] EXCEPT !.pc = "apply", !.got = got]
<1>1. /\ step.pc = "apply" /\ step.kind = w[m].kind /\ step.inst = w[m].inst
      /\ step.got = got
  BY DEF GoodStep, Worker
<1> HIDE DEF step
<1>2. VerifiedBy(step) /\ (EnsuredBy(w[m], store) => EnsuredBy(step, store'))
  BY <1>1 DEF VerifiedBy, EnsuredBy
<1> QED BY <1>2 DEF Advances, step

\* What a write leaves of the other objects.
LEMMA PutKeeps ==
    ASSUME WorldOK, NEW k \in Kinds, NEW x, Put(k, x)
    PROVE  /\ store'[k] = x
           /\ x # NIL \/ k = "sts" => Keeps(store')
BY DEF WorldOK, Put, Keeps

\* An object that a reconcile ensures is there afterwards, and no other is lost.
LEMMA WriteEnsures ==
    ASSUME WorldOK, NEW m \in Managers, GoodStep(w[m]), w[m].pc \in {"ensure", "apply"},
           EnsuredBy(w[m], store), Put(w[m].kind, Render(w[m].kind, w[m].inst.spec))
    PROVE  Keeps(store') /\ (w[m].kind = "sts" \/ store'[w[m].kind] # NIL)
<1>1. w[m].kind \in Kinds /\ w[m].kind \in EnsureSet(w[m].inst.spec)
  BY DEF GoodStep, EnsuredBy
<1>2. w[m].kind # "sts" => Render(w[m].kind, w[m].inst.spec) # NIL
  BY <1>1, RenderThere
<1> QED BY <1>1, <1>2, PutKeeps

\* A reconcile that passes a check goes on to the next with what it found.
LEMMA PassAdvances ==
    ASSUME NEW m \in Managers, NEW step, Goto(m, step), VerifiedBy(step), UNCHANGED store,
           w[m].pc \in {"checkKind", "list", "checkNacos"},
           step.pc \in {"list", "checkNacos", "running", "handle"},
           step.inst.spec = w[m].inst.spec
    PROVE  \E new : Advances(m, new)
BY DEF Advances, EnsuredBy

\* The checks go on with what they have verified, or end in the handler.
LEMMA ChecksAdvance ==
    ASSUME Known, NEW m \in Managers, VerifiedBy(w[m]),
           CheckKind(m) \/ GetStatefulSetReadPod(m) \/ CheckNacos(m)
    PROVE  \E step : Advances(m, step)
<1> DEFINE s == w[m].inst.spec
<1>0. /\ GoodStep(w[m]) /\ UNCHANGED store /\ w[m].pc # "idle"
      /\ ready \in Nat
  BY CurrentGood DEF Known, TypeOK, WorldOK, CheckKind, GetStatefulSetReadPod, CheckNacos, world
<1>1. CASE CheckKind(m)
  <2> DEFINE step == [w[m] EXCEPT !.pc = "list"]
  <2>1. CASE Goto(m, step) /\ s.replicas # NIL
    <3>1. step.pc = "list" /\ step.inst = w[m].inst
      BY <1>0 DEF GoodStep, Worker
    <3>2. s.replicas \in Nat
      BY <1>0, <2>1, SpecsAssumption DEF GoodStep, Resource
    <3> HIDE DEF step
    <3>3. VerifiedBy(step)
      BY <3>1, <3>2 DEF VerifiedBy
    <3>4. w[m].pc = "checkKind"
      BY <1>1 DEF CheckKind
    <3> QED BY <1>0, <2>1, <3>1, <3>3, <3>4, PassAdvances
  <2> QED BY <1>0, <1>1, <2>1, PanicAdvances, RequeueAdvances DEF CheckKind, Requeue
<1>2. CASE GetStatefulSetReadPod(m)
  <2>1. PICK pods : /\ pods \in {0, ready}
                    /\ IF pods < Quorum(s)
                         THEN Panic(m, CODE_ERR_UNKNOW)
                         ELSE Goto(m, [w[m] EXCEPT !.pc = "checkNacos", !.pods = pods])
    BY <1>2 DEF GetStatefulSetReadPod
  <2> DEFINE step == [w[m] EXCEPT !.pc = "checkNacos", !.pods = pods]
  <2>2. CASE Goto(m, step) /\ ~(pods < Quorum(s))
    <3>1. step.pc = "checkNacos" /\ step.inst = w[m].inst /\ step.pods = pods
      BY <1>0 DEF GoodStep, Worker
    <3>2. w[m].pc = "list" /\ s.replicas \in Nat
      BY <1>2 DEF GetStatefulSetReadPod, VerifiedBy
    <3>3. pods >= Quorum(s)
      BY <1>0, <2>1, <2>2, <3>2 DEF Quorum
    <3> HIDE DEF step
    <3>4. VerifiedBy(step)
      BY <3>1, <3>2, <3>3 DEF VerifiedBy
    <3> QED BY <1>0, <2>2, <3>1, <3>2, <3>4, PassAdvances
  <2> QED BY <1>0, <2>1, <2>2, PanicAdvances
<1>3. CASE CheckNacos(m)
  <2>0. w[m].pc = "checkNacos" /\ w[m].pods >= Quorum(s)
    BY <1>3 DEF CheckNacos, VerifiedBy
  <2>1. CASE Goto(m, [w[m] EXCEPT !.pc = "running", !.inst.status.conds = w[m].pods])
    <3> DEFINE step == [w[m] EXCEPT !.pc = "running", !.inst.status.conds = w[m].pods]
    <3>1. /\ step.pc = "running" /\ step.inst.spec = s
          /\ step.inst.status.conds = w[m].pods
      BY <1>0 DEF GoodStep, Worker, Resource, Status
    <3> HIDE DEF step
    <3>2. VerifiedBy(step)
      BY <2>0, <3>1 DEF VerifiedBy
    <3> QED BY <1>0, <2>0, <2>1, <3>1, <3>2, PassAdvances DEF step
  <2>2. ASSUME NEW passed,
               Goto(m, [w[m] EXCEPT !.pc = "handle", !.err = CODE_CLUSTER_FAILE,
                                    !.inst.status.conds = passed])
        PROVE  \E step : Advances(m, step)
    <3> DEFINE step == [w[m] EXCEPT !.pc = "handle", !.err = CODE_CLUSTER_FAILE,
                                    !.inst.status.conds = passed]
    <3>1. step.pc = "handle" /\ step.inst.spec = s
      BY <1>0 DEF GoodStep, Worker, Resource
    <3> HIDE DEF step
    <3>2. VerifiedBy(step)
      BY <3>1 DEF VerifiedBy
    <3> QED BY <1>0, <2>0, <2>2, <3>1, <3>2, PassAdvances DEF step
  <2> QED BY <1>3, <2>1, <2>2 DEF CheckNacos
<1> QED BY <1>1, <1>2, <1>3

\* Every action of a running reconcile keeps what is ensured and verified.
LEMMA RunningAdvances ==
    ASSUME Known, NEW m \in Managers, VerifiedBy(w[m]), Running(m)
    PROVE  \E step : Advances(m, step)
<1> DEFINE s == w[m].inst.spec
           k == w[m].kind
<1>0. GoodStep(w[m]) /\ WorldOK
  BY CurrentGood DEF Known, TypeOK
<1>1. CASE BuildPanic(m) \/ ApiError(m) \/ Restart(m) \/ GlobalExceptHandle(m)
  BY <1>1, RequeueAdvances DEF BuildPanic, ApiError, Restart, GlobalExceptHandle, Requeue
<1>2. CASE UpdateConfigMap(m)
  <2>1. CASE store[k] = NIL
    BY <1>0, <1>2, <2>1, ApplyAdvances DEF UpdateConfigMap
  <2>2. CASE store[k] # NIL
    <3>1. w[m].pc = "ensure" /\ Put(k, Render(k, s)) /\ Reply(m, NextStep(m))
      BY <1>2, <2>2 DEF UpdateConfigMap
    <3> QED BY <1>0, <3>1, WriteEnsures, ReplyAdvances
  <2> QED BY <2>1, <2>2
<1>3. CASE GetObject(m)
  <2> DEFINE found == Decision(k, s)
  <2>1. w[m].pc = "ensure" /\ UNCHANGED store
    BY <1>3 DEF GetObject, world
  <2>2. CASE found = "panic"
    BY <1>3, <2>2, RequeueAdvances DEF GetObject, Requeue
  <2>3. CASE found = "none"
    <3>1. store[k] # NIL /\ Goto(m, NextStep(m))
      BY <1>3, <2>3 DEF GetObject, Decision
    <3> QED BY <1>0, <2>1, <3>1, NextStepAdvances DEF Keeps
  <2>4. CASE found \notin {"panic", "none"}
    <3>1. Goto(m, [w[m] EXCEPT !.pc = "apply", !.got = found])
      BY <1>3, <2>4 DEF GetObject
    <3>2. found = "delete" => k = "sts"
      BY DEF Decision
    <3> HIDE DEF found
    <3> QED BY <1>0, <2>1, <3>1, <3>2, ApplyAdvances
  <2> QED BY <2>2, <2>3, <2>4
<1>4. CASE CreateObject(m) \/ UpdateObject(m)
  <2>1. CASE Put(k, Render(k, s)) /\ Reply(m, NextStep(m))
    BY <1>0, <1>4, <2>1, WriteEnsures, ReplyAdvances DEF CreateObject, UpdateObject
  <2>2. CASE Requeue(m)
    BY <2>2, RequeueAdvances DEF Requeue
  <2> QED BY <1>4, <2>1, <2>2 DEF CreateObject, UpdateObject
<1>5. CASE DeleteStatefulSet(m)
  <2>1. CASE store["sts"] = NIL
    BY <1>5, <2>1, RequeueAdvances DEF DeleteStatefulSet, Requeue
  <2>2. CASE store["sts"] # NIL
    <3>1. /\ w[m].pc = "apply" /\ w[m].got = "delete" /\ UNCHANGED store
          /\ Reply(m, NextStep(m))
      BY <1>5, <2>2 DEF DeleteStatefulSet
    <3>2. k = "sts"
      BY <3>1 DEF VerifiedBy
    <3> QED BY <1>0, <3>1, <3>2, ReplyAdvances DEF Keeps
  <2> QED BY <2>1, <2>2
<1>6. CASE UpdateStatusRunning(m)
  BY <1>6, RequeueAdvances DEF UpdateStatusRunning, Reply, Requeue
<1>7. CASE CheckKind(m) \/ GetStatefulSetReadPod(m) \/ CheckNacos(m)
  BY <1>0, <1>7, ChecksAdvance
<1> QED BY <1>1, <1>2, <1>3, <1>4, <1>5, <1>6, <1>7 DEF Running

\* So does the beginning of the next one.
LEMMA BeginAdvances ==
    ASSUME NEW seen, seen \in Resource
    PROVE  VerifiedBy(Begin(seen)) /\ \A objects : EnsuredBy(Begin(seen), objects)
<1> DEFINE s == seen.spec
           step == Begin(seen)
<1>1. \/ step.pc = "handle"
      \/ step.pc = "ensure" /\ step.inst = seen /\ step.kind = First(s)
  BY DEF Begin, Idle
<1> HIDE DEF step
<1>2. VerifiedBy(step)
  BY <1>1 DEF VerifiedBy
<1>3. ASSUME NEW objects PROVE EnsuredBy(step, objects)
  BY <1>1, FirstPasses DEF EnsuredBy, AllThere
<1> QED BY <1>2, <1>3 DEF step

-----------------------------------------------------------------------------
(***************************************************************************)
(* All reconciles together.                                                *)
(***************************************************************************)

\* What a manager writes is the object of the kind it is at.
LEMMA ManagerWrites ==
    ASSUME NEW m \in Managers, Manager(m)
    PROVE  \/ UNCHANGED store
           \/ /\ w[m].pc \in {"ensure", "apply"}
              /\ Put(w[m].kind, Render(w[m].kind, w[m].inst.spec))
<1>1. CASE UpdateConfigMap(m)
  BY <1>1 DEF UpdateConfigMap
<1>2. CASE CreateObject(m)
  BY <1>2 DEF CreateObject
<1>3. CASE UpdateObject(m)
  BY <1>3 DEF UpdateObject
<1>4. CASE DeleteStatefulSet(m)
  BY <1>4 DEF DeleteStatefulSet
<1>5. CASE BuildPanic(m) \/ Reconcile(m) \/ GetObject(m)
  BY <1>5 DEF BuildPanic, Reconcile, GetObject, world
<1>6. CASE CheckKind(m) \/ GetStatefulSetReadPod(m) \/ CheckNacos(m)
  BY <1>6 DEF CheckKind, GetStatefulSetReadPod, CheckNacos, world
<1>7. CASE UpdateStatusRunning(m) \/ GlobalExceptHandle(m)
  BY <1>7 DEF UpdateStatusRunning, GlobalExceptHandle, world
<1>8. CASE Deliver(m) \/ TimerFires(m) \/ Resync(m) \/ ApiError(m) \/ Restart(m)
  BY <1>8 DEF Deliver, TimerFires, Resync, ApiError, Restart, world
<1> QED BY <1>1, <1>2, <1>3, <1>4, <1>5, <1>6, <1>7, <1>8 DEF Manager, Work

\* A deleted resource stays deleted.
LEMMA NoRevival ==
    ASSUME cr \in Resource, [Next]_vars, cr'.live
    PROVE  cr.live
<1>1. ASSUME UNCHANGED user PROVE cr.live
  BY <1>1 DEF user
<1>2. ASSUME NEW new, StoreStatus(new) PROVE cr.live
  BY <1>2 DEF StoreStatus, Publish, Resource
<1>3. ASSUME NEW m \in Managers, Manager(m) PROVE cr.live
  <2>1. CASE UpdateStatusRunning(m) \/ GlobalExceptHandle(m)
    BY <1>2, <2>1 DEF UpdateStatusRunning, GlobalExceptHandle
  <2>2. CASE ~UpdateStatusRunning(m) /\ ~GlobalExceptHandle(m)
    BY <1>1, <1>3, <2>2, OthersStutter
  <2> QED BY <2>1, <2>2
<1>4. CASE EditSpec \/ DeleteResource
  BY <1>4 DEF EditSpec, DeleteResource
<1>5. ASSUME Environment, ~EditSpec, ~DeleteResource PROVE cr.live
  BY <1>5
  DEF Environment, ThreeMinutesPass, PodReady, PodUnready, PodRemoved, StatefulSetGone,
      PodsChange, NacosChanges, GarbageCollect, user
<1>6. CASE UNCHANGED vars
  BY <1>1, <1>6 DEF vars
<1> QED BY <1>3, <1>4, <1>5, <1>6 DEF Next

\* While the resource exists, no object but the StatefulSet is ever removed.
LEMMA ObjectsStay ==
    ASSUME Known, Ensured, cr.live, [Next]_vars
    PROVE  Keeps(store')
<1>0. WorldOK
  BY DEF Known, TypeOK
<1>1. ASSUME UNCHANGED store PROVE Keeps(store')
  BY <1>1 DEF Keeps
<1>2. ASSUME NEW m \in Managers, Manager(m) PROVE Keeps(store')
  <2>1. GoodStep(w[m]) /\ EnsuredBy(w[m], store)
    BY CurrentGood DEF Known, TypeOK, Ensured
  <2> QED BY <1>0, <1>1, <1>2, <2>1, ManagerWrites, WriteEnsures
<1>3. CASE StatefulSetGone
  BY <1>0, <1>3, PutKeeps DEF StatefulSetGone, Kinds
<1>4. ASSUME Environment, ~StatefulSetGone PROVE UNCHANGED store
  BY <1>4
  DEF Environment, EditSpec, DeleteResource, ThreeMinutesPass, PodReady, PodUnready,
      PodRemoved, NacosChanges, GarbageCollect, world
<1>5. CASE UNCHANGED vars
  BY <1>1, <1>5 DEF vars, world
<1> QED BY <1>1, <1>2, <1>3, <1>4, <1>5 DEF Next

\* What is ensured survives what keeps the objects.
LEMMA KeptStaysEnsured ==
    ASSUME NEW step, EnsuredBy(step, store), Keeps(store')
    PROVE  EnsuredBy(step, store')
<1> DEFINE s == step.inst.spec
<1>1. EnsureSet(s) \ {"sts"} \subseteq Kinds \ {"sts"}
  BY EnsureSetKinds
<1>2. step.kind \in EnsureSet(s) => Before(step.kind, s) \subseteq Kinds \ {"sts"}
  BY BeforeKinds
<1> QED BY <1>1, <1>2 DEF EnsuredBy, AllThere, Keeps

\* Every step keeps what the reconciles have ensured and verified.
LEMMA StaysEnsured ==
    ASSUME Known, Ensured, Verified, [Next]_vars
    PROVE  Ensured' /\ Verified'
<1>0. WorkOK /\ cr \in Resource /\ CopiesOK
  BY DEF Known, TypeOK, ResourceOK
<1>1. cr'.live => cr.live /\ Keeps(store') /\ \A m \in Managers : EnsuredBy(w[m], store)
  BY <1>0, NoRevival, ObjectsStay DEF Ensured
<1>2. ASSUME NEW m \in Managers, NEW step, Advances(m, step) PROVE Ensured' /\ Verified'
  <2>1. w'[m] = step /\ \A n \in Managers \ {m} : w'[n] = w[n]
    BY <1>0, <1>2 DEF Advances, Goto, WorkOK
  <2>2. Verified'
    BY <1>2, <2>1 DEF Verified, Advances
  <2>3. ASSUME cr'.live, NEW n \in Managers PROVE EnsuredBy(w'[n], store')
    BY <1>1, <1>2, <2>1, <2>3, KeptStaysEnsured DEF Advances
  <2> QED BY <2>2, <2>3 DEF Ensured
<1>3. ASSUME UNCHANGED w PROVE Ensured' /\ Verified'
  BY <1>1, <1>3, KeptStaysEnsured DEF Ensured, Verified
<1>4. ASSUME NEW m \in Managers, Running(m) PROVE Ensured' /\ Verified'
  BY <1>2, <1>4, RunningAdvances DEF Verified
<1>5. ASSUME NEW m \in Managers, Reconcile(m) PROVE Ensured' /\ Verified'
  <2>1. CASE cache[m].live
    <3>1. Goto(m, Begin(cache[m])) /\ cache[m] \in Resource
      BY <1>0, <1>5, <2>1 DEF Reconcile, CopiesOK
    <3> QED BY <1>2, <3>1, BeginAdvances DEF Advances
  <2>2. CASE ~cache[m].live
    BY <1>3, <1>5, <2>2 DEF Reconcile
  <2> QED BY <2>1, <2>2
<1>6. ASSUME NEW m \in Managers, Deliver(m) \/ TimerFires(m) \/ Resync(m) PROVE UNCHANGED w
  BY <1>6 DEF Deliver, TimerFires, Resync, work
<1>7. ASSUME Environment PROVE UNCHANGED w
  BY <1>7
  DEF Environment, EditSpec, DeleteResource, ThreeMinutesPass, PodReady, PodUnready,
      PodRemoved, StatefulSetGone, PodsChange, NacosChanges, GarbageCollect, work
<1>8. CASE UNCHANGED vars
  BY <1>3, <1>8 DEF vars, work
<1> QED BY <1>3, <1>4, <1>5, <1>6, <1>7, <1>8 DEF Next, Manager, Work, Running

\* The first state.
LEMMA EnsuredInit == Init => Ensured /\ Verified
BY IdleClaimsNothing DEF Init, Ensured, Verified

\* While the resource exists, each reconcile has behind it the objects of
\* the kinds MakeEnsure passed, and the checks CheckKind and CheckNacos made.
THEOREM WorkStaysEnsured == Spec => [](Ensured /\ Verified)
<1>1. Known /\ Ensured /\ Verified /\ [Next]_vars => Ensured' /\ Verified'
  BY StaysEnsured
<1> QED BY <1>1, EnsuredInit, WorkAccepted, PTL DEF Spec, Known

-----------------------------------------------------------------------------
(***************************************************************************)
(* What follows.                                                           *)
(***************************************************************************)

\* An uncollected job of mysql-init always finds the ConfigMap with its
\* script, whatever several managers do at a time.
THEOREM JobAlwaysHasScript == Spec => []JobHasScript
<1>1. Init => JobHasScript
  BY DEF Init, JobHasScript, Kinds
<1>2. Known /\ Ensured /\ JobHasScript /\ [Next]_vars => JobHasScript'
  <2> SUFFICES ASSUME Known, Ensured, JobHasScript, [Next]_vars,
                      cr'.live, store'["job"] # NIL
               PROVE  store'["sqlcm"] # NIL
    BY DEF JobHasScript
  <2>0. cr.live /\ Keeps(store') /\ WorldOK
    BY NoRevival, ObjectsStay DEF Known, TypeOK, ResourceOK
  <2>1. SUFFICES store["sqlcm"] # NIL
    BY <2>0 DEF Keeps, Kinds
  <2>2. CASE store["job"] # NIL
    BY <2>0, <2>2 DEF JobHasScript
  <2>3. CASE store["job"] = NIL
    <3>1. PICK m \in Managers : Manager(m)
      <4>1. ~UNCHANGED store
        BY <2>3
      <4>2. ~StatefulSetGone
        BY <2>0, <2>3 DEF StatefulSetGone, Put, WorldOK, Kinds
      <4>3. Environment => UNCHANGED store
        BY <2>0, <4>2
        DEF Environment, EditSpec, DeleteResource, ThreeMinutesPass, PodReady, PodUnready,
            PodRemoved, NacosChanges, GarbageCollect, world
      <4> QED BY <4>1, <4>3 DEF Next, vars, world
    <3>2. w[m].pc \in {"ensure", "apply"} /\ Put(w[m].kind, Render(w[m].kind, w[m].inst.spec))
      BY <2>3, <3>1, ManagerWrites
    <3>3. EnsuredBy(w[m], store) /\ w[m].kind \in Kinds
      BY <2>0, <3>2 DEF Ensured, Known, TypeOK, WorkOK
    <3>4. w[m].kind = "job"
      BY <2>0, <2>3, <3>2, <3>3 DEF Put, WorldOK, Kinds
    <3> QED BY <3>2, <3>3, <3>4 DEF EnsuredBy, AllThere, Before
  <2> QED BY <2>2, <2>3
<1> QED BY <1>1, <1>2, WorkAccepted, WorkStaysEnsured, PTL DEF Spec, Known

\* Nothing but UpdateStatusRunning records that phase.
LEMMA RunningRecorded ==
    ASSUME Known, [Next]_vars, RecordsRunning
    PROVE  \E m \in Managers : UpdateStatusRunning(m) /\ Lands(m)
<1>0. cr \in Resource
  BY DEF Known, TypeOK, ResourceOK
<1>1. ~UNCHANGED user
  BY DEF RecordsRunning, user
<1>2. ~EditSpec /\ ~DeleteResource
  BY <1>0 DEF RecordsRunning, EditSpec, DeleteResource, Publish, Resource
<1>3. ~Environment
  <2>1. ASSUME ThreeMinutesPass PROVE FALSE
    BY <2>1 DEF RecordsRunning, ThreeMinutesPass
  <2> QED
    BY <1>1, <1>2, <2>1
    DEF Environment, PodReady, PodUnready, PodRemoved, StatefulSetGone, PodsChange,
        NacosChanges, GarbageCollect
<1>4. PICK m \in Managers : Manager(m)
  BY <1>1, <1>3 DEF Next, vars
<1>5. ~(GlobalExceptHandle(m) /\ Reported(m) /\ Lands(m))
  <2>1. SUFFICES ASSUME GlobalExceptHandle(m), Reported(m), Lands(m) PROVE FALSE
    OBVIOUS
  <2>2. /\ cr'.status = HandledStatus(w[m].inst.status, w[m].err)
        /\ w[m].inst.status \in Status
    BY <1>0, <2>1, StoredStatus, CurrentGood, WriteTypes
    DEF GlobalExceptHandle, Known, TypeOK
  <2>3. HandledStatus(w[m].inst.status, w[m].err).phase \in {"Creating", "Failed"}
    BY <2>2 DEF HandledStatus, FailedStatus, Status
  <2> QED BY <2>2, <2>3 DEF RecordsRunning
<1> QED BY <1>1, <1>4, <1>5, OthersStutter

\* Phase Running is only ever recorded for the newest spec, after a quorum
\* of healthy members was found for it and with its other objects in place.
THEOREM RunningIsVerified == Spec => RunningVerified
<1> DEFINE Claim == /\ cr.live
                    /\ cr'.status.conds >= Quorum(cr.spec)
                    /\ \A k \in EnsureSet(cr.spec) \ {"sts"} : store[k] # NIL
<1>1. ASSUME Known, CopiesCurrent, Ensured, Verified, [Next]_vars, RecordsRunning
      PROVE  Claim
  <2>0. cr \in Resource
    BY <1>1 DEF Known, TypeOK, ResourceOK
  <2>1. PICK m \in Managers : UpdateStatusRunning(m) /\ Lands(m)
    BY <1>1, RunningRecorded
  <2>2. /\ w[m].pc = "running" /\ cr.live
        /\ SameResource(w[m].inst)
    BY <1>1, <2>1 DEF UpdateStatusRunning, Lands, CopiesCurrent
  <2>3. cr'.status.conds = w[m].inst.status.conds
    <3>1. cr'.status = RunningStatus(w[m].inst.status)
      BY <2>0, <2>1, StoredStatus DEF UpdateStatusRunning
    <3>2. w[m].inst.status \in Status
      BY <1>1, <2>2, CurrentGood, WriteTypes DEF Known, TypeOK
    <3> QED BY <3>1, <3>2 DEF RunningStatus, Status
  <2>4. EnsuredBy(w[m], store) /\ VerifiedBy(w[m])
    BY <1>1, <2>2 DEF Ensured, Verified
  <2> QED BY <2>2, <2>3, <2>4 DEF EnsuredBy, VerifiedBy, AllThere, SameResource
<1>2. Known /\ CopiesCurrent /\ Ensured /\ Verified /\ [Next]_vars =>
         [RecordsRunning => Claim]_vars
  BY <1>1
<1> QED
  BY <1>2, WorkAccepted, CopiesAreCurrent, WorkStaysEnsured, PTL
  DEF Spec, Known, RunningVerified, Claim
=============================================================================
