-------------------------- MODULE ReconcilerProofs --------------------------
(***************************************************************************)
(* The reconcile loop keeps the promises of NacosStatus, for any number of *)
(* managers, any specs and edits, any maximum of events and any number of  *)
(* faults.                                                                 *)
(*                                                                         *)
(* The inductive invariant is TypeOK /\ AcceptedFirst /\ CopiesCurrent: a  *)
(* verdict is computed from a copy of the resource, and it extends the     *)
(* stored log only because a copy that can still be written back is the    *)
(* stored resource.  It shows that every step is one of NacosStatus or     *)
(* leaves the status alone, and what NacosStatusProofs shows of NacosStatus*)
(* holds of the operator.  With Unseen it shows that no object is made for *)
(* a resource that has not been accepted.                                  *)
(***************************************************************************)
EXTENDS Reconciler, TLAPS

\* What PreCheck leaves behind: a reconcile under way works on a resource that
\* exists, and carries a code exactly when it is bound for the handler, the
\* code of acceptance exactly when its copy has no phase yet.
AcceptedFirst ==
    \A m \in Managers :
        w[m].pc # "idle" =>
            /\ w[m].inst \in Resource /\ w[m].inst.live
            /\ (w[m].pc = "handle") = (w[m].err # NIL)
            /\ (w[m].err = CODE_NORMAL) = (w[m].inst.status.phase = "")

\* What is known of a step of a reconcile on its own.
GoodStep(step) ==
    /\ step \in Worker
    /\ step.pc \in {"ensure", "apply"} => step.kind \in Kinds
    /\ step.pc # "idle" =>
          /\ step.inst \in Resource /\ step.inst.live
          /\ (step.pc = "handle") = (step.err # NIL)
          /\ (step.err = CODE_NORMAL) = (step.inst.status.phase = "")

SameCopy(a, b) ==
    /\ a.live = b.live /\ a.spec = b.spec
    /\ a.status.phase = b.status.phase /\ a.status.events = b.status.events

\* The next step of a reconcile: it ends, or it goes on with its copy.
Follows(m, step) ==
    /\ GoodStep(step)
    /\ Goto(m, step)
    /\ step.pc # "idle" => w[m].pc # "idle" /\ SameCopy(step.inst, w[m].inst)

\* The codes of the operator are neither nil nor each other.
LEMMA Distinct == /\ \A c \in Codes : c # NIL
                  /\ CODE_NORMAL \in Codes /\ CODE_NORMAL # NIL
                  /\ ErrorCodes \subseteq Codes /\ CODE_NORMAL \notin ErrorCodes
                  /\ {CODE_PARAMETER_ERROR, CODE_CLUSTER_FAILE, CODE_ERR_UNKNOW} \subseteq ErrorCodes
BY SpecsAssumption
DEF Codes, ErrorCodes, CODE_NORMAL, CODE_PARAMETER_ERROR, CODE_CLUSTER_FAILE, CODE_ERR_UNKNOW

\* A manager between two reconciles.
LEMMA IdleGood == GoodStep(Idle)
BY DEF GoodStep, Idle, Worker, PCs

\* What TypeOK and AcceptedFirst say of one manager.
LEMMA CurrentGood ==
    ASSUME WorkOK, AcceptedFirst, NEW m \in Managers
    PROVE  GoodStep(w[m])
BY DEF WorkOK, AcceptedFirst, GoodStep

\* A step of a reconcile that panics with a code.
LEMMA PanicFollows ==
    ASSUME NEW m \in Managers, GoodStep(w[m]), w[m].pc \notin {"idle", "handle"},
           NEW code \in ErrorCodes, Panic(m, code)
    PROVE  \E step : Follows(m, step)
<1> DEFINE step == [w[m] EXCEPT !.pc = "handle", !.err = code]
<1>1. /\ step \in Worker
      /\ step.pc = "handle" /\ step.err = code /\ step.inst = w[m].inst
  BY Distinct DEF GoodStep, Worker, PCs
<1>2. w[m].inst.status.phase # ""
  BY Distinct DEF GoodStep
<1>3. GoodStep(step)
  BY <1>1, <1>2, Distinct DEF GoodStep
<1> QED BY <1>1, <1>3 DEF Panic, Follows, SameCopy

\* A reconcile that ends.
LEMMA RequeueFollows ==
    ASSUME NEW m \in Managers, Goto(m, Idle)
    PROVE  \E step : Follows(m, step)
BY IdleGood DEF Follows, Idle

\* The ensures end, or go on with another kind.
LEMMA AfterKinds ==
    ASSUME NEW k \in Kinds, NEW s
    PROVE  After(k, s) \in Kinds \cup {NIL}
BY DEF After, Kinds

\* The reconcile goes on to the next ensure, or to the checks.
LEMMA NextStepFollows ==
    ASSUME NEW m \in Managers, GoodStep(w[m]), w[m].pc \in {"ensure", "apply"},
           Goto(m, NextStep(m))
    PROVE  \E step : Follows(m, step)
<1> DEFINE next == After(w[m].kind, w[m].inst.spec)
           pc == IF next = NIL THEN "checkKind" ELSE "ensure"
<1>1. next \in Kinds \cup {NIL}
  BY AfterKinds DEF GoodStep
<1>2. /\ NextStep(m) \in Worker
      /\ NextStep(m).pc = pc /\ NextStep(m).kind = next
      /\ NextStep(m).err = w[m].err /\ NextStep(m).inst = w[m].inst
  BY <1>1 DEF NextStep, GoodStep, Worker, PCs
<1>3. pc \notin {"idle", "handle"} /\ (pc \in {"ensure", "apply"} => next \in Kinds)
  BY <1>1
<1> HIDE DEF next, pc
<1>4. GoodStep(NextStep(m))
  BY <1>2, <1>3 DEF GoodStep
<1> QED BY <1>2, <1>4 DEF Follows, SameCopy

\* It does so, or an error ends it.
LEMMA ReplyFollows ==
    ASSUME NEW m \in Managers, GoodStep(w[m]), w[m].pc \in {"ensure", "apply"},
           Reply(m, NextStep(m))
    PROVE  \E step : Follows(m, step)
BY NextStepFollows, RequeueFollows DEF Reply, Requeue

\* An ensure's first call leads to its second.
LEMMA ApplyFollows ==
    ASSUME NEW m \in Managers, GoodStep(w[m]), w[m].pc = "ensure", NEW got \in Reads,
           Goto(m, [w[m] EXCEPT !.pc = "apply", !.got = got])
    PROVE  \E step : Follows(m, step)
<1> DEFINE step == [w[m] EXCEPT !.pc = "apply", !.got = got]
<1>1. /\ step \in Worker
      /\ step.pc = "apply" /\ step.kind = w[m].kind /\ step.err = w[m].err
      /\ step.inst = w[m].inst
  BY DEF GoodStep, Worker, PCs
<1>2. GoodStep(step)
  BY <1>1 DEF GoodStep
<1> QED BY <1>1, <1>2 DEF Follows, SameCopy

\* What the first read of an ensure decides.
LEMMA DecisionReads ==
    ASSUME NEW k, NEW s
    PROVE  Decision(k, s) \in Reads \cup {"none", "panic"}
BY DEF Decision, CheckSts, Reads

\* CheckNacos goes on with its copy, but for the conditions.
LEMMA ConditionsGood ==
    ASSUME NEW copy \in Resource, NEW n \in Nat
    PROVE  /\ [copy EXCEPT !.status.conds = n] \in Resource
           /\ SameCopy([copy EXCEPT !.status.conds = n], copy)
BY DEF Resource, Status, SameCopy

\* Every action of a running reconcile ends it or goes on with its copy.
Running(m) ==
    \/ BuildPanic(m) \/ UpdateConfigMap(m) \/ GetObject(m)
    \/ CreateObject(m) \/ UpdateObject(m) \/ DeleteStatefulSet(m)
    \/ CheckKind(m) \/ GetStatefulSetReadPod(m) \/ CheckNacos(m)
    \/ UpdateStatusRunning(m) \/ GlobalExceptHandle(m)
    \/ ApiError(m) \/ Restart(m)

\* Each of them does.
LEMMA RunningFollows ==
    ASSUME NEW m \in Managers, GoodStep(w[m]), ready \in Nat, Running(m)
    PROVE  \E step : Follows(m, step)
<1>1. CASE BuildPanic(m)
  BY <1>1, RequeueFollows DEF BuildPanic, Requeue
<1>2. CASE UpdateConfigMap(m)
  BY <1>2, ApplyFollows, ReplyFollows DEF UpdateConfigMap, Reads
<1>3. CASE GetObject(m)
  <2> DEFINE found == Decision(w[m].kind, w[m].inst.spec)
  <2>1. found \in Reads \cup {"none", "panic"}
    BY DecisionReads
  <2>2. CASE found = "panic"
    BY <1>3, <2>2, RequeueFollows DEF GetObject, Requeue
  <2>3. CASE found = "none"
    BY <1>3, <2>3, NextStepFollows DEF GetObject
  <2>4. CASE found \in Reads
    <3>1. w[m].pc = "ensure" /\ Goto(m, [w[m] EXCEPT !.pc = "apply", !.got = found])
      BY <1>3, <2>4 DEF GetObject, Reads
    <3> HIDE DEF found
    <3> QED BY <2>4, <3>1, ApplyFollows
  <2> QED BY <2>1, <2>2, <2>3, <2>4
<1>4. CASE CreateObject(m)
  BY <1>4, ReplyFollows, RequeueFollows DEF CreateObject, Requeue
<1>5. CASE UpdateObject(m)
  BY <1>5, ReplyFollows, RequeueFollows DEF UpdateObject, Requeue
<1>6. CASE DeleteStatefulSet(m)
  BY <1>6, ReplyFollows, RequeueFollows DEF DeleteStatefulSet, Requeue
<1>7. CASE CheckKind(m)
  <2> DEFINE step == [w[m] EXCEPT !.pc = "list"]
  <2>1. ASSUME Goto(m, step) PROVE \E new : Follows(m, new)
    <3>1. /\ step \in Worker
          /\ step.pc = "list" /\ step.err = w[m].err /\ step.inst = w[m].inst
      BY DEF GoodStep, Worker, PCs
    <3>2. GoodStep(step)
      BY <1>7, <3>1 DEF GoodStep, CheckKind
    <3> QED BY <1>7, <2>1, <3>1, <3>2 DEF Follows, SameCopy, CheckKind
  <2>2. w[m].pc \notin {"idle", "handle"} /\ CODE_ERR_UNKNOW \in ErrorCodes
    BY <1>7, Distinct DEF CheckKind
  <2> QED BY <1>7, <2>1, <2>2, PanicFollows, RequeueFollows DEF CheckKind, Requeue
<1>8. CASE GetStatefulSetReadPod(m)
  <2>1. PICK pods : /\ pods \in {0, ready}
                    /\ IF pods < Quorum(w[m].inst.spec)
                         THEN Panic(m, CODE_ERR_UNKNOW)
                         ELSE Goto(m, [w[m] EXCEPT !.pc = "checkNacos", !.pods = pods])
    BY <1>8 DEF GetStatefulSetReadPod
  <2>0. pods \in Nat
    BY <2>1
  <2> DEFINE step == [w[m] EXCEPT !.pc = "checkNacos", !.pods = pods]
  <2>2. ASSUME Goto(m, step) PROVE \E new : Follows(m, new)
    <3>1. /\ w[m] \in Worker
          /\ "checkNacos" \in PCs
      BY DEF GoodStep, PCs
    <3> HIDE DEF step
    <3>2. /\ step \in Worker
          /\ step.pc = "checkNacos" /\ step.err = w[m].err /\ step.inst = w[m].inst
      BY <2>0, <3>1 DEF Worker, step
    <3>3. GoodStep(step)
      BY <1>8, <3>2 DEF GoodStep, GetStatefulSetReadPod
    <3> QED BY <1>8, <2>2, <3>2, <3>3 DEF Follows, SameCopy, GetStatefulSetReadPod
  <2>3. w[m].pc \notin {"idle", "handle"} /\ CODE_ERR_UNKNOW \in ErrorCodes
    BY <1>8, Distinct DEF GetStatefulSetReadPod
  <2> QED BY <2>1, <2>2, <2>3, PanicFollows
<1>9. CASE CheckNacos(m)
  <2>1. w[m].pc = "checkNacos" /\ w[m].inst \in Resource /\ w[m].pods \in Nat
    BY <1>9 DEF CheckNacos, GoodStep, Worker
  <2>2. w[m].err = NIL /\ w[m].inst.status.phase # ""
    BY <2>1, Distinct DEF GoodStep
  <2>3. CASE Goto(m, [w[m] EXCEPT !.pc = "running", !.inst.status.conds = w[m].pods])
    <3> DEFINE step == [w[m] EXCEPT !.pc = "running", !.inst.status.conds = w[m].pods]
               copy == [w[m].inst EXCEPT !.status.conds = w[m].pods]
    <3>1. copy \in Resource /\ SameCopy(copy, w[m].inst)
      BY <2>1, ConditionsGood
    <3>2. /\ step.pc = "running" /\ step.err = w[m].err /\ step.inst = copy
          /\ step.kind = w[m].kind /\ step.got = w[m].got /\ step.pods = w[m].pods
      BY DEF GoodStep, Worker
    <3>3. step \in Worker
      BY <3>1, <3>2 DEF GoodStep, Worker, PCs
    <3>4. GoodStep(step)
      BY <2>1, <2>2, <3>1, <3>2, <3>3, Distinct DEF GoodStep, SameCopy
    <3> QED BY <2>1, <2>3, <3>1, <3>2, <3>4 DEF Follows
  <2>4. ASSUME NEW passed \in 0..(w[m].pods - 1),
               Goto(m, [w[m] EXCEPT !.pc = "handle", !.err = CODE_CLUSTER_FAILE,
                                    !.inst.status.conds = passed])
        PROVE  \E new : Follows(m, new)
    <3> DEFINE step == [w[m] EXCEPT !.pc = "handle", !.err = CODE_CLUSTER_FAILE,
                                    !.inst.status.conds = passed]
               copy == [w[m].inst EXCEPT !.status.conds = passed]
    <3>1. copy \in Resource /\ SameCopy(copy, w[m].inst)
      BY <2>1, ConditionsGood
    <3>2. /\ step.pc = "handle" /\ step.err = CODE_CLUSTER_FAILE /\ step.inst = copy
          /\ step.kind = w[m].kind /\ step.got = w[m].got /\ step.pods = w[m].pods
      BY DEF GoodStep, Worker
    <3>3. step \in Worker
      BY <3>1, <3>2, Distinct DEF GoodStep, Worker, PCs
    <3>4. GoodStep(step)
      BY <2>1, <2>2, <3>1, <3>2, <3>3, Distinct DEF GoodStep, SameCopy
    <3> QED BY <2>1, <2>4, <3>1, <3>2, <3>4 DEF Follows
  <2> QED BY <1>9, <2>3, <2>4 DEF CheckNacos
<1>10. CASE UpdateStatusRunning(m)
  BY <1>10, RequeueFollows DEF UpdateStatusRunning, Reply, Requeue
<1>11. CASE GlobalExceptHandle(m)
  BY <1>11, RequeueFollows DEF GlobalExceptHandle, Requeue
<1>12. CASE ApiError(m)
  BY <1>12, RequeueFollows DEF ApiError, Requeue
<1>13. CASE Restart(m)
  BY <1>13, RequeueFollows DEF Restart
<1> QED
  BY <1>1, <1>2, <1>3, <1>4, <1>5, <1>6, <1>7, <1>8, <1>9, <1>10, <1>11, <1>12, <1>13
  DEF Running

\* A reconcile that begins has the informer's copy.
LEMMA ReconcileBegins ==
    ASSUME NEW m \in Managers, cache \in [Managers -> Resource], Reconcile(m), cache[m].live
    PROVE  /\ Goto(m, Begin(cache[m]))
           /\ GoodStep(Begin(cache[m]))
           /\ Begin(cache[m]).pc # "idle"
           /\ Begin(cache[m]).inst = cache[m]
<1> DEFINE seen == cache[m]
           step == Begin(cache[m])
<1>0. SUFFICES step.inst = seen /\ GoodStep(step) /\ step.pc # "idle"
  BY DEF Reconcile
<1>1. seen \in Resource /\ seen.live /\ First(seen.spec) \in Kinds
  BY DEF First, Kinds
<1>2. CASE seen.status.phase = ""
  <2>1. step = [pc |-> "handle", inst |-> seen, kind |-> NIL, got |-> NIL,
                err |-> CODE_NORMAL, pods |-> 0]
    BY <1>2 DEF Begin, Idle
  <2>2. /\ step.pc = "handle" /\ step.inst = seen /\ step.err = CODE_NORMAL
        /\ step.kind = NIL
    BY <2>1
  <2>3. step \in Worker
    BY <1>1, <2>1, Distinct DEF Worker, PCs
  <2> HIDE DEF step
  <2> QED BY <1>1, <1>2, <2>2, <2>3, Distinct DEF GoodStep
<1>3. CASE seen.status.phase # "" /\ Mode(seen.spec) \notin {"standalone", "cluster"}
  <2>1. step = [pc |-> "handle", inst |-> seen, kind |-> NIL, got |-> NIL,
                err |-> CODE_PARAMETER_ERROR, pods |-> 0]
    BY <1>3 DEF Begin, Idle
  <2>2. /\ step.pc = "handle" /\ step.inst = seen /\ step.err = CODE_PARAMETER_ERROR
        /\ step.kind = NIL
    BY <2>1
  <2>3. step \in Worker
    BY <1>1, <2>1, Distinct DEF Worker, PCs
  <2> HIDE DEF step
  <2> QED BY <1>1, <1>3, <2>2, <2>3, Distinct DEF GoodStep
<1>4. CASE seen.status.phase # "" /\ Mode(seen.spec) \in {"standalone", "cluster"}
  <2>1. step = [pc |-> "ensure", inst |-> seen, kind |-> First(seen.spec), got |-> NIL,
                err |-> NIL, pods |-> 0]
    BY <1>4 DEF Begin, Idle
  <2>2. /\ step.pc = "ensure" /\ step.inst = seen /\ step.err = NIL
        /\ step.kind = First(seen.spec)
    BY <2>1
  <2>3. step \in Worker
    BY <1>1, <2>1, Distinct DEF Worker, PCs
  <2> HIDE DEF step
  <2> QED BY <1>1, <1>4, <2>2, <2>3, Distinct DEF GoodStep
<1> QED BY <1>2, <1>3, <1>4

-----------------------------------------------------------------------------
(***************************************************************************)
(* Type correctness, one part of TypeOK at a time.                         *)
(***************************************************************************)
\* A manager that takes a good step keeps the type of all work.
LEMMA GotoKeeps ==
    ASSUME WorkOK, AcceptedFirst, NEW m \in Managers, NEW step, GoodStep(step), Goto(m, step)
    PROVE  WorkOK' /\ AcceptedFirst'
<1>1. /\ w' \in [Managers -> Worker]
      /\ w'[m] = step
      /\ \A n \in Managers \ {m} : w'[n] = w[n]
  BY DEF WorkOK, Goto, GoodStep
<1>2. \A n \in Managers : GoodStep(w'[n])
  BY <1>1, CurrentGood
<1> QED BY <1>1, <1>2 DEF WorkOK, AcceptedFirst, GoodStep

\* No step breaks the type of the work, or gets past PreCheck unaccepted.
LEMMA WorkKept ==
    ASSUME TypeOK, AcceptedFirst, [Next]_vars
    PROVE  WorkOK' /\ AcceptedFirst'
<1> USE DEF TypeOK
<1>1. ASSUME NEW m \in Managers, Running(m) PROVE WorkOK' /\ AcceptedFirst'
  <2>1. PICK step : Follows(m, step)
    BY <1>1, CurrentGood, RunningFollows DEF WorldOK
  <2> QED BY <2>1, GotoKeeps DEF Follows
<1>2. ASSUME NEW m \in Managers, Reconcile(m) PROVE WorkOK' /\ AcceptedFirst'
  <2>1. CASE cache[m].live
    BY <1>2, <2>1, ReconcileBegins, GotoKeeps DEF CopiesOK
  <2>2. CASE ~cache[m].live
    BY <1>2, <2>2 DEF Reconcile, WorkOK, AcceptedFirst
  <2> QED BY <2>1, <2>2
<1>3. ASSUME UNCHANGED w PROVE WorkOK' /\ AcceptedFirst'
  BY <1>3 DEF WorkOK, AcceptedFirst
<1>4. ASSUME NEW m \in Managers, Deliver(m) \/ TimerFires(m) \/ Resync(m) PROVE UNCHANGED w
  BY <1>4 DEF Deliver, TimerFires, Resync, work
<1>5. ASSUME Environment PROVE UNCHANGED w
  BY <1>5
  DEF Environment, EditSpec, DeleteResource, ThreeMinutesPass, PodReady, PodUnready,
      PodRemoved, StatefulSetGone, PodsChange, NacosChanges, GarbageCollect, work
<1>6. CASE UNCHANGED vars
  BY <1>3, <1>6 DEF vars, work
<1> QED BY <1>1, <1>2, <1>3, <1>4, <1>5, <1>6 DEF Next, Manager, Work, Running

\* updateLastEvent leaves a log of events.
LEMMA UpdateRecords ==
    ASSUME NEW log \in Seq(Event), NEW code \in Codes, NEW status \in BOOLEAN
    PROVE  UpdateLastEvent(log, code, status) \in Seq(Event)
<1>1. Trim(log) \in Seq(Event)
  BY EventMaxAssumption DEF Trim
<1> DEFINE first == [code |-> code, status |-> FALSE]
           new == [code |-> code, status |-> status]
<1>2. first \in Event /\ new \in Event
  BY DEF Event
<1>3. << first >> \in Seq(Event) /\ Append(Trim(log), new) \in Seq(Event)
  <2> HIDE DEF first, new
  <2> QED
    BY <1>1, <1>2
<1> QED
  BY <1>1, <1>3, Zenon DEF UpdateLastEvent

\* The statuses the operator writes.
LEMMA WrittenStatus ==
    ASSUME NEW status \in Status
    PROVE  /\ RunningStatus(status) \in Status
           /\ \A code \in Codes : HandledStatus(status, code) \in Status
<1>1. /\ status.events \in Seq(Event) /\ status.conds \in Nat
      /\ TRUE \in BOOLEAN /\ FALSE \in BOOLEAN
  BY DEF Status
<1>2. RunningStatus(status) \in Status
  <2>1. UpdateLastEvent(status.events, CODE_NORMAL, TRUE) \in Seq(Event)
    BY <1>1, UpdateRecords, Distinct
  <2> QED BY <2>1 DEF RunningStatus, Status, Phases
<1>3. ASSUME NEW code \in Codes PROVE HandledStatus(status, code) \in Status
  <2>1. UpdateLastEvent(status.events, code, FALSE) \in Seq(Event)
    BY <1>1, UpdateRecords
  <2> QED BY <2>1 DEF HandledStatus, FailedStatus, Status, Phases
<1> QED BY <1>2, <1>3

\* A status is written by the two actions that end a reconcile, and it is
\* built from the copy of that reconcile.
LEMMA WriteTypes ==
    ASSUME NEW m \in Managers, GoodStep(w[m]), w[m].pc # "idle"
    PROVE  /\ w[m].inst.status \in Status
           /\ RunningStatus(w[m].inst.status) \in Status
           /\ w[m].pc = "handle" => HandledStatus(w[m].inst.status, w[m].err) \in Status
<1>1. w[m].inst.status \in Status
  BY DEF GoodStep, Resource
<1>2. w[m].pc = "handle" => w[m].err \in Codes
  BY DEF GoodStep, Worker
<1> QED BY <1>1, <1>2, WrittenStatus

\* A stored status leaves a resource.
LEMMA StoreStatusTypes ==
    ASSUME cr \in Resource, NEW new \in Status, StoreStatus(new)
    PROVE  cr' \in Resource
BY DEF StoreStatus, Publish, Resource

\* The number of upsets stays in its bound.
LEMMA FaultCounts ==
    ASSUME upsets \in 0..MaxUpsets, NEW what, Upset(what)
    PROVE  upsets' \in 0..MaxUpsets
BY SpecsAssumption DEF Upset

\* The resource keeps its type.
LEMMA ResourceKept ==
    ASSUME TypeOK, AcceptedFirst, [Next]_vars
    PROVE  ResourceOK'
<1> USE DEF TypeOK, ResourceOK
<1>1. ASSUME UNCHANGED user, UNCHANGED upsets \/ Fault PROVE ResourceOK'
  BY <1>1, FaultCounts DEF user, Fault
<1>2. ASSUME NEW m \in Managers, Manager(m),
             ~UpdateStatusRunning(m), ~GlobalExceptHandle(m)
      PROVE  UNCHANGED user /\ (UNCHANGED upsets \/ Fault)
  BY <1>2
  DEF Manager, Work, Reconcile, BuildPanic, UpdateConfigMap, GetObject, CreateObject,
      UpdateObject, DeleteStatefulSet, CheckKind, GetStatefulSetReadPod, CheckNacos,
      Deliver, TimerFires, Resync, ApiError, Restart, Reply
<1>3. ASSUME NEW m \in Managers, UpdateStatusRunning(m) PROVE ResourceOK'
  <2>1. RunningStatus(w[m].inst.status) \in Status
    BY <1>3, CurrentGood, WriteTypes DEF UpdateStatusRunning
  <2>2. cr' \in Resource
    BY <1>3, <2>1, StoreStatusTypes DEF UpdateStatusRunning
  <2>3. UNCHANGED overdue /\ (UNCHANGED upsets \/ Fault)
    BY <1>3 DEF UpdateStatusRunning, Reply
  <2> QED BY <2>2, <2>3, FaultCounts DEF Fault
<1>4. ASSUME NEW m \in Managers, GlobalExceptHandle(m) PROVE ResourceOK'
  <2>1. HandledStatus(w[m].inst.status, w[m].err) \in Status
    BY <1>4, CurrentGood, WriteTypes DEF GlobalExceptHandle
  <2>2. cr' \in Resource
    BY <1>4, <2>1, StoreStatusTypes DEF GlobalExceptHandle
  <2> QED BY <1>4, <2>2 DEF GlobalExceptHandle
<1>5. CASE EditSpec
  <2>1. PICK edit \in Edits : Publish([cr EXCEPT !.spec = edit[2]])
    BY <1>5 DEF EditSpec
  <2>2. edit[2] \in Specs
    BY <2>1, SpecsAssumption
  <2> QED BY <1>5, <2>1, <2>2, FaultCounts DEF EditSpec, Publish, Resource
<1>6. CASE DeleteResource
  BY <1>6, FaultCounts DEF DeleteResource, Publish, Resource
<1>7. CASE ThreeMinutesPass
  BY <1>7 DEF ThreeMinutesPass
<1>8. ASSUME Environment, ~EditSpec, ~DeleteResource, ~ThreeMinutesPass
      PROVE  UNCHANGED user /\ UNCHANGED upsets
  BY <1>8
  DEF Environment, PodReady, PodUnready, PodRemoved, StatefulSetGone, PodsChange,
      NacosChanges, GarbageCollect
<1>9. CASE UNCHANGED vars
  BY <1>9 DEF vars, user
<1> QED BY <1>1, <1>2, <1>3, <1>4, <1>5, <1>6, <1>7, <1>8, <1>9 DEF Next

\* An ensured object is built from a spec of the user's.
LEMMA PutTypes ==
    ASSUME WorldOK, NEW k \in Kinds, NEW x,
           x = NIL \/ \E s \in Specs : x = Render(k, s),
           Put(k, x)
    PROVE  /\ DOMAIN store' = Kinds
           /\ \A i \in Kinds : store'[i] \in {NIL} \cup {Render(i, s) : s \in Specs}
           /\ store'["sts"] # NIL => store'["sts"].replicas \in Nat
<1>1. /\ DOMAIN store' = Kinds
      /\ store'[k] = x
      /\ \A i \in Kinds \ {k} : store'[i] = store[i]
  BY DEF WorldOK, Put
<1>2. ASSUME NEW s \in Specs PROVE Render("sts", s).replicas \in Nat
  BY SpecsAssumption DEF Render, RenderSts
<1>3. "sts" \in Kinds
  BY DEF Kinds
<1> QED BY <1>1, <1>2, <1>3 DEF WorldOK

\* What the operator does to the objects, and what it leaves alone.
LEMMA OperatorWrites ==
    ASSUME TypeOK, AcceptedFirst, NEW m \in Managers, Manager(m)
    PROVE  /\ \/ UNCHANGED store
              \/ \E k \in Kinds : \E s \in Specs : Put(k, Render(k, s))
           /\ terminating' \in {terminating, TRUE}
           /\ UNCHANGED <<ready, nacos>>
<1>1. w[m].pc # "idle" => w[m].inst.spec \in Specs
  BY DEF AcceptedFirst, Resource
<1>2. w[m].pc \in {"ensure", "apply"} => w[m].kind \in Kinds
  BY DEF TypeOK, WorkOK
<1>3. CASE UpdateConfigMap(m)
  BY <1>1, <1>2, <1>3 DEF UpdateConfigMap
<1>4. CASE CreateObject(m)
  BY <1>1, <1>2, <1>4 DEF CreateObject
<1>5. CASE UpdateObject(m)
  BY <1>1, <1>2, <1>5 DEF UpdateObject
<1>6. CASE DeleteStatefulSet(m)
  BY <1>6 DEF DeleteStatefulSet
<1>7. CASE BuildPanic(m) \/ Reconcile(m) \/ GetObject(m)
  BY <1>7 DEF BuildPanic, Reconcile, GetObject, world
<1>8. CASE CheckKind(m) \/ GetStatefulSetReadPod(m) \/ CheckNacos(m)
  BY <1>8 DEF CheckKind, GetStatefulSetReadPod, CheckNacos, world
<1>9. CASE UpdateStatusRunning(m) \/ GlobalExceptHandle(m)
  BY <1>9 DEF UpdateStatusRunning, GlobalExceptHandle, world
<1>10. CASE Deliver(m) \/ TimerFires(m) \/ Resync(m) \/ ApiError(m) \/ Restart(m)
  BY <1>10 DEF Deliver, TimerFires, Resync, ApiError, Restart, world
<1> QED BY <1>3, <1>4, <1>5, <1>6, <1>7, <1>8, <1>9, <1>10 DEF Manager, Work

\* The objects and the pods keep their types.
LEMMA WorldKept ==
    ASSUME TypeOK, AcceptedFirst, [Next]_vars
    PROVE  WorldOK'
<1>0. WorldOK
  BY DEF TypeOK
<1>1. ASSUME NEW m \in Managers, Manager(m) PROVE WorldOK'
  <2>1. /\ terminating' \in BOOLEAN /\ UNCHANGED <<ready, nacos>>
        /\ UNCHANGED store \/ \E k \in Kinds : \E s \in Specs : Put(k, Render(k, s))
    BY <1>0, <1>1, OperatorWrites DEF WorldOK
  <2>2. CASE UNCHANGED store
    BY <1>0, <2>1, <2>2 DEF WorldOK
  <2>3. ASSUME NEW k \in Kinds, NEW s \in Specs, Put(k, Render(k, s)) PROVE WorldOK'
    BY <1>0, <2>1, <2>3, PutTypes DEF WorldOK
  <2> QED BY <2>1, <2>2, <2>3
<1>2. ASSUME UNCHANGED <<store, terminating>>, ready' \in Nat, nacos' \in Answers
      PROVE  WorldOK'
  BY <1>0, <1>2 DEF WorldOK
<1>3. CASE EditSpec \/ DeleteResource \/ ThreeMinutesPass
  BY <1>0, <1>2, <1>3 DEF EditSpec, DeleteResource, ThreeMinutesPass, WorldOK, world
<1>4. CASE PodReady \/ PodUnready \/ PodRemoved
  <2>1. ready' \in Nat /\ UNCHANGED <<store, terminating, nacos>>
    BY <1>0, <1>4 DEF PodReady, PodUnready, PodRemoved, PodsChange, WorldOK
  <2> QED BY <1>0, <1>2, <2>1 DEF WorldOK
<1>5. ASSUME NEW k \in Kinds, Put(k, NIL), terminating' \in BOOLEAN, ready' \in Nat,
             UNCHANGED nacos
      PROVE  WorldOK'
  BY <1>0, <1>5, PutTypes DEF WorldOK
<1>6. CASE StatefulSetGone
  <2>1. "sts" \in Kinds
    BY DEF Kinds
  <2>2. /\ Put("sts", NIL) /\ terminating' \in BOOLEAN /\ ready' \in Nat
        /\ UNCHANGED nacos
    BY <1>6 DEF StatefulSetGone, PodsChange
  <2> QED BY <1>5, <2>1, <2>2
<1>7. ASSUME NEW k \in Kinds, GarbageCollect(k) PROVE WorldOK'
  <2>1. /\ Put(k, NIL) /\ terminating' \in BOOLEAN /\ ready' \in Nat
        /\ UNCHANGED nacos
    <3>1. /\ Put(k, NIL) /\ UNCHANGED nacos
          /\ IF k = "sts"
               THEN terminating' = FALSE /\ ready' = 0
               ELSE UNCHANGED <<terminating, ready>>
      BY <1>7 DEF GarbageCollect
    <3>2. terminating' \in BOOLEAN
      BY <1>0, <3>1, Zenon DEF WorldOK
    <3>3. ready' \in Nat
      BY <1>0, <3>1 DEF WorldOK
    <3> QED BY <3>1, <3>2, <3>3
  <2> QED BY <1>5, <2>1
<1>8. CASE NacosChanges
  BY <1>0, <1>2, <1>8 DEF NacosChanges, WorldOK, Answers
<1>9. CASE UNCHANGED vars
  BY <1>0, <1>2, <1>9 DEF WorldOK, vars, world
<1> QED BY <1>1, <1>3, <1>4, <1>6, <1>7, <1>8, <1>9 DEF Next, Environment

\* The informers and the work queues keep their types.
LEMMA CopiesKept ==
    ASSUME TypeOK, AcceptedFirst, [Next]_vars
    PROVE  CopiesOK'
<1> USE DEF CopiesOK
<1>0. CopiesOK /\ cr \in Resource
  BY DEF TypeOK, ResourceOK
<1>1. ASSUME NEW m \in Managers, Deliver(m) \/ TimerFires(m) \/ Resync(m) \/ Restart(m)
      PROVE  CopiesOK'
  <2>1. CASE Deliver(m)
    BY <1>0, <2>1 DEF Deliver, work
  <2>2. CASE TimerFires(m) \/ Resync(m)
    BY <1>0, <2>2 DEF TimerFires, Resync, copies, work
  <2>3. CASE Restart(m)
    BY <1>0, <2>3 DEF Restart
  <2> QED BY <1>1, <2>1, <2>2, <2>3
<1>2. ASSUME NEW m \in Managers, Reconcile(m) PROVE CopiesOK'
  BY <1>0, <1>2 DEF Reconcile, copies
<1>3. ASSUME NEW m \in Managers,
             \/ UpdateConfigMap(m) \/ CreateObject(m) \/ UpdateObject(m)
             \/ DeleteStatefulSet(m)
      PROVE  CopiesOK'
  BY <1>0, <1>3
  DEF UpdateConfigMap, CreateObject, UpdateObject, DeleteStatefulSet, Reply, Requeue,
      ObjectChanges, StsChanges, copies
<1>4. ASSUME NEW m \in Managers,
             \/ BuildPanic(m) \/ GetObject(m) \/ CheckKind(m) \/ ApiError(m)
             \/ GetStatefulSetReadPod(m) \/ CheckNacos(m)
      PROVE  CopiesOK'
  BY <1>0, <1>4
  DEF BuildPanic, GetObject, CheckKind, GetStatefulSetReadPod, CheckNacos, ApiError,
      Requeue, copies, queue
<1>5. ASSUME NEW m \in Managers, UpdateStatusRunning(m) \/ GlobalExceptHandle(m)
      PROVE  CopiesOK'
  BY <1>0, <1>5
  DEF UpdateStatusRunning, GlobalExceptHandle, StoreStatus, Publish, Reply, Requeue
<1>6. ASSUME Environment PROVE CopiesOK'
  BY <1>0, <1>6
  DEF Environment, EditSpec, DeleteResource, ThreeMinutesPass, PodReady, PodUnready,
      PodRemoved, StatefulSetGone, PodsChange, NacosChanges, GarbageCollect, Publish,
      ObjectChanges, StsChanges, copies, queue, work
<1>7. CASE UNCHANGED vars
  BY <1>0, <1>7 DEF vars, copies, queue, work
<1> QED BY <1>1, <1>2, <1>3, <1>4, <1>5, <1>6, <1>7 DEF Next, Manager, Work

-----------------------------------------------------------------------------
(***************************************************************************)
(* Copies: what the API server still accepts is the newest resource.       *)
(***************************************************************************)

\* The reconcile of m goes on; nothing is written and nothing is delivered.
LEMMA FollowsKeepsCurrent ==
    ASSUME WorkOK, CopiesCurrent, NEW m \in Managers, NEW step, Follows(m, step),
           UNCHANGED <<cr, cache, behind, stale>>
    PROVE  CopiesCurrent'
<1>1. w' = [w EXCEPT ![m] = step] /\ w \in [Managers -> Worker]
  BY DEF Follows, Goto, WorkOK
<1>2. w'[m] = step /\ \A n \in Managers \ {m} : w'[n] = w[n]
  BY <1>1
<1>3. ASSUME NEW n \in Managers PROVE n \notin behind' => cache'[n] = cr'
  BY DEF CopiesCurrent
<1>4. ASSUME NEW n \in Managers, w'[n].pc # "idle", n \notin stale'
      PROVE  SameResource(w[n].inst) /\ SameCopy(w'[n].inst, w[n].inst)
  <2>1. CASE n = m
    BY <1>2, <1>4, <2>1 DEF CopiesCurrent, Follows
  <2>2. CASE n # m
    BY <1>2, <1>4, <2>2 DEF CopiesCurrent, SameCopy
  <2> QED BY <2>1, <2>2
<1> QED BY <1>3, <1>4 DEF CopiesCurrent, SameResource, SameCopy

\* A new version outdates every copy that was made before it.
LEMMA PublishKeepsCurrent ==
    ASSUME WorkOK, NEW new, Publish(new),
           UNCHANGED w \/ \E m \in Managers : Goto(m, Idle)
    PROVE  CopiesCurrent'
<1>1. \A n \in Managers : w'[n].pc # "idle" => w[n].pc # "idle"
  <2>1. CASE UNCHANGED w
    BY <2>1
  <2>2. ASSUME NEW m \in Managers, Goto(m, Idle)
        PROVE  \A n \in Managers : w'[n].pc # "idle" => w[n].pc # "idle"
    <3>1. w'[m] = Idle /\ \A n \in Managers \ {m} : w'[n] = w[n]
      BY <2>2 DEF Goto, WorkOK
    <3> QED BY <3>1 DEF Idle
  <2> QED BY <2>1, <2>2
<1> QED BY <1>1 DEF Publish, CopiesCurrent

\* Writing a status outdates the other copies, or changes nothing.
LEMMA StoreKeepsCurrent ==
    ASSUME WorkOK, CopiesCurrent, cache \in [Managers -> Resource],
           NEW m \in Managers, Goto(m, Idle), UNCHANGED cache,
           \/ \E new : StoreStatus(new)
           \/ UNCHANGED <<cr, behind, stale>>
    PROVE  CopiesCurrent'
<1>1. ASSUME NEW new, Publish(new) PROVE CopiesCurrent'
  BY <1>1, PublishKeepsCurrent
<1>2. ASSUME UNCHANGED <<cr, behind, stale>> PROVE CopiesCurrent'
  <2>1. Follows(m, Idle)
    BY IdleGood DEF Follows, Idle
  <2> QED BY <1>2, <2>1, FollowsKeepsCurrent
<1> QED BY <1>1, <1>2 DEF StoreStatus

\* No step leaves a copy acceptable that is not the stored resource.
LEMMA CopiesStayCurrent ==
    ASSUME TypeOK, AcceptedFirst, CopiesCurrent, [Next]_vars
    PROVE  CopiesCurrent'
<1>0. WorkOK /\ cache \in [Managers -> Resource] /\ ready \in Nat
  BY DEF TypeOK, CopiesOK, WorldOK
<1>1. ASSUME NEW m \in Managers, Running(m), UNCHANGED <<cr, cache, behind, stale>>
      PROVE  CopiesCurrent'
  <2>1. PICK step : Follows(m, step)
    BY <1>0, <1>1, CurrentGood, RunningFollows
  <2> QED BY <1>0, <1>1, <2>1, FollowsKeepsCurrent
<1>2. ASSUME NEW m \in Managers,
             \/ BuildPanic(m) \/ UpdateConfigMap(m) \/ GetObject(m)
             \/ CreateObject(m) \/ UpdateObject(m) \/ DeleteStatefulSet(m)
             \/ CheckKind(m) \/ GetStatefulSetReadPod(m) \/ CheckNacos(m) \/ ApiError(m)
      PROVE  UNCHANGED <<cr, cache, behind, stale>>
  BY <1>2
  DEF BuildPanic, UpdateConfigMap, GetObject, CreateObject, UpdateObject, DeleteStatefulSet,
      CheckKind, GetStatefulSetReadPod, CheckNacos, ApiError, user, copies
<1>3. ASSUME NEW m \in Managers, UpdateStatusRunning(m) \/ GlobalExceptHandle(m)
      PROVE  CopiesCurrent'
  <2>1. /\ Goto(m, Idle) /\ UNCHANGED cache
        /\ (\E new : StoreStatus(new)) \/ UNCHANGED <<cr, behind, stale>>
    BY <1>3 DEF UpdateStatusRunning, GlobalExceptHandle, Reply, Requeue
  <2> QED BY <1>0, <2>1, StoreKeepsCurrent
<1>4. ASSUME NEW m \in Managers, Reconcile(m) PROVE CopiesCurrent'
  <2>1. CASE cache[m].live
    <3>1. /\ Goto(m, Begin(cache[m]))
          /\ Begin(cache[m]).inst = cache[m]
          /\ GoodStep(Begin(cache[m]))
      BY <1>0, <1>4, <2>1, ReconcileBegins
    <3>2. /\ w'[m].inst = cache[m]
          /\ \A n \in Managers \ {m} : w'[n] = w[n]
      BY <1>0, <3>1 DEF Goto, WorkOK
    <3>3. /\ UNCHANGED <<cr, cache, behind>>
          /\ stale' = IF m \in behind THEN stale \cup {m} ELSE stale \ {m}
      BY <1>4, <2>1 DEF Reconcile, user, copies
    <3> QED BY <3>2, <3>3 DEF CopiesCurrent, SameResource
  <2>2. CASE ~cache[m].live
    BY <1>4, <2>2 DEF Reconcile, user, copies, CopiesCurrent, SameResource
  <2> QED BY <2>1, <2>2
<1>5. ASSUME NEW m \in Managers, Deliver(m) PROVE CopiesCurrent'
  BY <1>0, <1>5 DEF Deliver, user, work, CopiesCurrent, SameResource
<1>6. ASSUME NEW m \in Managers, Restart(m) PROVE CopiesCurrent'
  <2>1. /\ w'[m].pc = "idle"
        /\ \A n \in Managers \ {m} : w'[n] = w[n]
    BY <1>0, <1>6 DEF Restart, Goto, WorkOK, Idle
  <2>2. /\ cache' = [cache EXCEPT ![m] = cr] /\ behind' = behind \ {m}
        /\ UNCHANGED <<cr, stale>>
    BY <1>6 DEF Restart, user
  <2> QED BY <1>0, <2>1, <2>2 DEF CopiesCurrent, SameResource
<1>7. ASSUME UNCHANGED <<cr, cache, behind, w, stale>> PROVE CopiesCurrent'
  BY <1>7 DEF CopiesCurrent, SameResource
<1>8. ASSUME NEW m \in Managers, TimerFires(m) \/ Resync(m) PROVE CopiesCurrent'
  BY <1>7, <1>8 DEF TimerFires, Resync, user, copies, work
<1>9. CASE EditSpec \/ DeleteResource
  BY <1>0, <1>9, PublishKeepsCurrent DEF EditSpec, DeleteResource
<1>10. ASSUME Environment, ~EditSpec, ~DeleteResource PROVE CopiesCurrent'
  BY <1>7, <1>10
  DEF Environment, ThreeMinutesPass, PodReady, PodUnready, PodRemoved, StatefulSetGone,
      PodsChange, NacosChanges, GarbageCollect, user, copies, work
<1>11. CASE UNCHANGED vars
  BY <1>7, <1>11 DEF vars, user, copies, work
<1> QED
  BY <1>1, <1>2, <1>3, <1>4, <1>5, <1>6, <1>8, <1>9, <1>10, <1>11
  DEF Next, Manager, Work, Running

-----------------------------------------------------------------------------
(***************************************************************************)
(* Refinement: every step is a step of NacosStatus or leaves it alone.     *)
(***************************************************************************)

\* The log of the promise is the log of the status.
LEMMA PromiseLog ==
    ASSUME NEW events, NEW code, NEW status
    PROVE  Promise!UpdateLastEvent(events, code, status) = UpdateLastEvent(events, code, status)
BY DEF Promise!UpdateLastEvent, Promise!Trim, Promise!Newest, UpdateLastEvent, Trim, Newest

\* A status that is written is the new status.
LEMMA StoredStatus ==
    ASSUME cr \in Resource, NEW new, StoreStatus(new)
    PROVE  cr'.status = new
BY DEF StoreStatus, Publish, Resource

\* What a write that lands is based on.
LEMMA LandedCopy ==
    ASSUME TypeOK, AcceptedFirst, CopiesCurrent,
           NEW m \in Managers, w[m].pc # "idle", Lands(m)
    PROVE  /\ w[m].inst \in Resource
           /\ w[m].inst.status.phase = cr.status.phase
           /\ w[m].inst.status.events = cr.status.events
           /\ (w[m].pc = "handle") = (w[m].err # NIL)
           /\ (w[m].err = CODE_NORMAL) = (cr.status.phase = "")
BY DEF AcceptedFirst, CopiesCurrent, Lands, SameResource

\* A success that lands is a success of the promise.
LEMMA RunningSucceeds ==
    ASSUME TypeOK, AcceptedFirst, CopiesCurrent,
           NEW m \in Managers, UpdateStatusRunning(m), Lands(m)
    PROVE  Promise!Succeed
<1> DEFINE status == w[m].inst.status
<1>1. w[m].pc = "running" /\ StoreStatus(RunningStatus(status)) /\ UNCHANGED overdue
  BY DEF UpdateStatusRunning
<1>2. /\ status \in Status
      /\ status.events = cr.status.events
      /\ cr.status.phase # ""
  BY <1>1, LandedCopy, Distinct DEF Resource
<1>3. cr'.status = RunningStatus(status)
  BY <1>1, StoredStatus DEF TypeOK, ResourceOK
<1>4. /\ cr'.status.phase = "Running"
      /\ cr'.status.events = UpdateLastEvent(cr.status.events, CODE_NORMAL, TRUE)
  BY <1>2, <1>3 DEF RunningStatus, Status
<1> QED
  BY <1>1, <1>2, <1>4, PromiseLog DEF Promise!Succeed, Promise!CODE_NORMAL, CODE_NORMAL

\* A verdict of the handler that lands accepts the resource or reports a
\* failure, and not before it may.
LEMMA HandlerReports ==
    ASSUME TypeOK, AcceptedFirst, CopiesCurrent,
           NEW m \in Managers, GlobalExceptHandle(m), Reported(m), Lands(m)
    PROVE  Promise!Accept \/ \E code \in Promise!ErrorCodes : Promise!Fail(code)
<1> DEFINE status == w[m].inst.status
           code == w[m].err
<1>1. w[m].pc = "handle" /\ StoreStatus(HandledStatus(status, code)) /\ UNCHANGED overdue
  BY DEF GlobalExceptHandle
<1>2. /\ status \in Status
      /\ status.phase = cr.status.phase /\ status.events = cr.status.events
      /\ code # NIL
      /\ (code = CODE_NORMAL) = (cr.status.phase = "")
  BY <1>1, LandedCopy DEF Resource
<1>3. cr'.status = HandledStatus(status, code)
  BY <1>1, StoredStatus DEF TypeOK, ResourceOK
<1>4. code \in Codes
  BY <1>2 DEF TypeOK, WorkOK, Worker
<1>5. CASE code = CODE_NORMAL
  <2>1. cr'.status.phase = "Creating" /\ cr'.status.events = cr.status.events
    BY <1>2, <1>3, <1>5 DEF HandledStatus, Status
  <2> QED BY <1>1, <1>2, <1>5, <2>1 DEF Promise!Accept
<1>6. CASE code # CODE_NORMAL
  <2>1. /\ cr'.status.phase = "Failed"
        /\ cr'.status.events = UpdateLastEvent(cr.status.events, code, FALSE)
    BY <1>2, <1>3, <1>6 DEF HandledStatus, FailedStatus, Status
  <2>2. code \in Promise!ErrorCodes
    BY <1>4, <1>6
    DEF Promise!ErrorCodes, Promise!Codes, Promise!CODE_NORMAL, Promise!CODE_PARAMETER_ERROR,
        Promise!CODE_CLUSTER_FAILE, Promise!CODE_ERR_UNKNOW, Codes, CODE_NORMAL,
        CODE_PARAMETER_ERROR, CODE_CLUSTER_FAILE, CODE_ERR_UNKNOW
  <2>3. cr.status.phase \in {"Running", "Failed"} \/ (cr.status.phase = "Creating" /\ overdue)
    BY <1>2, <1>6 DEF Reported, Status, Phases
  <2>4. Promise!Fail(code)
    BY <1>1, <2>1, <2>3, PromiseLog DEF Promise!Fail
  <2> QED BY <2>2, <2>4
<1> QED BY <1>5, <1>6

\* Every other step of a manager leaves the status alone.
LEMMA OthersStutter ==
    ASSUME NEW m \in Managers, Manager(m),
           ~(UpdateStatusRunning(m) /\ Lands(m)),
           ~(GlobalExceptHandle(m) /\ Reported(m) /\ Lands(m))
    PROVE  UNCHANGED user
<1>1. ASSUME UpdateStatusRunning(m) PROVE UNCHANGED user
  BY <1>1 DEF UpdateStatusRunning, user
<1>2. ASSUME GlobalExceptHandle(m) PROVE UNCHANGED user
  BY <1>2 DEF GlobalExceptHandle, user
<1>3. ASSUME ~UpdateStatusRunning(m), ~GlobalExceptHandle(m) PROVE UNCHANGED user
  BY <1>3
  DEF Manager, Work, Reconcile, BuildPanic, UpdateConfigMap, GetObject, CreateObject,
      UpdateObject, DeleteStatefulSet, CheckKind, GetStatefulSetReadPod, CheckNacos,
      Deliver, TimerFires, Resync, ApiError, Restart
<1> QED BY <1>1, <1>2, <1>3

\* The steps of the user and of the cluster.
LEMMA EnvironmentStutters ==
    ASSUME cr \in Resource, Environment
    PROVE  Promise!Expire \/ UNCHANGED Promise!vars
<1> USE DEF Promise!vars
<1>1. CASE EditSpec \/ DeleteResource
  <2>1. cr'.status = cr.status /\ UNCHANGED overdue
    BY <1>1 DEF EditSpec, DeleteResource, Publish, Resource
  <2> QED BY <2>1
<1>2. CASE ThreeMinutesPass
  BY <1>2 DEF ThreeMinutesPass, Promise!Expire
<1>3. ASSUME ~EditSpec, ~DeleteResource, ~ThreeMinutesPass PROVE UNCHANGED user
  BY <1>3
  DEF Environment, PodReady, PodUnready, PodRemoved, StatefulSetGone, PodsChange,
      NacosChanges, GarbageCollect
<1> QED BY <1>1, <1>2, <1>3 DEF user

-----------------------------------------------------------------------------
(***************************************************************************)
(* The theorems.                                                           *)
(***************************************************************************)

\* The first state.
LEMMA TypeInit == Init => TypeOK /\ AcceptedFirst
<1> SUFFICES ASSUME Init PROVE TypeOK /\ AcceptedFirst
  OBVIOUS
<1>1. cr \in Resource
  <2>1. << >> \in Seq(Event) /\ 0 \in Nat /\ TRUE \in BOOLEAN
    OBVIOUS
  <2>2. PICK s \in Specs :
          cr = [live |-> TRUE, spec |-> s,
                status |-> [phase |-> "", events |-> << >>, conds |-> 0]]
    BY DEF Init
  <2>3. [phase |-> "", events |-> << >>, conds |-> 0] \in Status
    BY <2>1 DEF Status, Phases
  <2> QED BY <2>1, <2>2, <2>3 DEF Resource
<1>2. ResourceOK
  <2>1. 0 \in 0..MaxUpsets
    BY SpecsAssumption
  <2> QED BY <1>1, <2>1 DEF Init, ResourceOK
<1>3. WorldOK
  BY DEF Init, WorldOK, Kinds, Answers
<1>4. CopiesOK
  BY <1>1 DEF Init, CopiesOK
<1>5. \A m \in Managers : w[m] = Idle
  BY DEF Init
<1>6. Idle.pc = "idle" /\ Idle \in Worker
  BY IdleGood DEF GoodStep, Idle
<1>7. WorkOK /\ AcceptedFirst
  BY <1>5, <1>6 DEF Init, WorkOK, AcceptedFirst
<1> QED BY <1>2, <1>3, <1>4, <1>7 DEF TypeOK

\* No reconcile gets past PreCheck with a copy that has no phase.
LEMMA WorkAccepted == Spec => [](TypeOK /\ AcceptedFirst)
<1>1. TypeOK /\ AcceptedFirst /\ [Next]_vars => TypeOK' /\ AcceptedFirst'
  BY ResourceKept, WorldKept, CopiesKept, WorkKept DEF TypeOK
<1> QED BY <1>1, TypeInit, PTL DEF Spec

\* Every variable keeps its type, for any number of managers and any specs:
\* the stored objects are ones the operator builds, and the StatefulSet has a
\* number of replicas even when the spec has none.
THEOREM TypeCorrect == Spec => []TypeOK
BY WorkAccepted, PTL

\* A copy the API server would still accept is the stored resource, for any
\* number of managers: this is what the optimistic locking is for.
THEOREM CopiesAreCurrent == Spec => []CopiesCurrent
<1>1. Init => CopiesCurrent
  <2>1. ASSUME Init, NEW m \in Managers PROVE w[m] = Idle /\ cache[m] = cr
    BY <2>1 DEF Init
  <2> QED BY <2>1 DEF CopiesCurrent, Idle
<1>2. TypeOK /\ AcceptedFirst /\ CopiesCurrent /\ [Next]_vars => CopiesCurrent'
  BY CopiesStayCurrent
<1> QED BY <1>1, <1>2, WorkAccepted, PTL DEF Spec

\* The operator implements NacosStatus: whatever the managers, the user and
\* the cluster do, the stored phase and events change only as promised.
THEOREM StatusRefined == Spec => StatusRefines
<1>1. Init => Promise!Init
  <2> SUFFICES ASSUME Init PROVE Promise!Init
    OBVIOUS
  <2>1. PICK s \in Specs :
          cr = [live |-> TRUE, spec |-> s,
                status |-> [phase |-> "", events |-> << >>, conds |-> 0]]
    BY DEF Init
  <2>2. cr.status.phase = "" /\ cr.status.events = << >>
    BY <2>1
  <2>3. overdue = FALSE
    BY DEF Init
  <2> QED BY <2>2, <2>3 DEF Promise!Init
<1>2. TypeOK /\ AcceptedFirst /\ CopiesCurrent /\ [Next]_vars => [Promise!Next]_(Promise!vars)
  <2> SUFFICES ASSUME TypeOK, AcceptedFirst, CopiesCurrent, [Next]_vars
               PROVE  Promise!Next \/ UNCHANGED Promise!vars
    OBVIOUS
  <2>1. ASSUME UNCHANGED user PROVE UNCHANGED Promise!vars
    BY <2>1 DEF user, Promise!vars
  <2>2. ASSUME NEW m \in Managers, Manager(m) PROVE Promise!Next \/ UNCHANGED Promise!vars
    BY <2>1, <2>2, RunningSucceeds, HandlerReports, OthersStutter DEF Promise!Next
  <2>3. CASE Environment
    BY <2>3, EnvironmentStutters DEF TypeOK, ResourceOK, Promise!Next
  <2>4. CASE UNCHANGED vars
    BY <2>1, <2>4 DEF vars
  <2> QED BY <2>2, <2>3, <2>4 DEF Next
<1> QED BY <1>1, <1>2, WorkAccepted, CopiesAreCurrent, PTL DEF Spec, StatusRefines, Promise!Spec

\* Of a resource without a phase there is no copy with one.
Unseen ==
    cr.status.phase = "" =>
        \A m \in Managers : /\ cache[m].status.phase = ""
                            /\ w[m].pc # "idle" => w[m].inst.status.phase = ""

\* Nothing takes the phase away again.
LEMMA PhaseStays ==
    ASSUME TypeOK, AcceptedFirst, CopiesCurrent, [Next]_vars, cr'.status.phase = ""
    PROVE  cr.status.phase = ""
<1> SUFFICES ASSUME ~UNCHANGED cr.status.phase PROVE FALSE
  OBVIOUS
<1>1. CASE Environment
  <2>1. Promise!Expire
    BY <1>1, EnvironmentStutters DEF TypeOK, ResourceOK, Promise!vars
  <2> QED BY <2>1 DEF Promise!Expire
<1>2. ASSUME NEW m \in Managers, Manager(m) PROVE FALSE
  <2>1. Promise!Succeed \/ Promise!Accept \/ \E code \in Promise!ErrorCodes : Promise!Fail(code)
    BY <1>2, RunningSucceeds, HandlerReports, OthersStutter DEF user
  <2> QED BY <2>1 DEF Promise!Succeed, Promise!Accept, Promise!Fail
<1> QED BY <1>1, <1>2 DEF Next, vars, user

\* As long as no copy has a phase, every reconcile under way is bound for the
\* handler, and none of the calls that write an object is made.
LEMMA NothingIsMade ==
    ASSUME TypeOK, AcceptedFirst, Unseen, NothingBeforeAccepted, [Next]_vars,
           cr.status.phase = ""
    PROVE  \A k \in Kinds : store'[k] = NIL
<1>1. \A k \in Kinds : store[k] = NIL
  BY DEF NothingBeforeAccepted
<1>2. \A m \in Managers : w[m].pc \in {"idle", "handle"}
  BY Distinct DEF Unseen, AcceptedFirst
<1>3. ASSUME NEW m \in Managers, Manager(m) PROVE UNCHANGED store
  <2>1. \/ Reconcile(m) \/ GlobalExceptHandle(m)
        \/ Deliver(m) \/ TimerFires(m) \/ Resync(m) \/ ApiError(m) \/ Restart(m)
    BY <1>2, <1>3
    DEF Manager, Work, BuildPanic, UpdateConfigMap, GetObject, CreateObject, UpdateObject,
        DeleteStatefulSet, CheckKind, GetStatefulSetReadPod, CheckNacos, UpdateStatusRunning
  <2> QED
    BY <2>1
    DEF Reconcile, GlobalExceptHandle, Deliver, TimerFires, Resync, ApiError, Restart, world
<1>4. ASSUME NEW k \in Kinds, Put(k, NIL) PROVE \A j \in Kinds : store'[j] = NIL
  BY <1>1, <1>4 DEF Put, TypeOK, WorldOK
<1>5. CASE Environment
  <2>1. UNCHANGED store \/ \E k \in Kinds : Put(k, NIL)
    BY <1>5
    DEF Environment, EditSpec, DeleteResource, ThreeMinutesPass, PodReady, PodUnready,
        PodRemoved, StatefulSetGone, PodsChange, NacosChanges, GarbageCollect, world, Kinds
  <2> QED BY <1>1, <1>4, <2>1
<1> QED BY <1>1, <1>3, <1>5 DEF Next, vars, world

\* An informer copy is only ever replaced by the stored resource.
LEMMA CacheMoves ==
    ASSUME [Next]_vars
    PROVE  UNCHANGED cache \/ \E m \in Managers : cache' = [cache EXCEPT ![m] = cr]
<1>1. ASSUME NEW m \in Managers, Manager(m), ~Deliver(m), ~Restart(m) PROVE UNCHANGED cache
  BY <1>1
  DEF Manager, Work, Reconcile, BuildPanic, UpdateConfigMap, GetObject, CreateObject,
      UpdateObject, DeleteStatefulSet, CheckKind, GetStatefulSetReadPod, CheckNacos,
      UpdateStatusRunning, GlobalExceptHandle, TimerFires, Resync, ApiError, copies
<1>2. ASSUME NEW m \in Managers, Deliver(m) \/ Restart(m)
      PROVE  cache' = [cache EXCEPT ![m] = cr]
  BY <1>2 DEF Deliver, Restart
<1>3. ASSUME Environment PROVE UNCHANGED cache
  BY <1>3
  DEF Environment, EditSpec, DeleteResource, ThreeMinutesPass, PodReady, PodUnready,
      PodRemoved, StatefulSetGone, PodsChange, NacosChanges, GarbageCollect, copies
<1> QED BY <1>1, <1>2, <1>3 DEF Next, vars, copies

\* A copy is taken of the stored resource or of another copy.
LEMMA StaysUnseen ==
    ASSUME TypeOK, AcceptedFirst, CopiesCurrent, Unseen, [Next]_vars,
           cr'.status.phase = ""
    PROVE  Unseen'
<1>0. /\ WorkOK /\ cache \in [Managers -> Resource] /\ ready \in Nat
      /\ cr.status.phase = ""
  BY PhaseStays DEF TypeOK, CopiesOK, WorldOK
<1>1. /\ \A m \in Managers : cache[m].status.phase = ""
      /\ \A m \in Managers : w[m].pc # "idle" => w[m].inst.status.phase = ""
  BY <1>0 DEF Unseen
<1>2. \A m \in Managers : cache'[m].status.phase = ""
  <2>1. CASE UNCHANGED cache
    BY <1>1, <2>1
  <2>2. ASSUME NEW m \in Managers, cache' = [cache EXCEPT ![m] = cr]
        PROVE  \A n \in Managers : cache'[n].status.phase = ""
    BY <1>0, <1>1, <2>2
  <2>3. UNCHANGED cache \/ \E m \in Managers : cache' = [cache EXCEPT ![m] = cr]
    BY CacheMoves
  <2> QED BY <2>1, <2>2, <2>3
<1>3. \A m \in Managers : w'[m].pc # "idle" => w'[m].inst.status.phase = ""
  <2>1. ASSUME NEW m \in Managers, Running(m)
        PROVE  \A n \in Managers : w'[n].pc # "idle" => w'[n].inst.status.phase = ""
    <3>1. PICK step : Follows(m, step)
      BY <1>0, <2>1, CurrentGood, RunningFollows
    <3> QED BY <1>0, <1>1, <3>1 DEF Follows, Goto, SameCopy, WorkOK
  <2>2. ASSUME NEW m \in Managers, Reconcile(m)
        PROVE  \A n \in Managers : w'[n].pc # "idle" => w'[n].inst.status.phase = ""
    <3>1. CASE cache[m].live
      <4>1. Goto(m, Begin(cache[m])) /\ Begin(cache[m]).inst = cache[m]
        BY <1>0, <2>2, <3>1, ReconcileBegins
      <4> QED BY <1>0, <1>1, <4>1 DEF Goto, WorkOK
    <3>2. CASE ~cache[m].live
      BY <1>1, <2>2, <3>2 DEF Reconcile
    <3> QED BY <3>1, <3>2
  <2>3. CASE UNCHANGED w
    BY <1>1, <2>3
  <2>4. \/ UNCHANGED w
        \/ \E m \in Managers : Running(m) \/ Reconcile(m)
    <3>1. ASSUME NEW m \in Managers, Deliver(m) \/ TimerFires(m) \/ Resync(m)
          PROVE  UNCHANGED w
      BY <3>1 DEF Deliver, TimerFires, Resync, work
    <3>2. ASSUME Environment PROVE UNCHANGED w
      BY <3>2
      DEF Environment, EditSpec, DeleteResource, ThreeMinutesPass, PodReady, PodUnready,
          PodRemoved, StatefulSetGone, PodsChange, NacosChanges, GarbageCollect, work
    <3> QED BY <3>1, <3>2 DEF Next, Manager, Work, Running, vars, work
  <2> QED BY <2>1, <2>2, <2>3, <2>4
<1> QED BY <1>2, <1>3 DEF Unseen

\* No object is made for a resource before a reader of its status can see
\* that it was accepted, for any number of managers: the copy PreCheck lets
\* pass has a phase, and a phase only comes from the stored resource.
THEOREM AcceptedBeforeMade == Spec => []NothingBeforeAccepted
<1>1. Init => Unseen /\ NothingBeforeAccepted
  <2>1. ASSUME Init, NEW m \in Managers PROVE w[m] = Idle /\ cache[m] = cr
    BY <2>1 DEF Init
  <2>2. ASSUME Init PROVE Unseen
    <3>1. \A m \in Managers : w[m].pc = "idle" /\ cache[m] = cr
      BY <2>1, <2>2 DEF Idle
    <3> QED BY <3>1 DEF Unseen
  <2>3. Init => NothingBeforeAccepted
    BY DEF Init, NothingBeforeAccepted
  <2> QED BY <2>2, <2>3
<1>2. TypeOK /\ AcceptedFirst /\ CopiesCurrent /\ Unseen /\ NothingBeforeAccepted /\ [Next]_vars
        => Unseen' /\ NothingBeforeAccepted'
  <2> SUFFICES ASSUME TypeOK, AcceptedFirst, CopiesCurrent, Unseen, NothingBeforeAccepted,
                      [Next]_vars, cr'.status.phase = ""
               PROVE  Unseen' /\ NothingBeforeAccepted'
    BY DEF Unseen, NothingBeforeAccepted
  <2> QED BY PhaseStays, NothingIsMade, StaysUnseen DEF NothingBeforeAccepted
<1> QED BY <1>1, <1>2, WorkAccepted, CopiesAreCurrent, PTL DEF Spec

\* What is proved of the promise.
Proved == INSTANCE NacosStatusProofs WITH phase <- cr.status.phase, events <- cr.status.events

\* Whoever reads the status of a resource finds a phase that the newest event
\* explains, in a log that is bounded, alternating and honest: the operator
\* inherits it from the promise it implements.
THEOREM StatusStaysCoherent == Spec => []StatusCoherent
<1>1. Proved!Spec => []Proved!StatusCoherent
  BY Proved!StatusIsCoherent, EventMaxAssumption, PTL
<1>2. Promise!Init <=> Proved!Init
  BY DEF Promise!Init, Proved!Init
<1>3. [Promise!Next]_(Promise!vars) <=> [Proved!Next]_(Proved!vars)
  BY
  DEF Promise!Next, Promise!Accept, Promise!Succeed, Promise!Fail, Promise!Expire,
      Promise!vars, Promise!UpdateLastEvent, Promise!Trim, Promise!Newest,
      Promise!ErrorCodes, Promise!Codes, Promise!CODE_NORMAL, Promise!CODE_PARAMETER_ERROR,
      Promise!CODE_CLUSTER_FAILE, Promise!CODE_ERR_UNKNOW,
      Proved!Next, Proved!Accept, Proved!Succeed, Proved!Fail, Proved!Expire,
      Proved!vars, Proved!UpdateLastEvent, Proved!Trim, Proved!Newest,
      Proved!ErrorCodes, Proved!Codes, Proved!CODE_NORMAL, Proved!CODE_PARAMETER_ERROR,
      Proved!CODE_CLUSTER_FAILE, Proved!CODE_ERR_UNKNOW
<1>4. Proved!StatusCoherent => StatusCoherent
  BY
  DEF StatusCoherent, Promise!StatusCoherent, Promise!Coherent, Promise!WellFormed,
      Promise!Bounded, Promise!Alternating, Promise!HonestStatus, Promise!Newest,
      Promise!CODE_NORMAL, Proved!StatusCoherent, Proved!Coherent, Proved!WellFormed,
      Proved!Bounded, Proved!Alternating, Proved!HonestStatus, Proved!Newest,
      Proved!CODE_NORMAL
<1> QED
  BY <1>1, <1>2, <1>3, <1>4, StatusRefined, PTL DEF StatusRefines, Promise!Spec, Proved!Spec
=============================================================================
