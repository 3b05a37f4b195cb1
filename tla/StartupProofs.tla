--------------------------- MODULE StartupProofs ----------------------------
(***************************************************************************)
(* Proofs about Startup for any number of members, retries and failures.   *)
(*                                                                         *)
(* StartsAfterAll is not inductive: it follows from what the script knows  *)
(* in its loop.  The names it has done with have been seen (Passed), a     *)
(* name that resolves counts as seen by everybody (Seen), and a member is  *)
(* up after the last name (Complete).                                      *)
(***************************************************************************)
EXTENDS Startup, TLAPS

Seen == \A p, q \in Members : Resolves(q) => q \notin unseen[p]
Passed ==
    \A p \in Members : place[p] \in {"barrier", "up"} => \A q \in unseen[p] : at[p] < q
Complete == \A p \in Members : place[p] = "up" => at[p] = N
IInv == TypeOK /\ Seen /\ Passed /\ Complete

-----------------------------------------------------------------------------
LEMMA InitInv == Init => IInv
<1> SUFFICES ASSUME Init PROVE IInv
  OBVIOUS
<1>1. script \in BOOLEAN /\ dbUp \in BOOLEAN
  BY Zenon DEF Init
<1>2. tries \in 0..Retries /\ upsets \in 0..MaxUpsets
  <2>1. 0 \in 0..Retries /\ 0 \in 0..MaxUpsets
    BY StartupAssumption
  <2> QED
    BY <2>1 DEF Init
<1>3. at \in [Members -> 0..N]
  <2>1. 0 \in 0..N
    BY StartupAssumption
  <2> QED
    BY <2>1 DEF Init
<1>4. TypeOK
  BY <1>1, <1>2, <1>3 DEF Init, TypeOK, JobPCs, Places
<1>5. Seen /\ Passed /\ Complete
  BY DEF Init, Seen, Passed, Complete, Resolves, service
<1> QED
  BY <1>4, <1>5 DEF IInv

\* Steps that leave the names and the pods alone keep what was seen.
LEMMA PodsKeep ==
    ASSUME Seen, Passed, Complete, UNCHANGED <<service, pods>>
    PROVE  Seen' /\ Passed' /\ Complete'
BY DEF service, pods, Seen, Passed, Complete, Resolves, service

LEMMA UpsetType == ASSUME TypeOK, Upset PROVE upsets' \in 0..MaxUpsets
BY StartupAssumption DEF TypeOK, Upset

\* The database and its job.
LEMMA DatabaseInv ==
    ASSUME IInv, Job \/ EnsureJob \/ DatabaseFails \/ DatabaseUp
    PROVE  IInv'
<1>1. UNCHANGED <<service, pods>>
  BY DEF Job, PingDatabase, CreateDatabase, ImportSql, ImportFails, EnsureJob,
         DatabaseFails, DatabaseUp
<1>2. upsets' \in 0..MaxUpsets
  BY UpsetType DEF Job, PingDatabase, CreateDatabase, ImportSql, ImportFails, EnsureJob,
         DatabaseFails, DatabaseUp, IInv, TypeOK
<1>3. tries' \in 0..Retries
  BY StartupAssumption
     DEF Job, PingDatabase, CreateDatabase, ImportSql, ImportFails, EnsureJob,
         DatabaseFails, DatabaseUp, IInv, TypeOK
<1>4. job' \in JobPCs /\ db' \in {"empty", "created", "filled"}
  BY DEF Job, PingDatabase, CreateDatabase, ImportSql, ImportFails, EnsureJob,
         DatabaseFails, DatabaseUp, IInv, TypeOK, JobPCs
<1>5. dbUp' \in BOOLEAN /\ UNCHANGED script
  BY Zenon
     DEF Job, PingDatabase, CreateDatabase, ImportSql, ImportFails, EnsureJob,
         DatabaseFails, DatabaseUp, IInv, TypeOK
<1>6. TypeOK'
  BY <1>1, <1>2, <1>3, <1>4, <1>5 DEF IInv, TypeOK, service, pods
<1> QED
  BY <1>1, <1>6, PodsKeep DEF IInv

\* When the service comes, the pods that have addresses are seen at once.
LEMMA ServiceInv == IInv /\ EnsureHeadlessServiceCluster => IInv'
<1> SUFFICES ASSUME IInv, EnsureHeadlessServiceCluster PROVE IInv'
  OBVIOUS
<1>1. /\ selects' = labels
      /\ UNCHANGED <<labels, database, place, at, upsets>>
      /\ unseen' = [p \in Members |-> {q \in unseen[p] : ~Resolves(q)'}]
  BY DEF EnsureHeadlessServiceCluster
<1>2. TypeOK'
  BY <1>1 DEF IInv, TypeOK, service, database
<1>3. Seen' /\ Passed' /\ Complete'
  BY <1>1 DEF IInv, Seen, Passed, Complete, Resolves, service
<1> QED
  BY <1>2, <1>3 DEF IInv

\* Edited labels reach the service with its next update.
LEMMA LabelsInv == IInv /\ EditLabels => IInv'
<1> SUFFICES ASSUME IInv, EditLabels PROVE IInv'
  OBVIOUS
<1>1. labels' \in {"pods", "nobody"} /\ UNCHANGED <<selects, database, pods>>
  BY DEF EditLabels
<1>2. upsets' \in 0..MaxUpsets
  BY UpsetType DEF EditLabels, IInv
<1>3. TypeOK'
  BY <1>1, <1>2 DEF IInv, TypeOK, service, database, pods
<1>4. Seen' /\ Passed' /\ Complete'
  BY <1>1 DEF IInv, Seen, Passed, Complete, Resolves, pods
<1> QED
  BY <1>3, <1>4 DEF IInv

\* A script that begins has done with no name.
LEMMA BarrierInv ==
    ASSUME IInv, NEW p \in Members, place[p] # "absent", BeginBarrier(p),
           UNCHANGED <<service, database>>, upsets' \in 0..MaxUpsets
    PROVE  IInv'
<1>1. /\ place' = [place EXCEPT ![p] = "barrier"]
      /\ at' = [at EXCEPT ![p] = 0]
      /\ unseen' = [unseen EXCEPT ![p] = {q \in Members : ~Resolves(q)}]
  BY DEF BeginBarrier
<1>2. TypeOK'
  <2>1. 0 \in 0..N
    BY StartupAssumption
  <2>2. at' \in [Members -> 0..N]
    BY <1>1, <2>1 DEF IInv, TypeOK
  <2>3. place' \in [Members -> Places] /\ unseen' \in [Members -> SUBSET Members]
    BY <1>1 DEF IInv, TypeOK, Places
  <2> QED
    BY <2>2, <2>3 DEF IInv, TypeOK, service, database
<1>3. \A q \in Members : Resolves(q)' <=> Resolves(q)
  BY <1>1 DEF IInv, TypeOK, Resolves, service
<1>4. Seen'
  BY <1>1, <1>3 DEF IInv, TypeOK, Seen
<1>5. Passed'
  <2> SUFFICES ASSUME NEW r \in Members, place'[r] \in {"barrier", "up"}, NEW q \in unseen'[r]
               PROVE  at'[r] < q
    BY DEF Passed
  <2>1. CASE r = p
    <3>1. at'[r] = 0 /\ q \in Members
      BY <1>1, <2>1 DEF IInv, TypeOK
    <3> QED
      BY <3>1 DEF Members
  <2>2. CASE r # p
    BY <1>1, <2>2 DEF IInv, TypeOK, Passed
  <2> QED
    BY <2>1, <2>2
<1>6. Complete'
  BY <1>1 DEF IInv, TypeOK, Complete
<1> QED
  BY <1>2, <1>4, <1>5, <1>6 DEF IInv

\* A name that answers has been seen.
LEMMA PingInv == ASSUME IInv, NEW p \in Members, Ping(p) PROVE IInv'
<1>1. /\ place[p] = "barrier" /\ at[p] < N /\ Resolves(at[p] + 1)
      /\ at' = [at EXCEPT ![p] = @ + 1]
      /\ UNCHANGED <<service, database, place, unseen, upsets>>
  BY DEF Ping
<1>2. at[p] \in 0..N /\ at[p] + 1 \in Members /\ at[p] + 1 \in 0..N
  BY <1>1, StartupAssumption DEF IInv, TypeOK, Members
<1>3. TypeOK'
  <2>1. at' \in [Members -> 0..N]
    BY <1>1, <1>2 DEF IInv, TypeOK
  <2> QED
    BY <1>1, <2>1 DEF IInv, TypeOK, service, database
<1>4. Seen'
  BY <1>1 DEF IInv, Seen, Resolves, service
<1>5. Passed'
  <2> SUFFICES ASSUME NEW r \in Members, place'[r] \in {"barrier", "up"}, NEW q \in unseen'[r]
               PROVE  at'[r] < q
    BY DEF Passed
  <2>1. at[r] < q /\ q \in unseen[r] /\ q \in Int
    BY <1>1 DEF IInv, TypeOK, Passed, Members
  <2>2. CASE r = p
    <3>1. q # at[p] + 1
      BY <1>1, <1>2, <2>1, <2>2 DEF IInv, Seen
    <3>2. at'[r] = at[p] + 1
      BY <1>1, <2>2 DEF IInv, TypeOK
    <3> QED
      BY <1>2, <2>1, <2>2, <3>1, <3>2
  <2>3. CASE r # p
    BY <1>1, <2>1, <2>3 DEF IInv, TypeOK
  <2> QED
    BY <2>2, <2>3
<1>6. Complete'
  BY <1>1 DEF IInv, TypeOK, Complete
<1> QED
  BY <1>3, <1>4, <1>5, <1>6 DEF IInv

LEMMA PodInv == ASSUME IInv, NEW p \in Members, Pod(p) PROVE IInv'
<1>0. upsets \in 0..MaxUpsets
  BY DEF IInv, TypeOK
<1>1. CASE CheckDatabase(p)
  BY <1>0, <1>1, BarrierInv DEF CheckDatabase
<1>2. CASE Ping(p)
  BY <1>2, PingInv
<1>3. CASE Start(p)
  <2>1. /\ place[p] = "barrier" /\ at[p] = N
        /\ place' = [place EXCEPT ![p] = "up"]
        /\ UNCHANGED <<service, database, at, unseen, upsets>>
    BY <1>3 DEF Start
  <2>2. TypeOK'
    BY <2>1 DEF IInv, TypeOK, Places, service, database
  <2>3. Seen' /\ Passed' /\ Complete'
    BY <2>1 DEF IInv, TypeOK, Seen, Passed, Complete, Resolves, service
  <2> QED
    BY <2>2, <2>3 DEF IInv
<1>4. CASE StartFails(p)
  BY <1>0, <1>4, BarrierInv DEF StartFails
<1> QED
  BY <1>1, <1>2, <1>3, <1>4 DEF Pod

LEMMA KubernetesInv == ASSUME IInv, NEW p \in Members, Kubernetes(p) PROVE IInv'
<1>1. CASE PodCreated(p)
  <2>1. /\ place[p] = "absent"
        /\ place' = [place EXCEPT ![p] = "init"]
        /\ UNCHANGED <<service, database, at, upsets>>
        /\ unseen' = [q \in Members |-> {r \in unseen[q] : ~Resolves(r)'}]
    BY <1>1 DEF PodCreated
  <2>2. TypeOK'
    BY <2>1 DEF IInv, TypeOK, Places, service, database
  <2>3. \A q \in Members : unseen'[q] \subseteq unseen[q]
    BY <2>1 DEF IInv, TypeOK
  <2>4. Seen'
    BY <2>1, <2>3 DEF IInv, TypeOK, Seen, Resolves, service
  <2>5. Passed' /\ Complete'
    BY <2>1, <2>3 DEF IInv, TypeOK, Passed, Complete
  <2> QED
    BY <2>2, <2>4, <2>5 DEF IInv
<1>2. CASE PodLost(p)
  <2>1. /\ place' = [place EXCEPT ![p] = "absent"]
        /\ at' = [at EXCEPT ![p] = 0]
        /\ UNCHANGED <<service, database, unseen>>
    BY <1>2 DEF PodLost
  <2>2. TypeOK'
    <3>1. upsets' \in 0..MaxUpsets
      BY <1>2, UpsetType DEF PodLost, IInv
    <3>2. 0 \in 0..N
      BY StartupAssumption
    <3>3. at' \in [Members -> 0..N]
      BY <2>1, <3>2 DEF IInv, TypeOK
    <3> QED
      BY <2>1, <3>1, <3>3 DEF IInv, TypeOK, Places, service, database
  <2>3. Seen' /\ Passed' /\ Complete'
    BY <2>1 DEF IInv, TypeOK, Seen, Passed, Complete, Resolves, service
  <2> QED
    BY <2>2, <2>3 DEF IInv
<1>3. CASE ContainerFails(p)
  BY <1>3, UpsetType, BarrierInv DEF ContainerFails, IInv
<1> QED
  BY <1>1, <1>2, <1>3 DEF Kubernetes

LEMMA NextInv == IInv /\ [Next]_vars => IInv'
<1> SUFFICES ASSUME IInv, [Next]_vars PROVE IInv'
  OBVIOUS
<1>1. CASE EnsureHeadlessServiceCluster
  BY <1>1, ServiceInv
<1>2. CASE Job \/ EnsureJob \/ DatabaseFails \/ DatabaseUp
  BY <1>2, DatabaseInv
<1>3. CASE EditLabels
  BY <1>3, LabelsInv
<1>4. ASSUME NEW p \in Members, Pod(p) \/ Kubernetes(p) PROVE IInv'
  BY <1>4, PodInv, KubernetesInv
<1>5. CASE UNCHANGED vars
  <2>1. UNCHANGED <<service, pods>> /\ TypeOK'
    BY <1>5 DEF vars, service, database, pods, IInv, TypeOK
  <2> QED
    BY <2>1, PodsKeep DEF IInv
<1> QED
  BY <1>1, <1>2, <1>3, <1>4, <1>5 DEF Next, Operator

\* What the script has behind it, for any number of members and failures.
THEOREM SeenSoFar == Spec => []IInv
BY InitInv, NextInv, PTL DEF Spec

\* All variables keep their types, for any number of members.
THEOREM TypeCorrect == Spec => []TypeOK
<1>1. IInv => TypeOK
  BY DEF IInv
<1> QED
  BY <1>1, SeenSoFar, PTL

\* No member is up before all members had an address since its script began.
THEOREM StartsAfterAllMembers == Spec => []StartsAfterAll
<1>1. IInv => StartsAfterAll
  <2> SUFFICES ASSUME IInv PROVE StartsAfterAll
    OBVIOUS
  <2> SUFFICES ASSUME NEW p \in Members, place[p] = "up", NEW q \in unseen[p] PROVE FALSE
    BY DEF StartsAfterAll
  <2>1. N < q /\ q \in 1..N
    BY DEF IInv, TypeOK, Passed, Complete, Members
  <2> QED
    BY <2>1, StartupAssumption
<1> QED
  BY <1>1, SeenSoFar, PTL
=============================================================================
