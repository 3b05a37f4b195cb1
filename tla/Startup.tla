------------------------------ MODULE Startup -------------------------------
(***************************************************************************)
(* How the members of a cluster with a mysql database come up              *)
(* (src/operator/pkg/service/operator/Kind.go).  The operator creates the  *)
(* StatefulSet, the headless service that gives its pods their names, and  *)
(* a job that creates and fills the database.  Each pod waits in an init   *)
(* container for the database, then pings all members by name, one after   *)
(* the other, and starts Nacos only when each has answered.                *)
(*                                                                         *)
(* The scripts are the code's; pods, jobs, name resolution, mysql and the  *)
(* Nacos server are modelled as far as the scripts depend on them.  An     *)
(* instance without mysql is one whose tables are there from the start.    *)
(***************************************************************************)
EXTENDS Integers

CONSTANTS
    N,          \* replicas
    Retries,    \* how often the job controller retries a failed import
    MaxUpsets   \* bound on failures and edits

ASSUME StartupAssumption == N \in Nat \ {0} /\ Retries \in Nat /\ MaxUpsets \in Nat

Members == 1..N

VARIABLES
    labels,     \* what the labels of the resource select: the pods, or
                \* nobody when they were edited after the StatefulSet was made
    selects,    \* what the headless service selects, if it is there
    script,     \* readSql found the SQL file
    job,        \* position of the job's newest pod
    tries,      \* retries of the job so far
    dbUp,       \* mysql answers
    db,         \* what it holds of the database
    place,      \* position of each pod
    at,         \* names the start script has done with
    unseen,     \* history: members without an address all the time since
                \* the start script began
    upsets      \* failures and edits so far

service  == <<labels, selects>>
database == <<script, job, tries, dbUp, db>>
pods     == <<place, at, unseen>>
vars     == <<service, database, pods, upsets>>

JobPCs == {"absent", "ping", "create", "import", "done", "failed"}
Places == {"absent", "init", "barrier", "up"}

Upset == upsets < MaxUpsets /\ upsets' = upsets + 1

-----------------------------------------------------------------------------
(***************************************************************************)
(* The operator, in the order of MakeEnsure; the StatefulSet is there from *)
(* the start.                                                              *)
(***************************************************************************)

\* A name resolves once the service selects its pod and the pod has an
\* address, ready or not (PublishNotReadyAddresses); then it answers a ping.
\* Seeded fault: addresses are published when Nacos is ready.
ResolvesReady(q) == selects = "pods" /\ place[q] = "up"
Resolves(q) == selects = "pods" /\ place[q] # "absent"

\* Created or updated: the selector has the labels of the resource, while
\* the pods keep those the StatefulSet was created with, as checkSts does not
\* compare them and a selector of a StatefulSet cannot change.
EnsureHeadlessServiceCluster ==
    /\ selects # labels
    /\ selects' = labels
    /\ UNCHANGED <<labels, database, place, at, upsets>>
    /\ unseen' = [p \in Members |-> {q \in unseen[p] : ~Resolves(q)'}]

\* Created once, and never again when it has failed.
\* Seeded fault: the job waits for a member to be up.
EnsureJobLate ==
    /\ selects # "none" /\ job = "absent"
    /\ \E p \in Members : place[p] = "up"
    /\ job' = "ping"
    /\ UNCHANGED <<service, script, tries, dbUp, db, pods, upsets>>
EnsureJob ==
    /\ selects # "none" /\ job = "absent"
    /\ job' = "ping"
    /\ UNCHANGED <<service, script, tries, dbUp, db, pods, upsets>>

-----------------------------------------------------------------------------
(***************************************************************************)
(* The job: two init containers that wait for mysql and create the         *)
(* database, and a container that imports the script.                      *)
(***************************************************************************)
PingDatabase ==
    /\ job = "ping" /\ dbUp
    /\ job' = "create"
    /\ UNCHANGED <<service, script, tries, dbUp, db, pods, upsets>>

CreateDatabase ==
    /\ job = "create" /\ dbUp
    /\ db' = IF db = "empty" THEN "created" ELSE db
    /\ job' = "import"
    /\ UNCHANGED <<service, script, tries, dbUp, pods, upsets>>

\* Without its file the script is the empty string, and imported as such.
ImportSql ==
    /\ job = "import" /\ dbUp
    /\ db' = IF script THEN "filled" ELSE db
    /\ job' = "done"
    /\ UNCHANGED <<service, script, tries, dbUp, pods, upsets>>

\* RestartPolicy Never: a failed pod is replaced by one that starts over, a
\* limited number of times.
ImportFails ==
    /\ job = "import"
    /\ Upset \/ (~dbUp /\ UNCHANGED upsets)
    /\ IF tries < Retries
         THEN job' = "ping" /\ tries' = tries + 1
         ELSE job' = "failed" /\ UNCHANGED tries
    /\ UNCHANGED <<service, script, dbUp, db, pods>>

Job == PingDatabase \/ CreateDatabase \/ ImportSql \/ ImportFails

-----------------------------------------------------------------------------
(***************************************************************************)
(* A pod of the StatefulSet.                                               *)
(***************************************************************************)

\* The container starts, or starts again, with the first name.
BeginBarrier(p) ==
    /\ place' = [place EXCEPT ![p] = "barrier"]
    /\ at' = [at EXCEPT ![p] = 0]
    /\ unseen' = [unseen EXCEPT ![p] = {q \in Members : ~Resolves(q)}]

\* mysqlcheck finds the database, with or without tables.
CheckDatabase(p) ==
    /\ place[p] = "init"
    /\ dbUp /\ db # "empty"
    /\ BeginBarrier(p)
    /\ UNCHANGED <<service, database, upsets>>

\* The inner loop ends when the name at hand answers.
\* Seeded fault: the loop gives up on a name that does not answer.
PingAnyway(p) ==
    /\ place[p] = "barrier" /\ at[p] < N
    /\ at' = [at EXCEPT ![p] = @ + 1]
    /\ UNCHANGED <<service, database, place, unseen, upsets>>
\* Seeded fault: the outer loop has no end.
PingOn(p) ==
    /\ place[p] = "barrier"
    /\ at[p] = N \/ Resolves(at[p] + 1)
    /\ at' = [at EXCEPT ![p] = @ + 1]
    /\ UNCHANGED <<service, database, place, unseen, upsets>>
Ping(p) ==
    /\ place[p] = "barrier" /\ at[p] < N
    /\ Resolves(at[p] + 1)
    /\ at' = [at EXCEPT ![p] = @ + 1]
    /\ UNCHANGED <<service, database, place, unseen, upsets>>

\* exec bin/docker-startup.sh.  Nacos does not come up without its tables:
\* the container is started again, and with it the script.
Start(p) ==
    /\ place[p] = "barrier" /\ at[p] = N
    /\ dbUp /\ db = "filled"
    /\ place' = [place EXCEPT ![p] = "up"]
    /\ UNCHANGED <<service, database, at, unseen, upsets>>
StartFails(p) ==
    /\ place[p] = "barrier" /\ at[p] = N
    /\ ~(dbUp /\ db = "filled")
    /\ BeginBarrier(p)
    /\ UNCHANGED <<service, database, upsets>>

\* The StatefulSet is Parallel: pods are created in any order.
PodCreated(p) ==
    /\ place[p] = "absent"
    /\ place' = [place EXCEPT ![p] = "init"]
    /\ UNCHANGED <<service, database, at, upsets>>
    /\ unseen' = [q \in Members |-> {r \in unseen[q] : ~Resolves(r)'}]

\* The pod is evicted or its node lost; the container alone fails.
PodLost(p) ==
    /\ Upset
    /\ place[p] # "absent"
    /\ place' = [place EXCEPT ![p] = "absent"]
    /\ at' = [at EXCEPT ![p] = 0]
    /\ UNCHANGED <<service, database, unseen>>
ContainerFails(p) ==
    /\ Upset
    /\ place[p] \in {"barrier", "up"}
    /\ BeginBarrier(p)
    /\ UNCHANGED <<service, database>>

Pod(p) == CheckDatabase(p) \/ Ping(p) \/ Start(p) \/ StartFails(p)
Kubernetes(p) == PodCreated(p) \/ PodLost(p) \/ ContainerFails(p)

\* The user adds a label to the resource, or takes it out again.
EditLabels ==
    /\ Upset
    /\ labels' = IF labels = "pods" THEN "nobody" ELSE "pods"
    /\ UNCHANGED <<selects, database, pods>>

DatabaseFails ==
    /\ Upset
    /\ dbUp /\ dbUp' = FALSE
    /\ UNCHANGED <<service, script, job, tries, db, pods>>
DatabaseUp ==
    /\ ~dbUp /\ dbUp' = TRUE
    /\ UNCHANGED <<service, script, job, tries, db, pods, upsets>>

-----------------------------------------------------------------------------
Init ==
    /\ labels = "pods" /\ selects = "none"
    /\ script \in BOOLEAN
    /\ job = "absent" /\ tries = 0
    /\ dbUp \in BOOLEAN
    /\ db \in {"empty", "created", "filled"}
    /\ place = [p \in Members |-> "absent"]
    /\ at = [p \in Members |-> 0]
    /\ unseen = [p \in Members |-> Members]
    /\ upsets = 0

Operator == EnsureHeadlessServiceCluster \/ EnsureJob
Next ==
    \/ Operator \/ Job
    \/ \E p \in Members : Pod(p) \/ Kubernetes(p)
    \/ EditLabels \/ DatabaseFails \/ DatabaseUp

\* The operator retries what it ensures, the containers run.  Nothing says
\* that a pod finds a node, or that mysql comes up.
Fairness ==
    /\ WF_vars(Operator) /\ WF_vars(Job)
    /\ \A p \in Members : WF_vars(Pod(p))
Spec == Init /\ [][Next]_vars /\ Fairness

-----------------------------------------------------------------------------
TypeOK ==
    /\ labels \in {"pods", "nobody"} /\ selects \in {"none", "pods", "nobody"}
    /\ script \in BOOLEAN /\ dbUp \in BOOLEAN
    /\ job \in JobPCs /\ tries \in 0..Retries
    /\ db \in {"empty", "created", "filled"}
    /\ place \in [Members -> Places]
    /\ at \in [Members -> 0..N]
    /\ unseen \in [Members -> SUBSET Members]
    /\ upsets \in 0..MaxUpsets

\* "Check the resolution of the domain names first, then start"
\* (Kind.go:862): whatever pods are lost and restarted, a member is up only
\* if every member, itself included, has had an address at some time since its
\* script began.  So while one member has none, no other can restart.
StartsAfterAll == \A p \in Members : place[p] = "up" => unseen[p] = {}

\* The barrier is no deadlock: once all pods are there, ready or not, and the
\* tables too, all members are up in the end, those included that began before
\* the import or were restarted in between.  The labels of the resource must
\* be those of the pods (again): while a label is added that they do not have,
\* no member can restart.
MembersStart ==
    <>[](/\ dbUp /\ db = "filled" /\ labels = "pods"
         /\ \A p \in Members : place[p] # "absent")
        => <>[](\A p \in Members : place[p] = "up")

\* With its script the job fills a database that stays up, unless it has used
\* up its retries: nothing creates it again then.
ImportCompletes == script /\ <>[]dbUp => <>[](db = "filled" \/ job = "failed")
=============================================================================
