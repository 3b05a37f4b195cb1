----------------------------- MODULE NacosBuild -----------------------------
(***************************************************************************)
(* What the operator builds of a spec: Kind.go fills the pods of the       *)
(* StatefulSet and of the database job, Merge puts the user's k8sWrapper   *)
(* on top, and statefulset.go compares what is stored with what was built. *)
(* The user edits the spec, the operator ensures both objects again and    *)
(* again, and Go walks its maps in another order every time.  The API      *)
(* server completes what it stores, so that it is not what was sent.       *)
(*                                                                         *)
(* Errors, faults and the life of the objects are Reconciler's; here an    *)
(* ensure is one step, and a StatefulSet that is deleted is gone with it.  *)
(***************************************************************************)
EXTENDS Merge

CONSTANTS
    Specs,        \* the specs the user writes
    Walks,        \* orders of all names in which a map may be walked
    Completions   \* the sources of a value that leave a field out, as stored

VARIABLES
    spec,     \* of the stored resource
    sts,      \* the stored StatefulSet, or NIL
    job,      \* the stored job that fills the database, or NIL
    ensured   \* the StatefulSet was ensured since the last edit

vars == <<spec, sts, job, ensured>>

NACOS == "nacos"   \* name of the resource, and so of its container

\* A spec as the API server stores it: the fields of NacosSpec.
IsSpec(s) ==
    /\ DOMAIN s = {"type", "replicas", "function", "env", "image", "res", "claim", "config",
                   "cert", "db", "mysqlInitImage", "probe", "tolerations", "nodeSelector",
                   "affinity", "wrapper"}
    /\ s.replicas \in Nat
    /\ Items(s.env, {"name", "value", "from"})
    /\ DOMAIN s.cert = {"enabled", "token", "expire", "cache"}
    /\ DOMAIN s.db = {"type", "host"}
    /\ s.probe = NIL \/ DOMAIN s.probe = {"exec", "http", "tcp"}
    /\ Items(s.tolerations, {"name", "effect"})
    /\ IsPod(s.wrapper)

\* The name of a mount.
Mounted(volume, path) == volume \o "_" \o path

\* The names the operator itself gives.
OwnNames ==
    {NACOS, "config", "custom.properties", "client", "rpc", "new-rpc",
     Mounted("db", "data"), Mounted("config", "init.d"),
     "mysql-check-database", "mysql-ping-database", "mysql-create-database", "mysql-sql-init",
     "FUNCTION_MODE", "PREFER_HOST_MODE", "EMBEDDED_STORAGE", "SPRING_DATASOURCE_PLATFORM",
     "MYSQL_SERVICE_HOST", "NACOS_AUTH_ENABLE", "NACOS_AUTH_TOKEN_EXPIRE_SECONDS",
     "NACOS_AUTH_TOKEN", "NACOS_AUTH_CACHE_ENABLE", "MODE", "NACOS_REPLICAS", "NACOS_SERVERS",
     "MYSQL_HOST", "SQL_SCRIPT"}

ASSUME BuildAssumption ==
    /\ OwnNames \subseteq Names
    /\ NIL \notin DOMAIN Completions
    /\ \A from \in DOMAIN Completions : Completions[from] \notin DOMAIN Completions \cup {NIL}
    /\ \A s \in Specs : IsSpec(s)
    /\ \A walk \in Walks : IsWalk(walk)

-----------------------------------------------------------------------------
(***************************************************************************)
(* ValidationField: the defaults.                                          *)
(***************************************************************************)

\* host stands for the five settings of the database.
\* Seeded fault: they have no default.
DefaultsNoMysql(s) ==
    [s EXCEPT !.type = Scalar("standalone", @),
              !.db.type = Scalar("embedded", @)]
Defaults(s) ==
    [s EXCEPT
        !.type = Scalar("standalone", @),
        !.db = [type |-> Scalar("embedded", @.type),
                host |-> IF @.type = "mysql" THEN Scalar("127.0.0.1", @.host) ELSE @.host],
        !.cert = IF @.enabled = "true"
                   THEN [@ EXCEPT !.token = Scalar("SecretKey", @), !.expire = Scalar("18000", @)]
                   ELSE @]

InitsMysql(s) == s.db.type = "mysql" /\ s.mysqlInitImage # NIL

-----------------------------------------------------------------------------
(***************************************************************************)
(* The pods before the merge, of a spec with its defaults.                 *)
(***************************************************************************)

Env(name, value) == [name |-> name, value |-> value, from |-> NIL]
Optional(name, value) == IF value = NIL THEN <<>> ELSE <<Env(name, value)>>

\* For a function mode the list begins again with the user's variables.
UserEnv(s) ==
    s.env \o IF s.function \in {"naming", "config"}
               THEN <<Env("FUNCTION_MODE", s.function)>>
               ELSE <<Env("PREFER_HOST_MODE", "hostname")>>

\* MYSQL_SERVICE_HOST stands for the five variables of the database.
DatabaseEnv(s) ==
    CASE s.db.type = "embedded" -> <<Env("EMBEDDED_STORAGE", "embedded")>>
      [] s.db.type = "mysql" -> <<Env("SPRING_DATASOURCE_PLATFORM", "mysql"),
                                  Env("MYSQL_SERVICE_HOST", s.db.host)>>
      [] OTHER -> <<>>

Domain(s) ==
    FoldLeft(LAMBDA domain, e : IF e.name = "DOMAIN_NAME" THEN Scalar(domain, e.value) ELSE domain,
             "cluster.local", s.env)

\* The names of all members, written in one string.
Members(s) == ToString(<<s.replicas, Domain(s)>>)

BuiltEnv(s) ==
       UserEnv(s)
    \o Optional("NACOS_AUTH_ENABLE", s.cert.enabled)
    \o Optional("NACOS_AUTH_TOKEN_EXPIRE_SECONDS", s.cert.expire)
    \o Optional("NACOS_AUTH_TOKEN", s.cert.token)
    \o Optional("NACOS_AUTH_CACHE_ENABLE", s.cert.cache)
    \o DatabaseEnv(s)
    \o IF s.type = "standalone"
         THEN <<Env("MODE", "standalone")>>
         ELSE <<Env("NACOS_REPLICAS", ToString(s.replicas)), Env("NACOS_SERVERS", Members(s))>>

NoResources == [limits |-> NIL, requests |-> NIL]
NewContainer(name, image) ==
    [name |-> name, image |-> image, command |-> <<>>, ports |-> <<>>, env |-> <<>>,
     res |-> NoResources, mounts |-> <<>>, devices |-> <<>>, probe |-> NIL, lifecycle |-> NIL]
NewPod == [volumes |-> <<>>, containers |-> <<>>, inits |-> <<>>, ephemeral |-> <<>>,
           tolerations |-> <<>>, aliases |-> <<>>, spread |-> <<>>, selector |-> NIL,
           affinity |-> NIL, dns |-> NIL, plain |-> NIL]

Port(name, port) == [name |-> name, port |-> port]
Mount(volume, path) == [name |-> Mounted(volume, path), volume |-> volume, path |-> path]

NacosContainer(s) ==
    [NewContainer(NACOS, s.image) EXCEPT
        !.command = IF s.type = "standalone" THEN <<>> ELSE <<"sh", "-c", Members(s)>>,
        !.ports = <<Port("client", 8848), Port("rpc", 7848), Port("new-rpc", 9848)>>,
        !.env = BuiltEnv(s),
        !.res = s.res,
        !.mounts = (IF s.claim = NIL THEN <<>> ELSE <<Mount("db", "data")>>)
                \o (IF s.config = NIL THEN <<>> ELSE <<Mount("config", "init.d")>>),
        !.probe = s.probe,
        !.lifecycle = [postStart |-> NIL, preStop |-> "rm raft"]]

ConfigVolume ==
    [name   |-> "config",
     source |-> [kind |-> "configMap", ref |-> NACOS,
                 items |-> <<[name |-> "custom.properties", path |-> "custom.properties"]>>]]

\* AddCheckDatabase, and the first steps of the job.
MysqlContainer(s, name) ==
    [NewContainer(name, s.mysqlInitImage) EXCEPT
        !.env = <<Env("MYSQL_HOST", s.db.host)>>,
        !.command = <<"/bin/sh", "-c", name>>]

Template(s) ==
    [NewPod EXCEPT
        !.volumes = IF s.config = NIL THEN <<>> ELSE <<ConfigVolume>>,
        !.containers = <<NacosContainer(s)>>,
        !.inits = IF InitsMysql(s) THEN <<MysqlContainer(s, "mysql-check-database")>> ELSE <<>>,
        !.tolerations = s.tolerations,
        !.selector = s.nodeSelector,
        !.affinity = s.affinity]

JobTemplate(s) ==
    LET Import == [MysqlContainer(s, "mysql-sql-init") EXCEPT
                      !.env = Append(@, [name |-> "SQL_SCRIPT", value |-> NIL, from |-> "sqlcm"])]
    IN  [NewPod EXCEPT
            !.inits = <<MysqlContainer(s, "mysql-ping-database"),
                        MysqlContainer(s, "mysql-create-database")>>,
            !.containers = <<Import>>,
            !.plain = "Never"]

-----------------------------------------------------------------------------
(***************************************************************************)
(* The objects, and the comparison with what is stored.                    *)
(***************************************************************************)

\* A claim is its size and storage class.
Sts(s, walk) ==
    LET d == Defaults(s)
    IN  [replicas |-> d.replicas,
         service  |-> IF d.type = "standalone" THEN NIL ELSE "headless",
         claim    |-> d.claim,
         pod      |-> PodSpec(Template(d), d.wrapper, walk)]

Job(s, walk) == PodSpec(JobTemplate(Defaults(s)), s.wrapper, walk)

\* The API server fills in its defaults.  Of the fields that are compared
\* only the source of a variable has one: a fieldRef without an apiVersion is
\* stored with v1, while the operator builds it without every time.
Filled(e) == IF e.from \in DOMAIN Completions THEN [e EXCEPT !.from = Completions[@]] ELSE e
FilledEnv(env) == [i \in DOMAIN env |-> Filled(env[i])]
FilledAll(containers) ==
    [i \in DOMAIN containers |-> [containers[i] EXCEPT !.env = FilledEnv(@)]]
StoredPod(pod) == [pod EXCEPT !.containers = FilledAll(@), !.inits = FilledAll(@)]
StoredSts(new) == [new EXCEPT !.pod = StoredPod(@)]

\* NIL is neither a text nor an object.
ASSUME NilAssumption ==
    /\ NIL # "127.0.0.1"
    /\ \A s \in Specs, walk \in Walks :
          StoredSts(Sts(s, walk)) # NIL /\ StoredPod(Job(s, walk)) # NIL

\* Seeded fault: the environment is not compared.
CheckStsNoEnv(old, new) ==
    IF old.claim # new.claim THEN "Delete"
    ELSE IF \/ Head(old.pod.containers).res # Head(new.pod.containers).res
            \/ old.replicas # new.replicas
      THEN "Update"
      ELSE "None"
\* checkSts looks at the first container, whichever that is.
CheckSts(old, new) ==
    LET a == Head(old.pod.containers)
        b == Head(new.pod.containers)
    IN  IF old.claim # new.claim THEN "Delete"
        ELSE IF a.res # b.res \/ a.env # b.env \/ old.replicas # new.replicas THEN "Update"
        ELSE "None"

-----------------------------------------------------------------------------
(***************************************************************************)
(* What Kubernetes accepts as a pod.                                       *)
(***************************************************************************)

Distinct(s, F(_)) == \A i, j \in DOMAIN s : F(s[i]) = F(s[j]) => i = j

Handlers(probe) == {h \in {"exec", "http", "tcp"} : probe # NIL /\ probe[h] # NIL}
OneHandler(probe) == \E h \in Handlers(probe) : Handlers(probe) = {h}

Accepted(pod, claims) ==
    LET running == pod.containers \o pod.inits
        volumes == NamesOf(pod.volumes) \cup claims
    IN  /\ pod.ephemeral = <<>>
        /\ Distinct(running, LAMBDA c : c.name)
        /\ Distinct(pod.volumes, LAMBDA v : v.name)
        /\ \A c \in ToSet(running) :
              /\ c.image # NIL
              /\ Distinct(c.mounts, LAMBDA m : m.path)
              /\ \A m \in ToSet(c.mounts) : m.volume \in volumes
              /\ c.probe # NIL => OneHandler(c.probe)

-----------------------------------------------------------------------------
Init ==
    /\ spec \in Specs
    /\ sts = NIL
    /\ job = NIL
    /\ ensured = FALSE

EditSpec ==
    /\ spec' \in Specs \ {spec}
    /\ ensured' = FALSE
    /\ UNCHANGED <<sts, job>>

\* CreateOrUpdateStatefulSet: the service name of a StatefulSet never
\* changes, and its pods are looked at only when they are made.
EnsureStatefulset(walk) ==
    /\ LET new == Sts(spec, walk)
       IN  \/ /\ sts = NIL
              /\ sts' = StoredSts(new)
              /\ ensured' = TRUE
           \/ /\ sts # NIL
              /\ CheckSts(sts, new) = "Delete"
              /\ sts' = NIL
              /\ UNCHANGED ensured
           \/ /\ sts # NIL
              /\ CheckSts(sts, new) = "Update"
              /\ sts.service = new.service
              /\ sts' = StoredSts(new)
              /\ ensured' = TRUE
           \/ /\ sts # NIL
              /\ CheckSts(sts, new) = "None"
              /\ ensured' = TRUE
              /\ UNCHANGED sts
    /\ UNCHANGED <<spec, job>>

\* After the StatefulSet: the job is created once, if its pod is accepted.
EnsureJob(walk) ==
    /\ ensured
    /\ InitsMysql(Defaults(spec))
    /\ job = NIL
    /\ Accepted(Job(spec, walk), {})
    /\ job' = StoredPod(Job(spec, walk))
    /\ UNCHANGED <<spec, sts, ensured>>

Next ==
    \/ EditSpec
    \/ \E walk \in Walks : EnsureStatefulset(walk) \/ EnsureJob(walk)

Spec == Init /\ [][Next]_vars

-----------------------------------------------------------------------------
(***************************************************************************)
(* Properties.                                                             *)
(***************************************************************************)

\* What a list asks of a variable: its last entry counts, and in it a source
\* before a value.
Unset == [value |-> NIL, from |-> NIL]
Setting(env, n) ==
    LET at == {i \in DOMAIN env : env[i].name = n}
        last == env[Max(at)]
    IN  IF at = {} THEN Unset
        ELSE [value |-> IF last.from = NIL THEN last.value ELSE NIL, from |-> last.from]

\* What is stored is of its kind, and each step of the job knows the host of
\* the database: validation has set it, and no wrapper can unset it.
KnowsDatabase(containers, name) ==
    \A c \in ToSet(containers) : c.name = name => Setting(c.env, "MYSQL_HOST") # Unset
TypeOK ==
    /\ spec \in Specs
    /\ ensured \in BOOLEAN
    /\ ensured => sts # NIL
    /\ sts # NIL =>
          /\ sts.replicas \in Nat
          /\ sts.service \in {NIL, "headless"}
    /\ job # NIL =>
          /\ KnowsDatabase(job.inits, "mysql-ping-database")
          /\ KnowsDatabase(job.inits, "mysql-create-database")
          /\ KnowsDatabase(job.containers, "mysql-sql-init")

\* The API server has nothing to add to a list of variables.
Complete(env) == \A i \in DOMAIN env : env[i].from \notin DOMAIN Completions

\* What was ensured once is left alone: built again, with the maps walked in
\* any order, it compares equal, so that the pods are not replaced for ever
\* (CreateOrUpdateStatefulSet runs after every change of the StatefulSet).
\* But a variable whose source the API server completes never compares equal:
\* such a StatefulSet is written again at every reconcile.
Settled ==
    ensured =>
        \A walk \in Walks :
            LET new == Sts(spec, walk)
            IN  CheckSts(sts, new) =
                    IF Complete(Head(new.pod.containers).env) THEN "None" ELSE "Update"

\* Until the user edits the spec again, no ensure deletes the StatefulSet or
\* changes the containers of its pods, not even one that writes it again; and
\* what the API server has nothing to add to is not written at all.
ContainersStay ==
    [][ensured /\ spec' = spec =>
         /\ sts' # NIL
         /\ sts'.pod.containers = sts.pod.containers
         /\ sts'.pod.inits = sts.pod.inits
         /\ Complete(Head(Sts(spec, Alphabet).pod.containers).env) => sts' = sts]_vars

\* The container checkSts looks at is that of Nacos, in the StatefulSet that
\* is stored and in the one of the current spec.
ComparesNacos ==
    /\ Head(sts.pod.containers).name = NACOS
    /\ Head(Sts(spec, Alphabet).pod.containers).name = NACOS

\* The variables of the stored container of Nacos, and those the wrapper has
\* for it; an entry of the wrapper that sets nothing leaves the operator's.
NacosEnv ==
    LET own == CHOOSE i \in DOMAIN sts.pod.containers : sts.pod.containers[i].name = NACOS
    IN  sts.pod.containers[own].env
WrapperEnv ==
    LET patches == spec.wrapper.containers
        at == {i \in DOMAIN patches : patches[i].name = NACOS}
    IN  IF at = {} THEN <<>> ELSE patches[Max(at)].env
Expected(n) ==
    IF Setting(WrapperEnv, n) # Unset THEN Setting(WrapperEnv, n)
    ELSE Setting(BuiltEnv(Defaults(spec)), n)

\* Once ensured, every variable of the stored Nacos container is what the
\* last of the user, the operator and the wrapper asked for, but for what the
\* API server adds, whatever was stored before (Envs, checkSts).
EnvArrives ==
    ensured /\ ComparesNacos => \A n \in Names : Setting(NacosEnv, n) = Filled(Expected(n))

\* The tri-state of the certification: enabled or disabled is passed to
\* Nacos, and nothing when it is omitted, also when an edit omits it again;
\* unless the user sets the variable by hand.
CertificationReaches ==
    Setting(NacosEnv, "NACOS_AUTH_ENABLE") = [Unset EXCEPT !.value = spec.cert.enabled]
LeftToCertification ==
    "NACOS_AUTH_ENABLE" \notin NamesOf(spec.env) \cup NamesOf(WrapperEnv)
CertificationArrives ==
    ensured /\ ComparesNacos /\ LeftToCertification => CertificationReaches

\* As README-CN.md:196 has it, without a condition: false when the wrapper
\* adds a container whose name sorts before that of Nacos.
CertificationPassed == ensured => CertificationReaches

\* Everything the operator and the wrapper name is in the pod, each name
\* once, and so it is inside each container both of them name, and with the
\* files of a volume of both; a wrapper that names a volume or a container
\* twice gets what it wrote (PodSpec).
SameNames(m, d, o) ==
    /\ NamesOf(m) = NamesOf(d) \cup NamesOf(o)
    /\ Distinct(m, LAMBDA x : x.name)
SameInside(r, c, w) ==
    /\ SameNames(r.env, c.env, w.env)
    /\ SameNames(r.ports, c.ports, w.ports)
    /\ SameNames(r.mounts, c.mounts, w.mounts)
    /\ SameNames(r.devices, c.devices, w.devices)
    /\ ToSet(r.command) = ToSet(c.command) \cup ToSet(w.command)
SameFiles(r, v, w) ==
    IF v.source.kind = w.source.kind /\ v.source.kind \in KnownKinds
      THEN SameNames(r.source.items, v.source.items, w.source.items)
      ELSE r.source = w.source
NothingLost ==
    \A walk \in Walks :
        LET d == Template(Defaults(spec))
            o == spec.wrapper
            m == Sts(spec, walk).pod
        IN  /\ SameNames(m.containers, d.containers, o.containers)
            /\ SameNames(m.inits, d.inits, o.inits)
            /\ SameNames(m.ephemeral, d.ephemeral, o.ephemeral)
            /\ m.dns = o.dns
            /\ SameNames(m.tolerations, d.tolerations, o.tolerations)
            /\ SameNames(m.aliases, d.aliases, o.aliases)
            /\ SameNames(m.spread, d.spread, o.spread)
            /\ Distinct(o.volumes, LAMBDA v : v.name) =>
                  /\ SameNames(m.volumes, d.volumes, o.volumes)
                  /\ \A v \in ToSet(d.volumes), w \in ToSet(o.volumes), r \in ToSet(m.volumes) :
                        v.name = w.name /\ r.name = v.name => SameFiles(r, v, w)
            /\ Distinct(o.containers, LAMBDA c : c.name) =>
                  \A c \in ToSet(d.containers), w \in ToSet(o.containers), r \in ToSet(m.containers) :
                      c.name = w.name /\ r.name = c.name => SameInside(r, c, w)

\* A wrapper that fits: its new containers have images, it mounts what
\* exists, and where a name, a path or a probe is already taken it keeps to
\* it.
WrapperFits(d, o, claims) ==
    /\ o.ephemeral = <<>>
    /\ Distinct(o.volumes, LAMBDA v : v.name)
    /\ \A w \in ToSet(o.inits) :
          /\ w.image # NIL /\ w.mounts = <<>> /\ w.probe = NIL
          /\ w.name \notin NamesOf(d.containers) \cup NamesOf(o.containers)
    /\ \A w \in ToSet(o.containers) :
          /\ w.name \notin NamesOf(d.inits)
          /\ Distinct(w.mounts, LAMBDA m : m.path)
          /\ \A m \in ToSet(w.mounts) :
                m.volume \in NamesOf(d.volumes) \cup NamesOf(o.volumes) \cup claims
          /\ w.name \notin NamesOf(d.containers) =>
                w.image # NIL /\ (w.probe # NIL => OneHandler(w.probe))
          /\ \A c \in ToSet(d.containers) : c.name = w.name =>
                /\ IF c.probe = NIL THEN w.probe # NIL => OneHandler(w.probe)
                                    ELSE Handlers(w.probe) \subseteq Handlers(c.probe)
                /\ \A m \in ToSet(w.mounts), k \in ToSet(c.mounts) :
                      k.path = m.path => k.name = m.name

\* A wrapper that fits gives a pod that Kubernetes accepts, if the spec has
\* an image and its probe one handler: a duplicate volume or mount would
\* leave the StatefulSet without pods (Volumes, VolumeMounts).
PodsAccepted ==
    LET s == Defaults(spec)
        claims == IF s.claim = NIL THEN {} ELSE {"db"}
        complete == s.image # NIL /\ (s.probe # NIL => OneHandler(s.probe))
    IN  complete /\ WrapperFits(Template(s), s.wrapper, claims) =>
            \A walk \in Walks : Accepted(Sts(spec, walk).pod, claims)

\* In mysql mode the database is imported (README-CN.md:132), so the job's
\* pod must be one that can exist when the pods of the StatefulSet can.
\* EnsureJob merges the wrapper into the job too, where the container of
\* Nacos it patches has no image.
DatabaseImported ==
    LET s == Defaults(spec)
    IN  ensured /\ InitsMysql(s) /\ Accepted(Sts(spec, Alphabet).pod, {"db"}) =>
            Accepted(Job(spec, Alphabet), {})
=============================================================================
