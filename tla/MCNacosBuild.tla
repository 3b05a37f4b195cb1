---------------------------- MODULE MCNacosBuild ----------------------------
(***************************************************************************)
(* Small instances of NacosBuild for TLC.                                  *)
(***************************************************************************)
EXTENDS NacosBuild

\* All names of the instances, in the order of their bytes.
AllNames ==
    <<"10.0.0.1", "10.0.0.2", "DOMAIN_NAME", "EMBEDDED_STORAGE", "FUNCTION_MODE", "JVM_XMS", "MODE",
      "MYSQL_HOST", "MYSQL_SERVICE_HOST", "NACOS_AUTH_CACHE_ENABLE", "NACOS_AUTH_ENABLE",
      "NACOS_AUTH_TOKEN", "NACOS_AUTH_TOKEN_EXPIRE_SECONDS", "NACOS_REPLICAS", "NACOS_SERVERS",
      "POD_IP", "PREFER_HOST_MODE", "SPRING_DATASOURCE_PLATFORM", "SQL_SCRIPT", "agent", "client", "config",
      "config_init.d", "custom.properties", "db_data", "debug", "dedicated", "disk", "extra.properties", "logs",
      "logs_data", "logs_logs", "mysql-check-database", "mysql-create-database",
      "mysql-ping-database", "mysql-sql-init", "nacos", "new-rpc", "proxy", "rack", "raft",
      "rpc", "shell", "zone">>
BothWays == {AllNames, Reverse(AllNames)}

\* A fieldRef to the address of the pod, without and with its apiVersion.
FieldRefs == [from \in {"podIP"} |-> "v1 podIP"]

NoCert == [enabled |-> NIL, token |-> NIL, expire |-> NIL, cache |-> NIL]
Toleration(key, effect) == [name |-> key, effect |-> effect]

Base == [type |-> NIL, replicas |-> 1, function |-> NIL, env |-> <<>>, image |-> "i1",
         res |-> NoResources, claim |-> NIL, config |-> NIL, cert |-> NoCert,
         db |-> [type |-> NIL, host |-> NIL], mysqlInitImage |-> NIL, probe |-> NIL,
         tolerations |-> <<>>, nodeSelector |-> NIL, affinity |-> NIL, wrapper |-> NewPod]

Cluster == [Base EXCEPT !.type = "cluster", !.replicas = 2,
                        !.env = <<Env("DOMAIN_NAME", "d1"), Env("DOMAIN_NAME", "d2"),
                                  Env("JVM_XMS", "1g"), Env("JVM_XMS", "2g")>>,
                        !.tolerations = <<Toleration("dedicated", "t1")>>]
Scaled == [Cluster EXCEPT !.replicas = 3, !.function = "naming"]
Mysql == [Base EXCEPT !.db.type = "mysql", !.mysqlInitImage = "m1"]
Get(path) == [exec |-> NIL, http |-> path, tcp |-> NIL]
Stored == [Base EXCEPT !.probe = Get("/health"),
                       !.claim = [size |-> 1, class |-> "fast"], !.config = "c1",
                       !.res = [limits |-> "l1", requests |-> "r1"]]
Certified(value) == [Base EXCEPT !.cert.enabled = value]

Addressed(s, source) ==
    [s EXCEPT !.env = <<[name |-> "POD_IP", value |-> NIL, from |-> source]>>]

\* A patch of the container of Nacos, with values of every kind.
Patch ==
    [NewContainer(NACOS, NIL) EXCEPT
        !.env = <<Env("PREFER_HOST_MODE", "ip"), Env("EMBEDDED_STORAGE", NIL),
                  [name |-> "JVM_XMS", value |-> NIL, from |-> "memory"]>>,
        !.res = [limits |-> "l2", requests |-> NIL],
        !.command = <<"sh", "start">>,
        !.ports = <<Port("raft", 7849), Port("client", 8849)>>,
        !.mounts = <<Mount("logs", "logs")>>,
        !.probe = Get("/ready")]
Logs == [name |-> "logs", source |-> [kind |-> "emptyDir", ref |-> NIL, items |-> <<>>]]
OtherConfig ==
    [name |-> "config",
     source |-> [kind |-> "configMap", ref |-> "mine",
                 items |-> <<[name |-> "extra.properties", path |-> "extra.properties"]>>]]
Sidecar(name) == NewContainer(name, "i2")

Wrapped(s, containers) ==
    [s EXCEPT !.wrapper.containers = containers,
              !.wrapper.volumes = <<Logs, OtherConfig>>,
              !.wrapper.tolerations = <<Toleration("dedicated", "t2"), Toleration("zone", "t1")>>,
              !.wrapper.aliases = <<[name |-> "10.0.0.2", hosts |-> <<"a">>],
                                    [name |-> "10.0.0.1", hosts |-> <<"b">>],
                                    [name |-> "10.0.0.2", hosts |-> <<"c">>]>>,
              !.wrapper.spread = <<[name |-> "zone", skew |-> 1], [name |-> "rack", skew |-> 1]>>]

\* A wrapper that mounts another volume where the data are, and debugs.
Misfit ==
    [Wrapped(Stored, <<[Patch EXCEPT !.mounts = <<Mount("logs", "data")>>,
                                     !.devices = <<[name |-> "disk", path |-> "dev"]>>]>>)
        EXCEPT !.wrapper.ephemeral = <<Sidecar("shell"), Sidecar("debug")>>,
               !.wrapper.dns = [options |-> NIL, servers |-> <<"a">>, searches |-> <<"b">>]]

EverySpec ==
    {Base, Cluster, Scaled, Mysql, Stored, Certified("true"), Certified("false"),
     [Certified("false") EXCEPT !.cert.cache = "true"],
     Wrapped(Base, <<Patch>>), Wrapped(Cluster, <<Sidecar("proxy"), Patch>>),
     Wrapped(Stored, <<Sidecar("agent"), Patch>>),
     Addressed(Base, "podIP"), Addressed(Base, "v1 podIP"),
     Wrapped(Addressed(Mysql, "podIP"), <<Patch>>),
     Wrapped(Certified("true"), <<Sidecar("proxy")>>),
     [Wrapped(Mysql, <<Sidecar("proxy")>>) EXCEPT
        !.wrapper.inits = <<Sidecar("mysql-check-database"), Sidecar("agent")>>],
     Misfit}

\* One wrapper each, as small as can be.
SidecarSpecs ==
    {[Certified(enabled) EXCEPT !.wrapper.containers = <<Sidecar("agent")>>] :
        enabled \in {"true", "false", NIL}}
MemoryPatch == [NewContainer(NACOS, NIL) EXCEPT !.env = <<Env("JVM_XMS", "2g")>>]
PatchedSpecs == {Mysql, [Mysql EXCEPT !.wrapper.containers = <<MemoryPatch>>]}
=============================================================================
