-------------------------- MODULE NacosBuildProofs --------------------------
(***************************************************************************)
(* What the operator builds, for any specs the user may write and any      *)
(* orders in which Go walks its maps.                                      *)
(***************************************************************************)
EXTENDS NacosBuild, MergeProofs

-----------------------------------------------------------------------------
(***************************************************************************)
(* The shape of what is built.                                             *)
(***************************************************************************)

\* Validation keeps what it has no default for.
LEMMA DefaultsShape ==
    ASSUME NEW s, IsSpec(s)
    PROVE  /\ IsSpec(Defaults(s))
           /\ \A f \in {"replicas", "function", "env", "image", "res", "claim", "config",
                        "mysqlInitImage", "probe", "tolerations", "wrapper"} :
                 Defaults(s)[f] = s[f]
           /\ Defaults(s).cert.enabled = s.cert.enabled
<1> DEFINE d == Defaults(s)
<1>1. DOMAIN d = DOMAIN s
  BY DEF Defaults
<1>2. \A f \in DOMAIN s \ {"type", "db", "cert"} : d[f] = s[f]
  BY DEF Defaults
<1>3. DOMAIN d.db = {"type", "host"}
  BY DEF Defaults, IsSpec
<1>4. DOMAIN d.cert = {"enabled", "token", "expire", "cache"} /\ d.cert.enabled = s.cert.enabled
  BY DEF Defaults, IsSpec
<1>5. DOMAIN s = {"type", "replicas", "function", "env", "image", "res", "claim", "config",
                  "cert", "db", "mysqlInitImage", "probe", "tolerations", "nodeSelector",
                  "affinity", "wrapper"}
  BY DEF IsSpec
<1> HIDE DEF d
<1>6. \A f \in {"replicas", "function", "env", "image", "res", "claim", "config",
                "mysqlInitImage", "probe", "tolerations", "wrapper"} : d[f] = s[f]
  BY <1>2, <1>5
<1>7. IsSpec(d)
  BY <1>1, <1>3, <1>4, <1>6 DEF IsSpec
<1> QED
  BY <1>4, <1>6, <1>7 DEF d

LEMMA EnvItem ==
    ASSUME NEW n, NEW v
    PROVE  Env(n, v).name = n /\ DOMAIN Env(n, v) = EnvFields
           /\ Env(n, v).value = v /\ Env(n, v).from = NIL
BY DEF Env, EnvFields

LEMMA OneEnv ==
    ASSUME NEW n \in Names, NEW v
    PROVE  /\ Items(<<Env(n, v)>>, EnvFields) /\ ToSet(<<Env(n, v)>>) = {Env(n, v)}
           /\ Items(Optional(n, v), EnvFields)
           /\ ToSet(Optional(n, v)) = IF v = NIL THEN {} ELSE {Env(n, v)}
<1>1. Items(<<Env(n, v)>>, EnvFields)
  BY EnvItem, ItemsListed
<1> QED
  BY <1>1, ItemsListed, OneEntry, NoEntries DEF Optional

\* The variables the operator sets, in one set.
OwnEnv(s) ==
    {Env("FUNCTION_MODE", s.function), Env("PREFER_HOST_MODE", "hostname"),
     Env("EMBEDDED_STORAGE", "embedded"), Env("SPRING_DATASOURCE_PLATFORM", "mysql"),
     Env("MYSQL_SERVICE_HOST", s.db.host),
     Env("NACOS_AUTH_TOKEN_EXPIRE_SECONDS", s.cert.expire),
     Env("NACOS_AUTH_TOKEN", s.cert.token),
     Env("NACOS_AUTH_CACHE_ENABLE", s.cert.cache),
     Env("MODE", "standalone"), Env("NACOS_REPLICAS", ToString(s.replicas)),
     Env("NACOS_SERVERS", Members(s))}

LEMMA BuiltEnvShape ==
    ASSUME NEW s, IsSpec(s)
    PROVE  /\ Items(BuiltEnv(s), EnvFields)
           /\ s.cert.enabled # NIL => Env("NACOS_AUTH_ENABLE", s.cert.enabled) \in ToSet(BuiltEnv(s))
           /\ \A e \in ToSet(BuiltEnv(s)) :
                 \/ e \in ToSet(s.env)
                 \/ e \in OwnEnv(s)
                 \/ s.cert.enabled # NIL /\ e = Env("NACOS_AUTH_ENABLE", s.cert.enabled)
<1> DEFINE made(q, S) == Items(q, EnvFields) /\ ToSet(q) \subseteq S
           O == OwnEnv(s)
           A == {Env("NACOS_AUTH_ENABLE", s.cert.enabled)}
           mode == IF s.function \in {"naming", "config"}
                     THEN <<Env("FUNCTION_MODE", s.function)>>
                     ELSE <<Env("PREFER_HOST_MODE", "hostname")>>
           members == IF s.type = "standalone"
                        THEN <<Env("MODE", "standalone")>>
                        ELSE <<Env("NACOS_REPLICAS", ToString(s.replicas)),
                               Env("NACOS_SERVERS", Members(s))>>
           enable == Optional("NACOS_AUTH_ENABLE", s.cert.enabled)
           expire == Optional("NACOS_AUTH_TOKEN_EXPIRE_SECONDS", s.cert.expire)
           token == Optional("NACOS_AUTH_TOKEN", s.cert.token)
           cache == Optional("NACOS_AUTH_CACHE_ENABLE", s.cert.cache)
           db == DatabaseEnv(s)
<1>1. OwnNames \subseteq Names
  BY BuildAssumption
<1>2. /\ "FUNCTION_MODE" \in Names /\ "PREFER_HOST_MODE" \in Names /\ "EMBEDDED_STORAGE" \in Names
      /\ "SPRING_DATASOURCE_PLATFORM" \in Names /\ "MYSQL_SERVICE_HOST" \in Names
      /\ "NACOS_AUTH_ENABLE" \in Names /\ "NACOS_AUTH_TOKEN_EXPIRE_SECONDS" \in Names
      /\ "NACOS_AUTH_TOKEN" \in Names /\ "NACOS_AUTH_CACHE_ENABLE" \in Names /\ "MODE" \in Names
      /\ "NACOS_REPLICAS" \in Names /\ "NACOS_SERVERS" \in Names
  BY <1>1 DEF OwnNames
<1>3. \A e \in O \cup A : e.name \in Names /\ DOMAIN e = EnvFields
  BY <1>2, EnvItem DEF OwnEnv
<1>4. \A x, y \in O : made(<<x>>, O) /\ made(<<x, y>>, O)
  <2> HIDE DEF O
  <2> SUFFICES ASSUME NEW x \in O, NEW y \in O PROVE made(<<x>>, O) /\ made(<<x, y>>, O)
    OBVIOUS
  <2>1. Items(<<x>>, EnvFields) /\ Items(<<x, y>>, EnvFields)
    BY <1>3, ItemsListed
  <2> QED
    BY <2>1, OneEntry, TwoEntries
<1>5. made(<<>>, O)
  BY ItemsListed, NoEntries
<1>6. made(mode, O) /\ made(members, O)
  BY <1>4 DEF OwnEnv
<1>7. made(db, O)
  BY <1>4, <1>5 DEF OwnEnv, DatabaseEnv
<1>8. made(expire, O) /\ made(token, O) /\ made(cache, O)
  BY <1>4, <1>5 DEF OwnEnv, Optional
<1>9. Items(enable, EnvFields) /\ ToSet(enable) = IF s.cert.enabled = NIL THEN {} ELSE A
  BY <1>2, OneEnv
<1>10. Items(s.env, EnvFields)
  BY DEF IsSpec, EnvFields
<1>11. BuiltEnv(s) = s.env \o mode \o enable \o expire \o token \o cache \o db \o members
  BY DEF BuiltEnv, UserEnv
<1> HIDE DEF mode, members, enable, expire, token, cache, db, O
<1>12. \A q, r : Items(q, EnvFields) /\ Items(r, EnvFields) =>
          Items(q \o r, EnvFields) /\ ToSet(q \o r) = ToSet(q) \cup ToSet(r)
  BY ItemsConcat, ConcatLists DEF Items
<1>13. /\ Items(BuiltEnv(s), EnvFields)
       /\ ToSet(BuiltEnv(s)) = ToSet(s.env) \cup ToSet(mode) \cup ToSet(enable) \cup ToSet(expire)
             \cup ToSet(token) \cup ToSet(cache) \cup ToSet(db) \cup ToSet(members)
  BY <1>6, <1>7, <1>8, <1>9, <1>10, <1>11, <1>12
<1> QED
  BY <1>6, <1>7, <1>8, <1>9, <1>13 DEF O

LEMMA PortsShape ==
    Items(<<Port("client", 8848), Port("rpc", 7848), Port("new-rpc", 9848)>>, {"name", "port"})
<1>1. \A n, p : Port(n, p).name = n /\ DOMAIN Port(n, p) = {"name", "port"}
  BY DEF Port
<1>2. "client" \in Names /\ "rpc" \in Names /\ "new-rpc" \in Names
  BY BuildAssumption DEF OwnNames
<1> DEFINE fields == {"name", "port"}
           x == Port("client", 8848)
           y == Port("rpc", 7848)
           z == Port("new-rpc", 9848)
<1>3. /\ x.name \in Names /\ y.name \in Names /\ z.name \in Names
      /\ DOMAIN x = fields /\ DOMAIN y = fields /\ DOMAIN z = fields
  BY <1>1, <1>2
<1> HIDE DEF x, y, z, fields
<1>4. Items(<<x, y, z>>, fields)
  BY <1>3, ItemsListed
<1> QED
  BY <1>4 DEF x, y, z, fields

\* The mounts of the container of Nacos, which all have paths of their own.
OwnMounts(s) ==
    (IF s.claim = NIL THEN <<>> ELSE <<Mount("db", "data")>>)
    \o (IF s.config = NIL THEN <<>> ELSE <<Mount("config", "init.d")>>)

MountFields == {"name", "volume", "path"}

LEMMA OwnMountsShape ==
    ASSUME NEW s
    PROVE  /\ Items(OwnMounts(s), MountFields)
           /\ \A m \in ToSet(OwnMounts(s)) :
                 \/ s.claim # NIL /\ m = Mount("db", "data")
                 \/ s.config # NIL /\ m = Mount("config", "init.d")
<1>1. \A v, p : Mount(v, p).name = Mounted(v, p) /\ DOMAIN Mount(v, p) = MountFields
  BY DEF Mount, MountFields
<1>2. Mounted("db", "data") \in Names /\ Mounted("config", "init.d") \in Names
  BY BuildAssumption DEF OwnNames
<1> DEFINE q == IF s.claim = NIL THEN <<>> ELSE <<Mount("db", "data")>>
           r == IF s.config = NIL THEN <<>> ELSE <<Mount("config", "init.d")>>
<1>3. Items(q, MountFields) /\ Items(r, MountFields)
  BY <1>1, <1>2, ItemsListed
<1>4. /\ ToSet(q) = IF s.claim = NIL THEN {} ELSE {Mount("db", "data")}
      /\ ToSet(r) = IF s.config = NIL THEN {} ELSE {Mount("config", "init.d")}
  BY NoEntries, OneEntry
<1>5. OwnMounts(s) = q \o r
  BY DEF OwnMounts
<1> HIDE DEF q, r
<1>6. ToSet(OwnMounts(s)) = ToSet(q) \cup ToSet(r)
  BY <1>3, <1>5, ConcatLists DEF Items
<1>7. Items(OwnMounts(s), MountFields)
  BY <1>3, <1>5, ItemsConcat
<1> QED
  BY <1>4, <1>6, <1>7

LEMMA NacosContainerShape ==
    ASSUME NEW s, IsSpec(s)
    PROVE  /\ IsContainer(NacosContainer(s))
           /\ NacosContainer(s).name = NACOS
           /\ NacosContainer(s).image = s.image
           /\ NacosContainer(s).env = BuiltEnv(s)
           /\ NacosContainer(s).mounts = OwnMounts(s)
           /\ NacosContainer(s).probe = s.probe
<1> DEFINE c == NacosContainer(s)
           command == IF s.type = "standalone" THEN <<>> ELSE <<"sh", "-c", Members(s)>>
           ports == <<Port("client", 8848), Port("rpc", 7848), Port("new-rpc", 9848)>>
<1>1. /\ DOMAIN c = {"name", "image", "command", "ports", "env", "res", "mounts", "devices",
                     "probe", "lifecycle"}
      /\ c.name = NACOS /\ c.image = s.image /\ c.command = command /\ c.ports = ports
      /\ c.env = BuiltEnv(s) /\ c.mounts = OwnMounts(s) /\ c.devices = <<>> /\ c.probe = s.probe
  <2> DEFINE new == NewContainer(NACOS, s.image)
             life == [postStart |-> NIL, preStop |-> "rm raft"]
  <2>1. DOMAIN new = {"name", "image", "command", "ports", "env", "res", "mounts", "devices",
                      "probe", "lifecycle"}
        /\ new.name = NACOS /\ new.image = s.image /\ new.devices = <<>>
    BY DEF NewContainer
  <2>2. c = [new EXCEPT !.command = command, !.ports = ports, !.env = BuiltEnv(s), !.res = s.res,
                        !.mounts = OwnMounts(s), !.probe = s.probe, !.lifecycle = life]
    BY DEF NacosContainer, OwnMounts
  <2> HIDE DEF new, command, ports, life
  <2> QED
    BY <2>1, <2>2
<1> HIDE DEF c
<1>2. IsList(command)
  BY NoEntries, ThreeEntries
<1>3. /\ Items(ports, {"name", "port"})
      /\ Items(BuiltEnv(s), {"name", "value", "from"})
      /\ Items(OwnMounts(s), {"name", "volume", "path"})
      /\ Items(<<>>, {"name", "path"})
  BY PortsShape, BuiltEnvShape, OwnMountsShape, ItemsListed DEF EnvFields, MountFields
<1>4. s.probe = NIL \/ DOMAIN s.probe = {"exec", "http", "tcp"}
  BY DEF IsSpec
<1> HIDE DEF ports, command
<1>5. IsContainer(c)
  BY <1>1, <1>2, <1>3, <1>4 DEF IsContainer
<1> QED
  BY <1>1, <1>5 DEF c

LEMMA MysqlContainerShape ==
    ASSUME NEW s, NEW n
    PROVE  /\ IsContainer(MysqlContainer(s, n))
           /\ MysqlContainer(s, n).name = n
           /\ MysqlContainer(s, n).image = s.mysqlInitImage
           /\ MysqlContainer(s, n).env = <<Env("MYSQL_HOST", s.db.host)>>
           /\ MysqlContainer(s, n).mounts = <<>>
           /\ MysqlContainer(s, n).probe = NIL
<1> DEFINE c == MysqlContainer(s, n)
<1>1. /\ DOMAIN c = {"name", "image", "command", "ports", "env", "res", "mounts", "devices",
                     "probe", "lifecycle"}
      /\ c.name = n /\ c.image = s.mysqlInitImage /\ c.command = <<"/bin/sh", "-c", n>>
      /\ c.ports = <<>> /\ c.env = <<Env("MYSQL_HOST", s.db.host)>> /\ c.mounts = <<>>
      /\ c.devices = <<>> /\ c.probe = NIL
  BY DEF MysqlContainer, NewContainer
<1> HIDE DEF c
<1>2. /\ IsList(<<"/bin/sh", "-c", n>>)
      /\ \A fields : Items(<<>>, fields)
  BY ThreeEntries, ItemsListed
<1>3. Items(<<Env("MYSQL_HOST", s.db.host)>>, {"name", "value", "from"})
  <2>1. "MYSQL_HOST" \in Names
    BY BuildAssumption DEF OwnNames
  <2> QED
    BY <2>1, OneEnv DEF EnvFields
<1>4. IsContainer(c)
  BY <1>1, <1>2, <1>3 DEF IsContainer
<1> QED
  BY <1>1, <1>4 DEF c

LEMMA OneContainer ==
    ASSUME NEW c, IsContainer(c), c.name \in Names
    PROVE  /\ IsContainers(<<c>>) /\ NamesOf(<<c>>) = {c.name} /\ ToSet(<<c>>) = {c}
           /\ Named(<<c>>)[c.name] = c
<1>1. IsList(<<c>>) /\ ToSet(<<c>>) = {c} /\ DOMAIN <<c>> = {1} /\ <<c>>[1] = c
  BY OneEntry
<1>2. NamesOf(<<c>>) = {c.name}
  BY <1>1 DEF NamesOf
<1>3. Named(<<c>>)[c.name] \in ToSet(<<c>>)
  BY <1>1, <1>2, NamedLast
<1> QED
  BY <1>1, <1>2, <1>3 DEF IsContainers

LEMMA NoContainers == IsContainers(<<>>)
BY NoEntries DEF IsContainers

LEMMA TwoContainers ==
    ASSUME NEW b, IsContainer(b), b.name \in Names, NEW c, IsContainer(c), c.name \in Names
    PROVE  IsContainers(<<b, c>>) /\ ToSet(<<b, c>>) = {b, c}
<1>1. IsList(<<b, c>>) /\ ToSet(<<b, c>>) = {b, c}
  BY TwoEntries
<1>2. \A i \in DOMAIN <<b, c>> : <<b, c>>[i] \in {b, c}
  BY <1>1 DEF ToSet
<1> QED
  BY <1>1, <1>2 DEF IsContainers, NamesOf

PodFields == {"volumes", "containers", "inits", "ephemeral", "tolerations", "aliases",
              "spread", "selector", "affinity", "dns", "plain"}

LEMMA EmptyPod ==
    /\ DOMAIN NewPod = PodFields
    /\ NewPod.volumes = <<>> /\ NewPod.ephemeral = <<>> /\ NewPod.tolerations = <<>>
    /\ NewPod.aliases = <<>> /\ NewPod.spread = <<>> /\ NewPod.dns = NIL
BY DEF NewPod, PodFields

\* The pod of the StatefulSet before the merge.
LEMMA TemplateShape ==
    ASSUME NEW s, IsSpec(s)
    PROVE  /\ IsPod(Template(s))
           /\ Template(s).containers = <<NacosContainer(s)>>
           /\ Template(s).inits = IF InitsMysql(s) THEN <<MysqlContainer(s, "mysql-check-database")>>
                                                   ELSE <<>>
           /\ Template(s).volumes = IF s.config = NIL THEN <<>> ELSE <<ConfigVolume>>
           /\ Template(s).ephemeral = <<>> /\ Template(s).aliases = <<>>
           /\ Template(s).spread = <<>> /\ Template(s).dns = NIL
<1> DEFINE t == Template(s)
           volumes == IF s.config = NIL THEN <<>> ELSE <<ConfigVolume>>
           inits == IF InitsMysql(s) THEN <<MysqlContainer(s, "mysql-check-database")>> ELSE <<>>
           containers == <<NacosContainer(s)>>
<1>1. t = [NewPod EXCEPT !.volumes = volumes, !.containers = containers, !.inits = inits,
                         !.tolerations = s.tolerations, !.selector = s.nodeSelector,
                         !.affinity = s.affinity]
  BY DEF Template
<1>2. NACOS \in Names /\ "mysql-check-database" \in Names /\ "config" \in Names
  BY BuildAssumption DEF OwnNames
<1>3. IsContainers(containers)
  BY <1>2, NacosContainerShape, OneContainer
<1>4. IsContainers(inits)
  BY <1>2, MysqlContainerShape, OneContainer, NoContainers
<1>5. IsVolumes(volumes)
  <2>1. ConfigVolume.name = "config" /\ DOMAIN ConfigVolume = {"name", "source"}
    BY DEF ConfigVolume
  <2>2. Items(<<>>, {"name", "source"}) /\ Items(<<ConfigVolume>>, {"name", "source"})
    BY <1>2, <2>1, ItemsListed
  <2>3. Items(ConfigVolume.source.items, {"name", "path"})
    <3> DEFINE f == [name |-> "custom.properties", path |-> "custom.properties"]
    <3>1. ConfigVolume.source.items = <<f>> /\ f.name = "custom.properties" /\ DOMAIN f = {"name", "path"}
      BY DEF ConfigVolume
    <3>2. "custom.properties" \in Names
      BY BuildAssumption DEF OwnNames
    <3> HIDE DEF f
    <3> QED
      BY <3>1, <3>2, ItemsListed
  <2>4. DOMAIN <<>> = {} /\ \A x : DOMAIN <<x>> = {1} /\ <<x>>[1] = x
    BY NoEntries
  <2> QED
    BY <2>2, <2>3, <2>4 DEF IsVolumes
<1>6. Items(s.tolerations, {"name", "effect"})
  BY DEF IsSpec
<1> HIDE DEF volumes, inits, containers, t
<1>7. /\ DOMAIN t = PodFields /\ t.volumes = volumes /\ t.containers = containers
      /\ t.inits = inits /\ t.tolerations = s.tolerations
      /\ t.ephemeral = <<>> /\ t.aliases = <<>> /\ t.spread = <<>> /\ t.dns = NIL
  BY <1>1, EmptyPod DEF PodFields
<1>8. \A fields : Items(<<>>, fields)
  BY ItemsListed
<1>9. IsPod(t)
  BY <1>3, <1>4, <1>5, <1>6, <1>7, <1>8, NoContainers DEF IsPod, PodFields
<1> QED
  BY <1>7, <1>9 DEF volumes, inits, containers, t

\* The container that imports the schema.
ImportEnv(s) == <<Env("MYSQL_HOST", s.db.host), [name |-> "SQL_SCRIPT", value |-> NIL, from |-> "sqlcm"]>>

LEMMA ImportShape ==
    ASSUME NEW s, NEW c, c = [MysqlContainer(s, "mysql-sql-init") EXCEPT
                                 !.env = Append(@, [name |-> "SQL_SCRIPT", value |-> NIL,
                                                    from |-> "sqlcm"])]
    PROVE  IsContainer(c) /\ c.name = "mysql-sql-init" /\ c.env = ImportEnv(s)
<1> DEFINE e == Env("MYSQL_HOST", s.db.host)
           f == [name |-> "SQL_SCRIPT", value |-> NIL, from |-> "sqlcm"]
           b == MysqlContainer(s, "mysql-sql-init")
<1>1. IsContainer(b) /\ b.name = "mysql-sql-init" /\ b.env = <<e>>
  BY MysqlContainerShape
<1>2. c = [b EXCEPT !.env = Append(@, f)]
  OBVIOUS
<1>3. f.name = "SQL_SCRIPT" /\ DOMAIN f = EnvFields
  BY DEF EnvFields
<1>4. "MYSQL_HOST" \in Names /\ "SQL_SCRIPT" \in Names
  BY BuildAssumption DEF OwnNames
<1>5. ImportEnv(s) = <<e, f>>
  BY DEF ImportEnv
<1>6. e.name \in Names /\ f.name \in Names /\ DOMAIN e = EnvFields /\ DOMAIN f = EnvFields
  BY <1>3, <1>4, EnvItem
<1> HIDE DEF b, e, f
<1>7. Items(<<e, f>>, EnvFields)
  BY <1>6, ItemsListed
<1>8. Append(<<e>>, f) = <<e, f>>
  <2>1. <<e>> \in Seq({e, f}) /\ <<e, f>> \in Seq({e, f}) /\ f \in {e, f}
    <3>1. <<e>> \in Seq({e}) /\ <<e, f>> \in Seq({e, f})
      BY OneEntry, TwoEntries DEF IsList
    <3> QED
      BY <3>1, SeqMonotonic
  <2>2. <<e>>[1] = e /\ <<e, f>>[1] = e /\ <<e, f>>[2] = f
    OBVIOUS
  <2>3. Len(<<e>>) = 1
    OBVIOUS
  <2>4. Len(<<e, f>>) = 2
    <3>1. <<e, f>> \in [1..2 -> {e, f}]
      OBVIOUS
    <3> QED
      BY <3>1, ListMade
  <2> DEFINE q == Append(<<e>>, f)
             r == <<e, f>>
  <2>5. q \in Seq({e, f}) /\ Len(q) = 2 /\ q[1] = e /\ q[2] = f
    BY <2>1, <2>2, <2>3, AppendProperties
  <2>6. \A i \in 1..2 : q[i] = r[i]
    BY <2>2, <2>5
  <2> HIDE DEF q, r
  <2>7. q = r
    BY <2>1, <2>4, <2>5, <2>6, SeqEqual DEF r
  <2> QED
    BY <2>7 DEF q, r
<1>9. DOMAIN c = DOMAIN b /\ c.env = <<e, f>> /\ \A x \in DOMAIN b \ {"env"} : c[x] = b[x]
  BY <1>1, <1>2, <1>8 DEF IsContainer
<1>10. DOMAIN b = {"name", "image", "command", "ports", "env", "res", "mounts", "devices",
                  "probe", "lifecycle"}
  BY <1>1 DEF IsContainer
<1> HIDE <1>2
<1>11. IsContainer(c)
  BY <1>1, <1>7, <1>9, <1>10 DEF IsContainer, EnvFields
<1> QED
  BY <1>1, <1>5, <1>9, <1>10, <1>11

LEMMA JobTemplateShape ==
    ASSUME NEW s
    PROVE  /\ IsContainers(JobTemplate(s).containers) /\ IsContainers(JobTemplate(s).inits)
           /\ \E c : /\ JobTemplate(s).containers = <<c>> /\ IsContainer(c)
                     /\ c.name = "mysql-sql-init" /\ c.env = ImportEnv(s)
           /\ JobTemplate(s).inits = <<MysqlContainer(s, "mysql-ping-database"),
                                       MysqlContainer(s, "mysql-create-database")>>
<1> DEFINE Import == [MysqlContainer(s, "mysql-sql-init") EXCEPT
                         !.env = Append(@, [name |-> "SQL_SCRIPT", value |-> NIL, from |-> "sqlcm"])]
           x == MysqlContainer(s, "mysql-ping-database")
           y == MysqlContainer(s, "mysql-create-database")
<1>1. JobTemplate(s) = [NewPod EXCEPT !.inits = <<x, y>>, !.containers = <<Import>>, !.plain = "Never"]
  BY DEF JobTemplate
<1>2. IsContainer(Import) /\ Import.name = "mysql-sql-init" /\ Import.env = ImportEnv(s)
  BY ImportShape
<1>3. /\ IsContainer(x) /\ x.name = "mysql-ping-database"
      /\ IsContainer(y) /\ y.name = "mysql-create-database"
  BY MysqlContainerShape
<1> HIDE DEF Import, x, y
<1>4. JobTemplate(s).inits = <<x, y>> /\ JobTemplate(s).containers = <<Import>>
  BY <1>1, EmptyPod DEF PodFields
<1>5. /\ "mysql-sql-init" \in Names /\ "mysql-ping-database" \in Names
      /\ "mysql-create-database" \in Names
  BY BuildAssumption DEF OwnNames
<1>6. IsContainers(<<Import>>) /\ IsContainers(<<x, y>>)
  BY <1>2, <1>3, <1>5, OneContainer, TwoContainers
<1>7. \E c : /\ JobTemplate(s).containers = <<c>> /\ IsContainer(c)
             /\ c.name = "mysql-sql-init" /\ c.env = ImportEnv(s)
  BY <1>2, <1>4, Zenon
<1>8. IsContainers(JobTemplate(s).containers) /\ IsContainers(JobTemplate(s).inits)
  BY <1>4, <1>6
<1> QED
  BY <1>4, <1>7, <1>8, Zenon DEF x, y

-----------------------------------------------------------------------------
(***************************************************************************)
(* The pods of the StatefulSet, merged.                                    *)
(***************************************************************************)

\* The parts of a StatefulSet that do not depend on the walk.
LEMMA StsShape ==
    ASSUME NEW s \in Specs, NEW walk
    PROVE  /\ IsSpec(s) /\ IsSpec(Defaults(s)) /\ IsPod(Template(Defaults(s))) /\ IsPod(s.wrapper)
           /\ Sts(s, walk).replicas = s.replicas /\ s.replicas \in Nat
           /\ Sts(s, walk).service \in {NIL, "headless"}
           /\ Sts(s, walk).claim = s.claim
           /\ Sts(s, walk).pod = PodSpec(Template(Defaults(s)), s.wrapper, walk)
<1> DEFINE d == Defaults(s)
<1>1. IsSpec(s)
  BY BuildAssumption
<1>2. /\ IsSpec(d) /\ d.replicas = s.replicas /\ d.claim = s.claim /\ d.wrapper = s.wrapper
  BY <1>1, DefaultsShape
<1>3. s.replicas \in Nat /\ IsPod(s.wrapper)
  BY <1>1 DEF IsSpec
<1>4. IsPod(Template(d))
  BY <1>2, TemplateShape
<1> HIDE DEF d
<1>5. /\ Sts(s, walk).replicas = d.replicas
      /\ Sts(s, walk).service = IF d.type = "standalone" THEN NIL ELSE "headless"
      /\ Sts(s, walk).claim = d.claim
      /\ Sts(s, walk).pod = PodSpec(Template(d), d.wrapper, walk)
  BY DEF Sts, d
<1> QED
  BY <1>1, <1>2, <1>3, <1>4, <1>5 DEF d

LEMMA MergedPod ==
    ASSUME NEW d, NEW o, NEW walk
    PROVE  /\ PodSpec(d, o, walk).volumes = Volumes(d.volumes, o.volumes, walk)
           /\ PodSpec(d, o, walk).containers = Containers(d.containers, o.containers, walk)
           /\ PodSpec(d, o, walk).inits = Containers(d.inits, o.inits, walk)
           /\ PodSpec(d, o, walk).ephemeral = IF o.ephemeral = <<>> THEN d.ephemeral
                 ELSE EphemeralContainers(d.ephemeral, o.ephemeral, walk)
           /\ PodSpec(d, o, walk).tolerations = Tolerations(d.tolerations, o.tolerations, walk)
           /\ PodSpec(d, o, walk).aliases = HostAliases(d.aliases, o.aliases, walk)
           /\ PodSpec(d, o, walk).spread = IF o.spread = <<>> THEN d.spread
                 ELSE TopologySpreadConstraints(d.spread, o.spread, walk)
           /\ PodSpec(d, o, walk).dns = PodDNSConfig(d.dns, o.dns)
BY DEF PodSpec

LEMMA StsContainers ==
    ASSUME NEW s \in Specs, NEW walk
    PROVE  /\ Sts(s, walk).pod.containers =
                 Containers(Template(Defaults(s)).containers, s.wrapper.containers, walk)
           /\ IsContainers(Template(Defaults(s)).containers) /\ IsContainers(s.wrapper.containers)
           /\ IsContainers(Template(Defaults(s)).inits) /\ IsContainers(s.wrapper.inits)
BY StsShape, MergedPod DEF IsPod

LEMMA MergesSameNames == ASSUME NEW r, NEW d, NEW o, Merges(r, d, o) PROVE SameNames(r, d, o)
BY DEF Merges, SameNames, Distinct, DistinctNames

\* Of a list that has every name once, the item of a name is what it says.
LEMMA NamedDistinct ==
    ASSUME NEW s, IsList(s), DistinctNames(s), NEW x \in ToSet(s)
    PROVE  x.name \in NamesOf(s) /\ Named(s)[x.name] = x
<1>1. PICK i \in DOMAIN s : s[i] = x
  BY DEF ToSet
<1>2. IsLast(s, i)
  BY <1>1, ListFacts DEF IsLast, DistinctNames
<1> QED
  BY <1>1, <1>2, NamedLast DEF NamesOf

\* The variables of both, those of one name merged.
LEMMA MergedEnvs ==
    ASSUME NEW d, Items(d, EnvFields), NEW o, Items(o, EnvFields), NEW walk, IsWalk(walk),
           NEW r, r = Envs(d, o, walk)
    PROVE  /\ Merges(r, d, o)
           /\ \A k \in DOMAIN r :
                 LET n == r[k].name
                 IN  \/ n \in Common(d, o) /\ r[k] = SingleEnv(Named(d)[n], Named(o)[n])
                     \/ n \notin NamesOf(o) /\ r[k] = Named(d)[n]
                     \/ n \notin NamesOf(d) /\ r[k] = Named(o)[n]
<1> DEFINE both == [n \in Common(d, o) |-> SingleEnv(Named(d)[n], Named(o)[n])]
<1>1. /\ DOMAIN both = Common(d, o)
      /\ \A n \in Common(d, o) : both[n] = SingleEnv(Named(d)[n], Named(o)[n])
  OBVIOUS
<1>2. r = MergeNamed(d, o, both, walk)
  BY DEF Envs
<1>3. NamesKnown(d) /\ NamesKnown(o) /\ KeepsNames(both)
  BY ItemsKnown, SingleEnvKeepsNames
<1> HIDE DEF both
<1>4. Merges(r, d, o) /\ \A k \in DOMAIN r : r[k] = Overlay(d, o, both)[r[k].name]
  BY <1>2, <1>3, MergeNamedLists DEF Merges
<1>5. \A k \in DOMAIN r : r[k].name \in NamesOf(d) \cup NamesOf(o)
  BY <1>4 DEF Merges, NamesOf
<1> QED
  BY <1>1, <1>3, <1>4, <1>5, OverlayItems

\* The container of Nacos is always there, once.
LEMMA NacosThere ==
    ASSUME NEW s \in Specs, NEW walk, IsWalk(walk), NEW q, q = Sts(s, walk).pod.containers
    PROVE  IsList(q) /\ DistinctNames(q) /\ NACOS \in NamesOf(q)
           /\ 1 \in DOMAIN q /\ Head(q) = q[1]
<1> DEFINE d == Template(Defaults(s)).containers
<1>1. IsSpec(Defaults(s))
  BY StsShape
<1>2. d = <<NacosContainer(Defaults(s))>> /\ NacosContainer(Defaults(s)).name = NACOS
  BY <1>1, TemplateShape, NacosContainerShape
<1>3. NACOS \in NamesOf(d)
  BY <1>2, OneEntry, NamesInSet
<1>4. Merges(q, d, s.wrapper.containers)
  BY StsContainers, MergedContainers
<1> HIDE DEF d
<1>5. IsList(q) /\ DistinctNames(q) /\ NACOS \in NamesOf(q)
  BY <1>3, <1>4 DEF Merges, NamesKnown
<1>6. DOMAIN q # {} /\ DOMAIN q = 1..Len(q) /\ Len(q) \in Nat
  BY <1>5, ListFacts DEF NamesOf
<1>7. 1 \in DOMAIN q
  BY <1>6
<1>8. Head(q) = q[1]
  BY <1>5, <1>6 DEF IsList
<1> QED
  BY <1>5, <1>7, <1>8

\* The containers whose variables the API server completes.
HasVariables(c) == {"name", "res", "env"} \subseteq DOMAIN c /\ Items(c.env, EnvFields)

LEMMA MergedVariables ==
    ASSUME NEW d, Items(d, EnvFields), NEW o, Items(o, EnvFields), NEW walk, IsWalk(walk)
    PROVE  Items(Envs(d, o, walk), EnvFields)
<1> DEFINE r == Envs(d, o, walk)
<1>1. /\ Merges(r, d, o)
      /\ \A k \in DOMAIN r :
            LET n == r[k].name
            IN  \/ n \in Common(d, o) /\ r[k] = SingleEnv(Named(d)[n], Named(o)[n])
                \/ n \notin NamesOf(o) /\ r[k] = Named(d)[n]
                \/ n \notin NamesOf(d) /\ r[k] = Named(o)[n]
  BY MergedEnvs
<1> HIDE DEF r
<1>2. IsList(r) /\ NamesOf(r) \subseteq Names /\ NamesOf(r) = NamesOf(d) \cup NamesOf(o)
  BY <1>1 DEF Merges, NamesKnown
<1>3. /\ \A n \in NamesOf(d) : DOMAIN Named(d)[n] = EnvFields
      /\ \A n \in NamesOf(o) : DOMAIN Named(o)[n] = EnvFields
  BY NamedLast DEF Items, ToSet
<1>4. ASSUME NEW k \in DOMAIN r PROVE DOMAIN r[k] = EnvFields
  <2>1. r[k].name \in NamesOf(d) \cup NamesOf(o)
    BY <1>2 DEF NamesOf
  <2>2. \A x, y : DOMAIN x = EnvFields => DOMAIN SingleEnv(x, y) = EnvFields
    BY DEF SingleEnv
  <2>3. r[k].name \in Common(d, o) => r[k].name \in NamesOf(d)
    BY ItemsKnown, CommonNames
  <2> QED
    BY <1>1, <1>3, <2>1, <2>2, <2>3
<1> QED
  BY <1>2, <1>4 DEF Items, r

LEMMA MergedHaveVariables ==
    ASSUME NEW d, IsContainers(d), NEW o, IsContainers(o), NEW walk, IsWalk(walk)
    PROVE  \A c \in ToSet(Containers(d, o, walk)) : HasVariables(c)
<1>1. \A c : IsContainer(c) => HasVariables(c)
  BY DEF IsContainer, HasVariables, EnvFields
<1>2. \A c \in ToSet(d) \cup ToSet(o) : IsContainer(c)
  BY DEF IsContainers, ToSet
<1>3. ASSUME NEW n \in Common(d, o) PROVE HasVariables(Container(Named(d)[n], Named(o)[n], walk))
  <2> DEFINE a == Named(d)[n]
             b == Named(o)[n]
  <2>1. Items(a.env, EnvFields) /\ Items(b.env, EnvFields)
    BY <1>1, CommonContainers DEF HasVariables
  <2>2. Items(Envs(a.env, b.env, walk), EnvFields)
    BY <2>1, MergedVariables
  <2>3. /\ {"name", "res", "env"} \subseteq DOMAIN Container(a, b, walk)
        /\ Container(a, b, walk).env = Envs(a.env, b.env, walk)
    BY DEF Container
  <2> QED
    BY <2>2, <2>3 DEF HasVariables
<1> QED
  BY <1>1, <1>2, <1>3, MergedContainers

-----------------------------------------------------------------------------
(***************************************************************************)
(* What the API server adds.                                               *)
(***************************************************************************)

Asked(e) == [value |-> IF e.from = NIL THEN e.value ELSE NIL, from |-> e.from]

\* The last position of a name.
LEMMA LastPosition ==
    ASSUME NEW s, IsList(s), NEW n \in NamesOf(s), NEW at, at = {i \in DOMAIN s : s[i].name = n}
    PROVE  Max(at) \in at /\ s[Max(at)] = Named(s)[n]
<1>1. at # {} /\ at \in SUBSET DOMAIN s
  BY DEF NamesOf
<1>2. \E i \in at : \A j \in at : j <= i
  BY <1>1, EndsExist
<1>3. \A i \in at : i \in Int
  BY <1>1, ListFacts
<1>4. \E i \in at : \A j \in at : i >= j
  BY <1>2, <1>3
<1>5. Max(at) \in at /\ \A j \in at : Max(at) >= j
  BY <1>4, Zenon DEF Max
<1>6. IsLast(s, Max(at)) /\ Max(at) \in DOMAIN s /\ s[Max(at)].name = n
  BY <1>3, <1>5 DEF IsLast
<1> QED
  BY <1>5, <1>6, NamedLast

LEMMA SettingNamed ==
    ASSUME NEW s, IsList(s), NEW n
    PROVE  Setting(s, n) = IF n \in NamesOf(s) THEN Asked(Named(s)[n]) ELSE Unset
<1> DEFINE at == {i \in DOMAIN s : s[i].name = n}
<1>1. at = {} <=> n \notin NamesOf(s)
  BY DEF NamesOf
<1>2. Setting(s, n) = IF at = {} THEN Unset ELSE Asked(s[Max(at)])
  BY DEF Setting, Asked
<1>3. CASE n \in NamesOf(s)
  <2>1. s[Max(at)] = Named(s)[n]
    BY <1>3, LastPosition
  <2> HIDE DEF at
  <2> QED
    BY <1>1, <1>2, <1>3, <2>1
<1> HIDE DEF at
<1> QED
  BY <1>1, <1>2, <1>3

LEMMA AskedNothing ==
    ASSUME NEW e
    PROVE  Asked(e) = Unset <=> e.value = NIL /\ e.from = NIL
BY DEF Asked, Unset

LEMMA AskedOfBoth ==
    ASSUME NEW d, DOMAIN d = EnvFields, NEW o
    PROVE  Asked(SingleEnv(d, o)) = IF Asked(o) # Unset THEN Asked(o) ELSE Asked(d)
<1> DEFINE r == SingleEnv(d, o)
<1>1. CASE o.from # NIL
  <2>1. r.from = o.from
    BY <1>1 DEF SingleEnv, EnvFields
  <2> QED
    BY <1>1, <2>1, AskedNothing DEF Asked
<1>2. CASE o.from = NIL /\ o.value # NIL
  <2>1. r.from = NIL /\ r.value = o.value
    BY <1>2 DEF SingleEnv, EnvFields
  <2> QED
    BY <1>2, <2>1, AskedNothing DEF Asked
<1>3. CASE o.from = NIL /\ o.value = NIL
  <2>1. r = d
    BY <1>3 DEF SingleEnv
  <2> QED
    BY <1>3, <2>1, AskedNothing
<1> QED
  BY <1>1, <1>2, <1>3

\* A source is completed at most once, and nothing else is touched.
LEMMA FilledItem ==
    ASSUME NEW e, DOMAIN e = EnvFields
    PROVE  /\ DOMAIN Filled(e) = EnvFields
           /\ Filled(e).name = e.name /\ Filled(e).value = e.value
           /\ Filled(e).from = IF e.from \in DOMAIN Completions THEN Completions[e.from] ELSE e.from
           /\ Filled(e).from \notin DOMAIN Completions
           /\ Filled(e).from = NIL <=> e.from = NIL
           /\ e.from \notin DOMAIN Completions => Filled(e) = e
<1>1. /\ DOMAIN Filled(e) = EnvFields
      /\ Filled(e).name = e.name /\ Filled(e).value = e.value
      /\ Filled(e).from = IF e.from \in DOMAIN Completions THEN Completions[e.from] ELSE e.from
      /\ e.from \notin DOMAIN Completions => Filled(e) = e
  BY DEF Filled, EnvFields
<1> QED
  BY <1>1, BuildAssumption

\* What a variable asks for is completed like the variable.
LEMMA FilledAsked ==
    ASSUME NEW e, DOMAIN e = EnvFields
    PROVE  Asked(Filled(e)) = Filled(Asked(e))
<1>1. CASE e.from \in DOMAIN Completions
  <2>1. e.from # NIL /\ Completions[e.from] # NIL
    BY <1>1, BuildAssumption
  <2>2. Asked(e) = [value |-> NIL, from |-> e.from]
    BY <2>1 DEF Asked
  <2>3. Filled(Asked(e)) = [value |-> NIL, from |-> Completions[e.from]]
    BY <1>1, <2>2 DEF Filled
  <2>4. Asked(Filled(e)) = [value |-> NIL, from |-> Completions[e.from]]
    BY <1>1, <2>1, FilledItem DEF Asked
  <2> QED
    BY <2>3, <2>4
<1>2. CASE e.from \notin DOMAIN Completions
  BY <1>2, FilledItem DEF Asked, Filled
<1> QED
  BY <1>1, <1>2

\* What asks for nothing is left alone, and nothing is taken away.
LEMMA FilledUnset ==
    /\ Filled(Unset) = Unset
    /\ \A value : Filled([value |-> value, from |-> NIL]) = [value |-> value, from |-> NIL]
    /\ \A e : DOMAIN e = EnvFields /\ Asked(e) # Unset => Asked(Filled(e)) # Unset
<1>1. /\ Filled(Unset) = Unset
      /\ \A value : Filled([value |-> value, from |-> NIL]) = [value |-> value, from |-> NIL]
  BY BuildAssumption DEF Filled, Unset
<1> QED
  BY <1>1, FilledItem, AskedNothing

LEMMA FilledVariables ==
    ASSUME NEW env, Items(env, EnvFields)
    PROVE  /\ Items(FilledEnv(env), EnvFields)
           /\ DOMAIN FilledEnv(env) = DOMAIN env
           /\ \A i \in DOMAIN env : FilledEnv(env)[i] = Filled(env[i])
           /\ Complete(FilledEnv(env))
           /\ Complete(env) <=> FilledEnv(env) = env
<1> DEFINE r == FilledEnv(env)
<1>1. /\ DOMAIN r = DOMAIN env
      /\ \A i \in DOMAIN env : r[i] = Filled(env[i])
  BY DEF FilledEnv
<1>2. \A i \in DOMAIN env : DOMAIN env[i] = EnvFields
  BY DEF Items
<1>3. \A i \in DOMAIN env :
         /\ DOMAIN r[i] = EnvFields
         /\ r[i].name = env[i].name
         /\ r[i].from \notin DOMAIN Completions
         /\ env[i].from \notin DOMAIN Completions => r[i] = env[i]
  BY <1>1, <1>2, FilledItem
<1>4. IsList(r)
  <2>1. IsList(env) /\ Len(env) \in Nat /\ DOMAIN env = 1..Len(env)
    BY ListFacts DEF Items
  <2>2. r \in [1..Len(env) -> {Filled(env[i]) : i \in DOMAIN env}]
    BY <2>1 DEF FilledEnv
  <2> QED
    BY <2>1, <2>2, ListMade
<1>5. Items(r, EnvFields)
  BY <1>1, <1>3, <1>4 DEF Items, NamesOf
<1>6. Complete(r)
  BY <1>1, <1>3 DEF Complete
<1>7. Complete(env) => r = env
  <2>1. env \in [1..Len(env) -> ToSet(env)] /\ DOMAIN env = 1..Len(env)
    BY ListFacts DEF Items
  <2>2. r = [i \in 1..Len(env) |-> Filled(env[i])]
    BY <2>1 DEF FilledEnv
  <2> SUFFICES ASSUME Complete(env) PROVE r = env
    OBVIOUS
  <2>3. \A i \in DOMAIN env : Filled(env[i]) = env[i]
    BY <1>1, <1>3 DEF Complete
  <2> QED
    BY <2>1, <2>2, <2>3
<1> QED
  BY <1>1, <1>5, <1>6, <1>7

\* A completed list asks for what the list asks for, completed.
LEMMA SettingFilled ==
    ASSUME NEW env, Items(env, EnvFields), NEW n
    PROVE  /\ Setting(FilledEnv(env), n) = Filled(Setting(env, n))
           /\ Setting(env, n) # Unset => Setting(FilledEnv(env), n) # Unset
<1> DEFINE r == FilledEnv(env)
           at == {i \in DOMAIN env : env[i].name = n}
<1>1. DOMAIN r = DOMAIN env /\ \A i \in DOMAIN env : r[i] = Filled(env[i])
  BY FilledVariables
<1>2. \A i \in DOMAIN env : DOMAIN env[i] = EnvFields
  BY DEF Items
<1>3. at = {i \in DOMAIN r : r[i].name = n}
  BY <1>1, <1>2, FilledItem
<1>4. /\ Setting(env, n) = IF at = {} THEN Unset ELSE Asked(env[Max(at)])
      /\ Setting(r, n) = IF at = {} THEN Unset ELSE Asked(r[Max(at)])
  BY <1>3 DEF Setting, Asked
<1>5. CASE at = {}
  BY <1>4, <1>5, FilledUnset
<1>6. CASE at # {}
  <2>1. n \in NamesOf(env) /\ IsList(env)
    BY <1>6 DEF NamesOf, Items
  <2>2. Max(at) \in DOMAIN env
    BY <2>1, LastPosition
  <2> HIDE DEF at, r
  <2>3. Asked(r[Max(at)]) = Filled(Asked(env[Max(at)]))
    BY <1>1, <1>2, <2>2, FilledAsked
  <2> QED
    BY <1>1, <1>2, <1>4, <1>6, <2>2, <2>3, FilledUnset DEF r
<1> QED
  BY <1>5, <1>6

\* Completed containers have their names and resources.
LEMMA FilledContainers ==
    ASSUME NEW s, IsList(s), \A c \in ToSet(s) : HasVariables(c), NEW r, r = FilledAll(s)
    PROVE  /\ IsList(r) /\ DOMAIN r = DOMAIN s
           /\ \A i \in DOMAIN s : /\ r[i].name = s[i].name /\ r[i].res = s[i].res
                                  /\ r[i].env = FilledEnv(s[i].env) /\ Items(s[i].env, EnvFields)
           /\ DistinctNames(s) => DistinctNames(r)
           /\ \A n : n \in NamesOf(s) <=> n \in NamesOf(r)
<1>1. DOMAIN r = DOMAIN s /\ \A i \in DOMAIN s : r[i] = [s[i] EXCEPT !.env = FilledEnv(@)]
  BY DEF FilledAll
<1>2. \A i \in DOMAIN s : HasVariables(s[i])
  BY ListFacts
<1>3. \A i \in DOMAIN s : /\ r[i].name = s[i].name /\ r[i].res = s[i].res
                          /\ r[i].env = FilledEnv(s[i].env) /\ Items(s[i].env, EnvFields)
  BY <1>1, <1>2 DEF HasVariables
<1>4. IsList(r)
  <2>1. Len(s) \in Nat /\ DOMAIN s = 1..Len(s)
    BY ListFacts
  <2>2. r \in [1..Len(s) -> {[s[i] EXCEPT !.env = FilledEnv(@)] : i \in DOMAIN s}]
    BY <2>1 DEF FilledAll
  <2> QED
    BY <2>1, <2>2, ListMade
<1>5. DistinctNames(s) => DistinctNames(r)
  BY <1>1, <1>3 DEF DistinctNames
<1>6. \A n : n \in NamesOf(s) <=> n \in NamesOf(r)
  BY <1>1, <1>3 DEF NamesOf
<1> QED
  BY <1>1, <1>3, <1>4, <1>5, <1>6

LEMMA StoredPodParts ==
    ASSUME NEW d, NEW o, NEW walk
    PROVE  LET pod == PodSpec(d, o, walk)
           IN  /\ StoredPod(pod).containers = FilledAll(pod.containers)
               /\ StoredPod(pod).inits = FilledAll(pod.inits)
BY DEF StoredPod, PodSpec

\* The stored StatefulSet is the one built, but for its variables.
LEMMA StoredShape ==
    ASSUME NEW s \in Specs, NEW walk, IsWalk(walk),
           NEW built, built = Sts(s, walk), NEW q, q = built.pod.containers,
           NEW x, x = StoredSts(built), NEW r, r = x.pod.containers
    PROVE  /\ x.replicas = built.replicas /\ x.service = built.service /\ x.claim = built.claim
           /\ r = FilledAll(q) /\ x.pod.inits = FilledAll(built.pod.inits)
           /\ IsList(r) /\ DistinctNames(r) /\ 1 \in DOMAIN r /\ Head(r) = r[1]
           /\ IsList(q) /\ DistinctNames(q) /\ 1 \in DOMAIN q /\ Head(q) = q[1]
           /\ \A i \in DOMAIN r : r[i].name = q[i].name
           /\ NACOS \in NamesOf(r)
           /\ Items(Head(q).env, EnvFields)
           /\ Head(r).name = Head(q).name /\ Head(r).res = Head(q).res
           /\ Head(r).env = FilledEnv(Head(q).env)
<1>1. IsList(q) /\ DistinctNames(q) /\ NACOS \in NamesOf(q) /\ 1 \in DOMAIN q /\ Head(q) = q[1]
  BY NacosThere
<1>2. \A c \in ToSet(q) : HasVariables(c)
  BY StsContainers, MergedHaveVariables
<1>3. /\ DOMAIN built = {"replicas", "service", "claim", "pod"}
      /\ built.pod = PodSpec(Template(Defaults(s)), s.wrapper, walk)
  BY StsShape DEF Sts
<1>4. /\ x.replicas = built.replicas /\ x.service = built.service /\ x.claim = built.claim
      /\ x.pod = StoredPod(built.pod)
  BY <1>3 DEF StoredSts
<1>5. r = FilledAll(q) /\ x.pod.inits = FilledAll(built.pod.inits)
  BY <1>3, <1>4, StoredPodParts
<1>6. /\ IsList(r) /\ DOMAIN r = DOMAIN q
      /\ \A i \in DOMAIN q : /\ r[i].name = q[i].name /\ r[i].res = q[i].res
                             /\ r[i].env = FilledEnv(q[i].env) /\ Items(q[i].env, EnvFields)
      /\ DistinctNames(r) /\ NACOS \in NamesOf(r)
  BY <1>1, <1>2, <1>5, FilledContainers
<1>7. Head(r) = r[1]
  BY <1>1, <1>6 DEF IsList
<1> QED
  BY <1>1, <1>4, <1>5, <1>6, <1>7

-----------------------------------------------------------------------------
(***************************************************************************)
(* What was ensured is left alone.                                         *)
(***************************************************************************)

\* Only objects the operator builds are stored, and a job only of a spec that
\* asks for one.
Reached ==
    /\ spec \in Specs
    /\ ensured \in BOOLEAN
    /\ ensured => sts # NIL
    /\ sts # NIL => \E s \in Specs, walk \in Walks : sts = StoredSts(Sts(s, walk))
    /\ job # NIL => \E s \in Specs, walk \in Walks :
                      InitsMysql(Defaults(s)) /\ job = StoredPod(Job(s, walk))

\* The variables of the first container built of the current spec.
ComparedEnv(walk) == Head(Sts(spec, walk).pod.containers).env

\* What never compares equal was written for the current spec.
FromSpec ==
    ensured => \/ Complete(ComparedEnv(Alphabet))
               \/ \E walk \in Walks : sts = StoredSts(Sts(spec, walk))

IInv == Reached /\ Settled /\ FromSpec

\* Whichever way the maps are walked, the comparison comes out the same.
LEMMA ComparisonSettles ==
    ASSUME NEW s \in Specs, NEW walk1, IsWalk(walk1), NEW walk2, IsWalk(walk2)
    PROVE  /\ Sts(s, walk1).pod.containers = Sts(s, walk2).pod.containers
           /\ Sts(s, walk1).pod.inits = Sts(s, walk2).pod.inits
           /\ \A old : CheckSts(old, Sts(s, walk1)) = CheckSts(old, Sts(s, walk2))
           /\ CheckSts(StoredSts(Sts(s, walk1)), Sts(s, walk2)) =
                 IF Complete(Head(Sts(s, walk2).pod.containers).env) THEN "None" ELSE "Update"
<1> DEFINE a == Sts(s, walk1)
           b == Sts(s, walk2)
           x == StoredSts(a)
           env == Head(b.pod.containers).env
<1>1. a.pod.containers = b.pod.containers
  BY StsContainers, ContainersSettle
<1>2. a.pod.inits = b.pod.inits
  BY StsContainers, StsShape, MergedPod, ContainersSettle
<1>3. a.claim = b.claim /\ a.replicas = b.replicas
  BY StsShape
<1>4. /\ x.claim = a.claim /\ x.replicas = a.replicas
      /\ Head(x.pod.containers).res = Head(a.pod.containers).res
      /\ Head(x.pod.containers).env = FilledEnv(Head(a.pod.containers).env)
      /\ Items(Head(a.pod.containers).env, EnvFields)
  BY StoredShape
<1> HIDE DEF a, b, x
<1>5. \A old : CheckSts(old, a) = CheckSts(old, b)
  BY <1>1, <1>3 DEF CheckSts
<1>6. CheckSts(x, b) = IF FilledEnv(env) = env THEN "None" ELSE "Update"
  BY <1>1, <1>3, <1>4 DEF CheckSts
<1>7. Complete(env) <=> FilledEnv(env) = env
  BY <1>1, <1>4, FilledVariables
<1> QED
  BY <1>1, <1>2, <1>5, <1>6, <1>7 DEF a, b, x

LEMMA IInvInit == Init => IInv
BY DEF Init, IInv, Reached, Settled, FromSpec

LEMMA EditKeeps == ASSUME IInv, EditSpec PROVE IInv'
<1>1. spec' \in Specs /\ ensured' = FALSE /\ sts' = sts /\ job' = job
  BY DEF EditSpec
<1>2. Reached'
  BY <1>1 DEF IInv, Reached
<1>3. Settled' /\ FromSpec'
  BY <1>1 DEF Settled, FromSpec
<1> QED
  BY <1>2, <1>3 DEF IInv

LEMMA EnsureStatefulsetKeeps ==
    ASSUME IInv, NEW walk \in Walks, EnsureStatefulset(walk)
    PROVE  IInv'
<1> DEFINE new == Sts(spec, walk)
<1>1. spec \in Specs /\ StoredSts(new) # NIL
  BY NilAssumption DEF IInv, Reached
<1>2. IsWalk(Alphabet) /\ \A w \in Walks : IsWalk(w)
  BY AlphabetAssumption, BuildAssumption
<1>3. spec' = spec /\ job' = job
  BY DEF EnsureStatefulset
<1>4. CASE sts' = StoredSts(new) /\ ensured' = TRUE
  <2>1. Reached' /\ FromSpec'
    BY <1>1, <1>3, <1>4 DEF IInv, Reached, FromSpec
  <2>2. \A w \in Walks : CheckSts(StoredSts(new), Sts(spec, w)) =
            IF Complete(Head(Sts(spec, w).pod.containers).env) THEN "None" ELSE "Update"
    BY <1>1, <1>2, ComparisonSettles
  <2>3. Settled'
    BY <1>3, <1>4, <2>2 DEF Settled
  <2> QED
    BY <2>1, <2>3 DEF IInv
<1>5. CASE CheckSts(sts, new) = "Delete" /\ sts' = NIL /\ ensured' = ensured
  <2>1. ensured = FALSE
    BY <1>5 DEF IInv, Reached, Settled
  <2> QED
    BY <1>1, <1>3, <1>5, <2>1 DEF IInv, Reached, Settled, FromSpec
<1>6. CASE sts # NIL /\ CheckSts(sts, new) = "None" /\ ensured' = TRUE /\ sts' = sts
  <2>1. Reached'
    BY <1>1, <1>3, <1>6 DEF IInv, Reached
  <2>2. \A w \in Walks \cup {Alphabet} : CheckSts(sts, Sts(spec, w)) = "None"
    BY <1>1, <1>2, <1>6, ComparisonSettles
  <2>3. \A w \in Walks \cup {Alphabet} : Complete(Head(Sts(spec, w).pod.containers).env)
    <3>1. PICK s \in Specs, v \in Walks : sts = StoredSts(Sts(s, v))
      BY <1>6 DEF IInv, Reached
    <3>2. Complete(Head(sts.pod.containers).env)
      BY <1>2, <3>1, StoredShape, FilledVariables
    <3> QED
      BY <2>2, <3>2 DEF CheckSts
  <2>4. Settled' /\ FromSpec'
    BY <1>3, <1>6, <2>2, <2>3 DEF Settled, FromSpec, ComparedEnv
  <2> QED
    BY <2>1, <2>4 DEF IInv
<1> QED
  BY <1>4, <1>5, <1>6 DEF EnsureStatefulset

LEMMA EnsureJobKeeps ==
    ASSUME IInv, NEW walk \in Walks, EnsureJob(walk)
    PROVE  IInv'
<1>1. spec' = spec /\ sts' = sts /\ ensured' = ensured
  BY DEF EnsureJob
<1>2. InitsMysql(Defaults(spec)) /\ job' = StoredPod(Job(spec, walk)) /\ spec \in Specs
  BY DEF EnsureJob, IInv, Reached
<1> QED
  BY <1>1, <1>2 DEF IInv, Reached, Settled, FromSpec, ComparedEnv

LEMMA IInvStep == IInv /\ [Next]_vars => IInv'
<1> SUFFICES ASSUME IInv, [Next]_vars PROVE IInv'
  OBVIOUS
<1>1. CASE EditSpec
  BY <1>1, EditKeeps
<1>2. ASSUME NEW walk \in Walks, EnsureStatefulset(walk) PROVE IInv'
  BY <1>2, EnsureStatefulsetKeeps
<1>3. ASSUME NEW walk \in Walks, EnsureJob(walk) PROVE IInv'
  BY <1>3, EnsureJobKeeps
<1>4. CASE UNCHANGED vars
  BY <1>4 DEF vars, IInv, Reached, Settled, FromSpec, ComparedEnv
<1> QED
  BY <1>1, <1>2, <1>3, <1>4 DEF Next

LEMMA Invariance == Spec => []IInv
<1> QED
  BY IInvInit, IInvStep, PTL DEF Spec

\* What was ensured once compares equal to what is built again, in whatever
\* order Go walks its maps, exactly when the API server had nothing to add to
\* the variables checkSts compares; otherwise it is written again for ever.
THEOREM EnsuredIsLeftAlone == Spec => []Settled
<1>1. IInv => Settled
  BY DEF IInv
<1> QED
  BY <1>1, Invariance, PTL

\* The steps behind it: until the user edits the spec again, no ensure deletes
\* the StatefulSet or changes the containers of its pods, be it written again
\* or not.
THEOREM PodsAreNotReplaced == Spec => ContainersStay
<1> DEFINE Stay == /\ sts' # NIL
                   /\ sts'.pod.containers = sts.pod.containers
                   /\ sts'.pod.inits = sts.pod.inits
                   /\ Complete(Head(Sts(spec, Alphabet).pod.containers).env) => sts' = sts
<1>1. ASSUME IInv, [Next]_vars, ensured, spec' = spec PROVE Stay
  <2>0. /\ sts # NIL /\ spec \in Specs
        /\ IsWalk(Alphabet) /\ \A walk \in Walks : IsWalk(walk)
    BY <1>1, AlphabetAssumption, BuildAssumption DEF IInv, Reached
  <2>1. ASSUME NEW walk \in Walks, EnsureStatefulset(walk) PROVE Stay
    <3>1. /\ ComparedEnv(walk) = ComparedEnv(Alphabet)
          /\ CheckSts(sts, Sts(spec, walk)) = IF Complete(ComparedEnv(walk)) THEN "None" ELSE "Update"
      BY <1>1, <2>0, ComparisonSettles DEF IInv, Settled, ComparedEnv
    <3>2. CASE Complete(ComparedEnv(walk))
      BY <2>0, <2>1, <3>1, <3>2 DEF EnsureStatefulset
    <3>3. CASE ~Complete(ComparedEnv(walk))
      <4>1. sts' = StoredSts(Sts(spec, walk))
        BY <2>0, <2>1, <3>1, <3>3 DEF EnsureStatefulset
      <4>2. PICK v \in Walks : sts = StoredSts(Sts(spec, v))
        BY <1>1, <3>1, <3>3 DEF IInv, FromSpec
      <4>3. /\ Sts(spec, v).pod.containers = Sts(spec, walk).pod.containers
            /\ Sts(spec, v).pod.inits = Sts(spec, walk).pod.inits
        BY <2>0, ComparisonSettles
      <4>4. /\ sts'.pod.containers = sts.pod.containers
            /\ sts'.pod.inits = sts.pod.inits
        BY <2>0, <4>1, <4>2, <4>3, StoredShape
      <4>5. sts' # NIL
        BY <2>0, <4>1, NilAssumption
      <4> QED
        BY <3>1, <3>3, <4>4, <4>5 DEF ComparedEnv
    <3> QED
      BY <3>2, <3>3
  <2>2. ASSUME UNCHANGED sts PROVE Stay
    BY <2>0, <2>2
  <2>3. EditSpec \/ (\E walk \in Walks : EnsureJob(walk)) \/ UNCHANGED vars => UNCHANGED sts
    BY DEF EditSpec, EnsureJob, vars
  <2> QED
    BY <1>1, <2>1, <2>2, <2>3 DEF Next
<1>2. IInv /\ [Next]_vars => [ensured /\ spec' = spec => Stay]_vars
  BY <1>1
<1> QED
  BY <1>2, Invariance, PTL DEF Spec, ContainersStay, Stay

-----------------------------------------------------------------------------
(***************************************************************************)
(* Nothing is lost in the merge.                                           *)
(***************************************************************************)

\* Inside two containers that are merged.
LEMMA ContainerMerges ==
    ASSUME NEW c, IsContainer(c), NEW w, IsContainer(w), NEW walk, IsWalk(walk),
           NEW r, r = Container(c, w, walk)
    PROVE  /\ SameInside(r, c, w)
           /\ r.image = Scalar(c.image, w.image)
           /\ r.probe = Pointer(c.probe, w.probe)
           /\ r.env = Envs(c.env, w.env, walk)
           /\ r.mounts = VolumeMounts(c.mounts, w.mounts, walk)
<1>1. /\ r.image = Scalar(c.image, w.image) /\ r.probe = Pointer(c.probe, w.probe)
      /\ r.command = StringSlices(c.command, w.command)
      /\ r.ports = Ports(c.ports, w.ports, walk) /\ r.env = Envs(c.env, w.env, walk)
      /\ r.mounts = VolumeMounts(c.mounts, w.mounts, walk)
      /\ r.devices = VolumeDevices(c.devices, w.devices, walk)
  BY DEF Container, Probe
<1>2. /\ Items(c.env, EnvFields) /\ Items(w.env, EnvFields)
      /\ IsList(c.command) /\ IsList(w.command)
      /\ \E fields : "name" \in fields /\ Items(c.ports, fields) /\ Items(w.ports, fields)
      /\ \E fields : "name" \in fields /\ Items(c.mounts, fields) /\ Items(w.mounts, fields)
      /\ \E fields : "name" \in fields /\ Items(c.devices, fields) /\ Items(w.devices, fields)
  BY DEF IsContainer, EnvFields
<1>3. SameNames(r.env, c.env, w.env)
  BY <1>1, <1>2, MergedEnvs, MergesSameNames
<1>4. /\ SameNames(r.ports, c.ports, w.ports)
      /\ SameNames(r.mounts, c.mounts, w.mounts)
      /\ SameNames(r.devices, c.devices, w.devices)
  BY <1>1, <1>2, MergedFields, MergesSameNames DEF Ports, VolumeMounts, VolumeDevices
<1>5. ToSet(r.command) = ToSet(c.command) \cup ToSet(w.command)
  BY <1>1, <1>2, StringSlicesHave
<1> QED
  BY <1>1, <1>3, <1>4, <1>5 DEF SameInside

\* A pod of the operator on which a wrapper is put.
LEMMA PodMerges ==
    ASSUME NEW s, IsSpec(s), NEW o, IsPod(o), NEW walk, IsWalk(walk),
           NEW d, d = Template(s), NEW m, m = PodSpec(d, o, walk)
    PROVE  /\ Merges(m.containers, d.containers, o.containers)
           /\ Merges(m.inits, d.inits, o.inits)
           /\ SameNames(m.ephemeral, d.ephemeral, o.ephemeral)
           /\ m.dns = o.dns
           /\ Merges(m.tolerations, d.tolerations, o.tolerations)
           /\ Merges(m.aliases, d.aliases, o.aliases)
           /\ SameNames(m.spread, d.spread, o.spread)
           /\ DistinctNames(o.volumes) =>
                 /\ Merges(m.volumes, d.volumes, o.volumes)
                 /\ \A v \in ToSet(d.volumes), w \in ToSet(o.volumes), r \in ToSet(m.volumes) :
                       v.name = w.name /\ r.name = v.name => SameFiles(r, v, w)
<1>1. /\ IsPod(d) /\ d.ephemeral = <<>> /\ d.spread = <<>> /\ d.dns = NIL
      /\ d.volumes = IF s.config = NIL THEN <<>> ELSE <<ConfigVolume>>
  BY TemplateShape
<1>2. /\ IsContainers(d.containers) /\ IsContainers(d.inits) /\ IsContainers(d.ephemeral)
      /\ IsVolumes(d.volumes) /\ Items(d.tolerations, {"name", "effect"})
      /\ Items(d.aliases, {"name", "hosts"}) /\ Items(d.spread, {"name", "skew"})
  BY <1>1 DEF IsPod
<1>3. /\ IsContainers(o.containers) /\ IsContainers(o.inits) /\ IsContainers(o.ephemeral)
      /\ IsVolumes(o.volumes) /\ Items(o.tolerations, {"name", "effect"})
      /\ Items(o.aliases, {"name", "hosts"}) /\ Items(o.spread, {"name", "skew"})
  BY DEF IsPod
<1>4. SameNames(<<>>, <<>>, <<>>)
  BY NoEntries DEF SameNames, Distinct
<1>5. Merges(m.containers, d.containers, o.containers) /\ Merges(m.inits, d.inits, o.inits)
  BY <1>2, <1>3, MergedPod, MergedContainers
<1>6. SameNames(m.ephemeral, d.ephemeral, o.ephemeral)
  BY <1>1, <1>2, <1>3, <1>4, MergedPod, MergedEphemerals, MergesSameNames
<1>7. m.dns = o.dns
  <2>1. m.dns = PodDNSConfig(NIL, o.dns)
    BY <1>1, MergedPod
  <2> QED
    BY <2>1 DEF PodDNSConfig
<1>8. Merges(m.tolerations, d.tolerations, o.tolerations)
  BY <1>2, <1>3, MergedPod, MergedTolerations, ItemsKnown
<1>9. Merges(m.aliases, d.aliases, o.aliases)
  BY <1>2, <1>3, MergedPod, MergedAliases, ItemsKnown
<1>10. SameNames(m.spread, d.spread, o.spread)
  <2>1. m.spread = IF o.spread = <<>> THEN <<>>
                   ELSE TopologySpreadConstraints(d.spread, o.spread, walk)
    BY <1>1, MergedPod
  <2>2. Merges(TopologySpreadConstraints(d.spread, o.spread, walk), d.spread, o.spread)
    <3>1. "name" \in {"name", "skew"}
      OBVIOUS
    <3> QED
      BY <1>2, <1>3, <3>1, MergedSpread
  <2> QED
    BY <1>1, <1>4, <2>1, <2>2, MergesSameNames
<1>11. DistinctNames(d.volumes)
  BY <1>1, NoEntries, OneEntry DEF DistinctNames
<1>12. /\ Items(d.volumes, {"name", "source"}) /\ Items(o.volumes, {"name", "source"})
       /\ NamesKnown(o.volumes) /\ m.volumes = Volumes(d.volumes, o.volumes, walk)
  BY <1>2, <1>3, MergedPod, ItemsKnown DEF IsVolumes
<1>13. DistinctNames(o.volumes) => Merges(m.volumes, d.volumes, o.volumes)
  BY <1>11, <1>12, MergedVolumes
<1>14. ASSUME DistinctNames(o.volumes), NEW v \in ToSet(d.volumes), NEW w \in ToSet(o.volumes),
              NEW r \in ToSet(m.volumes), v.name = w.name, r.name = v.name
       PROVE  SameFiles(r, v, w)
  <2>1. w.name \in NamesOf(o.volumes) /\ Named(o.volumes)[w.name] = w
    BY <1>12, <1>14, NamedDistinct DEF Items
  <2>2. r = Volume(v, w, walk)
    BY <1>11, <1>12, <1>14, <2>1, MergedVolumes
  <2>3. /\ DOMAIN v = {"name", "source"}
        /\ v.source.kind \in KnownKinds => Items(v.source.items, {"name", "path"})
        /\ w.source.kind \in KnownKinds => Items(w.source.items, {"name", "path"})
    <3>1. ASSUME NEW l, IsVolumes(l), NEW x \in ToSet(l)
          PROVE  /\ DOMAIN x = {"name", "source"}
                 /\ x.source.kind \in KnownKinds => Items(x.source.items, {"name", "path"})
      BY <3>1 DEF IsVolumes, Items, ToSet
    <3> QED
      BY <1>2, <1>3, <1>14, <3>1
  <2>4. IF v.source.kind = w.source.kind /\ v.source.kind \in KnownKinds
          THEN Merges(r.source.items, v.source.items, w.source.items)
          ELSE r.source = w.source
    BY <2>2, <2>3, VolumeSource
  <2> QED
    BY <2>4, MergesSameNames DEF SameFiles
<1> QED
  BY <1>5, <1>6, <1>7, <1>8, <1>9, <1>10, <1>13, <1>14

\* Every container, volume, variable, port, mount, device, toleration, alias,
\* file and command of the operator and of the wrapper is in the pod, once.
THEOREM NothingIsLost == Spec => []NothingLost
<1>1. ASSUME NEW s \in Specs, spec = s PROVE NothingLost
  <2> SUFFICES ASSUME NEW walk \in Walks,
                      NEW d, d = Template(Defaults(s)), NEW o, o = s.wrapper,
                      NEW m, m = Sts(s, walk).pod
               PROVE  /\ SameNames(m.containers, d.containers, o.containers)
                      /\ SameNames(m.inits, d.inits, o.inits)
                      /\ SameNames(m.ephemeral, d.ephemeral, o.ephemeral)
                      /\ m.dns = o.dns
                      /\ SameNames(m.tolerations, d.tolerations, o.tolerations)
                      /\ SameNames(m.aliases, d.aliases, o.aliases)
                      /\ SameNames(m.spread, d.spread, o.spread)
                      /\ Distinct(o.volumes, LAMBDA v : v.name) =>
                            /\ SameNames(m.volumes, d.volumes, o.volumes)
                            /\ \A v \in ToSet(d.volumes), w \in ToSet(o.volumes),
                                  r \in ToSet(m.volumes) :
                                   v.name = w.name /\ r.name = v.name => SameFiles(r, v, w)
                      /\ Distinct(o.containers, LAMBDA c : c.name) =>
                            \A c \in ToSet(d.containers), w \in ToSet(o.containers),
                               r \in ToSet(m.containers) :
                                c.name = w.name /\ r.name = c.name => SameInside(r, c, w)
    BY <1>1 DEF NothingLost
  <2>1. IsWalk(walk)
    BY BuildAssumption
  <2>2. /\ IsSpec(Defaults(s)) /\ IsPod(o) /\ m = PodSpec(d, o, walk)
    BY StsShape
  <2>3. /\ Merges(m.containers, d.containers, o.containers)
        /\ Merges(m.inits, d.inits, o.inits)
        /\ SameNames(m.ephemeral, d.ephemeral, o.ephemeral)
        /\ m.dns = o.dns
        /\ Merges(m.tolerations, d.tolerations, o.tolerations)
        /\ Merges(m.aliases, d.aliases, o.aliases)
        /\ SameNames(m.spread, d.spread, o.spread)
        /\ DistinctNames(o.volumes) =>
              /\ Merges(m.volumes, d.volumes, o.volumes)
              /\ \A v \in ToSet(d.volumes), w \in ToSet(o.volumes), r \in ToSet(m.volumes) :
                    v.name = w.name /\ r.name = v.name => SameFiles(r, v, w)
    BY <2>1, <2>2, PodMerges
  <2>4. \A q : Distinct(q, LAMBDA x : x.name) <=> DistinctNames(q)
    BY DEF Distinct, DistinctNames
  <2>5. ASSUME DistinctNames(o.containers),
               NEW c \in ToSet(d.containers), NEW w \in ToSet(o.containers),
               NEW r \in ToSet(m.containers), c.name = w.name, r.name = c.name
        PROVE  SameInside(r, c, w)
    <3>1. IsContainers(d.containers) /\ IsContainers(o.containers)
      BY StsContainers
    <3>2. d.containers = <<NacosContainer(Defaults(s))>>
      BY <2>2, TemplateShape
    <3>3. DistinctNames(d.containers)
      BY <3>2, OneEntry DEF DistinctNames
    <3>4. /\ c.name \in NamesOf(d.containers) /\ Named(d.containers)[c.name] = c
          /\ w.name \in NamesOf(o.containers) /\ Named(o.containers)[w.name] = w
      BY <2>5, <3>1, <3>3, NamedDistinct DEF IsContainers
    <3>5. r = Container(c, w, walk)
      <4>1. m.containers = Containers(d.containers, o.containers, walk)
        BY StsContainers
      <4> QED
        BY <2>1, <2>5, <3>1, <3>4, <4>1, MergedContainers
    <3>6. IsContainer(c) /\ IsContainer(w)
      BY <3>1 DEF IsContainers, ToSet
    <3> QED
      BY <2>1, <3>5, <3>6, ContainerMerges
  <2> QED
    BY <2>3, <2>4, <2>5, MergesSameNames
<1>2. IInv => NothingLost
  BY <1>1 DEF IInv, Reached
<1> QED
  BY <1>2, Invariance, PTL

-----------------------------------------------------------------------------
(***************************************************************************)
(* The environment that was asked for arrives.                             *)
(***************************************************************************)

\* A merged list asks for what the override asks for, and where that asks
\* for nothing, for what the default does.
LEMMA SettingMerged ==
    ASSUME NEW d, Items(d, EnvFields), NEW o, Items(o, EnvFields), NEW walk, IsWalk(walk), NEW n
    PROVE  Setting(Envs(d, o, walk), n) =
              IF Setting(o, n) # Unset THEN Setting(o, n) ELSE Setting(d, n)
<1> DEFINE r == Envs(d, o, walk)
<1> SUFFICES Setting(r, n) = IF Setting(o, n) # Unset THEN Setting(o, n) ELSE Setting(d, n)
  OBVIOUS
<1>1. IsList(d) /\ IsList(o)
  BY DEF Items
<1>2. /\ Merges(r, d, o)
      /\ \A k \in DOMAIN r :
            \/ r[k].name \in Common(d, o)
               /\ r[k] = SingleEnv(Named(d)[r[k].name], Named(o)[r[k].name])
            \/ r[k].name \notin NamesOf(o) /\ r[k] = Named(d)[r[k].name]
            \/ r[k].name \notin NamesOf(d) /\ r[k] = Named(o)[r[k].name]
  BY MergedEnvs
<1> HIDE DEF r
<1>3. IsList(r) /\ DistinctNames(r) /\ NamesOf(r) = NamesOf(d) \cup NamesOf(o)
  BY <1>2 DEF Merges, NamesKnown
<1>4. /\ Setting(d, n) = IF n \in NamesOf(d) THEN Asked(Named(d)[n]) ELSE Unset
      /\ Setting(o, n) = IF n \in NamesOf(o) THEN Asked(Named(o)[n]) ELSE Unset
      /\ Setting(r, n) = IF n \in NamesOf(r) THEN Asked(Named(r)[n]) ELSE Unset
  BY <1>1, <1>3, SettingNamed
<1>5. CASE n \in NamesOf(r)
  <2>1. PICK k \in DOMAIN r : r[k].name = n
    BY <1>5 DEF NamesOf
  <2>2. Named(r)[n] = r[k]
    BY <1>3, <2>1, NamedDistinct DEF ToSet
  <2>3. CASE n \in Common(d, o) /\ r[k] = SingleEnv(Named(d)[n], Named(o)[n])
    <3>1. n \in NamesOf(d) /\ n \in NamesOf(o) /\ Named(d)[n] \in ToSet(d)
      BY <2>3, CommonNames, ItemsKnown
    <3>2. DOMAIN Named(d)[n] = EnvFields
      BY <3>1 DEF Items, ToSet
    <3> QED
      BY <1>4, <1>5, <2>2, <2>3, <3>1, <3>2, AskedOfBoth
  <2>4. CASE n \notin NamesOf(o) /\ r[k] = Named(d)[n]
    BY <1>3, <1>4, <1>5, <2>2, <2>4
  <2>5. CASE n \notin NamesOf(d) /\ r[k] = Named(o)[n]
    BY <1>3, <1>4, <1>5, <2>2, <2>5
  <2> QED
    BY <1>2, <2>1, <2>3, <2>4, <2>5
<1>6. CASE n \notin NamesOf(r)
  BY <1>3, <1>4, <1>6
<1> QED
  BY <1>5, <1>6

\* What the wrapper has for the variables of a container.
PatchEnv(o, name) == IF name \in NamesOf(o) THEN Named(o)[name].env ELSE <<>>

LEMMA PatchedEnv ==
    ASSUME NEW d, IsContainers(d), DistinctNames(d), NEW o, IsContainers(o),
           NEW walk, IsWalk(walk), NEW b \in ToSet(d),
           NEW c \in ToSet(Containers(d, o, walk)), c.name = b.name, NEW n
    PROVE  Setting(c.env, n) = IF Setting(PatchEnv(o, b.name), n) # Unset
                                 THEN Setting(PatchEnv(o, b.name), n)
                                 ELSE Setting(b.env, n)
<1>1. IsList(d) /\ b.name \in NamesOf(d) /\ Named(d)[b.name] = b
  BY NamedDistinct DEF IsContainers
<1>2. \/ c.name \in Common(d, o) /\ c = Container(Named(d)[c.name], Named(o)[c.name], walk)
      \/ c.name \notin NamesOf(o) /\ c \in ToSet(d)
  BY <1>1, MergedContainers
<1>3. CASE c.name \in Common(d, o) /\ c = Container(Named(d)[c.name], Named(o)[c.name], walk)
  <2> DEFINE w == Named(o)[b.name]
  <2>1. b.name \in NamesOf(o) /\ IsContainer(b) /\ IsContainer(w)
    BY <1>1, <1>3, CommonContainers, CommonNames, ContainersKnown
  <2>2. c = Container(b, w, walk)
    BY <1>1, <1>3
  <2>3. PatchEnv(o, b.name) = w.env
    BY <2>1 DEF PatchEnv
  <2> HIDE DEF w
  <2>4. c.env = Envs(b.env, w.env, walk)
    BY <2>1, <2>2, ContainerMerges
  <2>5. Items(b.env, EnvFields) /\ Items(w.env, EnvFields)
    BY <2>1 DEF IsContainer, EnvFields
  <2> QED
    BY <2>3, <2>4, <2>5, SettingMerged
<1>4. CASE c.name \notin NamesOf(o) /\ c \in ToSet(d)
  <2>1. c = b
    BY <1>1, <1>4, NamedDistinct
  <2>2. Setting(<<>>, n) = Unset
    BY SettingNamed, NoEntries
  <2> QED
    BY <1>4, <2>1, <2>2 DEF PatchEnv
<1> QED
  BY <1>2, <1>3, <1>4

LEMMA WrapperEnvIsPatch == ASSUME spec \in Specs PROVE WrapperEnv = PatchEnv(spec.wrapper.containers, NACOS)
<1> DEFINE o == spec.wrapper.containers
           at == {i \in DOMAIN o : o[i].name = NACOS}
<1>1. IsList(o)
  BY StsContainers DEF IsContainers
<1>2. at = {} <=> NACOS \notin NamesOf(o)
  BY DEF NamesOf
<1>3. WrapperEnv = IF at = {} THEN <<>> ELSE o[Max(at)].env
  BY DEF WrapperEnv
<1>4. NACOS \in NamesOf(o) => o[Max(at)] = Named(o)[NACOS]
  BY <1>1, LastPosition
<1> HIDE DEF at, o
<1>5. WrapperEnv = PatchEnv(o, NACOS)
  BY <1>2, <1>3, <1>4 DEF PatchEnv
<1> QED
  BY <1>5 DEF o

\* The container of Nacos in what is built of the current spec.
LEMMA ExpectedBuilt ==
    ASSUME spec \in Specs, NEW walk, IsWalk(walk),
           NEW c \in ToSet(Sts(spec, walk).pod.containers), c.name = NACOS, NEW n
    PROVE  Setting(c.env, n) = Expected(n)
<1> DEFINE d == Template(Defaults(spec)).containers
           b == NacosContainer(Defaults(spec))
           o == spec.wrapper.containers
<1>1. /\ Sts(spec, walk).pod.containers = Containers(d, o, walk)
      /\ IsContainers(d) /\ IsContainers(o)
  BY StsContainers
<1>2. IsSpec(Defaults(spec))
  BY StsShape
<1>3. d = <<b>> /\ b.name = NACOS /\ b.env = BuiltEnv(Defaults(spec))
  BY <1>2, TemplateShape, NacosContainerShape
<1> HIDE DEF d, b, o
<1>4. b \in ToSet(d) /\ DistinctNames(d)
  BY <1>3, OneEntry DEF DistinctNames
<1>5. WrapperEnv = PatchEnv(o, NACOS)
  BY WrapperEnvIsPatch DEF o
<1>6. Setting(c.env, n) = IF Setting(PatchEnv(o, NACOS), n) # Unset
                            THEN Setting(PatchEnv(o, NACOS), n)
                            ELSE Setting(b.env, n)
  BY <1>1, <1>3, <1>4, PatchedEnv
<1> QED
  BY <1>3, <1>5, <1>6 DEF Expected

\* The variables checkSts looks at are those of the current spec, completed.
LEMMA ComparedEnvStored ==
    ASSUME IInv, ensured
    PROVE  Head(sts.pod.containers).env = FilledEnv(ComparedEnv(Alphabet))
<1>1. /\ spec \in Specs /\ sts # NIL
      /\ IsWalk(Alphabet) /\ \A walk \in Walks : IsWalk(walk)
  BY AlphabetAssumption, BuildAssumption DEF IInv, Reached
<1>2. CASE Complete(ComparedEnv(Alphabet))
  <2>1. PICK s \in Specs, walk \in Walks : sts = StoredSts(Sts(s, walk))
    BY <1>1 DEF IInv, Reached
  <2>2. /\ Sts(spec, walk).pod.containers = Sts(spec, Alphabet).pod.containers
        /\ CheckSts(sts, Sts(spec, walk)) = "None"
    BY <1>1, <1>2, ComparisonSettles DEF IInv, Settled, ComparedEnv
  <2>3. Head(sts.pod.containers).env = ComparedEnv(Alphabet)
    BY <2>2 DEF CheckSts, ComparedEnv
  <2>4. Items(ComparedEnv(Alphabet), EnvFields)
    BY <1>1, StoredShape DEF ComparedEnv
  <2> QED
    BY <1>2, <2>3, <2>4, FilledVariables
<1>3. CASE ~Complete(ComparedEnv(Alphabet))
  <2>1. PICK walk \in Walks : sts = StoredSts(Sts(spec, walk))
    BY <1>3 DEF IInv, FromSpec
  <2>2. Sts(spec, walk).pod.containers = Sts(spec, Alphabet).pod.containers
    BY <1>1, ComparisonSettles
  <2> QED
    BY <1>1, <2>1, <2>2, StoredShape DEF ComparedEnv
<1> QED
  BY <1>2, <1>3

LEMMA EnvIsExpected == IInv => EnvArrives
<1> SUFFICES ASSUME IInv, ensured, ComparesNacos, NEW n \in Names
             PROVE  Setting(NacosEnv, n) = Filled(Expected(n))
  BY DEF EnvArrives
<1> DEFINE old == sts.pod.containers
           new == Sts(spec, Alphabet).pod.containers
<1>1. spec \in Specs /\ IsWalk(Alphabet) /\ \A walk \in Walks : IsWalk(walk)
  BY AlphabetAssumption, BuildAssumption DEF IInv, Reached
<1>2. PICK s \in Specs, walk \in Walks : sts = StoredSts(Sts(s, walk))
  BY DEF IInv, Reached
<1>3. Head(old).env = FilledEnv(Head(new).env)
  BY ComparedEnvStored DEF ComparedEnv
<1>4. Items(Head(new).env, EnvFields) /\ 1 \in DOMAIN new /\ Head(new) = new[1]
  BY <1>1, StoredShape
<1>5. IsList(old) /\ DistinctNames(old) /\ 1 \in DOMAIN old /\ Head(old) = old[1]
  BY <1>1, <1>2, StoredShape
<1>6. Head(old).name = NACOS /\ Head(new).name = NACOS
  BY DEF ComparesNacos
<1>7. NacosEnv = old[1].env
  <2> DEFINE own == CHOOSE i \in DOMAIN old : old[i].name = NACOS
  <2>1. own \in DOMAIN old /\ old[own].name = NACOS
    BY <1>5, <1>6
  <2>2. own = 1
    BY <1>5, <1>6, <2>1 DEF DistinctNames
  <2> HIDE DEF own
  <2> QED
    BY <2>2 DEF NacosEnv, own
<1> HIDE DEF old
<1>8. new[1] \in ToSet(new)
  BY <1>4 DEF ToSet
<1>9. Setting(new[1].env, n) = Expected(n)
  BY <1>1, <1>4, <1>6, <1>8, ExpectedBuilt
<1>10. Setting(FilledEnv(Head(new).env), n) = Filled(Setting(Head(new).env, n))
  BY <1>4, SettingFilled
<1> QED
  BY <1>3, <1>4, <1>5, <1>7, <1>9, <1>10

\* Once ensured, the stored container of Nacos has the environment that the
\* user, the operator and the wrapper asked for, completed by the API server,
\* whatever was stored before and in whatever order the maps were walked.
THEOREM EnvironmentArrives == Spec => []EnvArrives
BY EnvIsExpected, Invariance, PTL

\* The first container is that of Nacos unless the wrapper adds one whose name
\* sorts before it: the comparison never looks at a sidecar, and the
\* environment arrives without a condition.  With such a sidecar it does not.
SidecarsSortLater ==
    \A s \in Specs : \A n \in NamesOf(s.wrapper.containers) : Rank(NACOS) <= Rank(n)

LEMMA NacosFirst ==
    ASSUME SidecarsSortLater, NEW s \in Specs, NEW walk, IsWalk(walk)
    PROVE  Head(Sts(s, walk).pod.containers).name = NACOS
<1> DEFINE q == Sts(s, walk).pod.containers
           d == Template(Defaults(s)).containers
           o == s.wrapper.containers
<1>1. IsSpec(Defaults(s)) /\ NACOS \in Names
  BY StsShape, BuildAssumption DEF OwnNames
<1>2. NamesOf(d) = {NACOS}
  <2> DEFINE b == NacosContainer(Defaults(s))
  <2>1. d = <<b>> /\ IsContainer(b) /\ b.name = NACOS
    BY <1>1, TemplateShape, NacosContainerShape
  <2> HIDE DEF b, d
  <2> QED
    BY <1>1, <2>1, OneContainer
<1>3. IsList(q) /\ NACOS \in NamesOf(q) /\ 1 \in DOMAIN q /\ Head(q) = q[1]
  BY NacosThere
<1>4. /\ NamesOf(q) = NamesOf(d) \cup NamesOf(o) /\ NamesOf(q) \subseteq Names
      /\ Rank(q[1].name) <= Rank(NACOS)
  BY <1>3, StsContainers, MergedContainers DEF Merges, NamesKnown
<1>5. q[1].name \in NamesOf(q)
  BY <1>3 DEF NamesOf
<1> HIDE DEF q, d, o
<1>6. Rank(NACOS) <= Rank(q[1].name)
  <2>1. \A n \in NamesOf(o) : Rank(NACOS) <= Rank(n)
    BY DEF SidecarsSortLater, o
  <2>2. Rank(NACOS) \in Nat
    BY <1>1, RanksDiffer
  <2> QED
    BY <1>2, <1>4, <1>5, <2>1, <2>2
<1>7. q[1].name = NACOS
  BY <1>1, <1>4, <1>5, <1>6, RanksDiffer
<1> QED
  BY <1>3, <1>7 DEF q

THEOREM EnvironmentArrivesAlways ==
    ASSUME SidecarsSortLater
    PROVE  Spec => [](ensured => \A n \in Names : Setting(NacosEnv, n) = Filled(Expected(n)))
<1>1. ASSUME IInv, ensured PROVE \A n \in Names : Setting(NacosEnv, n) = Filled(Expected(n))
  <2>1. PICK s \in Specs, walk \in Walks : sts = StoredSts(Sts(s, walk))
    BY <1>1 DEF IInv, Reached
  <2>2. spec \in Specs /\ IsWalk(walk) /\ IsWalk(Alphabet)
    BY <1>1, AlphabetAssumption, BuildAssumption DEF IInv, Reached
  <2>3. ComparesNacos
    BY <2>1, <2>2, NacosFirst, StoredShape DEF ComparesNacos
  <2> QED
    BY <1>1, <2>3, EnvIsExpected DEF EnvArrives
<1>2. IInv => (ensured => \A n \in Names : Setting(NacosEnv, n) = Filled(Expected(n)))
  BY <1>1
<1> QED
  BY <1>2, Invariance, PTL

-----------------------------------------------------------------------------
(***************************************************************************)
(* The certification.                                                      *)
(***************************************************************************)

AUTH == "NACOS_AUTH_ENABLE"

\* What the operator itself sets of the certification.
LEMMA BuiltCertification ==
    ASSUME NEW s, IsSpec(s), AUTH \notin NamesOf(s.env)
    PROVE  Setting(BuiltEnv(s), AUTH) = [Unset EXCEPT !.value = s.cert.enabled]
<1> DEFINE env == BuiltEnv(s)
           x == Env(AUTH, s.cert.enabled)
<1>1. /\ IsList(env)
      /\ s.cert.enabled # NIL => x \in ToSet(env)
      /\ \A e \in ToSet(env) :
            \/ e \in ToSet(s.env)
            \/ e \in OwnEnv(s)
            \/ s.cert.enabled # NIL /\ e = x
  BY BuiltEnvShape DEF Items, AUTH
<1>2. \A e \in OwnEnv(s) : e.name # AUTH
  BY EnvItem DEF OwnEnv, AUTH
<1>3. \A e \in ToSet(s.env) : e.name # AUTH
  BY NamesInSet
<1>4. x.name = AUTH /\ Asked(x) = [value |-> s.cert.enabled, from |-> NIL]
  BY EnvItem DEF Asked
<1>5. [Unset EXCEPT !.value = s.cert.enabled] = [value |-> s.cert.enabled, from |-> NIL]
  BY DEF Unset
<1> HIDE DEF env, x
<1>6. CASE s.cert.enabled # NIL
  <2>1. AUTH \in NamesOf(env)
    BY <1>1, <1>4, <1>6, NamesInSet
  <2>2. Named(env)[AUTH] = x
    <3>1. Named(env)[AUTH] \in ToSet(env) /\ Named(env)[AUTH].name = AUTH
      BY <1>1, <2>1, NamedLast
    <3> QED
      BY <1>1, <1>2, <1>3, <3>1
  <2>3. Setting(env, AUTH) = Asked(x)
    BY <1>1, <2>1, <2>2, SettingNamed
  <2> QED
    BY <1>4, <1>5, <2>3 DEF env
<1>7. CASE s.cert.enabled = NIL
  <2>1. AUTH \notin NamesOf(env)
    BY <1>1, <1>2, <1>3, <1>7, NamesInSet
  <2>2. Setting(env, AUTH) = Unset
    BY <1>1, <2>1, SettingNamed
  <2> QED
    BY <1>5, <1>7, <2>2 DEF env, Unset
<1> QED
  BY <1>6, <1>7

LEMMA CertificationIsPassed == IInv => CertificationArrives
<1> SUFFICES ASSUME IInv, ensured, ComparesNacos, LeftToCertification PROVE CertificationReaches
  BY DEF CertificationArrives
<1>1. spec \in Specs
  BY DEF IInv, Reached
<1>2. AUTH \in Names
  BY BuildAssumption DEF OwnNames, AUTH
<1>3. Setting(NacosEnv, AUTH) = Filled(Expected(AUTH))
  BY <1>2, EnvIsExpected DEF EnvArrives
<1>4. AUTH \notin NamesOf(spec.env) /\ AUTH \notin NamesOf(WrapperEnv)
  BY DEF LeftToCertification, AUTH
<1>5. IsList(WrapperEnv)
  <2> DEFINE o == spec.wrapper.containers
  <2>1. IsContainers(o)
    BY <1>1, StsContainers
  <2>2. NACOS \in NamesOf(o) => IsContainer(Named(o)[NACOS])
    BY <2>1, NamedLast DEF IsContainers, ToSet
  <2>3. NACOS \in NamesOf(o) => IsList(Named(o)[NACOS].env)
    BY <2>2 DEF IsContainer, Items
  <2> QED
    BY <1>1, <2>3, WrapperEnvIsPatch, NoEntries DEF PatchEnv
<1>6. Setting(WrapperEnv, AUTH) = Unset
  BY <1>4, <1>5, SettingNamed
<1>7. /\ IsSpec(Defaults(spec)) /\ Defaults(spec).env = spec.env
      /\ Defaults(spec).cert.enabled = spec.cert.enabled
  BY <1>1, StsShape, DefaultsShape
<1>8. Expected(AUTH) = [Unset EXCEPT !.value = spec.cert.enabled]
  BY <1>4, <1>6, <1>7, BuiltCertification DEF Expected
<1>9. Filled(Expected(AUTH)) = Expected(AUTH)
  BY <1>8, FilledUnset DEF Unset
<1> QED
  BY <1>3, <1>8, <1>9 DEF CertificationReaches, AUTH

\* The certification switch of the current spec reaches Nacos: on, off, or
\* not at all when the spec leaves it out.
THEOREM CertificationIsFollowed == Spec => []CertificationArrives
BY CertificationIsPassed, Invariance, PTL

-----------------------------------------------------------------------------
(***************************************************************************)
(* The job.                                                                *)
(***************************************************************************)

HOST == "MYSQL_HOST"

\* No wrapper takes from a container the host the operator gave it.
LEMMA HostStays ==
    ASSUME NEW d, IsContainers(d), DistinctNames(d), NEW o, IsContainers(o),
           NEW walk, IsWalk(walk), NEW b \in ToSet(d), Setting(b.env, HOST) # Unset
    PROVE  KnowsDatabase(FilledAll(Containers(d, o, walk)), b.name)
<1> DEFINE s == Containers(d, o, walk)
           r == FilledAll(s)
<1>1. ASSUME NEW c \in ToSet(s), c.name = b.name PROVE Setting(c.env, HOST) # Unset
  <2>1. Setting(c.env, HOST) = IF Setting(PatchEnv(o, b.name), HOST) # Unset
                                 THEN Setting(PatchEnv(o, b.name), HOST)
                                 ELSE Setting(b.env, HOST)
    BY <1>1, PatchedEnv
  <2> QED
    BY <2>1
<1>2. IsList(s) /\ \A c \in ToSet(s) : HasVariables(c)
  BY MergedContainers, MergedHaveVariables DEF Merges, NamesKnown
<1> HIDE DEF s
<1>3. /\ DOMAIN r = DOMAIN s
      /\ \A i \in DOMAIN s : /\ r[i].name = s[i].name /\ r[i].env = FilledEnv(s[i].env)
                             /\ Items(s[i].env, EnvFields) /\ s[i] \in ToSet(s)
  BY <1>2, FilledContainers, ListFacts
<1> HIDE DEF r
<1>4. ASSUME NEW i \in DOMAIN r, r[i].name = b.name PROVE Setting(r[i].env, HOST) # Unset
  BY <1>1, <1>3, <1>4, SettingFilled
<1> QED
  BY <1>4 DEF KnowsDatabase, HOST, ToSet, r, s

\* Validation gives the database of a mysql spec a host.
LEMMA HostKnown ==
    ASSUME NEW s, IsSpec(s), InitsMysql(Defaults(s))
    PROVE  Defaults(s).db.host # NIL
<1>1. /\ Defaults(s).db.type = Scalar("embedded", s.db.type)
      /\ Defaults(s).db.host = IF s.db.type = "mysql" THEN Scalar("127.0.0.1", s.db.host) ELSE s.db.host
  BY DEF Defaults, IsSpec
<1>2. Defaults(s).db.type = "mysql"
  BY DEF InitsMysql
<1>3. s.db.type = "mysql"
  BY <1>1, <1>2 DEF Scalar
<1> QED
  BY <1>1, <1>3, NilAssumption DEF Scalar

LEMMA HostSet ==
    ASSUME NEW host, host # NIL
    PROVE  /\ Setting(<<Env(HOST, host)>>, HOST) # Unset
           /\ \A e : e.name # HOST => Setting(<<Env(HOST, host), e>>, HOST) # Unset
<1> DEFINE x == Env(HOST, host)
<1>1. x.name = HOST /\ Asked(x) # Unset
  BY EnvItem, AskedNothing
<1> HIDE DEF x
<1>2. ASSUME NEW s, IsList(s), x \in ToSet(s), \A e \in ToSet(s) : e.name = HOST => e = x
      PROVE  Setting(s, HOST) # Unset
  <2>1. HOST \in NamesOf(s)
    BY <1>1, <1>2, NamesInSet
  <2>2. Named(s)[HOST] = x
    BY <1>2, <2>1, NamedLast
  <2> QED
    BY <1>1, <1>2, <2>1, <2>2, SettingNamed
<1>3. Setting(<<x>>, HOST) # Unset
  BY <1>2, OneEntry
<1>4. ASSUME NEW e, e.name # HOST PROVE Setting(<<x, e>>, HOST) # Unset
  BY <1>2, <1>4, TwoEntries
<1> QED
  BY <1>3, <1>4 DEF x

LEMMA JobKnowsDatabase ==
    ASSUME NEW s \in Specs, NEW walk \in Walks, InitsMysql(Defaults(s)),
           NEW j, j = StoredPod(Job(s, walk))
    PROVE  /\ KnowsDatabase(j.inits, "mysql-ping-database")
           /\ KnowsDatabase(j.inits, "mysql-create-database")
           /\ KnowsDatabase(j.containers, "mysql-sql-init")
<1> DEFINE t == JobTemplate(Defaults(s))
           host == Defaults(s).db.host
           o == s.wrapper
           ping == MysqlContainer(Defaults(s), "mysql-ping-database")
           create == MysqlContainer(Defaults(s), "mysql-create-database")
           script == [name |-> "SQL_SCRIPT", value |-> NIL, from |-> "sqlcm"]
<1>1. IsWalk(walk) /\ IsSpec(s)
  BY BuildAssumption
<1>2. host # NIL
  BY <1>1, HostKnown
<1>3. /\ j.inits = FilledAll(Containers(t.inits, o.inits, walk))
      /\ j.containers = FilledAll(Containers(t.containers, o.containers, walk))
  BY MergedPod, StoredPodParts DEF Job
<1>4. IsContainers(o.inits) /\ IsContainers(o.containers)
  BY StsContainers
<1>5. IsContainers(t.inits) /\ IsContainers(t.containers) /\ t.inits = <<ping, create>>
  BY JobTemplateShape
<1>6. PICK import : /\ t.containers = <<import>>
                    /\ import.name = "mysql-sql-init" /\ import.env = ImportEnv(Defaults(s))
  BY JobTemplateShape
<1>7. /\ ping.name = "mysql-ping-database" /\ ping.env = <<Env(HOST, host)>>
      /\ create.name = "mysql-create-database" /\ create.env = <<Env(HOST, host)>>
  BY MysqlContainerShape DEF HOST
<1>8. import.env = <<Env(HOST, host), script>>
  BY <1>6 DEF ImportEnv, HOST
<1>9. script.name # HOST
  BY DEF HOST
<1> HIDE DEF t, host, o, ping, create, script
<1>10. /\ ping \in ToSet(t.inits) /\ create \in ToSet(t.inits) /\ DistinctNames(t.inits)
       /\ import \in ToSet(t.containers) /\ DistinctNames(t.containers)
  <2>1. DOMAIN <<ping, create>> = {1, 2} /\ <<ping, create>>[1] = ping /\ <<ping, create>>[2] = create
    OBVIOUS
  <2>2. DistinctNames(<<ping, create>>)
    BY <1>7, <2>1 DEF DistinctNames
  <2>3. DistinctNames(<<import>>)
    BY OneEntry DEF DistinctNames
  <2> QED
    BY <1>5, <1>6, <2>2, <2>3, OneEntry, TwoEntries
<1>11. /\ Setting(ping.env, HOST) # Unset /\ Setting(create.env, HOST) # Unset
       /\ Setting(import.env, HOST) # Unset
  BY <1>2, <1>7, <1>8, <1>9, HostSet
<1> QED
  BY <1>1, <1>3, <1>4, <1>5, <1>6, <1>7, <1>10, <1>11, HostStays

\* The stored objects have their shape, and each step of the stored job knows
\* the host of the database.
THEOREM TypeCorrect == Spec => []TypeOK
<1>1. ASSUME IInv PROVE TypeOK
  <2>1. spec \in Specs /\ ensured \in BOOLEAN /\ (ensured => sts # NIL)
    BY <1>1 DEF IInv, Reached
  <2>2. ASSUME sts # NIL PROVE sts.replicas \in Nat /\ sts.service \in {NIL, "headless"}
    <3>1. PICK s \in Specs, walk \in Walks : sts = StoredSts(Sts(s, walk))
      BY <1>1, <2>2 DEF IInv, Reached
    <3> QED
      BY <3>1, BuildAssumption, StsShape, StoredShape
  <2>3. ASSUME job # NIL
        PROVE  /\ KnowsDatabase(job.inits, "mysql-ping-database")
               /\ KnowsDatabase(job.inits, "mysql-create-database")
               /\ KnowsDatabase(job.containers, "mysql-sql-init")
    <3>1. PICK s \in Specs, walk \in Walks : InitsMysql(Defaults(s)) /\ job = StoredPod(Job(s, walk))
      BY <1>1, <2>3 DEF IInv, Reached
    <3> QED
      BY <3>1, JobKnowsDatabase
  <2> QED
    BY <2>1, <2>2, <2>3 DEF TypeOK
<1> QED
  BY <1>1, Invariance, PTL

-----------------------------------------------------------------------------
(***************************************************************************)
(* A wrapper that fits gives a pod that Kubernetes accepts.                *)
(***************************************************************************)

DistinctPaths(s) == \A i, j \in DOMAIN s : s[i].path = s[j].path => i = j

\* What Accepted asks of one container.
Runs(c, volumes) ==
    /\ c.image # NIL
    /\ DistinctPaths(c.mounts)
    /\ \A m \in ToSet(c.mounts) : m.volume \in volumes
    /\ c.probe # NIL => OneHandler(c.probe)

\* Mounts of both: each path once, if the wrapper takes no path of another
\* mount, and only volumes that exist.
LEMMA MountsFit ==
    ASSUME NEW d, Items(d, MountFields), DistinctPaths(d),
           NEW o, Items(o, MountFields), DistinctPaths(o),
           \A m \in ToSet(o), k \in ToSet(d) : k.path = m.path => k.name = m.name,
           NEW volumes, \A m \in ToSet(d) \cup ToSet(o) : m.volume \in volumes,
           NEW walk, IsWalk(walk), NEW r, r = VolumeMounts(d, o, walk)
    PROVE  DistinctPaths(r) /\ \A m \in ToSet(r) : m.volume \in volumes
<1>1. "name" \in MountFields /\ "path" \in MountFields /\ "volume" \in MountFields
  BY DEF MountFields
<1>2. /\ Merges(r, d, o)
      /\ \A x \in ToSet(r), f \in MountFields :
            \/ \E y \in ToSet(d) : y.name = x.name /\ y[f] = x[f]
            \/ \E y \in ToSet(o) : y.name = x.name /\ y[f] = x[f]
  BY <1>1, MergedFields DEF VolumeMounts
<1>3. \A m \in ToSet(r) : m.volume \in volumes
  BY <1>1, <1>2
<1>4. /\ \A y, z \in ToSet(d) : y.path = z.path => y.name = z.name
      /\ \A y, z \in ToSet(o) : y.path = z.path => y.name = z.name
  BY DEF DistinctPaths, ToSet
<1>5. \A x \in ToSet(r) :
         \/ \E y \in ToSet(d) : y.name = x.name /\ y.path = x.path
         \/ \E y \in ToSet(o) : y.name = x.name /\ y.path = x.path
  BY <1>1, <1>2
<1>6. \A x, z \in ToSet(r) : x.path = z.path => x.name = z.name
  BY <1>4, <1>5
<1>7. DistinctPaths(r)
  BY <1>2, <1>6 DEF DistinctPaths, Merges, DistinctNames, ToSet
<1> QED
  BY <1>3, <1>7

\* A merged probe has one handler.
LEMMA ProbesFit ==
    ASSUME NEW d, d = NIL \/ DOMAIN d = {"exec", "http", "tcp"}, d # NIL => OneHandler(d),
           NEW o, IF d = NIL THEN o # NIL => OneHandler(o) ELSE Handlers(o) \subseteq Handlers(d)
    PROVE  Pointer(d, o) # NIL => OneHandler(Pointer(d, o))
<1>1. CASE d = NIL \/ o = NIL
  BY <1>1 DEF Pointer
<1>2. CASE d # NIL /\ o # NIL
  <2> SUFFICES ASSUME Fields(d, o) # NIL PROVE OneHandler(Fields(d, o))
    BY <1>2 DEF Pointer
  <2> DEFINE r == Fields(d, o)
  <2>1. \A h \in {"exec", "http", "tcp"} : r[h] = Scalar(d[h], o[h])
    BY <1>2 DEF Fields
  <2> HIDE DEF r
  <2>2. \A h : h \in Handlers(r) <=> h \in Handlers(d)
    BY <1>2, <2>1 DEF Handlers, Scalar, r
  <2>3. Handlers(r) = Handlers(d)
    BY <2>2
  <2> QED
    BY <1>2, <2>3 DEF OneHandler, r
<1> QED
  BY <1>1, <1>2

\* The container of Nacos, with a wrapper's on it.
LEMMA MergedRuns ==
    ASSUME NEW c, IsContainer(c), NEW w, IsContainer(w), NEW volumes, Runs(c, volumes),
           DistinctPaths(w.mounts), \A m \in ToSet(w.mounts) : m.volume \in volumes,
           IF c.probe = NIL THEN w.probe # NIL => OneHandler(w.probe)
                            ELSE Handlers(w.probe) \subseteq Handlers(c.probe),
           \A m \in ToSet(w.mounts), k \in ToSet(c.mounts) : k.path = m.path => k.name = m.name,
           NEW walk, IsWalk(walk)
    PROVE  Runs(Container(c, w, walk), volumes)
<1> DEFINE r == Container(c, w, walk)
<1>1. /\ r.image = Scalar(c.image, w.image) /\ r.probe = Pointer(c.probe, w.probe)
      /\ r.mounts = VolumeMounts(c.mounts, w.mounts, walk)
  BY ContainerMerges
<1>2. /\ Items(c.mounts, MountFields) /\ Items(w.mounts, MountFields)
      /\ c.probe = NIL \/ DOMAIN c.probe = {"exec", "http", "tcp"}
  BY DEF IsContainer, MountFields
<1> HIDE DEF r
<1>3. r.image # NIL
  BY <1>1 DEF Runs, Scalar
<1>4. DistinctPaths(r.mounts) /\ \A m \in ToSet(r.mounts) : m.volume \in volumes
  BY <1>1, <1>2, MountsFit DEF Runs
<1>5. r.probe # NIL => OneHandler(r.probe)
  BY <1>1, <1>2, ProbesFit DEF Runs
<1> QED
  BY <1>3, <1>4, <1>5 DEF Runs, r

\* The container of Nacos alone.
LEMMA OwnMountsPaths == ASSUME NEW s PROVE DistinctPaths(OwnMounts(s))
<1> DEFINE q == IF s.claim = NIL THEN <<>> ELSE <<Mount("db", "data")>>
           r == IF s.config = NIL THEN <<>> ELSE <<Mount("config", "init.d")>>
<1>1. /\ IsList(q) /\ \A i \in DOMAIN q : i = 1 /\ q[i].path = "data"
      /\ IsList(r) /\ \A i \in DOMAIN r : i = 1 /\ r[i].path = "init.d"
  BY NoEntries, OneEntry DEF Mount
<1>2. OwnMounts(s) = q \o r
  BY DEF OwnMounts
<1> HIDE DEF q, r
<1>3. /\ DOMAIN q = 1..Len(q) /\ Len(q) \in Nat
      /\ DOMAIN r = 1..Len(r) /\ Len(r) \in Nat
  BY <1>1, ListFacts
<1>4. /\ DOMAIN (q \o r) = 1..(Len(q) + Len(r))
      /\ \A i \in 1..(Len(q) + Len(r)) :
            (q \o r)[i] = IF i <= Len(q) THEN q[i] ELSE r[i - Len(q)]
  BY <1>1, ConcatLists
<1>5. \A i \in DOMAIN (q \o r) :
         \/ i = 1 /\ (q \o r)[i].path = "data"
         \/ i = Len(q) + 1 /\ (q \o r)[i].path = "init.d"
  BY <1>1, <1>3, <1>4
<1> QED
  BY <1>2, <1>5 DEF DistinctPaths

LEMMA NamesApart ==
    ASSUME NEW s, IsList(s), DistinctNames(s), NEW t, IsList(t), DistinctNames(t),
           NamesOf(s) \cap NamesOf(t) = {}
    PROVE  DistinctNames(s \o t)
<1>1. /\ DOMAIN s = 1..Len(s) /\ Len(s) \in Nat /\ DOMAIN t = 1..Len(t) /\ Len(t) \in Nat
      /\ DOMAIN (s \o t) = 1..(Len(s) + Len(t))
      /\ \A i \in 1..(Len(s) + Len(t)) : (s \o t)[i] = IF i <= Len(s) THEN s[i] ELSE t[i - Len(s)]
  BY ListFacts, ConcatLists
<1> DEFINE q == s \o t
<1>2. \A i \in DOMAIN q :
         \/ i \in DOMAIN s /\ q[i] = s[i] /\ q[i].name \in NamesOf(s)
         \/ i - Len(s) \in DOMAIN t /\ i > Len(s) /\ q[i] = t[i - Len(s)] /\ q[i].name \in NamesOf(t)
  BY <1>1 DEF NamesOf
<1>3. DOMAIN q \in SUBSET Int
  BY <1>1
<1> HIDE DEF q
<1>4. DistinctNames(q)
  <2> SUFFICES ASSUME NEW i \in DOMAIN q, NEW j \in DOMAIN q, q[i].name = q[j].name PROVE i = j
    BY DEF DistinctNames
  <2>1. CASE i \in DOMAIN s /\ q[i] = s[i] /\ j \in DOMAIN s /\ q[j] = s[j]
    BY <2>1 DEF DistinctNames
  <2>2. CASE /\ i - Len(s) \in DOMAIN t /\ q[i] = t[i - Len(s)]
             /\ j - Len(s) \in DOMAIN t /\ q[j] = t[j - Len(s)]
    <3>1. i - Len(s) = j - Len(s)
      BY <2>2 DEF DistinctNames
    <3> QED
      BY <1>1, <1>3, <3>1
  <2> QED
    BY <1>2, <2>1, <2>2
<1> QED
  BY <1>4 DEF q

\* The pod of the operator's template, before a wrapper: what its parts have.
LEMMA TemplateRuns ==
    ASSUME NEW s, IsSpec(s), s.image # NIL, s.probe # NIL => OneHandler(s.probe),
           NEW d, d = Template(s),
           NEW volumes, NamesOf(d.volumes) \subseteq volumes, s.claim # NIL => "db" \in volumes
    PROVE  /\ \A c \in ToSet(d.containers) : Runs(c, volumes) /\ c.name = NACOS
           /\ \A c \in ToSet(d.inits) :
                 /\ Runs(c, volumes) /\ c.mounts = <<>> /\ c.probe = NIL
                 /\ c.name = "mysql-check-database"
<1>1. /\ d.containers = <<NacosContainer(s)>>
      /\ d.inits = IF InitsMysql(s) THEN <<MysqlContainer(s, "mysql-check-database")>> ELSE <<>>
      /\ d.volumes = IF s.config = NIL THEN <<>> ELSE <<ConfigVolume>>
  BY TemplateShape
<1>2. ASSUME NEW c \in ToSet(d.containers) PROVE Runs(c, volumes) /\ c.name = NACOS
  <2>1. /\ c.name = NACOS /\ c.image = s.image /\ c.mounts = OwnMounts(s) /\ c.probe = s.probe
    BY <1>1, <1>2, OneEntry, NacosContainerShape
  <2>2. s.config # NIL => "config" \in volumes
    <3>1. ConfigVolume.name = "config"
      BY DEF ConfigVolume
    <3> QED
      BY <1>1, <3>1, OneEntry, NamesInSet
  <2>3. \A v, p : Mount(v, p).volume = v
    BY DEF Mount
  <2>4. \A m \in ToSet(OwnMounts(s)) : m.volume \in volumes
    BY <2>2, <2>3, OwnMountsShape
  <2> QED
    BY <2>1, <2>4, OwnMountsPaths DEF Runs
<1>3. ASSUME NEW c \in ToSet(d.inits)
      PROVE  /\ Runs(c, volumes) /\ c.mounts = <<>> /\ c.probe = NIL
             /\ c.name = "mysql-check-database"
  <2>1. InitsMysql(s) /\ c = MysqlContainer(s, "mysql-check-database")
    BY <1>1, <1>3, OneEntry, NoEntries
  <2>2. /\ c.name = "mysql-check-database" /\ c.image # NIL /\ c.mounts = <<>> /\ c.probe = NIL
    BY <2>1, MysqlContainerShape DEF InitsMysql
  <2> QED
    BY <2>2, NoEntries DEF Runs, DistinctPaths
<1> QED
  BY <1>2, <1>3

LEMMA WrappedRuns ==
    ASSUME NEW s, IsSpec(s), s.image # NIL, s.probe # NIL => OneHandler(s.probe),
           NEW o, IsPod(o), NEW walk, IsWalk(walk), NEW claims, s.claim # NIL => "db" \in claims,
           NEW d, d = Template(s), WrapperFits(d, o, claims),
           NEW m, m = PodSpec(d, o, walk),
           NEW volumes, volumes = NamesOf(d.volumes) \cup NamesOf(o.volumes) \cup claims
    PROVE  /\ \A c \in ToSet(m.containers) : Runs(c, volumes)
           /\ \A c \in ToSet(m.inits) : Runs(c, volumes)
<1>1. /\ \A c \in ToSet(d.containers) : Runs(c, volumes) /\ c.name = NACOS
      /\ \A c \in ToSet(d.inits) : Runs(c, volumes) /\ c.mounts = <<>> /\ c.probe = NIL
  BY TemplateRuns
<1>2. /\ IsContainers(d.containers) /\ IsContainers(d.inits)
      /\ IsContainers(o.containers) /\ IsContainers(o.inits)
  BY TemplateShape DEF IsPod
<1>3. /\ m.containers = Containers(d.containers, o.containers, walk)
      /\ m.inits = Containers(d.inits, o.inits, walk)
  BY MergedPod
<1>4. /\ \A w \in ToSet(o.inits) : w.image # NIL /\ w.mounts = <<>> /\ w.probe = NIL
      /\ \A w \in ToSet(o.containers) :
            /\ DistinctPaths(w.mounts) /\ \A x \in ToSet(w.mounts) : x.volume \in volumes
            /\ w.name \notin NamesOf(d.containers) =>
                  w.image # NIL /\ (w.probe # NIL => OneHandler(w.probe))
            /\ \A c \in ToSet(d.containers) : c.name = w.name =>
                  /\ IF c.probe = NIL THEN w.probe # NIL => OneHandler(w.probe)
                                      ELSE Handlers(w.probe) \subseteq Handlers(c.probe)
                  /\ \A x \in ToSet(w.mounts), k \in ToSet(c.mounts) :
                        k.path = x.path => k.name = x.name
  BY DEF WrapperFits, Distinct, DistinctPaths
<1> HIDE DEF WrapperFits
<1>5. ASSUME NEW c \in ToSet(m.containers) PROVE Runs(c, volumes)
  <2> DEFINE b == Named(d.containers)[c.name]
             w == Named(o.containers)[c.name]
  <2>1. CASE c.name \in Common(d.containers, o.containers) /\ c = Container(b, w, walk)
    <3>1. /\ b \in ToSet(d.containers) /\ w \in ToSet(o.containers)
          /\ IsContainer(b) /\ IsContainer(w) /\ b.name = w.name
      BY <1>2, <2>1, CommonContainers, CommonNames, ContainersKnown
    <3> HIDE DEF b, w
    <3> QED
      BY <1>1, <1>4, <2>1, <3>1, MergedRuns
  <2>2. CASE c.name \notin NamesOf(o.containers) /\ c \in ToSet(d.containers)
    BY <1>1, <2>2
  <2>3. CASE c.name \notin NamesOf(d.containers) /\ c \in ToSet(o.containers)
    BY <1>4, <2>3 DEF Runs
  <2> QED
    BY <1>2, <1>3, <2>1, <2>2, <2>3, MergedContainers
<1>6. ASSUME NEW c \in ToSet(m.inits) PROVE Runs(c, volumes)
  <2> DEFINE b == Named(d.inits)[c.name]
             w == Named(o.inits)[c.name]
  <2>1. \A x, y : y.mounts = <<>> /\ y.probe = NIL =>
           DistinctPaths(y.mounts) /\ ToSet(y.mounts) = {} /\ Handlers(y.probe) = {}
    BY NoEntries DEF DistinctPaths, Handlers
  <2>2. CASE c.name \in Common(d.inits, o.inits) /\ c = Container(b, w, walk)
    <3>1. /\ b \in ToSet(d.inits) /\ w \in ToSet(o.inits) /\ IsContainer(b) /\ IsContainer(w)
      BY <1>2, <2>2, CommonContainers, CommonNames, ContainersKnown
    <3> HIDE DEF b, w
    <3> QED
      BY <1>1, <1>4, <2>1, <2>2, <3>1, MergedRuns
  <2>3. CASE c.name \notin NamesOf(o.inits) /\ c \in ToSet(d.inits)
    BY <1>1, <2>3
  <2>4. CASE c.name \notin NamesOf(d.inits) /\ c \in ToSet(o.inits)
    BY <1>4, <2>1, <2>4 DEF Runs
  <2> QED
    BY <1>2, <1>3, <2>2, <2>3, <2>4, MergedContainers
<1> QED
  BY <1>5, <1>6

LEMMA WrappedAccepted ==
    ASSUME NEW s, IsSpec(s), s.image # NIL, s.probe # NIL => OneHandler(s.probe),
           NEW o, IsPod(o), NEW walk, IsWalk(walk), NEW claims, s.claim # NIL => "db" \in claims,
           NEW d, d = Template(s), WrapperFits(d, o, claims)
    PROVE  Accepted(PodSpec(d, o, walk), claims)
<1> DEFINE m == PodSpec(d, o, walk)
           running == m.containers \o m.inits
           volumes == NamesOf(m.volumes) \cup claims
<1>1. /\ o.ephemeral = <<>> /\ DistinctNames(o.volumes)
      /\ \A w \in ToSet(o.inits) : w.name \notin NamesOf(d.containers) \cup NamesOf(o.containers)
      /\ \A w \in ToSet(o.containers) : w.name \notin NamesOf(d.inits)
  BY DEF WrapperFits, Distinct, DistinctNames
<1>2. m.ephemeral = <<>>
  <2>1. d.ephemeral = <<>>
    BY TemplateShape
  <2>2. m.ephemeral = IF o.ephemeral = <<>> THEN d.ephemeral
                      ELSE EphemeralContainers(d.ephemeral, o.ephemeral, walk)
    BY MergedPod
  <2> QED
    BY <1>1, <2>1, <2>2
<1>3. /\ Merges(m.containers, d.containers, o.containers)
      /\ Merges(m.inits, d.inits, o.inits)
      /\ Merges(m.volumes, d.volumes, o.volumes)
  BY <1>1, PodMerges
<1>4. volumes = NamesOf(d.volumes) \cup NamesOf(o.volumes) \cup claims
  BY <1>3 DEF Merges
<1>5. /\ \A c \in ToSet(m.containers) : Runs(c, volumes)
      /\ \A c \in ToSet(m.inits) : Runs(c, volumes)
  BY <1>4, WrappedRuns
<1>6. NamesOf(d.containers) \cap NamesOf(d.inits) = {}
  <2>1. /\ \A c \in ToSet(d.containers) : c.name = NACOS
        /\ \A c \in ToSet(d.inits) : c.name = "mysql-check-database"
    <3>1. /\ d.containers = <<NacosContainer(s)>>
          /\ d.inits = IF InitsMysql(s) THEN <<MysqlContainer(s, "mysql-check-database")>> ELSE <<>>
      BY TemplateShape
    <3> QED
      BY <3>1, NacosContainerShape, MysqlContainerShape, OneEntry, NoEntries
  <2> QED
    BY <2>1, NamesInSet DEF NACOS
<1> HIDE DEF m, volumes
<1>7. /\ IsList(m.containers) /\ DistinctNames(m.containers)
      /\ IsList(m.inits) /\ DistinctNames(m.inits)
      /\ NamesOf(m.containers) = NamesOf(d.containers) \cup NamesOf(o.containers)
      /\ NamesOf(m.inits) = NamesOf(d.inits) \cup NamesOf(o.inits)
  BY <1>3 DEF Merges, NamesKnown
<1>8. NamesOf(m.containers) \cap NamesOf(m.inits) = {}
  BY <1>1, <1>6, <1>7, NamesInSet
<1>9. DistinctNames(running) /\ ToSet(running) = ToSet(m.containers) \cup ToSet(m.inits)
  BY <1>7, <1>8, NamesApart, ConcatLists
<1>10. DistinctNames(m.volumes)
  BY <1>3 DEF Merges
<1> HIDE DEF running
<1>11. \A c \in ToSet(running) : Runs(c, volumes)
  BY <1>5, <1>9
<1>12. /\ Distinct(running, LAMBDA c : c.name)
       /\ Distinct(m.volumes, LAMBDA v : v.name)
  BY <1>9, <1>10 DEF Distinct, DistinctNames
<1>13. \A c \in ToSet(running) :
          /\ c.image # NIL
          /\ Distinct(c.mounts, LAMBDA x : x.path)
          /\ \A x \in ToSet(c.mounts) : x.volume \in volumes
          /\ c.probe # NIL => OneHandler(c.probe)
  BY <1>11 DEF Runs, DistinctPaths, Distinct
<1>14. Accepted(m, claims)
  BY <1>2, <1>12, <1>13 DEF Accepted, running, volumes
<1> QED
  BY <1>14 DEF m

\* Every pod built with a wrapper that fits is one Kubernetes accepts: no
\* container, volume or path twice, no mount of a volume that is not there.
THEOREM FittingPodsAccepted == Spec => []PodsAccepted
<1>1. ASSUME IInv PROVE PodsAccepted
  <2> DEFINE s == Defaults(spec)
             claims == IF s.claim = NIL THEN {} ELSE {"db"}
  <2>1. spec \in Specs /\ \A walk \in Walks : IsWalk(walk)
    BY <1>1, BuildAssumption DEF IInv, Reached
  <2>2. IsSpec(s) /\ s.wrapper = spec.wrapper /\ IsPod(s.wrapper)
    BY <2>1, StsShape, DefaultsShape
  <2>3. s.claim # NIL => "db" \in claims
    OBVIOUS
  <2>4. \A walk \in Walks : Sts(spec, walk).pod = PodSpec(Template(s), s.wrapper, walk)
    BY <2>1, <2>2, StsShape
  <2> HIDE DEF s, claims
  <2>5. ASSUME s.image # NIL, s.probe # NIL => OneHandler(s.probe),
               WrapperFits(Template(s), s.wrapper, claims), NEW walk \in Walks
        PROVE  Accepted(Sts(spec, walk).pod, claims)
    BY <2>1, <2>2, <2>3, <2>4, <2>5, WrappedAccepted
  <2> QED
    BY <2>5 DEF PodsAccepted, s, claims
<1> QED
  BY <1>1, Invariance, PTL
=============================================================================
