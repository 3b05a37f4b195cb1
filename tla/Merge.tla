------------------------------- MODULE Merge -------------------------------
(***************************************************************************)
(* The merge of the operator's pod specification with the one of the       *)
(* user's k8sWrapper (src/operator/pkg/util/merge), as pure operators.  A  *)
(* definition has the default (the operator's) as its first argument d and *)
(* the override (the user's) as its second o.                              *)
(*                                                                         *)
(* A struct is a record, a list a sequence, and a field of a zero value    *)
(* ("", nil, 0, FALSE) is NIL.  Go walks a map in an order of its own: it  *)
(* is the argument walk, some order of all names, wherever a list is made  *)
(* from a map.                                                             *)
(*                                                                         *)
(* Nothing here is recursive but the hosts of an alias: lists are selected *)
(* and sorted by counting, so that MergeProofs can reason about them.      *)
(***************************************************************************)
EXTENDS Naturals, SequencesExt

CONSTANTS
    NIL,       \* a zero value
    Alphabet   \* all names that occur, in the order of their bytes

Names == ToSet(Alphabet)

IsList(s) == s \in Seq(ToSet(s))

\* An order of all names in which a map may be walked.
IsWalk(walk) == IsList(walk) /\ ToSet(walk) = Names /\ IsInjective(walk)

ASSUME AlphabetAssumption == IsWalk(Alphabet)

-----------------------------------------------------------------------------
(***************************************************************************)
(* Lists in order.                                                         *)
(***************************************************************************)

\* The entries of s at the given positions, arranged by an order of these:
\* the pairs <<j, i>> of which j does not come after i.
Arranged(s, at, order) ==
    [k \in 1..Cardinality(at) |->
        s[CHOOSE i \in at : Cardinality({j \in at : <<j, i>> \in order}) = k]]

\* A loop that takes only some entries.
Picked(s, at) == Arranged(s, at, {p \in at \X at : p[1] <= p[2]})

Rank(name) == CHOOSE i \in DOMAIN Alphabet : Alphabet[i] = name
NotAfter(s, j, i) ==
    \/ Rank(s[j].name) < Rank(s[i].name)
    \/ s[j].name = s[i].name /\ j <= i

\* sort.SliceStable by name.
ByName(s) ==
    LET at == DOMAIN s
    IN  Arranged(s, at, {p \in at \X at : NotAfter(s, p[1], p[2])})

-----------------------------------------------------------------------------
(***************************************************************************)
(* Fields.                                                                 *)
(***************************************************************************)

\* A field the override sets replaces the default.
Scalar(d, o) == IF o = NIL THEN d ELSE o
Fields(d, o) == [f \in DOMAIN d |-> Scalar(d[f], o[f])]

\* A pointer to a struct: LifeCycle, and the same for SecurityContext, Probe
\* and Affinity.
Pointer(d, o) == IF o = NIL THEN d ELSE IF d = NIL THEN o ELSE Fields(d, o)
Probe(d, o) == Pointer(d, o)
Affinity(d, o) == Pointer(d, o)

\* The strings of both: those of the override that are new come last.
StringSlices(d, o) ==
    d \o Picked(o, {i \in DOMAIN o : o[i] \notin ToSet(d) /\ \A j \in 1..i-1 : o[j] # o[i]})

StringToStringMap(d, o) == o @@ d

-----------------------------------------------------------------------------
(***************************************************************************)
(* Lists of named items.                                                   *)
(***************************************************************************)

NamesOf(s) == {s[i].name : i \in DOMAIN s}

\* The map of a list by name: of two items of a name the last stays.
\* Seeded fault: the first does.
FirstNamed(s) ==
    [n \in NamesOf(s) |->
        s[CHOOSE i \in DOMAIN s :
            s[i].name = n /\ \A j \in DOMAIN s : s[j].name = n => i <= j]]
Named(s) ==
    [n \in NamesOf(s) |->
        s[CHOOSE i \in DOMAIN s :
            s[i].name = n /\ \A j \in DOMAIN s : s[j].name = n => j <= i]]

Common(d, o) == DOMAIN Named(d) \cap DOMAIN Named(o)

\* The function both has the merged items of the common names; the others
\* are taken as they are.
\* Seeded fault: only the names of the default are kept.
OverlayKnown(d, o, both) ==
    [n \in DOMAIN Named(d) |-> IF n \in DOMAIN both THEN both[n] ELSE Named(d)[n]]
Overlay(d, o, both) ==
    [n \in DOMAIN Named(d) \cup DOMAIN Named(o) |->
        IF n \in DOMAIN both THEN both[n]
        ELSE IF n \in DOMAIN Named(o) THEN Named(o)[n]
        ELSE Named(d)[n]]

\* A map as a list, in the order in which Go walks it.
Walked(m, walk) ==
    LET names == Picked(walk, {i \in DOMAIN walk : walk[i] \in DOMAIN m})
    IN  [i \in DOMAIN names |-> m[names[i]]]

\* Two lists by name, left in the order of the walk.
MergeWalked(d, o, both, walk) == Walked(Overlay(d, o, both), walk)
MergeNamed(d, o, both, walk) == ByName(Walked(Overlay(d, o, both), walk))

\* The items of both are merged field by field.
FieldsOf(d, o) == [n \in Common(d, o) |-> Fields(Named(d)[n], Named(o)[n])]

-----------------------------------------------------------------------------
(***************************************************************************)
(* Containers.                                                             *)
(***************************************************************************)

\* A variable has a value or a source of one, never both.
SingleEnv(d, o) ==
    LET valued == IF o.value = NIL THEN d ELSE [d EXCEPT !.value = o.value, !.from = NIL]
    IN  IF o.from = NIL THEN valued ELSE [valued EXCEPT !.from = o.from, !.value = NIL]
Envs(d, o, walk) ==
    MergeNamed(d, o, [n \in Common(d, o) |-> SingleEnv(Named(d)[n], Named(o)[n])], walk)

Ports(d, o, walk) == MergeNamed(d, o, FieldsOf(d, o), walk)

\* The name of a mount is volumeMountToString: its volume, path and subpath.
VolumeMounts(d, o, walk) == MergeNamed(d, o, FieldsOf(d, o), walk)

VolumeDevices(d, o, walk) == MergeNamed(d, o, FieldsOf(d, o), walk)

\* image stands for every plain field, command for the arguments too, probe
\* for the three probes and lifecycle for the security context.
Container(d, o, walk) ==
    [name      |-> Scalar(d.name, o.name),
     image     |-> Scalar(d.image, o.image),
     command   |-> StringSlices(d.command, o.command),
     ports     |-> Ports(d.ports, o.ports, walk),
     env       |-> Envs(d.env, o.env, walk),
     res       |-> Fields(d.res, o.res),
     mounts    |-> VolumeMounts(d.mounts, o.mounts, walk),
     devices   |-> VolumeDevices(d.devices, o.devices, walk),
     probe     |-> Probe(d.probe, o.probe),
     lifecycle |-> Pointer(d.lifecycle, o.lifecycle)]
Containers(d, o, walk) ==
    MergeNamed(d, o, [n \in Common(d, o) |-> Container(Named(d)[n], Named(o)[n], walk)], walk)

\* Merged as other containers are; their sort is commented out.
EphemeralContainers(d, o, walk) ==
    MergeWalked(d, o, [n \in Common(d, o) |-> Container(Named(d)[n], Named(o)[n], walk)], walk)

-----------------------------------------------------------------------------
(***************************************************************************)
(* The pod.                                                                *)
(***************************************************************************)

\* Of two tolerations of a key the override's stays.
Tolerations(d, o, walk) ==
    MergeNamed(d, o, [n \in Common(d, o) |-> Named(o)[n]], walk)

\* By address: the host names of all aliases of it, each once.
HostAliases(d, o, walk) ==
    LET all(n) == (IF n \in DOMAIN Named(d) THEN <<Named(d)[n]>> ELSE <<>>)
                  \o Picked(o, {i \in DOMAIN o : o[i].name = n})
        alias(n) == [name  |-> n,
                     hosts |-> FoldLeft(LAMBDA hosts, a : StringSlices(hosts, a.hosts),
                                        Head(all(n)).hosts, Tail(all(n)))]
    IN  ByName(Walked([n \in DOMAIN Named(d) \cup DOMAIN Named(o) |-> alias(n)], walk))

\* By topology key, and never sorted.
TopologySpreadConstraints(d, o, walk) == MergeWalked(d, o, FieldsOf(d, o), walk)

\* The items of a volume by their key; those of the default come first, and
\* nothing is sorted.
MergeItems(d, o, walk) ==
    LET all == Walked(Overlay(d, o, FieldsOf(d, o)), walk)
        old == {i \in DOMAIN all : all[i].name \in DOMAIN Named(d)}
    IN  Picked(all, old) \o Picked(all, DOMAIN all \ old)

\* Sources of a kind the operator knows are merged, any other replaces.
KnownKinds == {"emptyDir", "secret", "configMap"}
Volume(d, o, walk) ==
    [d EXCEPT !.source =
        IF d.source.kind = o.source.kind /\ d.source.kind \in KnownKinds
          THEN [kind  |-> d.source.kind,
                ref   |-> Scalar(d.source.ref, o.source.ref),
                items |-> MergeItems(d.source.items, o.source.items, walk)]
          ELSE o.source]

\* Seeded fault: a volume that is merged is added once more.
VolumesTwice(d, o, walk) ==
    ByName([i \in DOMAIN d |-> IF d[i].name \in DOMAIN Named(o)
                                 THEN Volume(d[i], Named(o)[d[i].name], walk)
                                 ELSE d[i]] \o o)
Volumes(d, o, walk) ==
    ByName([i \in DOMAIN d |-> IF d[i].name \in DOMAIN Named(o)
                                 THEN Volume(d[i], Named(o)[d[i].name], walk)
                                 ELSE d[i]]
           \o Picked(o, {i \in DOMAIN o : o[i].name \notin DOMAIN Named(d)}))

PodDNSConfig(d, o) ==
    IF o = NIL THEN d
    ELSE IF d = NIL THEN o
    ELSE [options  |-> Scalar(d.options, o.options),
          servers  |-> StringSlices(d.servers, o.servers),
          searches |-> StringSlices(d.searches, o.searches)]

\* plain stands for the fields the override replaces as a whole.
PodSpec(d, o, walk) ==
    [volumes     |-> Volumes(d.volumes, o.volumes, walk),
     containers  |-> Containers(d.containers, o.containers, walk),
     inits       |-> Containers(d.inits, o.inits, walk),
     ephemeral   |-> IF o.ephemeral = <<>> THEN d.ephemeral
                     ELSE EphemeralContainers(d.ephemeral, o.ephemeral, walk),
     tolerations |-> Tolerations(d.tolerations, o.tolerations, walk),
     aliases     |-> HostAliases(d.aliases, o.aliases, walk),
     spread      |-> IF o.spread = <<>> THEN d.spread
                     ELSE TopologySpreadConstraints(d.spread, o.spread, walk),
     selector    |-> IF o.selector = NIL THEN d.selector
                     ELSE StringToStringMap(d.selector, o.selector),
     affinity    |-> Affinity(d.affinity, o.affinity),
     dns         |-> PodDNSConfig(d.dns, o.dns),
     plain       |-> Scalar(d.plain, o.plain)]

-----------------------------------------------------------------------------
(***************************************************************************)
(* The shape of what the user writes in a wrapper: Go's types, and no name *)
(* but those of Alphabet.                                                  *)
(***************************************************************************)

Items(s, fields) ==
    IsList(s) /\ NamesOf(s) \subseteq Names /\ \A i \in DOMAIN s : DOMAIN s[i] = fields

IsContainer(c) ==
    /\ DOMAIN c = {"name", "image", "command", "ports", "env", "res", "mounts", "devices",
                   "probe", "lifecycle"}
    /\ IsList(c.command)
    /\ Items(c.ports, {"name", "port"})
    /\ Items(c.env, {"name", "value", "from"})
    /\ Items(c.mounts, {"name", "volume", "path"})
    /\ Items(c.devices, {"name", "path"})
    /\ c.probe = NIL \/ DOMAIN c.probe = {"exec", "http", "tcp"}
IsContainers(s) == IsList(s) /\ NamesOf(s) \subseteq Names /\ \A i \in DOMAIN s : IsContainer(s[i])

IsVolumes(s) ==
    /\ Items(s, {"name", "source"})
    /\ \A i \in DOMAIN s :
          s[i].source.kind \in KnownKinds => Items(s[i].source.items, {"name", "path"})

IsPod(pod) ==
    /\ DOMAIN pod = {"volumes", "containers", "inits", "ephemeral", "tolerations", "aliases",
                     "spread", "selector", "affinity", "dns", "plain"}
    /\ IsVolumes(pod.volumes)
    /\ IsContainers(pod.containers) /\ IsContainers(pod.inits) /\ IsContainers(pod.ephemeral)
    /\ Items(pod.tolerations, {"name", "effect"})
    /\ Items(pod.aliases, {"name", "hosts"})
    /\ Items(pod.spread, {"name", "skew"})
=============================================================================
