---------------------------- MODULE MCReconciler ----------------------------
(***************************************************************************)
(* Small instances of Reconciler for TLC.                                  *)
(***************************************************************************)
EXTENDS Reconciler, TLC

Symmetry == Permutations(Managers)

Volume(size, class) == [size |-> size, class |-> class]

\* The smallest spec: one standalone member without storage.
Base == [type |-> "", replicas |-> 1, volume |-> NIL, res |-> "r1", env |-> "e1",
         image |-> "i1", config |-> NIL, mysql |-> FALSE]
WithVolume(size, class) == [Base EXCEPT !.volume = Volume(size, class)]
WithEnv == [Base EXCEPT !.env = "e2"]
WithImage == [Base EXCEPT !.image = "i2"]
Cluster == [Base EXCEPT !.type = "cluster", !.replicas = 2, !.mysql = TRUE]
Scaled == [Cluster EXCEPT !.replicas = 1]
Empty == [Cluster EXCEPT !.replicas = 0]
NoReplicas == [Base EXCEPT !.replicas = NIL]
Configured == [Base EXCEPT !.config = "c1"]
NoMembers == [Base EXCEPT !.replicas = 0]
Other == [Base EXCEPT !.type = "other"]

Ends(edits) == {e[1] : e \in edits} \cup {e[2] : e \in edits}

\* An edit for every answer of checkSts, its panics included, and for the
\* specs MakeEnsure refuses.
EveryEdit ==
    {<<Cluster, Scaled>>, <<Base, Empty>>, <<Base, NoMembers>>,
     <<Base, Cluster>>, <<Base, NoReplicas>>, <<Configured, Other>>,
     <<WithVolume(1, NIL), WithVolume(1, "fast")>>,
     <<WithVolume(1, "fast"), WithVolume(2, "fast")>>}
EverySpec == Ends(EveryEdit)

\* An update of the StatefulSet.
EnvEdit == {<<Base, WithEnv>>}
EnvSpecs == Ends(EnvEdit)

\* One edit that takes a deletion of the StatefulSet and a change of the
\* ConfigMap.
LiveEdits == {<<[WithVolume(1, "fast") EXCEPT !.config = "c1"],
                [WithVolume(2, "fast") EXCEPT !.config = "c2"]>>}
LiveSpecs == Ends(LiveEdits)

VolumeEdit == {<<WithVolume(1, "fast"), WithVolume(2, "fast")>>}
VolumeSpecs == Ends(VolumeEdit)

ImageEdit == {<<Base, WithImage>>}
ImageSpecs == Ends(ImageEdit)

NoReplicasSpecs == {NoReplicas}
=============================================================================
