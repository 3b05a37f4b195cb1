---------------------------- MODULE ClusterCheck ----------------------------
(***************************************************************************)
(* CheckNacos pod by pod (src/operator/pkg/service/operator/Check.go and   *)
(* pkg/service/nacos/cluster.go): the operator asks each ready pod for its *)
(* list of members, one GET after the other, while the members fail, come  *)
(* back and elect leaders.  Each member answers from a list of its own,    *)
(* which catches up with the others with a delay.  Reconciler has the same *)
(* check as one step and the retries as its queue; here a check is begun   *)
(* again at any time.                                                      *)
(*                                                                         *)
(* Pods are numbered in the order of the API server's list and of the      *)
(* members in an answer.                                                   *)
(***************************************************************************)
EXTENDS Integers, FiniteSets

CONSTANTS
    N,          \* replicas
    NONE,       \* an empty leader
    HostNames,  \* leaders are host names (PREFER_HOST_MODE), not addresses
    MaxUpsets   \* bound on failures, changes of leader and of scale

ASSUME ClusterAssumption ==
    N \in Nat \ {0} /\ NONE \notin Int /\ HostNames \in BOOLEAN /\ MaxUpsets \in Nat

Pods == 1..N
Names == Pods \cup {NONE}

VARIABLES
    reach,      \* what a GET of the pod meets
    elected,    \* the leader of the naming service
    current,    \* the members whose list is up to date
    upsets,     \* failures, changes of leader and of scale so far
    checking,   \* CheckNacos is under way
    asked,      \* the pods it was given
    left,       \* those not yet asked
    known,      \* CheckNacos's variable leader
    conds,      \* the conditions of the copy in hand
    status,     \* verdict and conditions as stored
    heard       \* history: the leaders named to this check

members == <<reach, elected, current, upsets>>
check   == <<checking, asked, left, known, conds, heard>>
vars    == <<members, check, status>>

\* "short": the list of members is not of the length asked for, as in an answer that is
\* an error page in JSON, or of a member started with another scale.
Reaches == {"answers", "short", "refuses", "hangs"}
Condition == [pod : Pods, type : {"leader", "follower"}]
Verdicts == {"", "passed", "failed"}

-----------------------------------------------------------------------------
(***************************************************************************)
(* The check.                                                              *)
(***************************************************************************)
Quorum == (N + 1) \div 2

\* What a GET of pod p may return: which members its list has as UP, and the
\* leader it has for each of them.  A list that has not caught up may have any
\* leaders, and all members UP or one of them not, which stands for several.
Running == {q \in Pods : reach[q] \in {"answers", "short"}}
Ups(p) == IF p \in current THEN {Running} ELSE {Pods \ {q} : q \in Names}
Leaders(p) == IF p \in current THEN {[q \in Pods |-> elected]} ELSE [Pods -> Names]
Named(leader) == {leader[q] : q \in Pods} \ {NONE}

\* Begin with the ready pods, as many as CheckKind lets pass.
\* Seeded fault: the conditions of the last check are not emptied.
BeginAppending ==
    /\ ~checking
    /\ \E pods \in SUBSET Pods : Cardinality(pods) >= Quorum /\ asked' = pods /\ left' = pods
    /\ checking' = TRUE
    /\ known' = NONE /\ conds' = status.conds /\ heard' = {}
    /\ UNCHANGED <<members, status>>
Begin ==
    /\ ~checking
    /\ \E pods \in SUBSET Pods : Cardinality(pods) >= Quorum /\ asked' = pods /\ left' = pods
    /\ checking' = TRUE
    /\ known' = NONE /\ conds' = {} /\ heard' = {}
    /\ UNCHANGED <<members, status>>

\* The pods are asked in the order of the list.
Asks(p) == checking /\ p \in left /\ \A q \in left : p <= q

\* The first leader named is taken; every name after it must be the same.
Agreed(leader, l) ==
    /\ IF known # NONE THEN l = known ELSE \E q \in Pods : leader[q] = l
    /\ \A q \in Pods :
         leader[q] = l \/ (known = NONE /\ \A r \in 1..q : leader[r] = NONE)

\* Every server in this answer is UP.
\* Seeded fault: only the pods asked are looked at.
AskedUp(up) == asked \subseteq up
AllUp(up) == up = Pods

\* What the answer of pod p must be like, but for its leaders.
Accepted(p, up) == reach[p] = "answers" /\ AllUp(up)

\* Names are compared with the first part of the leader, which is the name
\* of a pod only if it is a host name.
Type(p, l) == IF HostNames /\ l = p THEN "leader" ELSE "follower"

\* Seeded fault: the leader is forgotten from one pod to the next.
PodPassesForgetting(p) ==
    /\ Asks(p)
    /\ \E up \in Ups(p) : Accepted(p, up)
    /\ \E leader \in Leaders(p), l \in Names :
         /\ Agreed(leader, l)
         /\ conds' = conds \cup {[pod |-> p, type |-> Type(p, l)]}
         /\ heard' = heard \cup Named(leader)
    /\ left' = left \ {p}
    /\ UNCHANGED <<members, checking, asked, known, status>>
\* Seeded fault: the condition is made before the answer is looked at.
PodPassesMarkedFirst(p) ==
    /\ Asks(p)
    /\ \E up \in Ups(p) : Accepted(p, up)
    /\ \E leader \in Leaders(p), l \in Names :
         /\ Agreed(leader, l)
         /\ known' = l
         /\ conds' = conds \cup {[pod |-> p, type |-> Type(p, known)]}
         /\ heard' = heard \cup Named(leader)
    /\ left' = left \ {p}
    /\ UNCHANGED <<members, checking, asked, status>>
\* Seeded fault: a pod that passed is dropped from the wrong list.
PodPassesDropped(p) ==
    /\ Asks(p)
    /\ \E up \in Ups(p) : Accepted(p, up)
    /\ \E leader \in Leaders(p), l \in Names :
         /\ Agreed(leader, l)
         /\ known' = l
         /\ conds' = conds \cup {[pod |-> p, type |-> Type(p, l)]}
         /\ heard' = heard \cup Named(leader)
    /\ asked' = asked \ {p}
    /\ UNCHANGED <<members, checking, left, status>>
PodPasses(p) ==
    /\ Asks(p)
    /\ \E up \in Ups(p) : Accepted(p, up)
    /\ \E leader \in Leaders(p), l \in Names :
         /\ Agreed(leader, l)
         /\ known' = l
         /\ conds' = conds \cup {[pod |-> p, type |-> Type(p, l)]}
         /\ heard' = heard \cup Named(leader)
    /\ left' = left \ {p}
    /\ UNCHANGED <<members, checking, asked, status>>

\* The status is stored and the reconcile's variables are gone.
Ends(verdict) ==
    /\ status' = [verdict |-> verdict, conds |-> conds]
    /\ checking' = FALSE
    /\ asked' = {} /\ left' = {} /\ known' = NONE /\ conds' = {} /\ heard' = {}
    /\ UNCHANGED members

\* A panic with CODE_CLUSTER_FAILE: the status is stored with the conditions
\* so far.
PodFails(p) ==
    /\ Asks(p)
    /\ reach[p] # "hangs"
    /\ \/ ~\A up \in Ups(p) : Accepted(p, up)
       \/ ~\A leader \in Leaders(p) : \E l \in Names : Agreed(leader, l)
    /\ Ends("failed")

\* Every pod asked has passed: UpdateStatusRunning.
Pass ==
    /\ checking /\ left = {}
    /\ Ends("passed")

Check == Begin \/ (\E p \in Pods : PodPasses(p) \/ PodFails(p)) \/ Pass

-----------------------------------------------------------------------------
(***************************************************************************)
(* The members: Nacos and the pods, which are not in this repository.      *)
(***************************************************************************)
Upset == upsets < MaxUpsets /\ upsets' = upsets + 1

\* A member stops, or stops answering; the others have not noticed yet.
MemberFails(p) ==
    /\ Upset
    /\ reach[p] = "answers"
    /\ reach' = [reach EXCEPT ![p] = "refuses"] \/ reach' = [reach EXCEPT ![p] = "hangs"]
    /\ elected' = IF elected = p THEN NONE ELSE elected
    /\ current' = {}
    /\ UNCHANGED <<check, status>>

\* A member answers with a list of another length.
OtherScale(p) ==
    /\ Upset
    /\ reach[p] = "answers"
    /\ reach' = [reach EXCEPT ![p] = "short"]
    /\ UNCHANGED <<elected, current, check, status>>

MemberReturns(p) ==
    /\ reach[p] # "answers"
    /\ reach' = [reach EXCEPT ![p] = "answers"]
    /\ current' = {}
    /\ UNCHANGED <<elected, upsets, check, status>>

Elect(p) ==
    /\ reach[p] = "answers" /\ elected # p
    /\ IF elected = NONE THEN UNCHANGED upsets ELSE Upset
    /\ elected' = p
    /\ current' = {}
    /\ UNCHANGED <<reach, check, status>>

\* A list catches up with who is there and who leads.
CatchesUp(p) ==
    /\ reach[p] \in {"answers", "short"} /\ p \notin current
    /\ current' = current \cup {p}
    /\ UNCHANGED <<reach, elected, upsets, check, status>>

Member(p) ==
    \/ MemberFails(p) \/ OtherScale(p) \/ MemberReturns(p)
    \/ Elect(p) \/ CatchesUp(p)

-----------------------------------------------------------------------------
\* A cluster is created, and no leader elected yet.
Init ==
    /\ reach = [p \in Pods |-> "answers"]
    /\ elected = NONE
    /\ current = {}
    /\ upsets = 0
    /\ checking = FALSE
    /\ asked = {} /\ left = {}
    /\ known = NONE
    /\ conds = {}
    /\ status = [verdict |-> "", conds |-> {}]
    /\ heard = {}

Next == Check \/ \E p \in Pods : Member(p)

\* The worker goes on, and begins again: after a failure by RequeueAfter,
\* after a success by the informer's resync at the latest.  A GET of a pod
\* that hangs does not return: the client has no timeout.
Spec == Init /\ [][Next]_vars /\ WF_vars(Check)

-----------------------------------------------------------------------------
TypeOK ==
    /\ reach \in [Pods -> Reaches]
    /\ elected \in Names /\ current \subseteq Pods
    /\ upsets \in 0..MaxUpsets
    /\ checking \in BOOLEAN
    /\ asked \subseteq Pods /\ left \subseteq asked
    /\ known \in Names
    /\ conds \subseteq Condition
    /\ status \in [verdict : Verdicts, conds : SUBSET Condition]
    /\ heard \subseteq Pods

\* The members may elect another leader between two GETs: still, no status
\* names two leaders, because the leader is carried from pod to pod.
OneLeader ==
    \A c, d \in status.conds :
        c.type = "leader" /\ d.type = "leader" => c.pod = d.pod

\* "Make sure that the leader of every node is the same" (Check.go:64): all
\* members that named a leader in any of the answers accepted by one check
\* named the same one, whatever was elected in the meantime.
LeadersAgree == \A k, l \in heard : k = l

\* The verdict Running of the check under way.
Passing == checking /\ ~checking' /\ status'.verdict = "passed"

\* A check that passed leaves one condition for each pod it asked and none of
\* an earlier check; this is what the reconcile loop makes of its result.
ConditionsMatch ==
    [][Passing => \A p \in Pods :
         Cardinality({c \in status'.conds : c.pod = p}) = (IF p \in asked THEN 1 ELSE 0)]_vars

\* Members that stay well are reported well in the end, and their leader is
\* marked if it is known by name and was asked.
Well ==
    /\ elected # NONE /\ current = Pods
    /\ \A p \in Pods : reach[p] = "answers"
WellReported ==
    <>[]Well => <>[](/\ status.verdict = "passed"
                     /\ \A c \in status.conds :
                          (c.type = "leader") = (HostNames /\ c.pod = elected))

\* A member that stays down, as the lists of all others show, is reported in
\* the end, even if its pod is never asked, unless a GET hangs.
Down ==
    /\ Running # Pods /\ Running \subseteq current
    /\ \A p \in Pods : reach[p] # "hangs"
FailureReported == <>[]Down => <>[](status.verdict = "failed")
=============================================================================
