------------------------- MODULE ClusterCheckProofs -------------------------
(***************************************************************************)
(* Proofs about ClusterCheck for any number of members and of failures.    *)
(*                                                                         *)
(* The inductive invariant is TypeOK with what the check in progress has   *)
(* behind it: the leaders named so far are the one in hand (Carried), and  *)
(* each pod asked has its condition (Counted).                             *)
(***************************************************************************)
EXTENDS ClusterCheck, FiniteSetTheorems, TLAPS

Carried ==
    /\ \A l \in heard : l = known
    /\ \A c \in conds : c.type = "leader" => c.pod = known
Counted ==
    /\ \A p \in Pods : (\E c \in conds : c.pod = p) <=> p \in asked \ left
    /\ \A c, d \in conds : c.pod = d.pod => c = d
IInv == TypeOK /\ Carried /\ Counted /\ OneLeader

-----------------------------------------------------------------------------
LEMMA PodsAreNat == Pods \subseteq Nat \ {0} /\ NONE \notin Pods
BY ClusterAssumption DEF Pods

LEMMA InitInv == Init => IInv
<1> SUFFICES ASSUME Init PROVE IInv
  OBVIOUS
<1>1. TypeOK
  <2>1. upsets \in 0..MaxUpsets
    <3>1. 0 \in 0..MaxUpsets
      BY ClusterAssumption
    <3> QED
      BY <3>1 DEF Init
  <2>2. checking \in BOOLEAN
    BY Zenon DEF Init
  <2>3. status \in [verdict : Verdicts, conds : SUBSET Condition]
    BY DEF Init, Verdicts
  <2> QED
    BY <2>1, <2>2, <2>3 DEF Init, TypeOK, Reaches, Names
<1>2. Carried /\ Counted /\ OneLeader
  BY DEF Init, Carried, Counted, OneLeader
<1> QED
  BY <1>1, <1>2 DEF IInv

LEMMA BeginInv == IInv /\ Begin => IInv'
<1> SUFFICES ASSUME IInv, Begin PROVE IInv'
  OBVIOUS
<1>1. PICK pods \in SUBSET Pods :
        Cardinality(pods) >= Quorum /\ asked' = pods /\ left' = pods
  BY DEF Begin
<1>2. TypeOK'
  BY <1>1 DEF IInv, TypeOK, Begin, members, Names
<1>3. Carried' /\ Counted' /\ OneLeader'
  BY <1>1 DEF IInv, Begin, Carried, Counted, OneLeader
<1> QED
  BY <1>2, <1>3 DEF IInv

\* The leader after an answer is one of the names, and every leader named in
\* the answer is that one.
LEMMA AgreedNames ==
    ASSUME NEW leader, NEW l \in Names, Agreed(leader, l)
    PROVE  /\ known # NONE => l = known
           /\ \A q \in Pods : leader[q] # NONE => leader[q] = l
<1>1. known # NONE => l = known
  BY DEF Agreed
<1>2. ASSUME NEW q \in Pods, leader[q] # NONE PROVE leader[q] = l
  <2>1. q \in 1..q
    BY PodsAreNat
  <2> QED
    BY <1>2, <2>1 DEF Agreed
<1> QED
  BY <1>1, <1>2

\* A list names members, caught up or not.
LEMMA ListsName ==
    ASSUME TypeOK, NEW p \in Pods, NEW leader \in Leaders(p)
    PROVE  Named(leader) \subseteq Pods
<1>1. leader \in [Pods -> Names]
  BY DEF Leaders, TypeOK
<1> QED
  BY <1>1 DEF Named, Names

LEMMA PodPassesInv ==
    ASSUME IInv, NEW p \in Pods, PodPasses(p)
    PROVE  IInv'
<1>1. PICK leader \in Leaders(p), l \in Names :
        /\ Agreed(leader, l)
        /\ known' = l
        /\ conds' = conds \cup {[pod |-> p, type |-> Type(p, l)]}
        /\ heard' = heard \cup Named(leader)
  BY DEF PodPasses
<1> DEFINE c0 == [pod |-> p, type |-> Type(p, l)]
<1>2. c0 \in Condition /\ c0.pod = p /\ (c0.type = "leader" => p = l)
  BY DEF Condition, Type
<1>3. conds' = conds \cup {c0}
  BY <1>1
<1> HIDE DEF c0
<1>4. p \in left /\ checking /\ left' = left \ {p} /\ UNCHANGED <<members, checking, asked, status>>
  BY DEF PodPasses, Asks
<1>5. /\ known # NONE => l = known
      /\ \A k \in Named(leader) : k = l
  BY <1>1, AgreedNames DEF Named
<1>6. Named(leader) \subseteq Pods
  BY ListsName DEF IInv
<1>7. TypeOK'
  <2>1. heard' \subseteq Pods
    BY <1>1, <1>6 DEF IInv, TypeOK, Names
  <2> QED
    BY <1>1, <1>2, <1>3, <1>4, <2>1 DEF IInv, TypeOK, members
<1>8. Carried'
  <2>1. known = NONE => heard = {} /\ \A c \in conds : c.type # "leader"
    BY PodsAreNat DEF IInv, TypeOK, Carried, Condition
  <2>2. \A k \in heard' : k = l
    BY <1>1, <1>5, <2>1 DEF IInv, Carried
  <2>3. \A c \in conds' : c.type = "leader" => c.pod = l
    BY <1>2, <1>3, <1>5, <2>1 DEF IInv, Carried
  <2> QED
    BY <1>1, <2>2, <2>3 DEF Carried
<1>9. Counted'
  <2>1. \A c \in conds : c.pod # p
    BY <1>4 DEF IInv, Counted
  <2>2. \A q \in Pods : (\E c \in conds' : c.pod = q) <=> q \in asked' \ left'
    <3> SUFFICES ASSUME NEW q \in Pods
                 PROVE  (\E c \in conds' : c.pod = q) <=> q \in asked' \ left'
      OBVIOUS
    <3>1. CASE q = p
      BY <3>1, <1>2, <1>3, <1>4 DEF IInv, TypeOK
    <3>2. CASE q # p
      BY <3>2, <1>2, <1>3, <1>4 DEF IInv, Counted
    <3> QED
      BY <3>1, <3>2
  <2>3. \A c, d \in conds' : c.pod = d.pod => c = d
    BY <1>2, <1>3, <2>1 DEF IInv, Counted
  <2> QED
    BY <2>2, <2>3 DEF Counted
<1>10. OneLeader'
  BY <1>4 DEF IInv, OneLeader
<1> QED
  BY <1>7, <1>8, <1>9, <1>10 DEF IInv

LEMMA EndsInv ==
    ASSUME IInv, NEW verdict \in Verdicts, Ends(verdict)
    PROVE  IInv'
<1>1. TypeOK'
  BY DEF IInv, TypeOK, Ends, members, Names
<1>2. Carried' /\ Counted'
  BY DEF Ends, Carried, Counted
<1>3. OneLeader'
  BY DEF IInv, Ends, OneLeader, Carried
<1> QED
  BY <1>1, <1>2, <1>3 DEF IInv

LEMMA CheckInv == IInv /\ Check => IInv'
<1> SUFFICES ASSUME IInv, Check PROVE IInv'
  OBVIOUS
<1>1. CASE Begin
  BY <1>1, BeginInv
<1>2. ASSUME NEW p \in Pods, PodPasses(p) PROVE IInv'
  BY <1>2, PodPassesInv
<1>3. ASSUME NEW p \in Pods, PodFails(p) PROVE IInv'
  BY <1>3, EndsInv DEF PodFails, Verdicts
<1>4. CASE Pass
  BY <1>4, EndsInv DEF Pass, Verdicts
<1> QED
  BY <1>1, <1>2, <1>3, <1>4 DEF Check

\* The members change what the next answer will say, and nothing the check
\* has in hand.
LEMMA MemberInv ==
    ASSUME IInv, NEW p \in Pods, Member(p)
    PROVE  IInv'
<1>1. UNCHANGED <<check, status>>
  BY DEF Member, MemberFails, OtherScale, MemberReturns, Elect, CatchesUp
<1>2. Carried' /\ Counted' /\ OneLeader'
  BY <1>1 DEF check, IInv, Carried, Counted, OneLeader
<1>3. TypeOK'
  <2>1. upsets' \in 0..MaxUpsets
    BY ClusterAssumption DEF Member, MemberFails, OtherScale, MemberReturns, Elect, CatchesUp,
                             Upset, IInv, TypeOK
  <2>2. reach' \in [Pods -> Reaches]
    BY DEF Member, MemberFails, OtherScale, MemberReturns, Elect, CatchesUp,
           IInv, TypeOK, Reaches
  <2>3. elected' \in Names /\ current' \subseteq Pods
    BY DEF Member, MemberFails, OtherScale, MemberReturns, Elect, CatchesUp,
           IInv, TypeOK, Names
  <2> QED
    BY <1>1, <2>1, <2>2, <2>3 DEF IInv, TypeOK, check
<1> QED
  BY <1>2, <1>3 DEF IInv

LEMMA NextInv == IInv /\ [Next]_vars => IInv'
<1> SUFFICES ASSUME IInv, [Next]_vars PROVE IInv'
  OBVIOUS
<1>1. CASE Check
  BY <1>1, CheckInv
<1>2. ASSUME NEW p \in Pods, Member(p) PROVE IInv'
  BY <1>2, MemberInv
<1>3. CASE UNCHANGED vars
  BY <1>3 DEF vars, members, check, IInv, TypeOK, Carried, Counted, OneLeader
<1> QED
  BY <1>1, <1>2, <1>3 DEF Next

\* The inductive invariant of everything below.
THEOREM CheckedSoFar == Spec => []IInv
BY InitInv, NextInv, PTL DEF Spec

\* All variables keep their types, for any number of members.
THEOREM TypeCorrect == Spec => []TypeOK
<1>1. IInv => TypeOK
  BY DEF IInv
<1> QED
  BY <1>1, CheckedSoFar, PTL

\* No stored status names two leaders, for any number of members.
THEOREM OneLeaderOnly == Spec => []OneLeader
<1>1. IInv => OneLeader
  BY DEF IInv
<1> QED
  BY <1>1, CheckedSoFar, PTL

\* The answers a check accepts never name two leaders.
THEOREM LeadersAlwaysAgree == Spec => []LeadersAgree
<1>1. IInv => LeadersAgree
  BY DEF IInv, Carried, LeadersAgree
<1> QED
  BY <1>1, CheckedSoFar, PTL

-----------------------------------------------------------------------------
\* A check passes only in Pass: every other step leaves it going on, or
\* stores a failure.
LEMMA OnlyPass == ASSUME [Next]_vars, Passing PROVE Pass
<1>1. ASSUME NEW p \in Pods, Member(p) PROVE FALSE
  BY <1>1 DEF Passing, Member, MemberFails, OtherScale, MemberReturns, Elect, CatchesUp, check
<1>2. ASSUME NEW p \in Pods, PodPasses(p) PROVE FALSE
  BY <1>2 DEF Passing, PodPasses
<1>4. ASSUME NEW p \in Pods, PodFails(p) PROVE FALSE
  <2>1. status' = [verdict |-> "failed", conds |-> conds]
    BY <1>4 DEF PodFails, Ends
  <2> QED
    BY <2>1 DEF Passing
<1>3. ~Begin /\ ~UNCHANGED vars
  BY DEF Passing, Begin, vars, check
<1> QED
  BY <1>1, <1>2, <1>3, <1>4 DEF Next, Check

\* A check that passes leaves one condition for each pod asked, which is all
\* the reconcile loop assumes of it.
THEOREM ConditionsAlwaysMatch == Spec => ConditionsMatch
<1> DEFINE Of(p) == {c \in status'.conds : c.pod = p}
           Matches == \A p \in Pods : Cardinality(Of(p)) = (IF p \in asked THEN 1 ELSE 0)
<1>1. IInv /\ [Next]_vars => [Passing => Matches]_vars
  <2> SUFFICES ASSUME IInv, [Next]_vars, Passing, NEW p \in Pods
               PROVE  Cardinality(Of(p)) = (IF p \in asked THEN 1 ELSE 0)
    OBVIOUS
  <2>1. left = {} /\ status'.conds = conds
    <3>1. Pass
      BY OnlyPass
    <3>2. status' = [verdict |-> "passed", conds |-> conds]
      BY <3>1 DEF Pass, Ends
    <3> QED
      BY <3>1, <3>2 DEF Pass
  <2>2. CASE p \in asked
    <3>1. PICK c \in conds : c.pod = p
      BY <2>1, <2>2 DEF IInv, Counted
    <3>2. Of(p) = {c}
      BY <2>1, <3>1 DEF IInv, Counted
    <3> QED
      BY <2>2, <3>2, FS_Singleton
  <2>3. CASE p \notin asked
    <3>1. Of(p) = {}
      BY <2>1, <2>3 DEF IInv, Counted
    <3> QED
      BY <2>3, <3>1, FS_EmptySet
  <2> QED
    BY <2>2, <2>3
<1>2. Matches = \A p \in Pods :
         Cardinality({c \in status'.conds : c.pod = p}) = (IF p \in asked THEN 1 ELSE 0)
  OBVIOUS
<1> QED
  BY <1>1, CheckedSoFar, PTL DEF Spec, ConditionsMatch
=============================================================================
