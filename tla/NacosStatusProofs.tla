------------------------- MODULE NacosStatusProofs --------------------------
(***************************************************************************)
(* What updateLastEvent does to any log, for every maximum, and that the   *)
(* abstract status keeps its promises.                                     *)
(***************************************************************************)
EXTENDS NacosStatus, TLAPS

\* Dropping the oldest event keeps a log well formed and makes room for one
\* more.
LEMMA TrimKeeps ==
    ASSUME NEW events1 \in Seq(Event), WellFormed(events1)
    PROVE  /\ Trim(events1) \in Seq(Event)
           /\ Len(Trim(events1)) <= EVENT_MAX_SIZE
           /\ Alternating(Trim(events1))
           /\ HonestStatus(Trim(events1))
<1> USE EventMaxAssumption DEF WellFormed, Bounded
<1>1. CASE Len(events1) > EVENT_MAX_SIZE
  <2> DEFINE kept == Tail(events1)
  <2>1. /\ events1 # << >>
        /\ kept \in Seq(Event)
        /\ Len(kept) = Len(events1) - 1
        /\ \A i \in 1..Len(kept) : kept[i] = events1[i + 1]
    BY <1>1
  <2>2. Alternating(kept)
    BY <2>1 DEF Alternating
  <2>3. HonestStatus(kept)
    BY <2>1 DEF HonestStatus
  <2> QED BY <1>1, <2>1, <2>2, <2>3 DEF Trim
<1>2. CASE ~(Len(events1) > EVENT_MAX_SIZE)
  BY <1>2 DEF Trim
<1> QED BY <1>1, <1>2

\* updateLastEvent always leaves an event of its code as the newest one.
LEMMA UpdateRecords ==
    ASSUME NEW events1 \in Seq(Event), NEW code \in Codes, NEW status \in BOOLEAN
    PROVE  LET new == UpdateLastEvent(events1, code, status)
           IN  new \in Seq(Event) /\ new # << >> /\ Newest(new).code = code
<1> DEFINE kept == Trim(events1)
           event == [code |-> code, status |-> status]
<1>1. kept \in Seq(Event)
  BY EventMaxAssumption DEF Trim
<1>2. event \in Event /\ [code |-> code, status |-> FALSE] \in Event
  BY DEF Event
<1>3. CASE kept = << >>
  BY <1>2, <1>3 DEF UpdateLastEvent, Newest
<1>4. CASE kept # << >> /\ Newest(kept).code = code
  BY <1>1, <1>4 DEF UpdateLastEvent
<1>5. CASE kept # << >> /\ Newest(kept).code # code
  <2>1. UpdateLastEvent(events1, code, status) = Append(kept, event)
    BY <1>5 DEF UpdateLastEvent
  <2>2. /\ Append(kept, event) \in Seq(Event)
        /\ Append(kept, event) # << >>
        /\ Append(kept, event)[Len(Append(kept, event))] = event
    BY <1>1, <1>2
  <2> QED BY <2>1, <2>2 DEF Newest
<1> QED BY <1>3, <1>4, <1>5

\* updateLastEvent keeps the log bounded, alternating and honest.
LEMMA UpdateKeepsWellFormed ==
    ASSUME NEW events1 \in Seq(Event), NEW code \in Codes, NEW status \in BOOLEAN,
           WellFormed(events1), status => code = CODE_NORMAL
    PROVE  WellFormed(UpdateLastEvent(events1, code, status))
<1> DEFINE kept == Trim(events1)
           event == [code |-> code, status |-> status]
           new == Append(kept, event)
<1>1. /\ kept \in Seq(Event)
      /\ Len(kept) <= EVENT_MAX_SIZE
      /\ Alternating(kept)
      /\ HonestStatus(kept)
  BY TrimKeeps
<1>2. CASE kept = << >>
  BY <1>2, EventMaxAssumption
  DEF UpdateLastEvent, WellFormed, Bounded, Alternating, HonestStatus
<1>3. CASE kept # << >> /\ Newest(kept).code = code
  BY <1>1, <1>3, EventMaxAssumption DEF UpdateLastEvent, WellFormed, Bounded
<1>4. CASE kept # << >> /\ Newest(kept).code # code
  <2>1. UpdateLastEvent(events1, code, status) = new
    BY <1>4 DEF UpdateLastEvent
  <2>2. /\ Len(kept) \in Nat
        /\ Len(new) = Len(kept) + 1
        /\ new[Len(kept) + 1] = event
        /\ \A i \in 1..Len(kept) : new[i] = kept[i]
    BY <1>1
  <2>3. Bounded(new)
    BY <1>1, <2>2, EventMaxAssumption DEF Bounded
  <2>4. Alternating(new)
    <3> SUFFICES ASSUME NEW i \in 1..(Len(new) - 1)
                 PROVE  new[i].code # new[i + 1].code
      BY DEF Alternating
    <3>1. CASE i = Len(kept)
      BY <1>4, <2>2, <3>1 DEF Newest
    <3>2. CASE i # Len(kept)
      <4>1. i \in 1..(Len(kept) - 1) /\ i \in 1..Len(kept) /\ i + 1 \in 1..Len(kept)
        BY <2>2, <3>2
      <4> QED BY <1>1, <2>2, <4>1 DEF Alternating
    <3> QED BY <3>1, <3>2
  <2>5. HonestStatus(new)
    <3> SUFFICES ASSUME NEW i \in 1..Len(new), new[i].status
                 PROVE  new[i].code = CODE_NORMAL
      BY DEF HonestStatus
    <3>1. CASE i = Len(kept) + 1
      BY <2>2, <3>1
    <3>2. CASE i # Len(kept) + 1
      BY <1>1, <2>2, <3>2 DEF HonestStatus
    <3> QED BY <3>1, <3>2
  <2> QED BY <2>1, <2>3, <2>4, <2>5 DEF WellFormed
<1> QED BY <1>2, <1>3, <1>4

-----------------------------------------------------------------------------
\* The three fields of the status keep their types.
THEOREM StatusTypeCorrect == Spec => []TypeOK
<1>1. Init => TypeOK
  <2>1. << >> \in Seq(Event)
    OBVIOUS
  <2> QED BY <2>1 DEF Init, TypeOK, Phases
<1>2. TypeOK /\ [Next]_vars => TypeOK'
  <2> SUFFICES ASSUME TypeOK, [Next]_vars PROVE TypeOK'
    OBVIOUS
  <2>1. CASE Accept
    BY <2>1 DEF TypeOK, Accept, Phases
  <2>2. CASE Succeed
    <3>1. events' \in Seq(Event)
      BY <2>2, UpdateRecords DEF TypeOK, Succeed, Codes
    <3> QED BY <2>2, <3>1 DEF TypeOK, Succeed, Phases
  <2>3. ASSUME NEW code \in ErrorCodes, Fail(code) PROVE TypeOK'
    <3>1. events' \in Seq(Event)
      BY <2>3, UpdateRecords DEF TypeOK, Fail, ErrorCodes
    <3> QED BY <2>3, <3>1 DEF TypeOK, Fail, Phases
  <2>4. CASE Expire
    BY <2>4 DEF TypeOK, Expire
  <2>5. CASE UNCHANGED vars
    BY <2>5 DEF TypeOK, vars
  <2> QED BY <2>1, <2>2, <2>3, <2>4, <2>5 DEF Next
<1> QED BY <1>1, <1>2, PTL DEF Spec

\* Whoever reads the status finds a phase that its newest event explains, in
\* a log that is bounded, alternating and honest.
THEOREM StatusIsCoherent == Spec => []StatusCoherent
<1>1. Init => StatusCoherent
  <2>1. WellFormed(<< >>)
    BY EventMaxAssumption DEF WellFormed, Bounded, Alternating, HonestStatus
  <2> QED BY <2>1 DEF Init, StatusCoherent, Coherent
<1>2. TypeOK /\ StatusCoherent /\ [Next]_vars => StatusCoherent'
  <2> SUFFICES ASSUME TypeOK, StatusCoherent, [Next]_vars PROVE StatusCoherent'
    OBVIOUS
  <2> USE DEF StatusCoherent
  <2>1. CASE Accept
    BY <2>1 DEF Accept, Coherent
  <2>2. CASE Succeed
    <3>1. WellFormed(events')
      BY <2>2, UpdateKeepsWellFormed DEF TypeOK, Succeed, Codes
    <3>2. events' # << >> /\ Newest(events').code = CODE_NORMAL
      BY <2>2, UpdateRecords DEF TypeOK, Succeed, Codes
    <3> QED BY <2>2, <3>1, <3>2 DEF Succeed, Coherent
  <2>3. ASSUME NEW code \in ErrorCodes, Fail(code) PROVE StatusCoherent'
    <3>1. WellFormed(events')
      BY <2>3, UpdateKeepsWellFormed DEF TypeOK, Fail, ErrorCodes
    <3>2. events' # << >> /\ Newest(events').code # CODE_NORMAL
      BY <2>3, UpdateRecords DEF TypeOK, Fail, ErrorCodes
    <3> QED BY <2>3, <3>1, <3>2 DEF Fail, Coherent
  <2>4. CASE Expire
    BY <2>4 DEF Expire, Coherent
  <2>5. CASE UNCHANGED vars
    BY <2>5 DEF vars, Coherent
  <2> QED BY <2>1, <2>2, <2>3, <2>4, <2>5 DEF Next
<1> QED BY <1>1, <1>2, StatusTypeCorrect, PTL DEF Spec
=============================================================================
