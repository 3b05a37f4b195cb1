------------------------------ MODULE EventLog ------------------------------
(***************************************************************************)
(* The bounded event log in the status of a Nacos resource                 *)
(* (src/operator/pkg/service/operator/Status.go).  An event is identified  *)
(* by its code: a repetition of the newest code refreshes that event, a    *)
(* new code appends one, and the oldest event is dropped when the log has  *)
(* outgrown EVENT_MAX_SIZE.  Times and messages are left out.              *)
(***************************************************************************)
EXTENDS Integers, Sequences

CONSTANT EVENT_MAX_SIZE

ASSUME EventMaxAssumption == EVENT_MAX_SIZE \in Nat

\* pkg/errors/type.go.
CODE_NORMAL          == 200
CODE_PARAMETER_ERROR == 301
CODE_CLUSTER_FAILE   == 401
CODE_ERR_UNKNOW      == -1
Codes      == {CODE_NORMAL, CODE_PARAMETER_ERROR, CODE_CLUSTER_FAILE, CODE_ERR_UNKNOW}
ErrorCodes == Codes \ {CODE_NORMAL}

Event == [code : Codes, status : BOOLEAN]

Newest(events) == events[Len(events)]

\* The head is dropped only when the log is already longer than the maximum.
Trim(events) == IF Len(events) > EVENT_MAX_SIZE THEN Tail(events) ELSE events

\* The first event of a log is built without its Status, which stays FALSE;
\* a repeated code keeps the status it was recorded with.
UpdateLastEvent(events, code, status) ==
    LET kept == Trim(events)
    IN  IF kept = << >>
          THEN << [code |-> code, status |-> FALSE] >>
          ELSE IF Newest(kept).code = code
                 THEN kept
                 ELSE Append(kept, [code |-> code, status |-> status])

(***************************************************************************)
(* What the log promises.  The maximum is off by one: the log is trimmed   *)
(* before an append and never after it.                                    *)
(***************************************************************************)
Bounded(events)     == Len(events) <= EVENT_MAX_SIZE + 1
Alternating(events) == \A i \in 1..(Len(events) - 1) : events[i].code # events[i + 1].code
HonestStatus(events) ==
    \A i \in 1..Len(events) : events[i].status => events[i].code = CODE_NORMAL

WellFormed(events) == Bounded(events) /\ Alternating(events) /\ HonestStatus(events)
=============================================================================
