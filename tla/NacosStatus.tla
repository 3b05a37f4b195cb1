---------------------------- MODULE NacosStatus -----------------------------
(***************************************************************************)
(* What the status of a Nacos resource promises to whoever watches it,     *)
(* whatever the operator does in between.  A resource is accepted once,    *)
(* then its phase alternates between Running and Failed, each change of    *)
(* phase comes with the event that explains it, and a resource still being *)
(* created is not called failed before its three minutes are over.         *)
(***************************************************************************)
EXTENDS EventLog

VARIABLES
    phase,      \* status.phase
    events,     \* status.event
    overdue     \* the resource is older than three minutes

vars == <<phase, events, overdue>>

Phases == {"", "Creating", "Running", "Failed"}

TypeOK ==
    /\ phase \in Phases
    /\ events \in Seq(Event)
    /\ overdue \in BOOLEAN

Init ==
    /\ phase = ""
    /\ events = << >>
    /\ overdue = FALSE

\* PreCheck sees a resource without a phase.
Accept ==
    /\ phase = ""
    /\ phase' = "Creating"
    /\ UNCHANGED <<events, overdue>>

\* Every check passed.
Succeed ==
    /\ phase # ""
    /\ phase' = "Running"
    /\ events' = UpdateLastEvent(events, CODE_NORMAL, TRUE)
    /\ UNCHANGED overdue

\* A check failed with a code of the operator's own.
Fail(code) ==
    /\ phase \in {"Running", "Failed"} \/ (phase = "Creating" /\ overdue)
    /\ phase' = "Failed"
    /\ events' = UpdateLastEvent(events, code, FALSE)
    /\ UNCHANGED overdue

Expire ==
    /\ ~overdue
    /\ overdue' = TRUE
    /\ UNCHANGED <<phase, events>>

Next == Accept \/ Succeed \/ Expire \/ \E code \in ErrorCodes : Fail(code)

Spec == Init /\ [][Next]_vars

(***************************************************************************)
(* The phase and the log agree: no event before the first verdict, and the *)
(* newest event is the one that explains the phase.                        *)
(***************************************************************************)
Coherent ==
    /\ phase \in {"", "Creating"} => events = << >>
    /\ phase \in {"Running", "Failed"} => events # << >>
    /\ phase = "Running" => Newest(events).code = CODE_NORMAL
    /\ phase = "Failed"  => Newest(events).code # CODE_NORMAL

\* The status agrees with itself after every step, and its log is bounded,
\* alternating and honest.
StatusCoherent == Coherent /\ WellFormed(events)
=============================================================================
