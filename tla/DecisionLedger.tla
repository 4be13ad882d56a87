--------------------------- MODULE DecisionLedger ---------------------------
(***************************************************************************)
(* decision_ledger.py and overrides.py: a report and its errors are        *)
(* appended to a ledger event by event; a person overrides an error by     *)
(* naming the event that recorded it.  Writers append next to each other   *)
(* and may die within a line; nothing is ever removed.                     *)
(***************************************************************************)
EXTENDS JsonLines, FiniteSets

CONSTANTS
    Writers,        \* processes that record reports or overrides
    Findings,       \* finding_id: what a finding is about
    MaxEvents       \* events in all

ASSUME DecisionAssumption == MaxEvents \in Nat /\ Findings # {}

VARIABLES
    events,     \* the ledger file
    pending,    \* the events each writer has still to append
    begun,      \* whether it is within a line
    appended,   \* the events whose append returned
    created,    \* how many events were made: event_id
    now,        \* 0 or 1: whether what expires has expired
    split       \* a line may have been broken

decisionVars == <<events, pending, begun, appended, created, now, split>>

\* Whose finding it is: an organization's rule, or the repository's (code and policy).
Authorities == {"repository", "organization"}
None == 0

Event(id, type, parent, finding, authority, expires) ==
    [id |-> id, type |-> type, parent |-> parent, finding |-> finding,
     authority |-> authority, expires |-> expires]

DecisionInit ==
    /\ events = <<>> /\ appended = {} /\ created = 0 /\ now = 0 /\ split = FALSE
    /\ pending = [w \in Writers |-> <<>>] /\ begun = [w \in Writers |-> FALSE]

ReadEvents == Readable(events)

-----------------------------------------------------------------------------
(* What is recorded *)

\* append_report_events: the report, then every error of it.
ReportEvents(id, errors) ==
    <<Event(id, "report_created", None, "none", "repository", None)>>
        \o [i \in 1..Len(errors) |-> Event(id + i, "fail_detected", id, errors[i].finding,
                                           errors[i].authority, None)]

RecordReport(w, errors) ==
    /\ pending[w] = <<>> /\ created + 1 + Len(errors) <= MaxEvents
    /\ pending' = [pending EXCEPT ![w] = ReportEvents(created + 1, errors)]
    /\ created' = created + 1 + Len(errors)
    /\ UNCHANGED <<events, begun, appended, now, split>>

\* finding_override_eligible: what an organization rules is not overridden.
Eligible(error) == error.authority # "organization"

\* Mutant: the event that is named may be about something else.
Linked_AnyFinding(event, finding) == event \in ReadEvents /\ event.type = "fail_detected"

\* _verify_fail_event_link
Linked(event, finding) ==
    event \in ReadEvents /\ event.type = "fail_detected" /\ event.finding = finding

\* create_override: an error of the report at hand, an event that recorded
\* it, and perhaps a time when the override ends.  The ledger is read first
\* and appended to later.
Override(w, error, event, expires) ==
    /\ pending[w] = <<>> /\ created < MaxEvents
    /\ Eligible(error) /\ Linked(event, error.finding)
    /\ created' = created + 1
    /\ pending' = [pending EXCEPT ![w] =
                    <<Event(created + 1, "override_recorded", event.id, error.finding,
                            error.authority, expires)>>]
    /\ UNCHANGED <<events, begun, appended, now, split>>

-----------------------------------------------------------------------------
(* append_event *)

Appended(w) ==
    /\ pending' = [pending EXCEPT ![w] = SubSeq(@, 2, Len(@))]
    /\ appended' = appended \cup {pending[w][1]}

AppendEvent(w) ==
    /\ pending[w] # <<>> /\ ~begun[w] /\ Appended(w)
    /\ events' = Append(events, Whole(pending[w][1]))
    /\ split' = (split \/ ~LineBegins(events, Len(events)))
    /\ UNCHANGED <<begun, created, now>>

BeginEvent(w) ==
    /\ pending[w] # <<>> /\ ~begun[w] /\ begun' = [begun EXCEPT ![w] = TRUE]
    /\ events' = Append(events, Begun(pending[w][1]))
    /\ split' = (split \/ ~LineBegins(events, Len(events)))
    /\ UNCHANGED <<pending, appended, created, now>>

EndEvent(w) ==
    /\ begun[w] /\ begun' = [begun EXCEPT ![w] = FALSE] /\ Appended(w)
    /\ events' = Append(events, Rest(pending[w][1]))
    /\ split' = (split \/ events[Len(events)] # Begun(pending[w][1]))
    /\ UNCHANGED <<created, now>>

\* The program dies; it may be started again.
WriterDies(w) ==
    /\ pending[w] # <<>> /\ split' = (split \/ begun[w])
    /\ pending' = [pending EXCEPT ![w] = <<>>] /\ begun' = [begun EXCEPT ![w] = FALSE]
    /\ UNCHANGED <<events, appended, created, now>>

Expire == now = 0 /\ now' = 1 /\ UNCHANGED <<events, pending, begun, appended, created, split>>

Errors == [finding : Findings, authority : Authorities]

DecisionNext ==
    \/ \E w \in Writers :
         \/ \E n \in 0..2 : \E errors \in [1..n -> Errors] : RecordReport(w, errors)
         \/ \E error \in Errors, event \in ReadEvents, expires \in {None, 1} :
                Override(w, error, event, expires)
         \/ AppendEvent(w) \/ BeginEvent(w) \/ EndEvent(w) \/ WriterDies(w)
    \/ Expire

DecisionSpec == DecisionInit /\ [][DecisionNext]_decisionVars

-----------------------------------------------------------------------------
(* What is read back *)

\* missing_parent_event_ids
MissingParents == {e.parent : e \in ReadEvents} \ ({e.id : e \in ReadEvents} \cup {None})

\* follow_parent_chain: an event and those it descends from, oldest last.
Parent(e) == {p \in ReadEvents : p.id = e.parent}
ChainEnds(e) ==
    LET parent == Parent(e)
        upper == UNION {Parent(p) : p \in parent}
    IN {last \in {e} \cup parent \cup upper : Parent(last) = {}}

\* override_applies, classify_fail_overrides
Applies(override) == override.expires = None \/ override.expires > now
Overridden(finding) ==
    \E o \in ReadEvents : o.type = "override_recorded" /\ o.finding = finding /\ Applies(o)

-----------------------------------------------------------------------------
(* Properties *)

\* Every variable holds a value of its kind, and an event_id names one event.
DecisionTypeOK ==
    /\ \A w \in Writers : Len(pending[w]) <= 3 /\ (begun[w] => pending[w] # <<>>)
    /\ created \in 0..MaxEvents /\ now \in {0, 1} /\ split \in BOOLEAN
    /\ \A e \in appended : e.id \in 1..created
    /\ \A e, f \in ReadEvents \cup appended : e.id = f.id => e = f

\* A finding counts as overridden only through an override that names a
\* recorded failure of that very finding, still readable, whatever was
\* appended in between and however lines were broken since.
OverriddenWasDetected ==
    \A finding \in Findings : Overridden(finding) =>
        \E o, fail \in ReadEvents : /\ o.finding = finding /\ o.type = "override_recorded"
                              /\ fail.id = o.parent /\ fail.type = "fail_detected"
                              /\ fail.finding = finding /\ Eligible(o)

\* While no line was broken no reader, at any moment, finds an event without
\* its parent, and every override leads back to the report it is about; what
\* append_event returned is there.
DecisionsAreTraceable ==
    ~split =>
        /\ MissingParents = {} /\ appended \subseteq ReadEvents
        /\ \A e \in ReadEvents : e.type = "override_recorded" =>
               \A last \in ChainEnds(e) : last.type = "report_created"

\* An override counts for what was detected, and leads back to its report.
OverridesAreTraceable == DecisionTypeOK /\ OverriddenWasDetected /\ DecisionsAreTraceable
=============================================================================
