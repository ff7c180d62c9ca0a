------------------------------ MODULE TuRegistry ------------------------------
(***************************************************************************)
(* The register of requests for technical conditions (rso/tu_registry.py)  *)
(* and who is asked (rso/directory.py).  People enter requests, record the *)
(* answers and have overdue requests marked; each is one statement with    *)
(* its commit.  A day is a number, and every date is the caller's: that of *)
(* sending, of receipt and the one overdue requests are marked for, which  *)
(* is today when none is given.  So no clock is kept.                       *)
(***************************************************************************)
EXTENDS Naturals, Sequences

CONSTANTS
  Organisations,   \* of the directory
  NoOrganisation,  \* STATUS_NEEDS_CLARIFICATION: no owner
  Deadlines,       \* response_deadline_days that are given
  Days,            \* the dates that are given
  NoDay,           \* NULL: response_received_at of a request without an answer
  MaxEntries       \* bound of the model: rows

ASSUME DaysAssumption == Deadlines \subseteq Nat /\ Days \subseteq Nat /\ NoDay \notin Nat

VARIABLES
  directory,   \* the organisations whose service area has the site
  requests,    \* the rows of tu_requests
  markedFor    \* the dates overdue requests were marked for so far

registryVars == <<directory, requests, markedFor>>

RegistryInit ==
  /\ directory \in SUBSET Organisations
  /\ requests = <<>>
  /\ markedFor = {}

\* resolve_network_owner: the operator's tag comes before the directory, of which any
\* row may be the first; osm is NoOrganisation without the tag.
ResolveNetworkOwner(osm) ==
  IF osm # NoOrganisation THEN {osm} ELSE IF directory # {} THEN directory ELSE {NoOrganisation}

\* register_rso.
RegisterRso(o) ==
  /\ directory' = directory \cup {o}
  /\ UNCHANGED <<requests, markedFor>>

\* register_tu_request, of any date; only with an organisation.
RegisterTuRequest(o, sent, days) ==
  /\ o # NoOrganisation /\ Len(requests) < MaxEntries
  /\ requests' = Append(requests, [to |-> o, deadline |-> sent + days, status |-> "sent", received |-> NoDay])
  /\ UNCHANGED <<directory, markedFor>>

\* record_response: the status and the date, whatever they were.
RecordResponse(r, received) ==
  /\ requests' = [requests EXCEPT ![r].status = "received", ![r].received = received]
  /\ UNCHANGED <<directory, markedFor>>

\* Mutant: the deadline alone decides.
LateRequests(asOf) == {r \in DOMAIN requests : requests[r].deadline < asOf}

\* overdue_requests, and the WHERE of mark_overdue.
OverdueRequests(asOf) ==
  {r \in DOMAIN requests : requests[r].status = "sent" /\ requests[r].deadline < asOf}

\* mark_overdue.
MarkOverdue(asOf) ==
  /\ requests' = [r \in DOMAIN requests |->
                    IF r \in OverdueRequests(asOf) THEN [requests[r] EXCEPT !.status = "overdue"]
                    ELSE requests[r]]
  /\ markedFor' = markedFor \cup {asOf}
  /\ UNCHANGED directory

RegistryNext ==
  \/ \E osm \in Organisations \cup {NoOrganisation}, sent \in Days, days \in Deadlines :
       \E o \in ResolveNetworkOwner(osm) : RegisterTuRequest(o, sent, days)
  \/ \E r \in DOMAIN requests, received \in Days : RecordResponse(r, received)
  \/ \E asOf \in Days : MarkOverdue(asOf)
  \/ \E o \in Organisations : RegisterRso(o)
-----------------------------------------------------------------------------
\* An answer is never turned into a delay: whenever and for whatever date overdue requests
\* are marked, what was received stays received and keeps its date until another answer is
\* recorded, and what is overdue was never answered and was marked for a date after its
\* term.
ReceivedIsKept ==
  [][\A r \in DOMAIN requests :
       /\ requests[r].received # NoDay =>
            /\ requests'[r].status = "received"
            /\ markedFor' # markedFor => requests'[r] = requests[r]
       /\ requests'[r].status = "overdue" =>
            /\ requests'[r].received = NoDay
            /\ \E day \in markedFor' : requests'[r].deadline < day]_registryVars
=============================================================================
