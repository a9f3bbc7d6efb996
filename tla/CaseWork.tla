------------------------------ MODULE CaseWork ------------------------------
(***************************************************************************)
(* Governed work on cases and alerts: opening a case, the actions on it,   *)
(* acknowledging an alert, recording a decision (ontology/service.py, the  *)
(* endpoints and commands of api/app.py that call it), and the audit trail *)
(* all of it leaves.                                                       *)
(*                                                                         *)
(* A request reads the rows it acts on, changes them in memory and flushes *)
(* the columns that differ from what it read, waiting for any open         *)
(* transaction that has flushed a change to the same row.  Its audit entry *)
(* is stamped as it is inserted, when the transaction commits.  The read   *)
(* takes no lock, so what is flushed may rest on values that are gone.     *)
(***************************************************************************)
EXTENDS Integers, FiniteSets, Sequences, TLC

CONSTANTS Workers,    \* requests in flight, each one transaction
          Requests,   \* what they may ask: see Asks
          Cases, Alerts, Events,
          EventOf,    \* the event a case is about
          Operators,  \* the actors of at least the operator role
          Admins,     \* those of them that are administrators
          AtFirst,      \* the rows that are there at the beginning, as cells
          NoValue,     \* the actor of the platform's rows, and no value
          MaxWall     \* bound: the system clock's values

VARIABLES
  cell,  \* the committed value of each column of each row
  work,  \* the transaction of each request
  trail, \* the committed audit entries, in the order of their commits
  wall,  \* the system clock
  last,  \* _last_audit_time; -1 when this process has stamped nothing
  past   \* the last stamp of the processes before this one; -1: none

caseVars == <<cell, work, trail, wall, last, past>>

-----------------------------------------------------------------------------
(* Rows and requests.                                                      *)

CaseCells(c) == {<<c, col>> : col \in {"actor", "status", "assignee", "priority", "closed_at"}}

AlertCells(a) == {<<a, col>> : col \in {"actor", "delivery_status", "acknowledged_by"}}

EventCells(e) == {<<e, "status">>}

CellsOf(row) ==
  CASE row \in Cases  -> CaseCells(row)
    [] row \in Alerts -> AlertCells(row)
    [] row \in Events -> EventCells(row)

Rows  == Cases \cup Alerts \cup Events
Cells == UNION {CellsOf(row) : row \in Rows}

ASSUME CaseAssumption ==
  /\ EventOf \in [Cases -> Events]
  /\ Admins \subseteq Operators
  /\ NoValue \notin Operators
  /\ DOMAIN AtFirst = Cells
  /\ \A q \in Requests : q.row \in Rows
  /\ MaxWall \in Nat

\* A request: the action, the row it is about, who asks, and a value
\* (assignee or priority).  record_decision, notify_owner,
\* request_orbit_refresh, rerun_screening and create_maneuver change no row
\* that is there.
Asks(action, row, actor, value) ==
  [action |-> action, row |-> row, actor |-> actor, value |-> value]

\* The event's status, where the action sets it too.
EventStatus(q) ==
  CASE q.action \in {"open_case", "escalate_event"} -> "under_review"
    [] q.action = "close_case"                      -> "closed"
    [] OTHER                                        -> NoValue

MovesEvent(q) == q.action \in {"open_case", "escalate_event", "close_case"}

Col(q, name) == <<q.row, name>>

\* open_case, for the worker that asks; apply_case_action; acknowledge_alert.
\* A time of day is named by the worker that took it: no two are the same.
Opens(q) ==
  (Col(q, "actor") :> q.actor) @@ (Col(q, "status") :> "open")
    @@ (Col(q, "assignee") :> NoValue) @@ (Col(q, "priority") :> q.value)
    @@ (Col(q, "closed_at") :> NoValue)

Acts(w, q) ==
  CASE q.action = "assign_case" ->
         (Col(q, "assignee") :> q.value) @@ (Col(q, "status") :> "investigating")
    [] q.action = "escalate_event" ->
         (Col(q, "priority") :> q.value) @@ (Col(q, "status") :> "investigating")
    [] q.action = "close_case" ->
         (Col(q, "status") :> "closed") @@ (Col(q, "closed_at") :> w)

Acknowledges(w, q) ==
  (Col(q, "delivery_status") :> "acknowledged")
    @@ (Col(q, "acknowledged_by") :> <<q.actor, w>>)

\* The columns that request q of worker w sets.
Sets(w, q) ==
  CASE q.action = "open_case"         -> Opens(q)
    [] q.action \in {"assign_case", "escalate_event", "close_case"} -> Acts(w, q)
    [] q.action = "acknowledge_alert" -> Acknowledges(w, q)
    [] OTHER                          -> <<>>

Effect(w, q) ==
  IF MovesEvent(q) THEN Sets(w, q) @@ (<<EventOf[q.row], "status">> :> EventStatus(q))
  ELSE Sets(w, q)

-----------------------------------------------------------------------------
(* The transaction of a request.                                           *)

Idle == [stage |-> "idle", request |-> NoValue, saw |-> <<>>, writes |-> <<>>, entry |-> NoValue]

Busy(w) == work[w].stage \notin {"idle", "done"}

Opened(c) == cell[<<c, "actor">>] # "none"

\* owns, with platform_is_public off.
Owns(actor, row) == actor \in Admins \/ cell[<<row, "actor">>] = actor

\* require_role, _owned_case and _owned_alert.  A new case gets an id of its own.
May(q) ==
  /\ q.actor \in Operators
  /\ IF q.action = "open_case"
     THEN ~Opened(q.row) /\ \A u \in Workers :
            Busy(u) => work[u].request.row # q.row
     ELSE (q.row \in Cases => Opened(q.row)) /\ Owns(q.actor, q.row)

Values(row) == [c \in CellsOf(row) |-> cell[c]]

\* An action that touches no event is done with its reads.
Read(w, q) ==
  /\ work[w].stage = "idle" /\ May(q)
  /\ work' = [work EXCEPT ![w] =
       [Idle EXCEPT !.stage = IF MovesEvent(q) THEN "event" ELSE "flush",
                    !.request = q, !.saw = Values(q.row)]]
  /\ UNCHANGED <<cell, trail, wall, last, past>>

ReadEvent(w) ==
  /\ work[w].stage = "event"
  /\ work' = [work EXCEPT ![w].stage = "flush",
                          ![w].saw = @ @@ Values(EventOf[work[w].request.row])]
  /\ UNCHANGED <<cell, trail, wall, last, past>>

Locked(w) == {c[1] : c \in DOMAIN work[w].writes}

\* A column that is set to what was read is not written.
Dirty(w) ==
  LET effect == Effect(w, work[w].request) IN
  {c \in DOMAIN effect : effect[c] # work[w].saw[c]}

FlushCase(w) ==
  /\ work[w].stage = "flush"
  /\ \A u \in Workers \ {w} : Locked(u) \cap {c[1] : c \in Dirty(w)} = {}
  /\ work' = [work EXCEPT ![w].stage = "audit",
       ![w].writes = [c \in Dirty(w) |-> Effect(w, work[w].request)[c]]]
  /\ UNCHANGED <<cell, trail, wall, last, past>>

\* Mutant: the system clock as it is.
WallClock == wall

\* audit_timestamp: at least one tick after the stamp before.
AuditTimestamp == IF last >= 0 /\ wall <= last THEN last + 1 ELSE wall

\* Mutant: the state is recorded before it is changed.
StateBefore(w) == [c \in CellsOf(work[w].request.row) |-> work[w].saw[c]]

\* record_state, after the flush: the row as this session has it.
NewState(w) ==
  LET effect == Effect(w, work[w].request) IN
  [c \in CellsOf(work[w].request.row) |->
     IF c \in DOMAIN effect THEN effect[c] ELSE work[w].saw[c]]

Audit(w) ==
  /\ work[w].stage = "audit"
  /\ last' = AuditTimestamp
  /\ work' = [work EXCEPT ![w].stage = "commit", ![w].entry =
       [at |-> AuditTimestamp, action |-> work[w].request.action, row |-> work[w].request.row,
        new |-> NewState(w), wrote |-> DOMAIN work[w].writes]]
  /\ UNCHANGED <<cell, trail, wall, past>>

CommitWork(w) ==
  /\ work[w].stage = "commit"
  /\ cell' = [c \in Cells |-> IF c \in DOMAIN work[w].writes THEN work[w].writes[c] ELSE cell[c]]
  /\ trail' = Append(trail, work[w].entry)
  /\ work' = [work EXCEPT ![w] = [Idle EXCEPT !.stage = "done"]]
  /\ UNCHANGED <<wall, last, past>>

\* The system clock moves, or is set; it may move less often than it is read.
\* "Ordering across processes still relies on the clock": until a process takes
\* its first stamp, the clock stays past the last one of those before.
SetClock(t) ==
  /\ last = -1 => t > past
  /\ wall' = t
  /\ UNCHANGED <<cell, work, trail, last, past>>

\* A restart loses the open transactions and the last stamp.
CaseRestart ==
  /\ last >= 0 /\ wall > last
  /\ last' = -1 /\ past' = last
  /\ work' = [w \in Workers |-> IF Busy(w) THEN [Idle EXCEPT !.stage = "done"] ELSE work[w]]
  /\ UNCHANGED <<cell, trail, wall>>

CaseInit ==
  /\ cell = AtFirst
  /\ work = [w \in Workers |-> Idle]
  /\ trail = <<>> /\ wall = 0 /\ last = -1 /\ past = -1

CaseNext ==
  \/ \E w \in Workers :
       \/ \E q \in Requests : Read(w, q)
       \/ ReadEvent(w) \/ FlushCase(w) \/ Audit(w) \/ CommitWork(w)
  \/ \E t \in 0..MaxWall : SetClock(t)
  \/ CaseRestart

CaseSpec == CaseInit /\ [][CaseNext]_caseVars

-----------------------------------------------------------------------------
(* Properties.                                                             *)

RowsOf(entry) == {c[1] : c \in entry.wrote}

\* Requests that changed the same row are stamped in the order in which their
\* changes took effect, whatever the clock does meanwhile (audit_timestamp;
\* the stamp is taken while the row is held, apply_case_action).
AuditInOrder ==
  \A i, j \in 1..Len(trail) :
    i < j /\ RowsOf(trail[i]) \cap RowsOf(trail[j]) # {} => trail[i].at < trail[j].at

\* The last entry, by its stamp, that changed a column of a case or an alert
\* says what the column holds: the trail accounts for the row, although the
\* requests read it without a lock (record_state, _audit).
AuditExplains ==
  \A i \in 1..Len(trail) :
    LET e == trail[i] IN
    \A c \in e.wrote \cap DOMAIN e.new :
      (\A j \in 1..Len(trail) : c \in trail[j].wrote => trail[j].at <= e.at)
        => cell[c] = e.new[c]
=============================================================================
