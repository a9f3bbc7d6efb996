------------------------------ MODULE Ontology ------------------------------
(***************************************************************************)
(* The operational ontology: the writes of ontology/service.py, the        *)
(* persistence of a screening (ontology/bridge.py), the watch list         *)
(* (monitoring.py) and the commands of api/app.py that write it.           *)
(*                                                                         *)
(* A request is a program of service operations over one database session. *)
(* An operation looks (is what it needs there, is it there already) and    *)
(* then flushes its row; what it looked at may have changed by then.  A    *)
(* flush of a row that another open transaction has flushed waits for that *)
(* transaction to end, and is refused by the UNIQUE constraint if it       *)
(* commits: the whole transaction is rolled back.                          *)
(***************************************************************************)
EXTENDS Naturals, FiniteSets, SequencesExt

CONSTANTS Sessions,   \* the requests, and their transactions
          Programs,   \* what they may be, a subset of Program
          WatchLimit, \* monitored_objects of the plan
          MaxCrashes, \* bound: restarts in a behaviour
          Nobody      \* no actor: the platform

VARIABLES
  rows,      \* the committed rows, each with the request that made it
  edges,     \* the committed lineage
  execution, \* the committed execution record of each request
  txn,       \* the session of each request
  crashes

ontVars == <<rows, edges, execution, txn, crashes>>

-----------------------------------------------------------------------------
(* Rows, and the operations of the service that make them.                 *)

\* of: the columns that identify a row among those of its kind, or, where no
\* constraint does, what it is about.
Row(kind, of) == [kind |-> kind, of |-> of]

\* An operation: the row it makes, those it needs, those its lineage joins it
\* to.  commits: its service has auto_commit.  mustBeNew: asked for by itself,
\* and a conflict if it is there.
Operation(row, needs, joins) ==
  [makes |-> row, needs |-> needs, joins |-> joins, commits |-> TRUE, mustBeNew |-> FALSE]

Object(o)       == Row("object", <<o>>)
EnsureObject(o) == Operation(Object(o), {}, {})
CreateObject(o) == [EnsureObject(o) EXCEPT !.mustBeNew = TRUE]

Elements(o, content)    == Row("elements", <<o, content>>)
AddElements(o, content) == Operation(Elements(o, content), {Object(o)}, {Object(o)})

Observation(o)    == Row("observation", <<o>>)
AddObservation(o) == Operation(Observation(o), {Object(o)}, {Object(o)})

Run(r)       == Row("run", <<r>>)
CreateRun(r) == Operation(Run(r), {}, {})

\* An event of a run, or of none.
Event(r, p, q)       == Row("event", <<r, p, q>>)
CreateEvent(r, p, q) ==
  LET parts == {Object(p), Object(q)} \cup (IF r = Nobody THEN {} ELSE {Run(r)})
  IN Operation(Event(r, p, q), parts, parts)

Assessment(event)    == Row("assessment", event.of)
AddAssessment(event) == Operation(Assessment(event), {event}, {event})

Case(event)     == Row("case", event.of)
OpenCase(event) == Operation(Case(event), {event}, {event})

Decision(case)       == Row("decision", case.of)
RecordDecision(case) == Operation(Decision(case), {case}, {case})

Alert(event)       == Row("alert", event.of)
CreateAlert(event) == Operation(Alert(event), {event}, {})

Maneuver(event, o)       == Row("maneuver", <<event.of, o>>)
CreateManeuver(event, o) == Operation(Maneuver(event, o), {event, Object(o)}, {event})

Watch(o, who) ==
  [Operation(Row("watch", <<o, who>>), {Object(o)}, {}) EXCEPT !.commits = FALSE]

Waitlisted(email)   == Row("waitlist", <<email>>)
JoinWaitlist(email) == [Operation(Waitlisted(email), {}, {}) EXCEPT !.commits = FALSE]

-----------------------------------------------------------------------------
(* Programs.                                                               *)

\* command: typed in the console, with an execution record.  watches: metered
\* by the plan's watch list.  whole: to be stored whole or not at all.
Program(ops, who) ==
  [ops |-> ops, who |-> who, command |-> FALSE, watches |-> FALSE, whole |-> FALSE]
Command(ops, who) == [Program(ops, who) EXCEPT !.command = TRUE]

Endpoint(op, who) == Program(<<op>>, who)

\* _refresh_orbit
RefreshOrbit(o, content) == <<EnsureObject(o), AddElements(o, content)>>

\* monitor add
MonitorAdd(o, content, who) ==
  [Command(Append(RefreshOrbit(o, content), Watch(o, who)), who) EXCEPT !.watches = TRUE]

\* A service without auto_commit: its caller commits, once, at the end.
Deferred(ops) == [i \in 1..Len(ops) |-> [ops[i] EXCEPT !.commits = FALSE]]

\* seed_well_known_objects
Seed(catalog, content, who) ==
  LET Add(o) == Append(RefreshOrbit(o, content), Watch(o, who)) IN
  [Command(Deferred(FlattenSeq([i \in 1..Len(catalog) |-> Add(catalog[i])])), who)
     EXCEPT !.whole = TRUE]

\* persist_screening_result: found is the events, each with its pair and
\* whether it is critical.
PersistRun(r, catalog, content, found) ==
  LET inputs == FlattenSeq([i \in 1..Len(catalog) |-> RefreshOrbit(catalog[i], content)])
      Of(f)  == LET e == Event(r, f.pair[1], f.pair[2]) IN
                <<CreateEvent(r, f.pair[1], f.pair[2]), AddAssessment(e)>>
                \o (IF f.critical THEN <<OpenCase(e)>> ELSE <<>>)
      events == FlattenSeq([i \in 1..Len(found) |-> Of(found[i])])
  IN [Program(Deferred(inputs \o <<CreateRun(r)>> \o events), Nobody)
        EXCEPT !.whole = TRUE]

-----------------------------------------------------------------------------
(* A transaction.                                                          *)

\* Rows that are derived from others.
Derived == {"elements", "observation", "event", "assessment", "case", "decision", "maneuver"}

\* Lineage is to what an operation needs, and no derived row goes without.  What
\* is to be stored whole leaves the commit to its caller and makes what it needs
\* before it needs it.
ASSUME ProgramsAssumption ==
  \A p \in Programs :
    /\ p.ops \in Seq(ToSet(p.ops)) /\ p.ops # <<>>
    /\ p.command \in BOOLEAN
    /\ \A op \in ToSet(p.ops) :
         op.joins \subseteq op.needs /\ (op.makes.kind \in Derived => op.joins # {})
    /\ p.whole => ~p.watches
    /\ p.whole => \A i \in 1..Len(p.ops) :
         /\ ~p.ops[i].commits /\ ~p.ops[i].mustBeNew
         /\ \A n \in p.ops[i].needs : \E j \in 1..(i - 1) : p.ops[j].makes = n

\* A program that the plan's watch list meters makes one watch, its user's own.
ASSUME WatchAssumption ==
  /\ WatchLimit \in Nat
  /\ \A p \in Programs : p.watches =>
       \A op, other \in ToSet(p.ops) : op.makes.kind = "watch" =>
         /\ op.makes.of[2] = p.who
         /\ other.makes.kind = "watch" => other.makes = op.makes

\* Mutant: the constraint on an object's element sets is missing.
UniqueButElements(row) ==
  \/ row.kind \in {"object", "watch", "waitlist"}
  \/ row.kind = "event" /\ row.of[1] # Nobody

\* norad_id; uq_element_object_content; uq_monitored_object_watcher;
\* uq_waitlist_email; uq_event_run_pair_tca, which an event without a run
\* escapes.
Unique(row) ==
  \/ row.kind \in {"object", "elements", "watch", "waitlist"}
  \/ row.kind = "event" /\ row.of[1] # Nobody

\* Operations that look for their row and leave it be, or refuse.
Looked(op) == op.makes.kind \in {"object", "elements", "watch", "waitlist"}

Is(r, row) == r.kind = row.kind /\ r.of = row.of

Stored(row) == \E r \in rows : Is(r, row)

\* What a request reads: what is committed, and what it flushed itself.
There(s, row) == \E r \in rows \cup txn[s].added : Is(r, row)

New == [stage |-> "new", program |-> Program(<<>>, Nobody), todo |-> <<>>,
        added |-> {}, links |-> {}, recorded |-> FALSE, beside |-> {}]

Ended(s) == txn' = [txn EXCEPT ![s].stage = "done", ![s].added = {}, ![s].links = {}]

Watching(who) == {r \in rows : r.kind = "watch" /\ r.of[2] = who}

\* Mutant: the plan's watch list is not checked.
NeverOver(p) == FALSE

\* check_monitoring_allowed
OverQuota(p) == p.watches /\ Cardinality(Watching(p.who)) >= WatchLimit

\* A refusal is recorded: by the grammar, the role or for want of a
\* confirmation; and by the plan.
Refused(s, p) ==
  /\ txn[s].stage = "new"
  /\ execution' = [execution EXCEPT ![s] = "failed"]
  /\ txn' = [txn EXCEPT ![s] = [New EXCEPT !.stage = "done", !.program = p]]
  /\ UNCHANGED <<rows, edges, crashes>>

RejectCommand(s, p) == p.command /\ Refused(s, p)

RefusePlan(s, p) == OverQuota(p) /\ Refused(s, p)

Running(s) == txn[s].stage \notin {"new", "done"}

\* A watched object that is known needs no refresh.  A command's record is
\* flushed before anything it does.
Start(s, p) ==
  /\ txn[s].stage = "new" /\ ~OverQuota(p)
  /\ txn' = [t \in Sessions |->
       IF t = s
       THEN [New EXCEPT !.stage = "look", !.program = p, !.recorded = p.command,
               !.beside = {u \in Sessions : Running(u)},
               !.todo = IF p.watches /\ There(s, p.ops[1].makes)
                        THEN <<Last(p.ops)>> ELSE p.ops]
       ELSE IF Running(t) THEN [txn[t] EXCEPT !.beside = @ \cup {s}] ELSE txn[t]]
  /\ UNCHANGED <<rows, edges, execution, crashes>>

Op(s) == Head(txn[s].todo)

Absent(s) == \E n \in Op(s).needs : ~There(s, n)

\* Where a request goes when an operation is behind it.
After(s) == IF Len(txn[s].todo) = 1 THEN "finish" ELSE "look"

\* Mutant: the record of a command is written when it ends.
RecordAtEnd(s, outcome) ==
  execution' = [execution EXCEPT ![s] =
    IF txn[s].recorded /\ outcome # "running" THEN outcome ELSE @]

Record(s, outcome) ==
  execution' = [execution EXCEPT ![s] = IF txn[s].recorded THEN outcome ELSE @]

\* 404 or 409, before anything is written: a command records that it failed,
\* and the commit that does so keeps what it had flushed; any other request's
\* session is closed.
Refuse(s) ==
  /\ txn[s].stage = "look"
  /\ \/ Absent(s)
     \/ Op(s).mustBeNew /\ There(s, Op(s).makes)
  /\ Record(s, "failed")
  /\ rows' = IF txn[s].program.command THEN rows \cup txn[s].added ELSE rows
  /\ edges' = IF txn[s].program.command THEN edges \cup txn[s].links ELSE edges
  /\ Ended(s)
  /\ UNCHANGED crashes

\* CelesTrak does not answer a command, or does not know the object: nothing is
\* written yet but the record that it failed.
RefreshFails(s) ==
  /\ txn[s].stage = "look" /\ txn[s].program.command /\ ~txn[s].program.whole
  /\ Op(s).makes.kind = "object"
  /\ Record(s, "failed")
  /\ Ended(s)
  /\ UNCHANGED <<rows, edges, crashes>>

\* The row is there: nothing to make.
Keep(s) ==
  /\ txn[s].stage = "look" /\ ~Absent(s)
  /\ Looked(Op(s)) /\ ~Op(s).mustBeNew /\ There(s, Op(s).makes)
  /\ txn' = [txn EXCEPT ![s].stage = After(s), ![s].todo = Tail(@)]
  /\ UNCHANGED <<rows, edges, execution, crashes>>

Look(s) ==
  /\ txn[s].stage = "look" /\ ~Absent(s)
  /\ Looked(Op(s)) => ~There(s, Op(s).makes)
  /\ txn' = [txn EXCEPT ![s].stage = "flush"]
  /\ UNCHANGED <<rows, edges, execution, crashes>>

WaitsFor(s, t) ==
  /\ s # t /\ txn[s].stage = "flush" /\ Unique(Op(s).makes)
  /\ \E r \in txn[t].added : Is(r, Op(s).makes)

Waits(s) == \E t \in Sessions : WaitsFor(s, t)

Clashes(s) == Unique(Op(s).makes) /\ Stored(Op(s).makes)

\* The row and its lineage are flushed together.
Flush(s) ==
  LET op == Op(s) IN
  /\ txn[s].stage = "flush" /\ ~Waits(s) /\ ~Clashes(s)
  /\ txn' = [txn EXCEPT
       ![s].added = @ \cup {[kind |-> op.makes.kind, of |-> op.makes.of, by |-> s]},
       ![s].links = @ \cup {<<j, op.makes>> : j \in op.joins},
       ![s].stage = IF op.commits THEN "commit" ELSE After(s),
       ![s].todo = Tail(@)]
  /\ UNCHANGED <<rows, edges, execution, crashes>>

\* Mutant: the handler of the conflict commits what was flushed before it.
KeepsFlushed(s) ==
  /\ rows' = rows \cup txn[s].added
  /\ edges' = edges \cup txn[s].links
  /\ Ended(s)
  /\ UNCHANGED <<execution, crashes>>

\* The service rolls back in _commit and the command can say that it failed,
\* if its record was committed before; a bare flush leaves the session
\* unusable, and the record as it was.
Rollback(s) ==
  /\ Ended(s)
  /\ execution' = [execution EXCEPT ![s] =
       IF @ = "running" /\ Op(s).makes.kind \in {"object", "run", "alert"}
       THEN "failed" ELSE @]
  /\ UNCHANGED <<rows, edges, crashes>>

Violate(s) ==
  /\ txn[s].stage = "flush" /\ ~Waits(s) /\ Clashes(s)
  /\ Rollback(s)

\* Mutant: the database lets transactions wait for each other.
NoVictim(s) == FALSE

\* The database ends one of the transactions that wait for each other.
Deadlocked(s) ==
  \E C \in SUBSET Sessions :
    s \in C /\ \A t \in C : \E u, v \in C : WaitsFor(t, u) /\ WaitsFor(v, t)

Victim(s) ==
  /\ Deadlocked(s)
  /\ Ended(s)
  /\ UNCHANGED <<rows, edges, execution, crashes>>

\* Mutant: the lineage is not in the row's transaction.
PublishRows(s) ==
  /\ rows' = rows \cup txn[s].added
  /\ UNCHANGED edges

Publish(s) ==
  /\ rows' = rows \cup txn[s].added
  /\ edges' = edges \cup txn[s].links

Commit(s) ==
  /\ txn[s].stage = "commit"
  /\ Publish(s)
  /\ Record(s, "running")
  /\ txn' = [txn EXCEPT ![s].added = {}, ![s].links = {},
               ![s].stage = IF txn[s].todo = <<>> THEN "finish" ELSE "look"]
  /\ UNCHANGED crashes

Finish(s) ==
  /\ txn[s].stage = "finish"
  /\ Publish(s)
  /\ Record(s, "succeeded")
  /\ Ended(s)
  /\ UNCHANGED crashes

\* A restart: open transactions are gone.
OntCrash ==
  /\ crashes < MaxCrashes
  /\ crashes' = crashes + 1
  /\ txn' = [s \in Sessions |-> [txn[s] EXCEPT !.stage = "done", !.added = {}, !.links = {}]]
  /\ UNCHANGED <<rows, edges, execution>>

Work(s) == Refuse(s) \/ Keep(s) \/ Look(s) \/ Flush(s) \/ Violate(s) \/ Commit(s) \/ Finish(s)

OntInit ==
  /\ rows = {} /\ edges = {}
  /\ execution = [s \in Sessions |-> "none"]
  /\ txn = [s \in Sessions |-> New]
  /\ crashes = 0

OntNext ==
  \/ \E s \in Sessions :
       \/ \E p \in Programs : Start(s, p) \/ RejectCommand(s, p) \/ RefusePlan(s, p)
       \/ Work(s) \/ RefreshFails(s) \/ Victim(s)
  \/ OntCrash

OntSpec == OntInit /\ [][OntNext]_ontVars

\* A request runs until it is answered, and the database resolves deadlocks.
OntFairness == \A s \in Sessions : WF_ontVars(Work(s)) /\ WF_ontVars(Victim(s))

-----------------------------------------------------------------------------
(* Properties.                                                             *)

\* However requests interleave, an object, an element set, an event of a run,
\* a watch and a place on the waitlist are stored once (create_space_object,
\* add_element_set, create_event, monitor.add, join_waitlist: most look before
\* they add).
NoTwins ==
  \A r, q \in rows :
    Is(r, q) => \/ r = q
                \/ r.kind \notin {"object", "elements", "watch", "waitlist", "event"}
                \/ r.kind = "event" /\ r.of[1] = Nobody

\* A screening, and the seeding of the watch list, are stored whole or not at
\* all, whatever conflicts, deadlocks and restarts happen ("commit the complete
\* run atomically only once at the end", persist_screening_result).
StoredWhole ==
  \A s \in Sessions :
    LET p == txn[s].program IN
    p.whole /\ (\E r \in rows : r.by = s)
      => \A i \in 1..Len(p.ops) : Stored(p.ops[i].makes)

\* What is stored is joined to what it was derived from: no row is visible
\* without its lineage, and no lineage without both its rows.
LineageWhole ==
  /\ \A e \in edges : Stored(e[1]) /\ Stored(e[2])
  /\ \A r \in rows : r.kind \in Derived => \E e \in edges : Is(r, e[2])

\* Nothing a command did is in the database without the command's record.
EffectIsRecorded ==
  \A s \in Sessions :
    txn[s].program.command /\ (\E r \in rows : r.by = s) => execution[s] # "none"

\* The watch list is counted before it is added to, without a lock: a plan's
\* allowance is exceeded, but only by commands that ran at the same time
\* (check_monitoring_allowed, execute_command).
WatchQuota ==
  \A who \in {p.who : p \in Programs} :
    LET added == {r \in Watching(who) : txn[r.by].program.watches}
    IN \/ Cardinality(added) <= WatchLimit
       \/ \E r, q \in added : r.by \in txn[q.by].beside

\* Every request is answered.
EveryRequestEnds ==
  \A s \in Sessions : txn[s].stage \in {"look", "flush", "commit", "finish"}
                        ~> txn[s].stage = "done"
=============================================================================
