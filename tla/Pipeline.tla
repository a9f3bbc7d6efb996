------------------------------ MODULE Pipeline ------------------------------
(***************************************************************************)
(* The scheduled screening, sdebris screen --alert (cli.py): the refresh   *)
(* of the element-set cache from CelesTrak (ingest/celestrak.py,           *)
(* ingest/cache.py), the label that says how fresh the inputs were, and    *)
(* the alerts for critical events with their cooldown (alerts/notify.py).  *)
(*                                                                         *)
(* Runs are processes that share the cache, a SQLite file, and the alert   *)
(* state, a JSON file that is read and written whole.  They may overlap,   *)
(* and may die at any point.  The service and the webhook answer or do not.*)
(***************************************************************************)
EXTENDS Integers, FiniteSets, Sequences

CONSTANTS Runs,
          Target,     \* the object screened against the others
          Group,      \* the objects of the group that is fetched
          Bundled,    \* the objects of the bundled sample
          Place,      \* where each object comes in an answer, or in the sample
          Critical,   \* those whose approach to the target is critical
          Interval,   \* poll_interval_hours
          Cooldown,   \* cooldown_hours
          NoRow,      \* no row in the cache
          MaxHours     \* bound: the clock

Tracked == Group \cup Bundled \cup {Target}

\* A group has more than one object.
ASSUME PipelineAssumption ==
  /\ Target \notin Group /\ \A o \in Group : Group # {o}
  /\ Place \in [Tracked -> Nat] /\ \A o, q \in Tracked : Place[o] = Place[q] => o = q
  /\ NoRow \notin [epoch : {0, 1}, source : {"group", "catnr", "sample"}, fetched : Nat]
  /\ Interval \in Nat /\ Cooldown \in Nat /\ MaxHours \in Nat

VARIABLES
  hour,   \* the clock
  elsets,  \* the row of each object: its epoch, its source, when it was fetched
  alerted,\* the alert state file: when each pair was alerted on; -1: never
  run,    \* each process
  pulls,  \* history: the downloads, each with its run, source and time, and
          \* the runs that had stored one before
  stored, \* history: which runs have stored which source
  sent,   \* history: the alerts delivered, each with its run, pair and time
  calm    \* history: no dispatch overlapped another or died

pipeVars == <<hour, elsets, alerted, run, pulls, stored, sent, calm>>

-----------------------------------------------------------------------------
(* The cache.                                                              *)

\* A bundled element set is older than any that is published.
Epoch(source) == IF source = "sample" THEN 0 ELSE 1

Entry(source, t) == [epoch |-> Epoch(source), source |-> source, fetched |-> t]

Cached == {o \in Tracked : elsets[o] # NoRow}

Newest(S) == CHOOSE t \in S : \A u \in S : u <= t

\* fetched_at: of the rows of a source, or of the row of the target, whatever
\* its source.  -1: none.
FetchedAt(source) ==
  LET rows == IF source = "catnr" THEN {Target} \cap Cached
              ELSE {o \in Cached : elsets[o].source = source}
  IN IF rows = {} THEN -1 ELSE Newest({elsets[o].fetched : o \in rows})

\* Mutant: every screening downloads its group again.
NeverFresh(source, moment) == FALSE

IsFresh(source, moment) == FetchedAt(source) >= 0 /\ moment - FetchedAt(source) < Interval

Wanted(source) == CASE source = "group"  -> Group
                    [] source = "catnr"  -> {Target}
                    [] source = "sample" -> Bundled

-----------------------------------------------------------------------------
(* A run.                                                                  *)

\* source: being refreshed or written.  first, rest: the row that the upsert is
\* to write first, and those it has not yet looked at.
Waiting == [stage |-> "new", source |-> "group", moment |-> 0, first |-> {}, rest |-> {},
            failed |-> FALSE, usedSample |-> FALSE, screened |-> {}, live |-> FALSE,
            disturbed |-> FALSE, memory |-> [o \in Tracked |-> -1], fresh |-> {}]

Goes(p, stage) == run' = [run EXCEPT ![p].stage = stage]

Ends(p, stage) == run' = [run EXCEPT ![p] = [Waiting EXCEPT !.stage = stage]]

Begin(p) ==
  /\ run[p].stage = "new"
  /\ run' = [run EXCEPT ![p].stage = "refresh", ![p].moment = hour]
  /\ UNCHANGED <<hour, elsets, alerted, pulls, stored, sent, calm>>

\* The group first, then the target, then what stands in for them.
NextSource(source) == IF source = "group" THEN "catnr" ELSE "sample"

Onward(r) ==
  [r EXCEPT !.source = NextSource(r.source), !.first = {}, !.rest = {},
            !.stage = IF r.source = "group" THEN "refresh" ELSE "settle"]

Skip(p) ==
  /\ run[p].stage = "refresh" /\ IsFresh(run[p].source, run[p].moment)
  /\ run' = [run EXCEPT ![p] = Onward(run[p])]
  /\ UNCHANGED <<hour, elsets, alerted, pulls, stored, sent, calm>>

Fetch(p) ==
  /\ run[p].stage = "refresh" /\ ~IsFresh(run[p].source, run[p].moment)
  /\ pulls' = pulls \cup {[by |-> p, source |-> run[p].source, at |-> hour,
                           after |-> {q \in Runs : <<q, run[p].source>> \in stored}]}
  /\ Goes(p, "compare")
  /\ UNCHANGED <<hour, elsets, alerted, stored, sent, calm>>

\* The service does not answer, or has nothing usable.
FetchFails(p) ==
  /\ run[p].stage = "refresh" /\ ~IsFresh(run[p].source, run[p].moment)
  /\ run' = [run EXCEPT ![p] = [Onward(run[p]) EXCEPT !.failed = TRUE]]
  /\ UNCHANGED <<hour, elsets, alerted, pulls, stored, sent, calm>>

\* parse_tle_text: an answer that holds no element set is no error.
Parsed(source) == {Wanted(source)} \cup IF source = "catnr" THEN {{}} ELSE {}

\* upsert compares each row with what is cached and writes it, if it is no
\* older.  The write lock is taken with the first write and kept: what was
\* compared before it may have changed by then.
Replaces(o, source) == elsets[o] = NoRow \/ elsets[o].epoch <= Epoch(source)

Compare(p) ==
  /\ run[p].stage = "compare"
  /\ \E parsed \in Parsed(run[p].source) :
       LET old   == {o \in parsed : Replaces(o, run[p].source)}
           first == {o \in old : \A q \in old : Place[o] <= Place[q]}
       IN run' = [run EXCEPT ![p].stage = "write", ![p].first = first,
            ![p].rest = {o \in parsed : \E f \in first : Place[f] < Place[o]}]
  /\ UNCHANGED <<hour, elsets, alerted, pulls, stored, sent, calm>>

Written(p) == run[p].first \cup {o \in run[p].rest : Replaces(o, run[p].source)}

Upsert(p) ==
  /\ run[p].stage = "write"
  /\ elsets' = [o \in Tracked |-> IF o \in Written(p) THEN Entry(run[p].source, hour)
                                  ELSE elsets[o]]
  /\ run' = [q \in Runs |->
       IF q = p THEN IF run[p].source = "sample"
                     THEN [run[p] EXCEPT !.stage = "load", !.first = {}, !.rest = {}]
                     ELSE Onward(run[p])
       ELSE [run[q] EXCEPT !.disturbed = run[q].disturbed \/ run[q].stage = "label"]]
  /\ stored' = IF Written(p) = {} THEN stored ELSE stored \cup {<<p, run[p].source>>}
  /\ UNCHANGED <<hour, alerted, pulls, sent, calm>>

\* The bundled sample stands in when there is nothing, or when what was asked
\* for could not be had.
Settle(p) ==
  /\ run[p].stage = "settle"
  /\ LET stand == Cached = {} \/ (run[p].failed /\ Target \notin Cached) IN
     run' = [run EXCEPT ![p].usedSample = stand, ![p].stage = IF stand THEN "compare" ELSE "load"]
  /\ UNCHANGED <<hour, elsets, alerted, pulls, stored, sent, calm>>

Load(p) ==
  /\ run[p].stage = "load" /\ Target \in Cached
  /\ run' = [run EXCEPT ![p].stage = "label", ![p].moment = 0,
       ![p].screened = {[of |-> o, source |-> elsets[o].source] : o \in Cached}]
  /\ UNCHANGED <<hour, elsets, alerted, pulls, stored, sent, calm>>

\* No target, no screening.
NoTarget(p) ==
  /\ run[p].stage = "load" /\ Target \notin Cached
  /\ Ends(p, "dead")
  /\ UNCHANGED <<hour, elsets, alerted, pulls, stored, sent, calm>>

\* Mutant: the report of this run's refresh alone.
ReportAlone(r) == ~r.failed /\ ~r.usedSample

\* _data_freshness: what the refresh reports, and what the cache says of the
\* objects' sources now.
Live(r) ==
  ~r.failed /\ ~r.usedSample /\ \A e \in r.screened : elsets[e.of].source # "sample"

Label(p) ==
  /\ run[p].stage = "label"
  /\ run' = [run EXCEPT ![p].live = Live(run[p]), ![p].stage = "screened"]
  /\ UNCHANGED <<hour, elsets, alerted, pulls, stored, sent, calm>>

Dispatching(p) == run[p].stage \in {"send", "save"}

\* Mutant: the cooldown counts from the next hour.
CooldownEnds(memory, o) == memory[o] >= 0 /\ hour - memory[o] < Cooldown - 1

InCooldown(memory, o) == memory[o] >= 0 /\ hour - memory[o] < Cooldown

\* The dispatcher reads the state file, and has nothing to do when no critical
\* event is out of its cooldown.
Dispatch(p) ==
  /\ run[p].stage = "screened"
  /\ LET fresh == {e.of : e \in run[p].screened} \cap
                  {o \in Critical : ~InCooldown(alerted, o)} IN
     IF fresh = {} THEN Ends(p, "done")
     ELSE run' = [run EXCEPT ![p] = [Waiting EXCEPT !.stage = "send", !.moment = hour,
                                       !.memory = alerted, !.fresh = fresh]]
  /\ calm' = (calm /\ \A q \in Runs : ~Dispatching(q))
  /\ UNCHANGED <<hour, elsets, alerted, pulls, stored, sent>>

\* A delivery that fails is printed, and the state is saved as if it had not.
Send(p, delivered) ==
  /\ run[p].stage = "send"
  /\ sent' = IF delivered THEN sent \cup {[by |-> p, of |-> o, at |-> run[p].moment] : o \in run[p].fresh}
             ELSE sent
  /\ Goes(p, "save")
  /\ UNCHANGED <<hour, elsets, alerted, pulls, stored, calm>>

\* The whole file is written, with the time the dispatch began.
Save(p) ==
  /\ run[p].stage = "save"
  /\ alerted' = [o \in Tracked |-> IF o \in run[p].fresh THEN run[p].moment ELSE run[p].memory[o]]
  /\ Ends(p, "done")
  /\ UNCHANGED <<hour, elsets, pulls, stored, sent, calm>>

\* A process dies.  While it writes the state file it may leave half of it,
\* which the next reads as an empty one.
Die(p) ==
  /\ run[p].stage \notin {"new", "done", "dead"}
  /\ Ends(p, "dead")
  /\ alerted' \in {alerted} \cup IF run[p].stage = "save" THEN {[o \in Tracked |-> -1]} ELSE {}
  /\ calm' = (calm /\ ~Dispatching(p))
  /\ UNCHANGED <<hour, elsets, pulls, stored, sent>>

Hour ==
  /\ hour < MaxHours
  /\ hour' = hour + 1
  /\ UNCHANGED <<elsets, alerted, run, pulls, stored, sent, calm>>

PipeInit ==
  /\ hour = 0
  /\ elsets = [o \in Tracked |-> NoRow]
  /\ alerted = [o \in Tracked |-> -1]
  /\ run = [p \in Runs |-> Waiting]
  /\ pulls = {} /\ stored = {} /\ sent = {} /\ calm = TRUE

PipeNext ==
  \/ Hour
  \/ \E p \in Runs :
       \/ Begin(p) \/ Skip(p) \/ Fetch(p) \/ FetchFails(p) \/ Compare(p) \/ Upsert(p)
       \/ Settle(p) \/ Load(p) \/ NoTarget(p) \/ Label(p) \/ Dispatch(p) \/ Save(p) \/ Die(p)
       \/ \E delivered \in BOOLEAN : Send(p, delivered)

PipeSpec == PipeInit /\ [][PipeNext]_pipeVars

-----------------------------------------------------------------------------
(* Properties.                                                             *)

\* A screening whose inputs are labelled live rests on no bundled data, also
\* when an earlier run left it in the cache, unless another run replaced it
\* between the two reads ("must not look live", screen).
LabelHonest ==
  \A p \in Runs :
    run[p].live => run[p].disturbed \/ \A e \in run[p].screened : e.source # "sample"

\* A source that a run has stored is not downloaded again within the interval
\* CelesTrak asks for (refresh_catalog).
PollsSpaced ==
  \A a, b \in pulls :
    a.source = b.source /\ a.by \in b.after => b.at - a.at >= Interval

\* A pair is alerted on once in a cooldown, as long as no dispatch overlaps
\* another and none dies before it has saved (AlertDispatcher).
CooldownHonoured ==
  calm => \A a, b \in sent :
            a.of = b.of /\ a.by # b.by /\ a.at <= b.at => b.at - a.at >= Cooldown
=============================================================================
