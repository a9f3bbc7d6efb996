---------------------------- MODULE PipelineProofs ----------------------------
(***************************************************************************)
(* Proofs about Pipeline, for any number of runs, objects and hours: what  *)
(* is labelled live is live, polls are spaced, cooldowns are honoured; and *)
(* about the detection its runs make (Screening), for any motion, grid and *)
(* thresholds: every close approach is reported.                           *)
(*                                                                         *)
(* Runs overlap, so each property rests on what one run knows of the       *)
(* others.  A label is right because whatever is written between its two   *)
(* reads marks the run.  Polls are spaced because a group that was stored  *)
(* keeps its rows: a bundled element set can only be written over the      *)
(* group's first, the one row that an upsert compares before it has the    *)
(* lock.  An alert is remembered in the file from the moment its dispatch  *)
(* is saved, and until then its dispatch is the only one.                  *)
(*                                                                         *)
(* The detection is geometry first, squares and what lies on a line; then  *)
(* one approach makes one candidate, and the loop loses none.              *)
(***************************************************************************)
EXTENDS Pipeline, Screening, WellFoundedInduction, TLAPS

Source == {"group", "catnr", "sample"}

Row == [epoch : {0, 1}, source : Source, fetched : Nat]

PipeStages == {"new", "refresh", "compare", "write", "settle", "load", "label",
               "screened", "send", "save", "done", "dead"}

Process ==
  [stage : PipeStages, source : Source, moment : Nat,
   first : SUBSET Tracked, rest : SUBSET Tracked,
   failed : BOOLEAN, usedSample : BOOLEAN,
   screened : SUBSET [of : Tracked, source : Source],
   live : BOOLEAN, disturbed : BOOLEAN,
   memory : [Tracked -> Int], fresh : SUBSET Tracked]

PipeTypeOK ==
  /\ hour \in Nat
  /\ elsets \in [Tracked -> Row \cup {NoRow}]
  /\ alerted \in [Tracked -> Int]
  /\ run \in [Runs -> Process]
  /\ pulls \subseteq [by : Runs, source : Source, at : Nat, after : SUBSET Runs]
  /\ stored \subseteq Runs \X Source
  /\ sent \subseteq [by : Runs, of : Tracked, at : Nat]
  /\ calm \in BOOLEAN

\* A step of run p, which becomes n.
Moved(p, n) ==
  /\ n \in Process /\ run' \in [Runs -> Process] /\ run'[p] = n
  /\ \A q \in Runs \ {p} : run'[q] = run[q]

SameCache == UNCHANGED <<elsets, pulls, stored>>
SameAlerts == UNCHANGED <<alerted, sent, calm>>

SamePoll(n, r)  == n.source = r.source /\ n.first = r.first /\ n.rest = r.rest
SameLabel(n, r) == n.live = r.live /\ n.disturbed = r.disturbed /\ n.screened = r.screened

-----------------------------------------------------------------------------
(* What each step makes of the run.                                        *)

LEMMA StagesApart ==
  ASSUME NEW p \in Runs, NEW n \in Process, PipeTypeOK, run' = [run EXCEPT ![p] = n]
  PROVE  Moved(p, n)
BY DEF PipeTypeOK, Moved

LEMMA GoesMoves ==
  ASSUME PipeTypeOK, NEW p \in Runs, NEW st \in PipeStages, Goes(p, st)
  PROVE  \E n \in Process : /\ Moved(p, n) /\ n.stage = st /\ n.moment = run[p].moment
                            /\ SamePoll(n, run[p]) /\ SameLabel(n, run[p])
                            /\ n.memory = run[p].memory /\ n.fresh = run[p].fresh
<1> DEFINE r == run[p]
           n == [r EXCEPT !.stage = st]
<1>1. r \in Process
  BY DEF PipeTypeOK
<1>2. run' = [run EXCEPT ![p] = n]
  BY DEF Goes, PipeTypeOK
<1> HIDE DEF r
<1>3. /\ n \in Process /\ n.stage = st /\ n.moment = r.moment
      /\ SamePoll(n, r) /\ SameLabel(n, r) /\ n.memory = r.memory /\ n.fresh = r.fresh
  BY <1>1 DEF Process, SamePoll, SameLabel
<1> HIDE DEF n
<1> QED BY <1>2, <1>3, StagesApart DEF r

LEMMA WaitingType ==
  /\ Waiting \in Process /\ ~Waiting.live /\ Waiting.moment = 0 /\ Waiting.fresh = {}
  /\ Waiting.stage = "new" /\ Waiting.source = "group"
BY DEF Waiting, Process, PipeStages, Source

LEMMA EndsMoves ==
  ASSUME PipeTypeOK, NEW p \in Runs, NEW st \in {"done", "dead"}, Ends(p, st)
  PROVE  \E n \in Process : Moved(p, n) /\ n.stage = st /\ ~n.live /\ n.moment = 0
<1> DEFINE n == [Waiting EXCEPT !.stage = st]
<1>1. run' = [run EXCEPT ![p] = n]
  BY DEF Ends
<1> DEFINE w == Waiting
<1>2. w \in Process /\ ~w.live /\ w.moment = 0 /\ st \in PipeStages
  BY WaitingType DEF PipeStages
<1> HIDE DEF w
<1> DEFINE k == [w EXCEPT !.stage = st]
<1>3. k \in Process /\ k.stage = st /\ ~k.live /\ k.moment = 0
  BY <1>2 DEF Process
<1>4. run' = [run EXCEPT ![p] = k]
  BY <1>1 DEF w
<1> HIDE DEF k
<1> QED BY <1>3, <1>4, StagesApart

LEMMA BeginMoves ==
  ASSUME PipeTypeOK, NEW p \in Runs, Begin(p)
  PROVE  \E n \in Process : /\ Moved(p, n) /\ n.stage = "refresh" /\ n.moment = hour
                            /\ SamePoll(n, run[p]) /\ SameLabel(n, run[p])
<1> DEFINE r == run[p]
           n == [r EXCEPT !.stage = "refresh", !.moment = hour]
<1>1. r \in Process /\ hour \in Nat
  BY DEF PipeTypeOK
<1>2. run' = [run EXCEPT ![p] = n]
  BY DEF Begin, PipeTypeOK
<1> HIDE DEF r
<1>3. /\ n \in Process /\ n.stage = "refresh" /\ n.moment = hour
      /\ SamePoll(n, r) /\ SameLabel(n, r)
  BY <1>1 DEF Process, SamePoll, SameLabel, PipeStages
<1> HIDE DEF n
<1> QED BY <1>2, <1>3, StagesApart DEF r

LEMMA OnwardIs ==
  ASSUME NEW r \in Process
  PROVE  /\ Onward(r) \in Process /\ Onward(r).source = NextSource(r.source)
         /\ Onward(r).stage = (IF r.source = "group" THEN "refresh" ELSE "settle")
         /\ Onward(r).moment = r.moment /\ SameLabel(Onward(r), r)
         /\ LET n == [Onward(r) EXCEPT !.failed = TRUE] IN
            /\ n \in Process /\ n.source = NextSource(r.source)
            /\ n.stage = (IF r.source = "group" THEN "refresh" ELSE "settle")
            /\ n.moment = r.moment /\ SameLabel(n, r)
<1> DEFINE s == NextSource(r.source)
           st == IF r.source = "group" THEN "refresh" ELSE "settle"
           o == [r EXCEPT !.source = s, !.first = {}, !.rest = {}, !.stage = st]
           n == [o EXCEPT !.failed = TRUE]
<1>1. s \in Source /\ st \in PipeStages
  BY DEF NextSource, Source, PipeStages
<1>2. Onward(r) = o
  BY DEF Onward
<1> HIDE DEF s, st
<1>3. /\ o \in Process /\ o.source = s /\ o.stage = st /\ o.moment = r.moment
      /\ SameLabel(o, r)
  BY <1>1 DEF Process, SameLabel
<1> HIDE DEF o
<1>4. /\ n \in Process /\ n.source = s /\ n.stage = st /\ n.moment = r.moment
      /\ SameLabel(n, r)
  BY <1>3 DEF Process, SameLabel
<1> QED BY <1>2, <1>3, <1>4 DEF s, st

LEMMA PassedMoves ==
  ASSUME PipeTypeOK, NEW p \in Runs, Skip(p) \/ FetchFails(p)
  PROVE  \E n \in Process :
           /\ Moved(p, n) /\ n.source = NextSource(run[p].source) /\ n.moment = run[p].moment
           /\ n.stage = (IF run[p].source = "group" THEN "refresh" ELSE "settle")
           /\ SameLabel(n, run[p])
<1> DEFINE r == run[p]
           a == Onward(r)
           b == [Onward(r) EXCEPT !.failed = TRUE]
<1>1. r \in Process
  BY DEF PipeTypeOK
<1>2. run' = [run EXCEPT ![p] = a] \/ run' = [run EXCEPT ![p] = b]
  BY DEF Skip, FetchFails
<1>3. /\ a \in Process /\ a.source = NextSource(r.source) /\ a.moment = r.moment
      /\ a.stage = (IF r.source = "group" THEN "refresh" ELSE "settle") /\ SameLabel(a, r)
      /\ b \in Process /\ b.source = NextSource(r.source) /\ b.moment = r.moment
      /\ b.stage = (IF r.source = "group" THEN "refresh" ELSE "settle") /\ SameLabel(b, r)
  BY <1>1, OnwardIs
<1> HIDE DEF a, b
<1> QED BY <1>2, <1>3, StagesApart

LEMMA ParsedIsTracked ==
  ASSUME NEW source \in Source, NEW parsed \in Parsed(source)
  PROVE  parsed \subseteq Tracked
<1>1. Wanted(source) \subseteq Tracked
  BY DEF Wanted, Tracked, Source
<1>2. parsed = Wanted(source) \/ parsed = {}
  BY DEF Parsed
<1> QED BY <1>1, <1>2

\* The rows that an upsert may write, its first, and those that come later.
Old(parsed, source) == {o \in parsed : Replaces(o, source)}
FirstOf(S) == {o \in S : \A q \in S : Place[o] <= Place[q]}
Later(parsed, first) == {o \in parsed : \E f \in first : Place[f] < Place[o]}

\* The row that an upsert writes first is the first it may write, and what it
\* has not looked at comes later.
LEMMA CompareMoves ==
  ASSUME PipeTypeOK, NEW p \in Runs, Compare(p)
  PROVE  \E parsed \in Parsed(run[p].source) : \E n \in Process :
           /\ Moved(p, n) /\ n.stage = "write" /\ n.source = run[p].source
           /\ n.moment = run[p].moment /\ SameLabel(n, run[p])
           /\ n.first = FirstOf(Old(parsed, run[p].source))
           /\ n.rest = Later(parsed, n.first)
<1> DEFINE r == run[p]
<1>1. r \in Process
  BY DEF PipeTypeOK
<1>2. PICK parsed \in Parsed(r.source) :
        LET old   == {o \in parsed : Replaces(o, r.source)}
            first == {o \in old : \A q \in old : Place[o] <= Place[q]}
        IN run' = [run EXCEPT ![p].stage = "write", ![p].first = first,
             ![p].rest = {o \in parsed : \E f \in first : Place[f] < Place[o]}]
  BY DEF Compare
<1> DEFINE old == {o \in parsed : Replaces(o, r.source)}
           first == {o \in old : \A q \in old : Place[o] <= Place[q]}
           rest == {o \in parsed : \E f \in first : Place[f] < Place[o]}
           n == [r EXCEPT !.stage = "write", !.first = first, !.rest = rest]
<1>3. run' = [run EXCEPT ![p].stage = "write", ![p].first = first, ![p].rest = rest]
  BY <1>2
<1>4. parsed \in SUBSET Tracked
  <2>1. r.source \in Source
    BY <1>1 DEF Process
  <2> QED BY <2>1, ParsedIsTracked
<1>5. first \in SUBSET Tracked /\ rest \in SUBSET Tracked
  BY <1>4
<1> HIDE DEF first, rest
<1>6. run' = [run EXCEPT ![p] = n]
  BY <1>3 DEF PipeTypeOK
<1> HIDE DEF r
<1>7. /\ n \in Process /\ n.stage = "write" /\ n.source = r.source
      /\ n.moment = r.moment /\ SameLabel(n, r) /\ n.first = first /\ n.rest = rest
  BY <1>1, <1>5 DEF Process, PipeStages, SameLabel
<1> HIDE DEF n
<1>8. Moved(p, n)
  BY <1>6, <1>7, StagesApart
<1>9. first = FirstOf(Old(parsed, r.source)) /\ rest = Later(parsed, first)
  BY DEF first, rest, FirstOf, Old, Later
<1> QED BY <1>7, <1>8, <1>9 DEF r

LEMMA SettleMoves ==
  ASSUME PipeTypeOK, NEW p \in Runs, Settle(p)
  PROVE  \E n \in Process : /\ Moved(p, n) /\ n.stage \in {"compare", "load"}
                            /\ n.moment = run[p].moment
                            /\ SamePoll(n, run[p]) /\ SameLabel(n, run[p])
<1> DEFINE r == run[p]
           stand == Cached = {} \/ (r.failed /\ Target \notin Cached)
           st == IF stand THEN "compare" ELSE "load"
           n == [r EXCEPT !.usedSample = stand, !.stage = st]
<1>1. r \in Process
  BY DEF PipeTypeOK
<1>2. stand \in BOOLEAN /\ st \in {"compare", "load"}
  BY <1>1 DEF Process
<1>3. run' = [run EXCEPT ![p].usedSample = stand, ![p].stage = st]
  BY DEF Settle
<1> HIDE DEF stand, st
<1>4. run' = [run EXCEPT ![p] = n]
  BY <1>3 DEF PipeTypeOK
<1> HIDE DEF r
<1>5. /\ n \in Process /\ n.stage = st /\ n.moment = r.moment
      /\ SamePoll(n, r) /\ SameLabel(n, r)
  BY <1>1, <1>2 DEF Process, SamePoll, SameLabel, PipeStages
<1> HIDE DEF n
<1> QED BY <1>2, <1>4, <1>5, StagesApart DEF r

LEMMA LoadMoves ==
  ASSUME PipeTypeOK, NEW p \in Runs, Load(p)
  PROVE  \E n \in Process : /\ Moved(p, n) /\ n.stage = "label" /\ n.moment = 0
                            /\ n.live = run[p].live
                            /\ n.screened = {[of |-> o, source |-> elsets[o].source] : o \in Cached}
<1> DEFINE r == run[p]
           sc == {[of |-> o, source |-> elsets[o].source] : o \in Cached}
           n == [r EXCEPT !.stage = "label", !.moment = 0, !.screened = sc]
<1>1. r \in Process
  BY DEF PipeTypeOK
<1>2. sc \in SUBSET [of : Tracked, source : Source]
  <2>1. \A o \in Cached : o \in Tracked /\ elsets[o] \in Row
    BY DEF Cached, PipeTypeOK
  <2> QED BY <2>1 DEF Row
<1>3. run' = [run EXCEPT ![p].stage = "label", ![p].moment = 0, ![p].screened = sc]
  BY DEF Load
<1> HIDE DEF sc
<1>4. run' = [run EXCEPT ![p] = n]
  BY <1>3 DEF PipeTypeOK
<1> HIDE DEF r
<1>5. n \in Process /\ n.stage = "label" /\ n.moment = 0 /\ n.live = r.live /\ n.screened = sc
  BY <1>1, <1>2 DEF Process, PipeStages
<1> HIDE DEF n
<1> QED BY <1>4, <1>5, StagesApart DEF r, sc

LEMMA LabelMoves ==
  ASSUME PipeTypeOK, NEW p \in Runs, Label(p)
  PROVE  \E n \in Process : /\ Moved(p, n) /\ n.stage = "screened" /\ n.live = Live(run[p])
                            /\ n.moment = run[p].moment /\ n.disturbed = run[p].disturbed
                            /\ n.screened = run[p].screened
<1> DEFINE r == run[p]
           lv == Live(r)
           n == [r EXCEPT !.live = lv, !.stage = "screened"]
<1>1. r \in Process
  BY DEF PipeTypeOK
<1>2. lv \in BOOLEAN
  BY DEF Live
<1>3. run' = [run EXCEPT ![p].live = lv, ![p].stage = "screened"]
  BY DEF Label
<1> HIDE DEF lv
<1>4. run' = [run EXCEPT ![p] = n]
  BY <1>3 DEF PipeTypeOK
<1> HIDE DEF r
<1>5. /\ n \in Process /\ n.stage = "screened" /\ n.live = lv /\ n.moment = r.moment
      /\ n.disturbed = r.disturbed /\ n.screened = r.screened
  BY <1>1, <1>2 DEF Process, PipeStages
<1> HIDE DEF n
<1> QED BY <1>4, <1>5, StagesApart DEF r, lv

LEMMA DispatchMoves ==
  ASSUME PipeTypeOK, NEW p \in Runs, Dispatch(p)
  PROVE  \E n \in Process :
           /\ Moved(p, n) /\ ~n.live /\ n.moment \in {0, hour}
           /\ \/ n.stage = "done"
              \/ /\ n.stage = "send" /\ n.moment = hour /\ n.memory = alerted
                 /\ \A o \in n.fresh : ~InCooldown(alerted, o)
<1> DEFINE fresh == {e.of : e \in run[p].screened} \cap {o \in Critical : ~InCooldown(alerted, o)}
           n == [Waiting EXCEPT !.stage = "send", !.moment = hour, !.memory = alerted, !.fresh = fresh]
<1>1. CASE Ends(p, "done")
  BY <1>1, EndsMoves
<1>2. CASE run' = [run EXCEPT ![p] = n]
  <2>1. fresh \in SUBSET Tracked /\ \A o \in fresh : ~InCooldown(alerted, o)
    <3>1. \A e \in run[p].screened : e.of \in Tracked
      BY DEF PipeTypeOK, Process
    <3> QED BY <3>1
  <2>2. hour \in Nat /\ alerted \in [Tracked -> Int]
    BY DEF PipeTypeOK
  <2> HIDE DEF fresh
  <2>3. /\ n \in Process /\ n.stage = "send" /\ ~n.live /\ n.moment = hour
        /\ n.memory = alerted /\ n.fresh = fresh
    BY <2>1, <2>2 DEF Waiting, Process, PipeStages, Source
  <2> HIDE DEF n
  <2> QED BY <1>2, <2>1, <2>3, StagesApart
<1> QED BY <1>1, <1>2 DEF Dispatch

\* An upsert marks the runs that are between their two reads.
LEMMA UpsertMoves ==
  ASSUME PipeTypeOK, NEW p \in Runs, Upsert(p)
  PROVE  /\ run' \in [Runs -> Process]
         /\ SameLabel(run'[p], run[p]) /\ run'[p].moment = run[p].moment
         /\ \/ /\ run[p].source = "sample" /\ run'[p].stage = "load" /\ run'[p].source = "sample"
            \/ /\ run[p].source # "sample" /\ run'[p].source = NextSource(run[p].source)
               /\ run'[p].stage = (IF run[p].source = "group" THEN "refresh" ELSE "settle")
         /\ \A q \in Runs \ {p} :
              /\ run'[q].stage = run[q].stage /\ SamePoll(run'[q], run[q])
              /\ run'[q].moment = run[q].moment /\ run'[q].live = run[q].live
              /\ run'[q].screened = run[q].screened
              /\ run'[q].memory = run[q].memory /\ run'[q].fresh = run[q].fresh
              /\ run'[q].disturbed = (run[q].disturbed \/ run[q].stage = "label")
<1> DEFINE r == run[p]
           n == IF r.source = "sample" THEN [r EXCEPT !.stage = "load", !.first = {}, !.rest = {}]
                ELSE Onward(r)
           x(q) == run[q].disturbed \/ run[q].stage = "label"
           m(q) == [run[q] EXCEPT !.disturbed = x(q)]
<1>1. run' = [q \in Runs |-> IF q = p THEN n ELSE m(q)]
  BY DEF Upsert
<1>2. r \in Process
  BY DEF PipeTypeOK
<1>3. ASSUME NEW q \in Runs
      PROVE  /\ m(q) \in Process /\ m(q).stage = run[q].stage /\ SamePoll(m(q), run[q])
             /\ m(q).moment = run[q].moment /\ m(q).live = run[q].live
             /\ m(q).screened = run[q].screened
             /\ m(q).memory = run[q].memory /\ m(q).fresh = run[q].fresh
             /\ m(q).disturbed = x(q)
  <2> DEFINE s == run[q]
             y == x(q)
  <2>1. s \in Process /\ y \in BOOLEAN
    BY DEF PipeTypeOK, Process
  <2> HIDE DEF s, y
  <2> DEFINE k == [s EXCEPT !.disturbed = y]
  <2>2. /\ k \in Process /\ k.stage = s.stage /\ SamePoll(k, s)
        /\ k.moment = s.moment /\ k.live = s.live /\ k.screened = s.screened
        /\ k.memory = s.memory /\ k.fresh = s.fresh /\ k.disturbed = y
    BY <2>1 DEF Process, SamePoll
  <2> QED BY <2>2 DEF s, y
<1> HIDE DEF r, m
<1>4. /\ n \in Process /\ SameLabel(n, r) /\ n.moment = r.moment
      /\ \/ r.source = "sample" /\ n.stage = "load" /\ n.source = "sample"
         \/ /\ r.source # "sample" /\ n.source = NextSource(r.source)
            /\ n.stage = (IF r.source = "group" THEN "refresh" ELSE "settle")
  <2>1. CASE r.source = "sample"
    BY <1>2, <2>1 DEF Process, PipeStages, SameLabel
  <2>2. CASE r.source # "sample"
    BY <1>2, <2>2, OnwardIs
  <2> QED BY <2>1, <2>2
<1> HIDE DEF n
<1> QED BY <1>1, <1>3, <1>4 DEF r

-----------------------------------------------------------------------------
(* The types.                                                              *)

LEMMA EntryIsRow ==
  ASSUME NEW source \in Source, NEW t \in Nat
  PROVE  Entry(source, t) \in Row /\ Entry(source, t).source = source
         /\ Entry(source, t).epoch = Epoch(source) /\ Entry(source, t).fetched = t
BY DEF Entry, Row, Epoch

LEMMA PipeTypes ==
  ASSUME PipelineAssumption, PipeTypeOK, [PipeNext]_pipeVars
  PROVE  PipeTypeOK'
<1>1. CASE Hour
  BY <1>1 DEF Hour, PipeTypeOK
<1>2. CASE UNCHANGED pipeVars
  BY <1>2 DEF pipeVars, PipeTypeOK
<1>3. ASSUME NEW p \in Runs, Begin(p) \/ Skip(p) \/ FetchFails(p) \/ Compare(p)
                             \/ Settle(p) \/ Load(p) \/ NoTarget(p) \/ Label(p)
      PROVE  PipeTypeOK'
  <2>1. run' \in [Runs -> Process]
    BY <1>3, BeginMoves, PassedMoves, CompareMoves, SettleMoves, LoadMoves, LabelMoves,
       EndsMoves DEF NoTarget, Moved
  <2>2. UNCHANGED <<hour, elsets, alerted, pulls, stored, sent, calm>>
    BY <1>3 DEF Begin, Skip, FetchFails, Compare, Settle, Load, NoTarget, Label
  <2> QED BY <2>1, <2>2 DEF PipeTypeOK
<1>4. ASSUME NEW p \in Runs, Fetch(p) PROVE PipeTypeOK'
  <2>1. run' \in [Runs -> Process]
    BY <1>4, GoesMoves DEF Fetch, Moved, PipeStages
  <2>2. run[p].source \in Source
    BY DEF PipeTypeOK, Process
  <2> DEFINE a == [by |-> p, source |-> run[p].source, at |-> hour,
                   after |-> {q \in Runs : <<q, run[p].source>> \in stored}]
  <2>3. a \in [by : Runs, source : Source, at : Nat, after : SUBSET Runs]
    <3>1. hour \in Nat /\ {q \in Runs : <<q, run[p].source>> \in stored} \in SUBSET Runs
      BY DEF PipeTypeOK
    <3> QED BY <2>2, <3>1
  <2>4. pulls' = pulls \cup {a}
    BY <1>4 DEF Fetch
  <2> HIDE DEF a
  <2> QED BY <1>4, <2>1, <2>3, <2>4 DEF Fetch, PipeTypeOK
<1>5. ASSUME NEW p \in Runs, Upsert(p) PROVE PipeTypeOK'
  <2>1. run' \in [Runs -> Process]
    BY <1>5, UpsertMoves
  <2>2. run[p].source \in Source /\ hour \in Nat
    BY DEF PipeTypeOK, Process
  <2>3. elsets' \in [Tracked -> Row \cup {NoRow}]
    BY <1>5, <2>2, EntryIsRow DEF Upsert, PipeTypeOK
  <2> QED BY <1>5, <2>1, <2>2, <2>3 DEF Upsert, PipeTypeOK
<1>6. ASSUME NEW p \in Runs, Dispatch(p) PROVE PipeTypeOK'
  <2>1. run' \in [Runs -> Process]
    BY <1>6, DispatchMoves DEF Moved
  <2> QED BY <1>6, <2>1 DEF Dispatch, PipeTypeOK
<1>7. ASSUME NEW p \in Runs, NEW delivered \in BOOLEAN, Send(p, delivered) PROVE PipeTypeOK'
  <2>1. run' \in [Runs -> Process]
    BY <1>7, GoesMoves DEF Send, Moved, PipeStages
  <2>2. run[p].moment \in Nat /\ run[p].fresh \subseteq Tracked
    BY DEF PipeTypeOK, Process
  <2> QED BY <1>7, <2>1, <2>2 DEF Send, PipeTypeOK
<1>8. ASSUME NEW p \in Runs, Save(p) PROVE PipeTypeOK'
  <2>1. run' \in [Runs -> Process]
    BY <1>8, EndsMoves DEF Save, Moved
  <2>2. run[p].moment \in Int /\ run[p].memory \in [Tracked -> Int]
    BY DEF PipeTypeOK, Process
  <2>3. alerted' \in [Tracked -> Int]
    BY <1>8, <2>2 DEF Save
  <2> QED BY <1>8, <2>1, <2>3 DEF Save, PipeTypeOK
<1>9. ASSUME NEW p \in Runs, Die(p) PROVE PipeTypeOK'
  <2>1. run' \in [Runs -> Process]
    BY <1>9, EndsMoves DEF Die, Moved
  <2>2. alerted' \in [Tracked -> Int]
    BY <1>9 DEF Die, PipeTypeOK
  <2> QED BY <1>9, <2>1, <2>2 DEF Die, PipeTypeOK
<1> QED BY <1>1, <1>2, <1>3, <1>4, <1>5, <1>6, <1>7, <1>8, <1>9 DEF PipeNext

LEMMA PipeTypesInit ==
  ASSUME PipeInit PROVE PipeTypeOK
<1>1. run \in [Runs -> Process]
  BY WaitingType DEF PipeInit
<1> QED BY <1>1 DEF PipeInit, PipeTypeOK

-----------------------------------------------------------------------------
(* The label.                                                              *)

\* What a run that is between its two reads has read still stands, unless it
\* has been marked.
Labelled(r, cache) ==
  /\ r.live => /\ r.stage = "screened"
               /\ r.disturbed \/ \A e \in r.screened : e.source # "sample"
  /\ r.stage = "label" =>
       ~r.live /\ (r.disturbed \/ \A e \in r.screened : cache[e.of].source = e.source)

LabelInv == \A p \in Runs : Labelled(run[p], elsets)

LEMMA LabelStep ==
  ASSUME LabelInv, NEW p \in Runs, NEW n, Moved(p, n), elsets' = elsets, Labelled(n, elsets)
  PROVE  LabelInv'
<1>1. \A q \in Runs : Labelled(run'[q], elsets')
  BY DEF LabelInv, Moved
<1> QED BY <1>1 DEF LabelInv, Labelled

LEMMA QuietLabel ==
  ASSUME NEW n, ~n.live, n.stage # "label", NEW cache
  PROVE  Labelled(n, cache)
BY DEF Labelled

LEMMA LabelIsKept ==
  ASSUME PipelineAssumption, PipeTypeOK, LabelInv, [PipeNext]_pipeVars
  PROVE  LabelInv'
<1>1. CASE Hour \/ UNCHANGED pipeVars
  BY <1>1 DEF Hour, pipeVars, LabelInv, Labelled
<1>2. ASSUME NEW p \in Runs, Begin(p) \/ Skip(p) \/ FetchFails(p) \/ Compare(p) \/ Settle(p)
      PROVE  LabelInv'
  <2>1. ~run[p].live
    BY <1>2 DEF LabelInv, Labelled, Begin, Skip, FetchFails, Compare, Settle
  <2>2. \E n \in Process : Moved(p, n) /\ n.stage # "label" /\ n.live = run[p].live
    BY <1>2, BeginMoves, PassedMoves, CompareMoves, SettleMoves DEF SameLabel
  <2>3. elsets' = elsets
    BY <1>2 DEF Begin, Skip, FetchFails, Compare, Settle
  <2> QED BY <2>1, <2>2, <2>3, QuietLabel, LabelStep
<1>3. ASSUME NEW p \in Runs, Fetch(p) \/ \E delivered \in BOOLEAN : Send(p, delivered)
      PROVE  LabelInv'
  <2>1. ~run[p].live
    BY <1>3 DEF LabelInv, Labelled, Fetch, Send
  <2>2. elsets' = elsets /\ (Goes(p, "compare") \/ Goes(p, "save"))
    BY <1>3 DEF Fetch, Send
  <2>3. \E n \in Process : Moved(p, n) /\ n.stage # "label" /\ n.live = run[p].live
    BY <2>2, GoesMoves DEF SameLabel, PipeStages
  <2> QED BY <2>1, <2>2, <2>3, QuietLabel, LabelStep
<1>4. ASSUME NEW p \in Runs, NoTarget(p) \/ Dispatch(p) \/ Save(p) \/ Die(p)
      PROVE  LabelInv'
  <2>1. \E n \in Process : Moved(p, n) /\ n.stage # "label" /\ ~n.live
    BY <1>4, EndsMoves, DispatchMoves DEF NoTarget, Save, Die
  <2>2. elsets' = elsets
    BY <1>4 DEF NoTarget, Dispatch, Save, Die
  <2> QED BY <2>1, <2>2, QuietLabel, LabelStep
<1>5. ASSUME NEW p \in Runs, Load(p) PROVE LabelInv'
  <2>1. ~run[p].live /\ elsets' = elsets
    BY <1>5 DEF LabelInv, Labelled, Load
  <2>2. PICK n \in Process : /\ Moved(p, n) /\ n.stage = "label" /\ n.live = run[p].live
                             /\ n.screened = {[of |-> o, source |-> elsets[o].source] : o \in Cached}
    BY <1>5, LoadMoves
  <2>3. \A e \in n.screened : elsets[e.of].source = e.source
    BY <2>2
  <2>4. Labelled(n, elsets)
    BY <2>1, <2>2, <2>3 DEF Labelled
  <2> QED BY <2>1, <2>2, <2>4, LabelStep
<1>6. ASSUME NEW p \in Runs, Label(p) PROVE LabelInv'
  <2>1. /\ run[p].disturbed \/ \A e \in run[p].screened : elsets[e.of].source = e.source
        /\ elsets' = elsets
    BY <1>6 DEF LabelInv, Labelled, Label
  <2>2. PICK n \in Process : /\ Moved(p, n) /\ n.stage = "screened" /\ n.live = Live(run[p])
                             /\ n.disturbed = run[p].disturbed /\ n.screened = run[p].screened
    BY <1>6, LabelMoves
  <2>3. Labelled(n, elsets)
    BY <2>1, <2>2 DEF Labelled, Live
  <2> QED BY <2>1, <2>2, <2>3, LabelStep
<1>7. ASSUME NEW p \in Runs, Upsert(p) PROVE LabelInv'
  <2>1. ~run[p].live
    BY <1>7 DEF LabelInv, Labelled, Upsert
  <2>2. ~run'[p].live /\ run'[p].stage # "label"
    BY <1>7, <2>1, UpsertMoves DEF SameLabel
  <2>3. ASSUME NEW q \in Runs \ {p} PROVE Labelled(run'[q], elsets')
    <3> DEFINE r == run[q]
               n == run'[q]
               es == elsets'
    <3>1. Labelled(r, elsets)
      BY DEF LabelInv
    <3>2. /\ n.stage = r.stage /\ n.live = r.live /\ n.screened = r.screened
          /\ n.disturbed = (r.disturbed \/ r.stage = "label")
      BY <1>7, UpsertMoves
    <3> HIDE DEF r, n, es
    <3>3. Labelled(n, es)
      BY <3>1, <3>2, Zenon DEF Labelled
    <3> QED BY <3>3 DEF n, es
  <2>4. \A q \in Runs : Labelled(run'[q], elsets')
    BY <2>2, <2>3, QuietLabel
  <2> QED BY <2>4 DEF LabelInv, Labelled
<1> QED BY <1>1, <1>2, <1>3, <1>4, <1>5, <1>6, <1>7 DEF PipeNext

\* A screening whose inputs are labelled live rests on no bundled data, unless
\* another run replaced it between the two reads: screen, _data_freshness.
THEOREM WhatIsLabelledLiveIsLive == PipeSpec => []LabelHonest
<1>1. PipeInit => PipeTypeOK /\ LabelInv
  <2> SUFFICES ASSUME PipeInit PROVE PipeTypeOK /\ LabelInv
    OBVIOUS
  <2>1. \A p \in Runs : ~run[p].live /\ run[p].stage # "label"
    BY WaitingType DEF PipeInit
  <2> QED BY <2>1, QuietLabel, PipeTypesInit DEF LabelInv
<1>2. PipeTypeOK /\ LabelInv /\ [PipeNext]_pipeVars => (PipeTypeOK /\ LabelInv)'
  BY PipelineAssumption, PipeTypes, LabelIsKept
<1>3. PipeTypeOK /\ LabelInv => LabelHonest
  BY DEF LabelInv, Labelled, LabelHonest
<1> QED BY <1>1, <1>2, <1>3, PTL DEF PipeSpec

-----------------------------------------------------------------------------
(* The polls.                                                              *)

LEMMA LeastOf ==
  ASSUME NEW T \in SUBSET Nat, T # {}
  PROVE  \E x \in T : \A y \in T : x <= y
<1>1. PICK x \in T : \A y \in T : ~ (<<y, x>> \in OpToRel(<, Nat))
  BY NatLessThanWellFounded, WFMin
<1>2. \A y \in T : ~ (y < x)
  BY <1>1 DEF OpToRel
<1> QED BY <1>2

\* Newest's CHOOSE: times up to some hour have a last.
LEMMA NewestIs ==
  ASSUME NEW t \in Nat, NEW S \in SUBSET (0..t), S # {}
  PROVE  Newest(S) \in S /\ \A u \in S : u <= Newest(S)
<1> DEFINE T == {t - u : u \in S}
<1>1. T \in SUBSET Nat /\ T # {}
  <2>1. PICK u \in S : t - u \in T
    OBVIOUS
  <2>2. \A x \in T : x \in Nat
    OBVIOUS
  <2> QED BY <2>1, <2>2
<1>2. PICK x \in T : \A y \in T : x <= y
  BY <1>1, LeastOf
<1>3. PICK u \in S : x = t - u
  OBVIOUS
<1>4. \A v \in S : v <= u
  <2> TAKE v \in S
  <2>1. t - v \in T
    OBVIOUS
  <2> QED BY <2>1, <1>2, <1>3
<1>5. \E v \in S : \A w \in S : w <= v
  BY <1>4
<1> QED BY <1>5, Zenon DEF Newest

\* Some objects have a first, and one only.
LEMMA FirstPlaced ==
  ASSUME PipelineAssumption, NEW S \in SUBSET Tracked, S # {}
  PROVE  \E o \in S : /\ \A q \in S \ {o} : Place[o] < Place[q]
                      /\ {f \in S : \A q \in S : Place[f] <= Place[q]} = {o}
<1>1. \A o \in S : Place[o] \in Nat
  BY DEF PipelineAssumption
<1> DEFINE T == {Place[o] : o \in S}
<1>2. T \in SUBSET Nat /\ T # {}
  <2>1. PICK o \in S : Place[o] \in T
    OBVIOUS
  <2>2. \A x \in T : x \in Nat
    BY <1>1
  <2> HIDE DEF T
  <2> QED BY <2>1, <2>2
<1>3. PICK x \in T : \A y \in T : x <= y
  BY <1>2, LeastOf
<1>4. PICK o \in S : Place[o] = x
  OBVIOUS
<1>5. \A q \in S : Place[o] <= Place[q]
  <2> TAKE q \in S
  <2>1. Place[q] \in T
    OBVIOUS
  <2> QED BY <2>1, <1>3, <1>4
<1>6. \A q \in S \ {o} : Place[o] < Place[q]
  BY <1>1, <1>5 DEF PipelineAssumption
<1>7. {f \in S : \A q \in S : Place[f] <= Place[q]} = {o}
  <2>1. \A f \in S \ {o} : ~(Place[f] <= Place[o])
    BY <1>1, <1>6
  <2> QED BY <2>1, <1>5
<1> QED BY <1>6, <1>7

\* The row that a bundled element set may still replace after the group has
\* been stored: the first that the sample and the group share.
Lead == {o \in Group \cap Bundled : \A q \in Group \cap Bundled : Place[o] <= Place[q]}

LEMMA OneIsNotLead ==
  ASSUME PipelineAssumption, Group # {}
  PROVE  \E o \in Group : o \notin Lead
<1>1. PICK o \in Group : \A q \in Group \ {o} : Place[o] < Place[q]
  BY FirstPlaced DEF Tracked
<1>2. PICK q \in Group : q # o
  BY DEF PipelineAssumption
<1>3. Place[o] \in Nat /\ Place[q] \in Nat /\ Place[o] < Place[q]
  BY <1>1, <1>2 DEF PipelineAssumption, Tracked
<1>4. ~(o \in Lead /\ q \in Lead)
  BY <1>3 DEF Lead
<1> QED BY <1>4

\* Where a run is on its way through the sources, and what it may write.
OnItsWay(p, r, t, kept) ==
  /\ r.moment <= t
  /\ r.stage = "new" => r.source = "group"
  /\ r.stage = "refresh" => r.source \in {"group", "catnr"}
  /\ r.stage = "settle" => r.source = "sample"
  /\ <<p, "group">> \in kept =>
       /\ r.stage # "new"
       /\ r.stage \in {"refresh", "compare", "write"} => r.source # "group"
  /\ <<p, "catnr">> \in kept =>
       /\ r.stage \notin {"new", "refresh"}
       /\ r.stage \in {"compare", "write"} => r.source = "sample"
  /\ r.stage = "write" =>
       /\ r.source = "group" => r.first \cup r.rest = Group
       /\ r.source = "catnr" => r.first \cup r.rest \subseteq {Target}
       /\ r.source = "sample" => r.first \cap Group \subseteq Lead

RowsInv ==
  \A o \in Tracked :
    elsets[o] # NoRow =>
      /\ elsets[o].epoch = Epoch(elsets[o].source) /\ elsets[o].fetched <= hour
      /\ o \in Group => elsets[o].source # "catnr"

Stored(source) == \E p \in Runs : <<p, source>> \in stored

\* Each row of the group outlives the pulls of the runs that have stored it; so
\* does the target's.
GroupRows ==
  IF Stored("group")
  THEN /\ Group # {}
       /\ \A o \in Group \ Lead :
            /\ elsets[o] # NoRow /\ elsets[o].source = "group"
            /\ \A a \in pulls : a.source = "group" /\ <<a.by, "group">> \in stored
                                  => a.at <= elsets[o].fetched
  ELSE \A o \in Group : elsets[o] = NoRow \/ elsets[o].source = "sample"

TargetRow ==
  \A a \in pulls : a.source = "catnr" /\ <<a.by, "catnr">> \in stored
                     => elsets[Target] # NoRow /\ a.at <= elsets[Target].fetched

PullsInv ==
  \A a \in pulls : /\ a.at <= hour /\ a.source \in {"group", "catnr"}
                   /\ \A q \in a.after : <<q, a.source>> \in stored

WaysInv == \A p \in Runs : OnItsWay(p, run[p], hour, stored)

PollInv == WaysInv /\ RowsInv /\ GroupRows /\ TargetRow /\ PullsInv /\ PollsSpaced

\* Only the clock and the runs change.
LEMMA CacheStands ==
  ASSUME PipeTypeOK, PollInv, hour' \in Nat, hour <= hour', SameCache
  PROVE  RowsInv' /\ GroupRows' /\ TargetRow' /\ PullsInv' /\ PollsSpaced'
<1>1. RowsInv'
  <2>1. \A o \in Tracked : elsets[o] # NoRow => elsets[o].fetched \in Nat
    BY DEF PipeTypeOK, Row
  <2> QED BY <2>1 DEF PollInv, RowsInv, SameCache, PipeTypeOK
<1>2. PullsInv'
  <2>1. \A a \in pulls : a.at \in Nat
    BY DEF PipeTypeOK
  <2> QED BY <2>1 DEF PollInv, PullsInv, SameCache, PipeTypeOK
<1> QED BY <1>1, <1>2 DEF PollInv, GroupRows, TargetRow, PollsSpaced, SameCache, Stored

LEMMA OthersOnTheirWay ==
  ASSUME WaysInv, NEW p \in Runs, NEW n, Moved(p, n), stored' = stored, hour' = hour,
         OnItsWay(p, n, hour, stored)
  PROVE  WaysInv'
<1>1. \A q \in Runs : OnItsWay(q, run'[q], hour', stored')
  BY DEF WaysInv, Moved
<1> QED BY <1>1 DEF WaysInv, OnItsWay

\* A run past its polls.
LEMMA PastPolls ==
  ASSUME NEW p, NEW n \in Process, NEW t \in Nat, NEW kept, n.moment <= t,
         n.stage \notin {"new", "refresh", "settle", "compare", "write"}
  PROVE  OnItsWay(p, n, t, kept)
BY DEF OnItsWay

\* The newest row of a source, or the target's, is no older than any of them.
LEMMA FetchedSince ==
  ASSUME PipeTypeOK, RowsInv, NEW source \in {"group", "catnr"}, NEW o \in Cached,
         IF source = "catnr" THEN o = Target ELSE elsets[o].source = source
  PROVE  FetchedAt(source) \in Nat /\ elsets[o].fetched <= FetchedAt(source)
<1> DEFINE rows == IF source = "catnr" THEN {Target} \cap Cached
                   ELSE {q \in Cached : elsets[q].source = source}
           S == {elsets[q].fetched : q \in rows}
<1>1. o \in rows /\ rows \subseteq Cached
  OBVIOUS
<1>2. FetchedAt(source) = Newest(S)
  BY <1>1 DEF FetchedAt
<1> HIDE DEF rows
<1>3. S \in SUBSET (0..hour)
  <2> SUFFICES ASSUME NEW q \in rows PROVE elsets[q].fetched \in 0..hour
    OBVIOUS
  <2>1. elsets[q] \in Row /\ elsets[q].fetched <= hour /\ hour \in Nat
    BY <1>1 DEF Cached, PipeTypeOK, RowsInv
  <2> QED BY <2>1 DEF Row
<1>4. elsets[o].fetched \in S
  BY <1>1
<1> HIDE DEF S
<1>5. hour \in Nat
  BY DEF PipeTypeOK
<1>6. Newest(S) \in S /\ \A u \in S : u <= Newest(S)
  BY <1>3, <1>4, <1>5, NewestIs
<1> DEFINE m == Newest(S)
<1>7. m \in S /\ \A u \in S : u <= m
  BY <1>6
<1>8. FetchedAt(source) = m
  BY <1>2, Zenon
<1> HIDE DEF m
<1> DEFINE f == elsets[o].fetched
<1>9. f \in S
  BY <1>4
<1> HIDE DEF f
<1>10. m \in Nat
  BY <1>3, <1>5, <1>7
<1>11. f <= m
  BY <1>9, <1>7
<1> QED BY <1>8, <1>10, <1>11, Zenon DEF f

\* What the comparison leaves to be written.
LEMMA ComparedIs ==
  ASSUME PipelineAssumption, PipeTypeOK, GroupRows, RowsInv, NEW source \in Source,
         NEW parsed \in Parsed(source), NEW first, NEW rest,
         first = FirstOf(Old(parsed, source)), rest = Later(parsed, first)
  PROVE  /\ source = "group" => first \cup rest = Group
         /\ source = "catnr" => first \cup rest \subseteq {Target}
         /\ source = "sample" => first \cap Group \subseteq Lead
<1> DEFINE old == {o \in parsed : Replaces(o, source)}
<1>1. parsed \subseteq Tracked
  BY ParsedIsTracked
<1>2. /\ first = {o \in old : \A q \in old : Place[o] <= Place[q]}
      /\ rest = {o \in parsed : \E f \in first : Place[f] < Place[o]}
  BY DEF Old, FirstOf, Later
<1>3. CASE source = "group"
  <2>1. parsed = Group
    BY <1>3 DEF Parsed, Wanted
  <2>2. \A o \in Tracked : Replaces(o, source)
    BY <1>3 DEF Replaces, Epoch, PipeTypeOK, Row
  <2>3. old = Group
    BY <2>1, <2>2, <1>1
  <2>4. CASE Group = {}
    BY <2>1, <2>3, <2>4, <1>2, <1>3
  <2>5. CASE Group # {}
    <3>1. PICK o \in Group : /\ \A q \in Group \ {o} : Place[o] < Place[q]
                             /\ {f \in Group : \A q \in Group : Place[f] <= Place[q]} = {o}
      BY <2>1, <2>5, <1>1, FirstPlaced
    <3>2. first = {o}
      BY <3>1, <2>3, <1>2
    <3>3. rest = Group \ {o}
      <4>1. rest = {q \in Group : Place[o] < Place[q]}
        BY <3>2, <2>1, <1>2
      <4>2. ~(Place[o] < Place[o])
        BY <2>1, <1>1 DEF PipelineAssumption
      <4> QED BY <4>1, <4>2, <3>1
    <3> QED BY <3>2, <3>3, <1>3
  <2> QED BY <2>4, <2>5
<1>4. CASE source = "catnr"
  <2>1. parsed \subseteq {Target}
    BY <1>4 DEF Parsed, Wanted
  <2> QED BY <2>1, <1>2, <1>4
<1>5. CASE source = "sample"
  <2>1. parsed = Bundled
    BY <1>5 DEF Parsed, Wanted
  <2>2. CASE Stored("group")
    <3>1. \A o \in Group \ Lead : ~Replaces(o, source)
      <4> SUFFICES ASSUME NEW o \in Group \ Lead PROVE ~Replaces(o, source)
        OBVIOUS
      <4>1. elsets[o] # NoRow /\ elsets[o].source = "group" /\ o \in Tracked
        BY <2>2 DEF GroupRows, Tracked
      <4>2. elsets[o].epoch = 1
        BY <4>1 DEF RowsInv, Epoch
      <4> QED BY <4>1, <4>2, <1>5 DEF Replaces, Epoch
    <3> QED BY <3>1, <1>2, <1>5
  <2>3. CASE ~Stored("group")
    <3>1. \A o \in Group : Replaces(o, source)
      <4> SUFFICES ASSUME NEW o \in Group, elsets[o] # NoRow PROVE elsets[o].epoch = 0
        BY <1>5 DEF Replaces, Epoch
      <4>1. o \in Tracked /\ elsets[o].source = "sample"
        BY <2>3 DEF GroupRows, Tracked
      <4> QED BY <4>1 DEF RowsInv, Epoch
    <3>2. Group \cap Bundled \subseteq old
      BY <3>1, <2>1
    <3> QED BY <3>2, <2>1, <1>2, <1>5 DEF Lead
  <2> QED BY <2>2, <2>3
<1> QED BY <1>3, <1>4, <1>5 DEF Source

\* What is written: a stored group keeps every row but its first.
LEMMA WrittenIs ==
  ASSUME PipelineAssumption, PipeTypeOK, PollInv, NEW p \in Runs, run[p].stage = "write"
  PROVE  /\ run[p].source = "group" => Written(p) = Group
         /\ run[p].source = "catnr" => Written(p) \subseteq {Target}
         /\ run[p].source = "sample" /\ Stored("group") => Written(p) \cap Group \subseteq Lead
<1> DEFINE r == run[p]
<1>1. OnItsWay(p, r, hour, stored)
  BY DEF PollInv, WaysInv
<1>2. CASE r.source = "group"
  <2>1. r.first \cup r.rest = Group
    BY <1>1, <1>2 DEF OnItsWay
  <2>2. \A o \in Group : Replaces(o, "group")
    BY DEF Replaces, Epoch, PipeTypeOK, Row, Tracked
  <2> QED BY <2>1, <2>2, <1>2 DEF Written
<1>3. CASE r.source = "catnr"
  BY <1>1, <1>3 DEF OnItsWay, Written
<1>4. CASE r.source = "sample" /\ Stored("group")
  <2>1. \A o \in Group \ Lead : ~Replaces(o, "sample")
    <3> SUFFICES ASSUME NEW o \in Group \ Lead PROVE ~Replaces(o, "sample")
      OBVIOUS
    <3>1. elsets[o] # NoRow /\ elsets[o].source = "group" /\ o \in Tracked
      BY <1>4 DEF PollInv, GroupRows, Tracked
    <3>2. elsets[o].epoch = 1
      BY <3>1 DEF PollInv, RowsInv, Epoch
    <3> QED BY <3>1, <3>2 DEF Replaces, Epoch
  <2>2. r.first \cap Group \subseteq Lead
    BY <1>1, <1>4 DEF OnItsWay
  <2> QED BY <2>1, <2>2, <1>4 DEF Written
<1> QED BY <1>2, <1>3, <1>4

LEMMA UpsertKeepsPolls ==
  ASSUME PipelineAssumption, PipeTypeOK, PollInv, NEW p \in Runs, Upsert(p)
  PROVE  PollInv'
<1> DEFINE r == run[p]
           W == Written(p)
           e == Entry(r.source, hour)
<1>1. /\ r.stage = "write" /\ r.source \in Source /\ hour \in Nat /\ pulls' = pulls /\ hour' = hour
      /\ elsets' = [o \in Tracked |-> IF o \in W THEN e ELSE elsets[o]]
      /\ stored' = IF W = {} THEN stored ELSE stored \cup {<<p, r.source>>}
  BY DEF Upsert, PipeTypeOK, Process
<1>2. /\ e # NoRow /\ e.epoch = Epoch(r.source) /\ e.source = r.source /\ e.fetched = hour
  BY <1>1, EntryIsRow DEF Row, Source, PipelineAssumption
<1>3. /\ r.source = "group" => W = Group
      /\ r.source = "catnr" => W \subseteq {Target}
      /\ r.source = "sample" /\ Stored("group") => W \cap Group \subseteq Lead
  BY <1>1, WrittenIs
<1>4. Target \in Tracked /\ Target \notin Group /\ Group \subseteq Tracked
  BY DEF Tracked, PipelineAssumption
<1>5. \A a \in pulls : a.at <= hour /\ a.by \in Runs /\ a.at \in Nat
  BY DEF PollInv, PullsInv, PipeTypeOK
<1> HIDE DEF W, e
<1>6. /\ \A o \in W \cap Tracked : elsets'[o] = e
      /\ \A o \in Tracked \ W : elsets'[o] = elsets[o]
  BY <1>1
<1>7. stored \subseteq stored' /\ stored' \subseteq stored \cup {<<p, r.source>>}
  BY <1>1
<1>8. RowsInv'
  <2> SUFFICES ASSUME NEW o \in Tracked, elsets'[o] # NoRow
               PROVE  /\ elsets'[o].epoch = Epoch(elsets'[o].source) /\ elsets'[o].fetched <= hour
                      /\ o \in Group => elsets'[o].source # "catnr"
    BY <1>1 DEF RowsInv
  <2>1. CASE o \in W
    BY <2>1, <1>6, <1>2, <1>1, <1>3, <1>4
  <2>2. CASE o \notin W
    BY <2>2, <1>6 DEF PollInv, RowsInv
  <2> QED BY <2>1, <2>2
<1>9. GroupRows'
  <2>1. CASE r.source = "group"
    <3>1. \A o \in Group : elsets'[o] = e
      BY <2>1, <1>3, <1>4, <1>6
    <3>2. CASE Group = {}
      <4>1. stored' = stored
        BY <3>2, <2>1, <1>3, <1>1
      <4> QED BY <3>2, <4>1 DEF GroupRows, PollInv, Stored
    <3>3. CASE Group # {}
      <4>1. <<p, "group">> \in stored'
        BY <3>3, <2>1, <1>3, <1>1
      <4>2. Stored("group")'
        BY <4>1 DEF Stored
      <4> QED BY <3>1, <3>3, <4>2, <2>1, <1>1, <1>2, <1>5 DEF GroupRows
    <3> QED BY <3>2, <3>3
  <2>2. CASE r.source # "group"
    <3>1. \A q \in Runs : <<q, "group">> \in stored' <=> <<q, "group">> \in stored
      BY <2>2, <1>7
    <3>2. Stored("group")' <=> Stored("group")
      BY <3>1 DEF Stored
    <3>3. CASE Stored("group")
      <4>1. \A o \in Group \ Lead : elsets'[o] = elsets[o]
        BY <2>2, <3>3, <1>3, <1>4, <1>6, <1>1 DEF Source
      <4>2. \A a \in pulls : <<a.by, "group">> \in stored' <=> <<a.by, "group">> \in stored
        BY <3>1, <1>5
      <4>3. GroupRows
        BY DEF PollInv
      <4> QED BY <3>2, <3>3, <4>1, <4>2, <4>3, <1>1 DEF GroupRows
    <3>4. CASE ~Stored("group")
      <4>1. \A o \in Group : elsets[o] = NoRow \/ elsets[o].source = "sample"
        BY <3>4 DEF PollInv, GroupRows
      <4>2. \A o \in Group : elsets'[o] = NoRow \/ elsets'[o].source = "sample"
        <5> TAKE o \in Group
        <5>1. CASE o \in W
          BY <5>1, <2>2, <1>1, <1>2, <1>3, <1>4, <1>6 DEF Source
        <5>2. CASE o \notin W
          BY <5>2, <4>1, <1>4, <1>6
        <5> QED BY <5>1, <5>2
      <4> QED BY <3>2, <3>4, <4>2 DEF GroupRows
    <3> QED BY <3>3, <3>4
  <2> QED BY <2>1, <2>2
<1>10. TargetRow'
  <2> SUFFICES ASSUME NEW a \in pulls, a.source = "catnr", <<a.by, "catnr">> \in stored'
               PROVE  elsets'[Target] # NoRow /\ a.at <= elsets'[Target].fetched
    BY <1>1 DEF TargetRow
  <2>1. CASE Target \in W
    BY <2>1, <1>2, <1>4, <1>5, <1>6
  <2>2. CASE Target \notin W
    <3>1. <<a.by, "catnr">> \in stored
      BY <2>2, <1>1, <1>3
    <3> QED BY <3>1, <2>2, <1>4, <1>6 DEF PollInv, TargetRow
  <2> QED BY <2>1, <2>2
<1>11. PullsInv' /\ PollsSpaced'
  BY <1>1, <1>7 DEF PollInv, PullsInv, PollsSpaced
<1>12. WaysInv'
  <2> SUFFICES ASSUME NEW q \in Runs PROVE OnItsWay(q, run'[q], hour, stored')
    BY <1>1 DEF WaysInv
  <2>1. OnItsWay(q, run[q], hour, stored)
    BY DEF PollInv, WaysInv
  <2>2. CASE q = p
    <3>1. /\ run'[p].moment = r.moment
          /\ \/ run'[p].stage = "load"
             \/ r.source = "group" /\ run'[p].source = "catnr" /\ run'[p].stage = "refresh"
             \/ r.source = "catnr" /\ run'[p].source = "sample" /\ run'[p].stage = "settle"
      BY <1>1, UpsertMoves DEF NextSource, Source
    <3>2. r.source = "group" => <<p, "catnr">> \notin stored'
      BY <2>1, <2>2, <1>1, <1>7 DEF OnItsWay
    <3> QED BY <2>1, <2>2, <3>1, <3>2 DEF OnItsWay
  <2>3. CASE q # p
    <3>1. /\ run'[q].stage = run[q].stage /\ SamePoll(run'[q], run[q])
          /\ run'[q].moment = run[q].moment
      BY <2>3, UpsertMoves
    <3>2. \A s \in Source : <<q, s>> \in stored' <=> <<q, s>> \in stored
      BY <2>3, <1>7
    <3> QED BY <2>1, <3>1, <3>2 DEF OnItsWay, SamePoll, Source
  <2> QED BY <2>2, <2>3
<1> QED BY <1>8, <1>9, <1>10, <1>11, <1>12 DEF PollInv

LEMMA FetchKeepsPolls ==
  ASSUME PipelineAssumption, PipeTypeOK, PollInv, NEW p \in Runs, Fetch(p)
  PROVE  PollInv'
<1> DEFINE r == run[p]
           s == r.source
           b == [by |-> p, source |-> s, at |-> hour,
                 after |-> {q \in Runs : <<q, s>> \in stored}]
<1>1. /\ r.stage = "refresh" /\ ~IsFresh(s, r.moment) /\ pulls' = pulls \cup {b}
      /\ hour' = hour /\ elsets' = elsets /\ stored' = stored /\ Goes(p, "compare")
  BY DEF Fetch
<1>2. OnItsWay(p, r, hour, stored)
  BY DEF PollInv, WaysInv
<1>3. s \in {"group", "catnr"} /\ <<p, s>> \notin stored /\ <<p, "catnr">> \notin stored
      /\ r.moment <= hour /\ r.moment \in Nat /\ hour \in Nat
  BY <1>1, <1>2 DEF OnItsWay, PipeTypeOK, Process
<1>4. b.by = p /\ b.source = s /\ b.at = hour /\ b.after = {q \in Runs : <<q, s>> \in stored}
  OBVIOUS
<1> HIDE DEF b
<1>5. WaysInv'
  <2>1. PICK n \in Process : /\ Moved(p, n) /\ n.stage = "compare" /\ n.moment = r.moment
                             /\ SamePoll(n, r)
    BY <1>1, GoesMoves DEF PipeStages
  <2>2. OnItsWay(p, n, hour, stored)
    BY <2>1, <1>1, <1>2, <1>3 DEF OnItsWay, SamePoll
  <2> QED BY <2>1, <2>2, <1>1, OthersOnTheirWay DEF PollInv
<1>6. RowsInv'
  BY <1>1 DEF PollInv, RowsInv
<1>7. GroupRows' /\ TargetRow'
  <2>1. GroupRows /\ TargetRow
    BY DEF PollInv
  <2>2. /\ b.source = "group" => <<b.by, "group">> \notin stored
        /\ b.source = "catnr" => <<b.by, "catnr">> \notin stored
    BY <1>3, <1>4
  <2> QED BY <2>1, <2>2, <1>1 DEF GroupRows, TargetRow, Stored
<1>8. PullsInv'
  BY <1>1, <1>3, <1>4 DEF PollInv, PullsInv
<1>9. ASSUME NEW a \in pulls, a.source = s, a.by \in b.after
      PROVE  b.at - a.at >= Interval
  <2>1. <<a.by, s>> \in stored /\ a.by \in Runs /\ a.at \in Nat
    BY <1>9, <1>4 DEF PipeTypeOK
  <2>2. PICK o \in Cached : /\ IF s = "catnr" THEN o = Target ELSE elsets[o].source = s
                            /\ a.at <= elsets[o].fetched /\ elsets[o].fetched \in Nat
    <3>1. CASE s = "catnr"
      <4>1. Target \in Tracked /\ elsets[Target] # NoRow /\ a.at <= elsets[Target].fetched
        BY <3>1, <2>1, <1>9 DEF PollInv, TargetRow, Tracked
      <4> QED BY <4>1, <3>1 DEF Cached, PipeTypeOK, Row
    <3>2. CASE s = "group"
      <4>1. Stored("group")
        BY <3>2, <2>1 DEF Stored
      <4>2. PICK o \in Group : o \notin Lead
        BY <4>1, OneIsNotLead DEF PollInv, GroupRows
      <4>3. /\ o \in Tracked /\ elsets[o] # NoRow /\ elsets[o].source = "group"
            /\ a.at <= elsets[o].fetched
        BY <4>1, <4>2, <3>2, <2>1, <1>9 DEF PollInv, GroupRows, Tracked
      <4> QED BY <4>3, <3>2 DEF Cached, PipeTypeOK, Row
    <3> QED BY <3>1, <3>2, <1>3
  <2>3. FetchedAt(s) \in Nat /\ elsets[o].fetched <= FetchedAt(s)
    BY <2>2, <1>3, FetchedSince DEF PollInv
  <2>4. r.moment - FetchedAt(s) >= Interval
    BY <2>3, <1>1, <1>3 DEF IsFresh, PipelineAssumption
  <2> QED BY <2>1, <2>2, <2>3, <2>4, <1>3, <1>4 DEF PipelineAssumption
<1>10. PollsSpaced'
  <2> SUFFICES ASSUME NEW a \in pulls \cup {b}, NEW c \in pulls \cup {b},
                      a.source = c.source, a.by \in c.after
               PROVE  c.at - a.at >= Interval
    BY <1>1 DEF PollsSpaced
  <2>1. a # b
    BY <1>3, <1>4 DEF PollInv, PullsInv
  <2>2. CASE c = b
    BY <2>1, <2>2, <1>4, <1>9
  <2>3. CASE c # b
    BY <2>1, <2>3 DEF PollInv, PollsSpaced
  <2> QED BY <2>2, <2>3
<1> QED BY <1>5, <1>6, <1>7, <1>8, <1>10 DEF PollInv

LEMMA PollsAreKept ==
  ASSUME PipelineAssumption, PipeTypeOK, PollInv, [PipeNext]_pipeVars
  PROVE  PollInv'
<1>1. CASE UNCHANGED pipeVars
  <2>1. hour \in Nat
    BY DEF PipeTypeOK
  <2>2. WaysInv'
    BY <1>1 DEF pipeVars, PollInv, WaysInv, OnItsWay
  <2> QED BY <1>1, <2>1, <2>2, CacheStands DEF pipeVars, SameCache, PollInv
<1>2. CASE Hour
  <2>1. hour' \in Nat /\ hour <= hour' /\ SameCache
    BY <1>2 DEF Hour, PipeTypeOK, SameCache
  <2>2. WaysInv'
    <3> SUFFICES ASSUME NEW q \in Runs PROVE OnItsWay(q, run[q], hour', stored)
      BY <1>2 DEF WaysInv, Hour
    <3>1. OnItsWay(q, run[q], hour, stored) /\ run[q].moment \in Nat /\ hour \in Nat
      BY DEF PollInv, WaysInv, PipeTypeOK, Process
    <3> QED BY <3>1, <2>1 DEF OnItsWay
  <2> QED BY <2>1, <2>2, CacheStands DEF PollInv
<1>3. ASSUME NEW p \in Runs, NEW n \in Process, Moved(p, n), OnItsWay(p, n, hour, stored),
             SameCache, hour' = hour
      PROVE  PollInv'
  <2>1. hour \in Nat
    BY DEF PipeTypeOK
  <2>2. WaysInv'
    BY <1>3, OthersOnTheirWay DEF PollInv, SameCache
  <2> QED BY <1>3, <2>1, <2>2, CacheStands DEF PollInv
<1>4. ASSUME NEW p \in Runs
      PROVE  OnItsWay(p, run[p], hour, stored) /\ run[p].moment \in Nat /\ hour \in Nat
  BY DEF PollInv, WaysInv, PipeTypeOK, Process
<1>5. ASSUME NEW p \in Runs, Begin(p) PROVE PollInv'
  <2>1. PICK n \in Process : /\ Moved(p, n) /\ n.stage = "refresh" /\ n.moment = hour
                             /\ SamePoll(n, run[p])
    BY <1>5, BeginMoves
  <2>2. OnItsWay(p, n, hour, stored)
    BY <1>4, <1>5, <2>1 DEF Begin, OnItsWay, SamePoll
  <2> QED BY <1>3, <1>5, <2>1, <2>2 DEF Begin, SameCache
<1>6. ASSUME NEW p \in Runs, Skip(p) \/ FetchFails(p) PROVE PollInv'
  <2>1. PICK n \in Process :
          /\ Moved(p, n) /\ n.source = NextSource(run[p].source) /\ n.moment = run[p].moment
          /\ n.stage = (IF run[p].source = "group" THEN "refresh" ELSE "settle")
    BY <1>6, PassedMoves
  <2>2. run[p].stage = "refresh"
    BY <1>6 DEF Skip, FetchFails
  <2>3. OnItsWay(p, n, hour, stored)
    BY <1>4, <2>1, <2>2 DEF OnItsWay, NextSource
  <2> QED BY <1>3, <1>6, <2>1, <2>3 DEF Skip, FetchFails, SameCache
<1>7. ASSUME NEW p \in Runs, Compare(p) PROVE PollInv'
  <2> DEFINE r == run[p]
  <2>1. PICK parsed \in Parsed(r.source), n \in Process :
          /\ Moved(p, n) /\ n.stage = "write" /\ n.source = r.source /\ n.moment = r.moment
          /\ n.first = FirstOf(Old(parsed, r.source)) /\ n.rest = Later(parsed, n.first)
    BY <1>7, CompareMoves
  <2>2. r.source \in Source
    BY DEF PipeTypeOK, Process
  <2>3. /\ r.source = "group" => n.first \cup n.rest = Group
        /\ r.source = "catnr" => n.first \cup n.rest \subseteq {Target}
        /\ r.source = "sample" => n.first \cap Group \subseteq Lead
    BY <2>1, <2>2, ComparedIs DEF PollInv
  <2>4. OnItsWay(p, n, hour, stored)
    BY <1>4, <1>7, <2>1, <2>3 DEF Compare, OnItsWay
  <2> QED BY <1>3, <1>7, <2>1, <2>4 DEF Compare, SameCache
<1>8. ASSUME NEW p \in Runs, Settle(p) PROVE PollInv'
  <2>1. PICK n \in Process : /\ Moved(p, n) /\ n.stage \in {"compare", "load"}
                             /\ n.moment = run[p].moment /\ SamePoll(n, run[p])
    BY <1>8, SettleMoves
  <2>2. OnItsWay(p, n, hour, stored)
    BY <1>4, <1>8, <2>1 DEF Settle, OnItsWay, SamePoll
  <2> QED BY <1>3, <1>8, <2>1, <2>2 DEF Settle, SameCache
<1>9. ASSUME NEW p \in Runs, Load(p) \/ Label(p) \/ NoTarget(p) \/ Dispatch(p) \/ Save(p)
                             \/ Die(p) \/ \E delivered \in BOOLEAN : Send(p, delivered)
      PROVE  PollInv'
  <2>1. Send(p, TRUE) \/ Send(p, FALSE) => Goes(p, "save")
    BY DEF Send
  <2>2. \E n \in Process : /\ Moved(p, n) /\ n.moment \in {0, hour, run[p].moment}
                           /\ n.stage \in {"label", "screened", "send", "save", "done", "dead"}
    BY <1>9, <2>1, LoadMoves, LabelMoves, EndsMoves, DispatchMoves, GoesMoves
       DEF NoTarget, Save, Die, Send, PipeStages
  <2>3. PICK n \in Process : Moved(p, n) /\ OnItsWay(p, n, hour, stored)
    BY <1>4, <2>2, PastPolls DEF OnItsWay
  <2>4. SameCache /\ hour' = hour
    BY <1>9 DEF Load, Label, NoTarget, Dispatch, Save, Die, Send, SameCache
  <2> QED BY <1>3, <2>3, <2>4
<1> QED BY <1>1, <1>2, <1>5, <1>6, <1>7, <1>8, <1>9, UpsertKeepsPolls, FetchKeepsPolls DEF PipeNext

\* A source that a run has stored is not downloaded again within the interval
\* that CelesTrak asks for: refresh_catalog.
THEOREM PollsAreSpaced == PipeSpec => []PollsSpaced
<1>1. PipeInit => PipeTypeOK /\ PollInv
  <2> SUFFICES ASSUME PipeInit PROVE PollInv
    BY PipeTypesInit
  <2>1. \A p \in Runs : run[p].stage = "new" /\ run[p].source = "group" /\ run[p].moment = 0
    BY WaitingType DEF PipeInit
  <2>2. WaysInv
    BY <2>1 DEF PipeInit, WaysInv, OnItsWay
  <2>3. ~Stored("group")
    BY DEF PipeInit, Stored
  <2>4. \A o \in Tracked : elsets[o] = NoRow
    BY DEF PipeInit
  <2>5. pulls = {}
    BY DEF PipeInit
  <2> QED BY <2>2, <2>3, <2>4, <2>5
          DEF PollInv, RowsInv, GroupRows, TargetRow, PullsInv, PollsSpaced, Tracked
<1>2. PipeTypeOK /\ PollInv /\ [PipeNext]_pipeVars => (PipeTypeOK /\ PollInv)'
  BY PipelineAssumption, PipeTypes, PollsAreKept
<1>3. PollInv => PollsSpaced
  BY DEF PollInv
<1> QED BY <1>1, <1>2, <1>3, PTL DEF PipeSpec

-----------------------------------------------------------------------------
(* The cooldown.                                                           *)

\* The file remembers each alert delivered, or will when its dispatch is saved;
\* while no dispatch overlaps another, what one has read of the file stands.
AlertInv ==
  /\ \A a \in sent : run[a.by].stage \in {"save", "done", "dead"}
  /\ calm =>
       /\ \A p, q \in Runs : Dispatching(p) /\ Dispatching(q) => p = q
       /\ \A p \in Runs :
            Dispatching(p) =>
              /\ run[p].memory = alerted
              /\ \A o \in run[p].fresh :
                   alerted[o] < 0 \/ run[p].moment - alerted[o] >= Cooldown
       /\ \A a \in sent :
            \/ /\ run[a.by].stage = "save" /\ a.at = run[a.by].moment
               /\ a.of \in run[a.by].fresh
            \/ a.at <= alerted[a.of]
  /\ CooldownHonoured

SameDispatch(n, r) ==
  n.stage = r.stage /\ n.moment = r.moment /\ n.memory = r.memory /\ n.fresh = r.fresh

LEMMA OutsideDispatch ==
  ASSUME PipeTypeOK, AlertInv, NEW p \in Runs,
         run[p].stage \notin {"send", "save", "done", "dead"},
         run'[p].stage \notin {"send", "save"},
         \A q \in Runs \ {p} : SameDispatch(run'[q], run[q]),
         alerted' = alerted, sent' = sent, calm' => calm
  PROVE  AlertInv'
<1>1. \A a \in sent : a.by \in Runs /\ a.by # p
  BY DEF AlertInv, PipeTypeOK
<1>2. \A q \in Runs : Dispatching(q)' => q # p /\ Dispatching(q)
  BY DEF Dispatching, SameDispatch
<1>3. \A a \in sent : SameDispatch(run'[a.by], run[a.by])
  BY <1>1
<1>4. \A a \in sent' : run'[a.by].stage \in {"save", "done", "dead"}
  BY <1>3 DEF AlertInv, SameDispatch
<1>5. ASSUME calm'
      PROVE  /\ \A q, s \in Runs : Dispatching(q)' /\ Dispatching(s)' => q = s
             /\ \A q \in Runs : Dispatching(q)' =>
                  /\ run'[q].memory = alerted'
                  /\ \A o \in run'[q].fresh :
                       alerted'[o] < 0 \/ run'[q].moment - alerted'[o] >= Cooldown
             /\ \A a \in sent' :
                  \/ /\ run'[a.by].stage = "save" /\ a.at = run'[a.by].moment
                     /\ a.of \in run'[a.by].fresh
                  \/ a.at <= alerted'[a.of]
  <2>1. calm
    BY <1>5
  <2>2. \A q, s \in Runs : Dispatching(q)' /\ Dispatching(s)' => q = s
    BY <1>2, <2>1 DEF AlertInv
  <2>3. ASSUME NEW q \in Runs, Dispatching(q)'
        PROVE  /\ run'[q].memory = alerted'
               /\ \A o \in run'[q].fresh :
                    alerted'[o] < 0 \/ run'[q].moment - alerted'[o] >= Cooldown
    <3>1. q # p /\ Dispatching(q)
      BY <1>2, <2>3
    <3> QED BY <3>1, <2>1 DEF AlertInv, SameDispatch
  <2>4. \A a \in sent' : \/ /\ run'[a.by].stage = "save" /\ a.at = run'[a.by].moment
                            /\ a.of \in run'[a.by].fresh
                         \/ a.at <= alerted'[a.of]
    BY <1>3, <2>1 DEF AlertInv, SameDispatch
  <2> QED BY <2>2, <2>3, <2>4
<1>6. CooldownHonoured'
  BY DEF AlertInv, CooldownHonoured
<1> QED BY <1>4, <1>5, <1>6 DEF AlertInv

LEMMA DispatchKeepsAlerts ==
  ASSUME PipelineAssumption, PipeTypeOK, AlertInv, NEW p \in Runs, Dispatch(p)
  PROVE  AlertInv'
<1>1. /\ run[p].stage = "screened" /\ alerted' = alerted /\ sent' = sent /\ hour \in Nat
      /\ calm' = (calm /\ \A q \in Runs : ~Dispatching(q)) /\ calm \in BOOLEAN
  BY DEF Dispatch, PipeTypeOK
<1>2. PICK n \in Process :
        /\ Moved(p, n)
        /\ \/ n.stage = "done"
           \/ /\ n.stage = "send" /\ n.moment = hour /\ n.memory = alerted
              /\ \A o \in n.fresh : ~InCooldown(alerted, o)
  BY DispatchMoves
<1>3. CASE n.stage = "done"
  <2>1. run'[p].stage = "done" /\ \A q \in Runs \ {p} : SameDispatch(run'[q], run[q])
    BY <1>2, <1>3 DEF Moved, SameDispatch
  <2> QED BY <1>1, <2>1, OutsideDispatch
<1>4. CASE n.stage = "send"
  <2>1. \A a \in sent : a.by \in Runs /\ a.by # p /\ run'[a.by] = run[a.by]
    BY <1>1, <1>2 DEF AlertInv, PipeTypeOK, Moved
  <2>2. \A a \in sent' : run'[a.by].stage \in {"save", "done", "dead"}
    BY <1>1, <2>1 DEF AlertInv
  <2>3. ASSUME calm'
        PROVE  /\ \A q, s \in Runs : Dispatching(q)' /\ Dispatching(s)' => q = s
               /\ \A q \in Runs : Dispatching(q)' =>
                    /\ run'[q].memory = alerted'
                    /\ \A o \in run'[q].fresh :
                         alerted'[o] < 0 \/ run'[q].moment - alerted'[o] >= Cooldown
               /\ \A a \in sent' :
                    \/ /\ run'[a.by].stage = "save" /\ a.at = run'[a.by].moment
                       /\ a.of \in run'[a.by].fresh
                    \/ a.at <= alerted'[a.of]
    <3>1. calm /\ \A q \in Runs : ~Dispatching(q)
      BY <2>3, <1>1
    <3>2. \A q \in Runs : Dispatching(q)' => q = p
      BY <3>1, <1>2 DEF Moved, Dispatching
    <3>3. \A o \in n.fresh : alerted[o] < 0 \/ n.moment - alerted[o] >= Cooldown
      <4> TAKE o \in n.fresh
      <4>1. o \in Tracked /\ alerted[o] \in Int /\ ~InCooldown(alerted, o) /\ n.moment = hour
        BY <1>2, <1>4 DEF PipeTypeOK, Process
      <4> QED BY <4>1, <1>1 DEF InCooldown, PipelineAssumption
    <3>4. run'[p] = n /\ n.memory = alerted
      BY <1>2, <1>4 DEF Moved
    <3>5. \A a \in sent : a.at <= alerted[a.of]
      BY <3>1, <2>1 DEF AlertInv, Dispatching
    <3> QED BY <3>2, <3>3, <3>4, <3>5, <1>1
  <2>4. CooldownHonoured'
    BY <1>1 DEF AlertInv, CooldownHonoured
  <2> QED BY <2>2, <2>3, <2>4 DEF AlertInv
<1> QED BY <1>2, <1>3, <1>4

LEMMA SendKeepsAlerts ==
  ASSUME PipelineAssumption, PipeTypeOK, AlertInv, NEW p \in Runs,
         NEW delivered \in BOOLEAN, Send(p, delivered)
  PROVE  AlertInv'
<1> DEFINE r == run[p]
           new == {[by |-> p, of |-> o, at |-> r.moment] : o \in r.fresh}
<1>1. /\ r.stage = "send" /\ alerted' = alerted /\ calm' = calm /\ calm \in BOOLEAN
      /\ Goes(p, "save") /\ sent' \subseteq sent \cup new /\ r \in Process
  BY DEF Send, PipeTypeOK
<1>2. PICK n \in Process : /\ Moved(p, n) /\ n.stage = "save" /\ n.moment = r.moment
                           /\ n.memory = r.memory /\ n.fresh = r.fresh
  BY <1>1, GoesMoves DEF PipeStages
<1>3. \A a \in new : a.by = p /\ a.of \in r.fresh /\ a.at = r.moment
  OBVIOUS
<1>4. \A a \in sent : /\ a.by \in Runs /\ a.by # p /\ run'[a.by] = run[a.by]
                      /\ a.at \in Nat /\ a.of \in Tracked
  BY <1>1, <1>2 DEF AlertInv, PipeTypeOK, Moved
<1>5. run'[p] = n /\ \A q \in Runs \ {p} : run'[q] = run[q]
  BY <1>2 DEF Moved
<1> HIDE DEF new, r
<1>6. \A a \in sent' : run'[a.by].stage \in {"save", "done", "dead"}
  <2> SUFFICES ASSUME NEW a \in sent \cup new PROVE run'[a.by].stage \in {"save", "done", "dead"}
    BY <1>1
  <2>1. CASE a \in sent
    BY <2>1, <1>4 DEF AlertInv
  <2>2. CASE a \in new
    BY <2>2, <1>2, <1>3, <1>5
  <2> QED BY <2>1, <2>2
<1>7. \A q \in Runs : Dispatching(q)' <=> Dispatching(q)
  BY <1>1, <1>2, <1>5 DEF Dispatching, r
<1>8. ASSUME calm
      PROVE  /\ \A q, s \in Runs : Dispatching(q)' /\ Dispatching(s)' => q = s
             /\ \A q \in Runs : Dispatching(q)' =>
                  /\ run'[q].memory = alerted'
                  /\ \A o \in run'[q].fresh :
                       alerted'[o] < 0 \/ run'[q].moment - alerted'[o] >= Cooldown
             /\ \A a \in sent' :
                  \/ /\ run'[a.by].stage = "save" /\ a.at = run'[a.by].moment
                     /\ a.of \in run'[a.by].fresh
                  \/ a.at <= alerted'[a.of]
             /\ CooldownHonoured'
  <2>1. \A q, s \in Runs : Dispatching(q)' /\ Dispatching(s)' => q = s
    BY <1>7, <1>8 DEF AlertInv
  <2>2. ASSUME NEW q \in Runs, Dispatching(q)'
        PROVE  /\ run'[q].memory = alerted'
               /\ \A o \in run'[q].fresh :
                    alerted'[o] < 0 \/ run'[q].moment - alerted'[o] >= Cooldown
    <3>1. /\ run[q].memory = alerted
          /\ \A o \in run[q].fresh : alerted[o] < 0 \/ run[q].moment - alerted[o] >= Cooldown
      BY <1>7, <1>8, <2>2 DEF AlertInv
    <3>2. SameDispatch(run'[q], run[q]) \/ q = p
      BY <1>5 DEF SameDispatch
    <3>3. run'[q].memory = run[q].memory /\ run'[q].fresh = run[q].fresh
          /\ run'[q].moment = run[q].moment
      BY <3>2, <1>2, <1>5 DEF SameDispatch, r
    <3> QED BY <3>1, <3>3, <1>1
  <2>3. \A a \in new : /\ run'[a.by].stage = "save" /\ a.at = run'[a.by].moment
                       /\ a.of \in run'[a.by].fresh
    BY <1>2, <1>3, <1>5
  <2>4. \A a \in sent : \/ /\ run'[a.by].stage = "save" /\ a.at = run'[a.by].moment
                           /\ a.of \in run'[a.by].fresh
                        \/ a.at <= alerted'[a.of]
    BY <1>1, <1>4, <1>8 DEF AlertInv
  \* Alerts delivered before are remembered, and what is fresh is past their
  \* cooldown.
  <2>5. ASSUME NEW a \in sent, NEW b \in new, a.of = b.of
        PROVE  b.at - a.at >= Cooldown /\ a.at \in Nat /\ b.at \in Nat
    <3>1. Dispatching(p) /\ r.fresh \subseteq Tracked /\ r.moment \in Nat
      BY <1>1 DEF Dispatching, Process, r
    <3>2. run[a.by].stage # "save"
      BY <1>4, <1>8, <3>1, <1>1 DEF AlertInv, Dispatching, r
    <3>3. a.at <= alerted[a.of] /\ alerted[a.of] \in Int
      BY <1>4, <1>8, <3>2 DEF AlertInv, PipeTypeOK
    <3>4. alerted[a.of] < 0 \/ r.moment - alerted[a.of] >= Cooldown
      BY <1>3, <1>8, <2>5, <3>1 DEF AlertInv, r
    <3> QED BY <1>3, <1>4, <3>1, <3>3, <3>4 DEF PipelineAssumption
  <2>6. CooldownHonoured'
    <3> SUFFICES ASSUME NEW a \in sent \cup new, NEW b \in sent \cup new,
                        a.of = b.of, a.by # b.by, a.at <= b.at
                 PROVE  b.at - a.at >= Cooldown
      BY <1>1 DEF CooldownHonoured
    <3>1. CASE a \in sent /\ b \in sent
      BY <1>8, <3>1 DEF AlertInv, CooldownHonoured
    <3>2. CASE a \in sent /\ b \in new
      BY <2>5, <3>2
    <3>3. CASE a \in new /\ b \in sent
      <4>1. a.at - b.at >= Cooldown /\ a.at \in Nat /\ b.at \in Nat
        BY <2>5, <3>3
      <4> QED BY <4>1 DEF PipelineAssumption
    <3>4. CASE a \in new /\ b \in new
      BY <1>3, <3>4
    <3> QED BY <3>1, <3>2, <3>3, <3>4
  <2>7. \A a \in sent' : \/ /\ run'[a.by].stage = "save" /\ a.at = run'[a.by].moment
                            /\ a.of \in run'[a.by].fresh
                         \/ a.at <= alerted'[a.of]
    BY <1>1, <2>3, <2>4
  <2> QED BY <2>1, <2>2, <2>6, <2>7
<1>9. CooldownHonoured'
  BY <1>1, <1>8 DEF CooldownHonoured
<1> QED BY <1>1, <1>6, <1>8, <1>9 DEF AlertInv

LEMMA SaveKeepsAlerts ==
  ASSUME PipelineAssumption, PipeTypeOK, AlertInv, NEW p \in Runs, Save(p)
  PROVE  AlertInv'
<1> DEFINE r == run[p]
<1>1. /\ r.stage = "save" /\ sent' = sent /\ calm' = calm /\ r \in Process
      /\ alerted' = [o \in Tracked |-> IF o \in r.fresh THEN r.moment ELSE r.memory[o]]
      /\ Ends(p, "done")
  BY DEF Save, PipeTypeOK
<1>2. run'[p].stage = "done" /\ \A q \in Runs \ {p} : run'[q] = run[q]
  BY <1>1, EndsMoves DEF Moved
<1>3. \A a \in sent : a.by \in Runs /\ a.of \in Tracked /\ a.at \in Nat
  BY DEF PipeTypeOK
<1>4. \A a \in sent : run'[a.by].stage \in {"save", "done", "dead"}
  BY <1>2, <1>3 DEF AlertInv
<1>5. ASSUME calm
      PROVE  /\ \A q \in Runs : ~Dispatching(q)'
             /\ \A a \in sent : a.at <= alerted'[a.of]
  <2>1. Dispatching(p)
    BY <1>1 DEF Dispatching
  <2>2. \A q \in Runs : Dispatching(q) => q = p
    BY <1>5, <2>1 DEF AlertInv
  <2>3. \A q \in Runs : ~Dispatching(q)'
    BY <1>2, <2>2 DEF Dispatching
  <2>4. /\ r.memory = alerted /\ r.moment \in Nat /\ alerted \in [Tracked -> Int]
        /\ \A o \in r.fresh : alerted[o] < 0 \/ r.moment - alerted[o] >= Cooldown
    BY <1>1, <1>5, <2>1 DEF AlertInv, Process, PipeTypeOK
  <2>5. ASSUME NEW a \in sent PROVE a.at <= alerted'[a.of]
    <3>1. \/ a.at = r.moment /\ a.of \in r.fresh
          \/ a.at <= alerted[a.of]
      <4>1. run[a.by].stage = "save" => a.by = p
        BY <1>3, <2>2 DEF Dispatching
      <4> QED BY <4>1, <1>5 DEF AlertInv
    <3>2. /\ a.of \in r.fresh => alerted'[a.of] = r.moment
          /\ a.of \notin r.fresh => alerted'[a.of] = alerted[a.of]
      BY <1>1, <1>3, <2>4
    <3>3. alerted[a.of] \in Int /\ a.at \in Nat
      BY <1>3, <2>4
    <3> HIDE DEF r
    <3> QED BY <3>1, <3>2, <3>3, <2>4 DEF PipelineAssumption
  <2> QED BY <2>3, <2>5
<1>6. CooldownHonoured'
  BY <1>1 DEF AlertInv, CooldownHonoured
<1> QED BY <1>1, <1>4, <1>5, <1>6 DEF AlertInv

LEMMA DieKeepsAlerts ==
  ASSUME PipeTypeOK, AlertInv, NEW p \in Runs, Die(p)
  PROVE  AlertInv'
<1>1. /\ run[p].stage \notin {"new", "done", "dead"} /\ sent' = sent
      /\ calm' = (calm /\ ~Dispatching(p)) /\ Ends(p, "dead")
      /\ run[p].stage # "save" => alerted' = alerted
  BY DEF Die
<1>2. run'[p].stage = "dead" /\ \A q \in Runs \ {p} : run'[q] = run[q]
  BY <1>1, EndsMoves DEF Moved
<1>3. CASE Dispatching(p)
  <2>1. ~calm'
    BY <1>1, <1>3
  <2>2. \A a \in sent' : run'[a.by].stage \in {"save", "done", "dead"}
    BY <1>1, <1>2 DEF AlertInv, PipeTypeOK
  <2> QED BY <2>1, <2>2 DEF AlertInv, CooldownHonoured
<1>4. CASE ~Dispatching(p)
  <2>1. run[p].stage \notin {"send", "save"}
    BY <1>4 DEF Dispatching
  <2> QED BY <1>1, <1>2, <2>1, OutsideDispatch DEF SameDispatch
<1> QED BY <1>3, <1>4

LEMMA AlertsAreKept ==
  ASSUME PipelineAssumption, PipeTypeOK, AlertInv, [PipeNext]_pipeVars
  PROVE  AlertInv'
<1>1. CASE Hour \/ UNCHANGED pipeVars
  BY <1>1 DEF Hour, pipeVars, AlertInv, Dispatching, CooldownHonoured
<1>2. ASSUME NEW p \in Runs, Begin(p) \/ Skip(p) \/ FetchFails(p) \/ Fetch(p) \/ Compare(p)
                             \/ Settle(p) \/ Load(p) \/ Label(p) \/ NoTarget(p)
      PROVE  AlertInv'
  <2>1. /\ run[p].stage \in {"new", "refresh", "compare", "settle", "load", "label"}
        /\ alerted' = alerted /\ sent' = sent /\ calm' = calm
    BY <1>2 DEF Begin, Skip, FetchFails, Fetch, Compare, Settle, Load, Label, NoTarget
  <2>2. Fetch(p) => Goes(p, "compare")
    BY DEF Fetch
  <2>3. \E n \in Process : Moved(p, n) /\ n.stage \notin {"send", "save"}
    BY <1>2, <2>2, BeginMoves, PassedMoves, CompareMoves, SettleMoves, LoadMoves, LabelMoves,
       EndsMoves, GoesMoves DEF NoTarget, PipeStages
  <2> QED BY <2>1, <2>3, OutsideDispatch DEF Moved, SameDispatch
<1>3. ASSUME NEW p \in Runs, Upsert(p) PROVE AlertInv'
  <2>1. /\ run[p].stage = "write" /\ alerted' = alerted /\ sent' = sent /\ calm' = calm
    BY <1>3 DEF Upsert
  <2>2. run'[p].stage \notin {"send", "save"}
    BY <1>3, UpsertMoves
  <2>3. \A q \in Runs \ {p} : SameDispatch(run'[q], run[q])
    BY <1>3, UpsertMoves DEF SameDispatch
  <2> QED BY <2>1, <2>2, <2>3, OutsideDispatch
<1> QED BY <1>1, <1>2, <1>3, DispatchKeepsAlerts, SendKeepsAlerts, SaveKeepsAlerts,
        DieKeepsAlerts DEF PipeNext

\* A pair is alerted on once in a cooldown, as long as no dispatch overlaps
\* another and none dies before it has saved: AlertDispatcher.
THEOREM CooldownsAreHonoured == PipeSpec => []CooldownHonoured
<1>1. PipeInit => PipeTypeOK /\ AlertInv
  <2> SUFFICES ASSUME PipeInit PROVE AlertInv
    BY PipeTypesInit
  <2>1. \A p \in Runs : ~Dispatching(p)
    BY WaitingType DEF PipeInit, Dispatching
  <2>2. sent = {}
    BY DEF PipeInit
  <2> QED BY <2>1, <2>2 DEF AlertInv, CooldownHonoured
<1>2. PipeTypeOK /\ AlertInv /\ [PipeNext]_pipeVars => (PipeTypeOK /\ AlertInv)'
  BY PipelineAssumption, PipeTypes, AlertsAreKept
<1>3. AlertInv => CooldownHonoured
  BY DEF AlertInv
<1> QED BY <1>1, <1>2, <1>3, PTL DEF PipeSpec

-----------------------------------------------------------------------------
(* The motion, sample by sample.                                           *)

LEMMA FineSteps ==
  /\ Intervals \in Nat \ {0} /\ Fine \in Nat \ {0} /\ Coarse \in Nat /\ Report \in Nat
  /\ Report <= Coarse /\ Tolerance \in Nat /\ 2 <= Fine
  /\ (Fine * Fine) \div 2 \in Nat /\ 2 * ((Fine * Fine) \div 2) = Fine * Fine
<1> DEFINE h == Fine \div 2
           q == h * h
<1>1. Fine \in Nat \ {0} /\ h \in Nat /\ Fine = 2 * h /\ 2 <= Fine
  BY ScreeningAssumption
<1> HIDE DEF h
<1>2. q \in Nat /\ Fine * Fine = 4 * q
  BY <1>1
<1> HIDE DEF q
<1>3. (4 * q) \div 2 = 2 * q
  BY <1>2
<1> QED BY <1>1, <1>2, <1>3, ScreeningAssumption

Point == [x : Int, v : Int]

\* The sample after s, with acceleration a between them.
After(s, a) ==
  [x |-> s.x + s.v * Fine + a * ((Fine * Fine) \div 2), v |-> s.v + a * Fine]

First == [x |-> motion.x, v |-> motion.v]

\* f traces the motion as far as sample m.
Traces(f, m) ==
  /\ f \in [0..m -> Point] /\ f[0] = First
  /\ \A n \in 1..m : f[n] = After(f[n - 1], motion.a[n])

LEMMA MotionIs ==
  ASSUME motion \in Motions
  PROVE  /\ motion.x \in Int /\ motion.v \in Int /\ motion.y \in Int
         /\ \A k \in 1..Intervals : motion.a[k] \in Int
BY MotionAssumption

LEMMA PointsGoOn ==
  ASSUME NEW s \in Point, NEW a \in Int
  PROVE  After(s, a) \in Point
<1> DEFINE f == (Fine * Fine) \div 2
<1>1. s.x \in Int /\ s.v \in Int /\ f \in Int /\ Fine \in Int
  BY FineSteps DEF Point
<1> HIDE DEF f
<1>2. s.x + s.v * Fine + a * f \in Int /\ s.v + a * Fine \in Int
  BY <1>1
<1> QED BY <1>2 DEF After, Point, f

LEMMA SomethingTraces ==
  ASSUME motion \in Motions
  PROVE  \E f : Traces(f, Intervals)
<1> DEFINE Bad == {m \in 0..Intervals : ~ \E f : Traces(f, m)}
<1>1. Intervals \in Nat /\ First \in Point
  BY FineSteps, MotionIs DEF First, Point
<1>2. 0 \notin Bad
  <2>1. Traces([n \in 0..0 |-> First], 0)
    BY <1>1 DEF Traces
  <2> QED BY <2>1
<1>3. ASSUME NEW x \in 1..Intervals, x - 1 \notin Bad PROVE x \notin Bad
  <2>1. x - 1 \in 0..Intervals /\ x \in Nat
    BY <1>1
  <2>2. PICK f : Traces(f, x - 1)
    BY <1>3, <2>1
  <2> DEFINE p == After(f[x - 1], motion.a[x])
             g == [n \in 0..x |-> IF n = x THEN p ELSE f[n]]
  <2>3. f \in [0..(x - 1) -> Point] /\ f[0] = First /\ x - 1 \in 0..(x - 1)
    BY <2>1, <2>2 DEF Traces
  <2>4. p \in Point
    <3>1. f[x - 1] \in Point /\ motion.a[x] \in Int
      BY <2>3, MotionIs
    <3> QED BY <3>1, PointsGoOn
  <2> HIDE DEF p
  <2>5. g \in [0..x -> Point] /\ g[0] = First
    BY <2>1, <2>3, <2>4
  <2>6. ASSUME NEW n \in 1..x PROVE g[n] = After(g[n - 1], motion.a[n])
    <3>1. n - 1 \in 0..x /\ n - 1 # x /\ n \in 0..x
      BY <2>1
    <3>2. CASE n = x
      BY <3>1, <3>2 DEF p
    <3>3. CASE n # x
      <4>1. n \in 1..(x - 1)
        BY <2>1, <3>3
      <4>2. f[n] = After(f[n - 1], motion.a[n])
        BY <2>2, <4>1 DEF Traces
      <4> QED BY <3>1, <3>3, <4>2
    <3> QED BY <3>2, <3>3
  <2> HIDE DEF g
  <2>7. Traces(g, x)
    BY <2>5, <2>6 DEF Traces
  <2> QED BY <2>7
<1> HIDE DEF Bad
<1>4. CASE Bad # {}
  <2>1. Bad \in SUBSET Nat
    BY <1>1 DEF Bad
  <2>2. PICK x \in Bad : \A y \in Bad : x <= y
    BY <1>4, <2>1, LeastOf
  <2>3. x \in 0..Intervals /\ x # 0
    BY <1>2, <2>2 DEF Bad
  <2>4. x \in 1..Intervals /\ x - 1 \notin Bad
    BY <1>1, <2>2, <2>3
  <2> QED BY <1>3, <2>2, <2>4
<1>5. CASE Bad = {}
  BY <1>1, <1>5 DEF Bad
<1> QED BY <1>4, <1>5

LEMMA StateIs ==
  ASSUME motion \in Motions
  PROVE  State = [k \in Grid |-> IF k = 0 THEN First ELSE After(State[k - 1], motion.a[k])]
<1>1. PICK f : Traces(f, Intervals)
  BY SomethingTraces
<1>2. f = [k \in Grid |-> IF k = 0 THEN First ELSE After(f[k - 1], motion.a[k])]
  <2>1. ASSUME NEW k \in Grid PROVE f[k] = IF k = 0 THEN First ELSE After(f[k - 1], motion.a[k])
    <3>1. k = 0 \/ k \in 1..Intervals
      BY FineSteps DEF Grid
    <3> QED BY <1>1, <3>1 DEF Traces
  <2> QED BY <1>1, <2>1 DEF Traces, Grid
<1>3. \E g : g = [k \in Grid |-> IF k = 0 THEN [x |-> motion.x, v |-> motion.v]
                               ELSE [x |-> g[k - 1].x + g[k - 1].v * Fine
                                             + motion.a[k] * ((Fine * Fine) \div 2),
                                     v |-> g[k - 1].v + motion.a[k] * Fine]]
  BY <1>2 DEF First, After
<1> QED BY <1>3 DEF State, First, After

\* Each sample is a point, and the one after it follows from its acceleration.
LEMMA Samples ==
  ASSUME motion \in Motions
  PROVE  /\ \A k \in Grid : State[k] \in Point
         /\ \A k \in 0..(Intervals - 1) :
              /\ k \in Grid /\ k + 1 \in Grid /\ motion.a[k + 1] \in Int
              /\ State[k + 1] = After(State[k], motion.a[k + 1])
<1>1. Intervals \in Nat /\ First \in Point
  BY FineSteps, MotionIs DEF First, Point
<1>2. ASSUME NEW k \in 0..(Intervals - 1)
      PROVE  /\ k \in Grid /\ k + 1 \in Grid /\ motion.a[k + 1] \in Int
             /\ State[k + 1] = After(State[k], motion.a[k + 1])
  <2>1. k \in Grid /\ k + 1 \in Grid /\ k + 1 \in 1..Intervals /\ k + 1 # 0 /\ (k + 1) - 1 = k
    BY <1>1 DEF Grid
  <2>2. State[k + 1] = After(State[(k + 1) - 1], motion.a[k + 1])
    BY <2>1, StateIs
  <2> QED BY <2>1, <2>2, MotionIs
<1> DEFINE Bad == {k \in Grid : State[k] \notin Point}
<1>3. 0 \notin Bad
  <2>1. 0 \in Grid
    BY <1>1 DEF Grid
  <2> QED BY <1>1, <2>1, StateIs
<1>4. CASE Bad # {}
  <2>1. Bad \in SUBSET Nat
    BY <1>1 DEF Grid
  <2>2. PICK k \in Bad : \A j \in Bad : k <= j
    BY <1>4, <2>1, LeastOf
  <2>3. k \in Grid /\ k # 0 /\ State[k] \notin Point
    BY <1>3, <2>2
  <2>4. k - 1 \in 0..(Intervals - 1) /\ k - 1 \in Grid /\ k - 1 \notin Bad /\ (k - 1) + 1 = k
    BY <1>1, <2>2, <2>3 DEF Grid
  <2>5. State[k] = After(State[k - 1], motion.a[k]) /\ motion.a[k] \in Int
    BY <1>2, <2>4
  <2>6. State[k - 1] \in Point
    BY <2>4
  <2> QED BY <2>3, <2>5, <2>6, PointsGoOn
<1>5. CASE Bad = {}
  BY <1>2, <1>5
<1> QED BY <1>4, <1>5

-----------------------------------------------------------------------------
(* Squares.                                                                *)

LEMMA SqrIsNat ==
  ASSUME NEW a \in Int
  PROVE  Sqr(a) \in Nat
BY DEF Sqr

LEMMA TimesMonotone ==
  ASSUME NEW a \in Nat, NEW b \in Nat, NEW c \in Nat, NEW d \in Nat, a <= b, c <= d
  PROVE  a * c <= b * d /\ a * c \in Nat /\ b * d \in Nat
<1>1. a * c <= b * c
  OBVIOUS
<1>2. b * c <= b * d
  OBVIOUS
<1>3. a * c \in Nat /\ b * c \in Nat /\ b * d \in Nat
  OBVIOUS
<1> QED BY <1>1, <1>2, <1>3

LEMMA SqrGrows ==
  ASSUME NEW a \in Int, NEW b \in Nat, -b <= a, a <= b
  PROVE  Sqr(a) <= Sqr(b)
<1>1. CASE a >= 0
  BY <1>1, TimesMonotone DEF Sqr
<1>2. CASE a < 0
  <2>1. -a \in Nat /\ -a <= b
    BY <1>2
  <2>2. (-a) * (-a) <= b * b
    BY <2>1, TimesMonotone
  <2>3. (-a) * (-a) = a * a
    OBVIOUS
  <2> QED BY <2>2, <2>3 DEF Sqr
<1> QED BY <1>1, <1>2

LEMMA SqrShrinks ==
  ASSUME NEW a \in Int, NEW b \in Nat, Sqr(a) <= Sqr(b)
  PROVE  -b <= a /\ a <= b
<1>1. ASSUME NEW c \in Nat, c > b PROVE c * c > b * b
  <2>1. c * c >= (b + 1) * c /\ (b + 1) * c >= (b + 1) * (b + 1)
    <3>1. b + 1 \in Nat /\ b + 1 <= c
      BY <1>1
    <3> QED BY <3>1, TimesMonotone
  <2>2. (b + 1) * (b + 1) = b * b + 2 * b + 1
    OBVIOUS
  <2>3. b * b \in Nat /\ c * c \in Nat /\ (b + 1) * c \in Nat
    OBVIOUS
  <2> QED BY <2>1, <2>2, <2>3
<1>2. CASE a > b
  BY <1>1, <1>2 DEF Sqr
<1>3. CASE -a > b
  <2>1. -a \in Nat
    BY <1>3
  <2>2. (-a) * (-a) = a * a
    OBVIOUS
  <2> QED BY <1>1, <1>3, <2>1, <2>2 DEF Sqr
<1> QED BY <1>2, <1>3

LEMMA ProductBound ==
  ASSUME NEW a \in Int, NEW b \in Int, NEW c \in Nat, NEW d \in Nat,
         -c <= a, a <= c, -d <= b, b <= d
  PROVE  a * b <= c * d
<1>1. (c - a) * (d + b) >= 0 /\ (c + a) * (d - b) >= 0
  <2>1. c - a \in Nat /\ d + b \in Nat /\ c + a \in Nat /\ d - b \in Nat
    OBVIOUS
  <2>2. \A m, n \in Nat : m * n >= 0
    OBVIOUS
  <2> QED BY <2>1, <2>2
<1>2. (c - a) * (d + b) = c * d + c * b - a * d - a * b
  OBVIOUS
<1>3. (c + a) * (d - b) = c * d - c * b + a * d - a * b
  OBVIOUS
<1>4. c * d \in Int /\ c * b \in Int /\ a * d \in Int /\ a * b \in Int
  OBVIOUS
<1> QED BY <1>1, <1>2, <1>3, <1>4

\* What is within d of the origin, and moves by at most p, is within d + p.
LEMMA Triangle ==
  ASSUME NEW x \in Int, NEW l \in Int, NEW y \in Int, NEW d \in Nat, NEW p \in Nat,
         Sqr(x) + Sqr(y) <= Sqr(d), -p <= l - x, l - x <= p
  PROVE  Sqr(l) + Sqr(y) <= Sqr(d + p)
<1> DEFINE m == l - x
<1>1. m \in Int /\ -p <= m /\ m <= p
  OBVIOUS
<1>2. Sqr(x) \in Nat /\ Sqr(y) \in Nat /\ Sqr(d) \in Nat /\ Sqr(m) \in Nat /\ Sqr(p) \in Nat
  BY <1>1, SqrIsNat
<1>3. Sqr(x) <= Sqr(d)
  BY <1>2
<1>4. -d <= x /\ x <= d
  BY <1>3, SqrShrinks
<1>5. x * m <= d * p
  BY <1>1, <1>4, ProductBound
<1>6. Sqr(m) <= Sqr(p)
  BY <1>1, SqrGrows
<1>7. l = x + m
  OBVIOUS
<1> HIDE DEF m
<1>8. Sqr(l) = Sqr(x) + 2 * (x * m) + Sqr(m)
  BY <1>1, <1>7 DEF Sqr
<1>9. Sqr(d + p) = Sqr(d) + 2 * (d * p) + Sqr(p)
  BY DEF Sqr
<1>10. x * m \in Int /\ d * p \in Int
  BY <1>1
<1> QED BY <1>2, <1>5, <1>6, <1>8, <1>9, <1>10

-----------------------------------------------------------------------------
(* Distances between the samples.                                          *)

LEMMA LineIs ==
  ASSUME NEW x \in Int, NEW v \in Int, NEW t \in 0..Fine, motion.y \in Int
  PROVE  LineMin(x, x + v * Fine) <= Sqr(x + v * t) + Sqr(motion.y)
<1> DEFINE f == Fine
           z == x + v * f
           l == x + v * t
           m == Less(Abs(x), Abs(z))
           y == Sqr(motion.y)
<1>1. f \in Nat /\ t \in Nat /\ t <= f
  BY FineSteps
<1>2. z \in Int /\ l \in Int
  BY <1>1
<1>3. (x <= l /\ l <= z) \/ (z <= l /\ l <= x)
  <2>1. CASE v >= 0
    <3>1. v * t \in Nat /\ v * t <= v * f
      BY <1>1, <2>1, TimesMonotone
    <3>2. v * f \in Nat
      BY <1>1, <2>1
    <3> QED BY <3>1, <3>2
  <2>2. CASE v < 0
    <3>1. (-v) * t \in Nat /\ (-v) * t <= (-v) * f /\ (-v) * f \in Nat
      <4>1. -v \in Nat
        BY <2>2
      <4> QED BY <1>1, <4>1, TimesMonotone
    <3>2. (-v) * t = -(v * t) /\ (-v) * f = -(v * f) /\ v * t \in Int /\ v * f \in Int
      BY <1>1
    <3> QED BY <3>1, <3>2
  <2> QED BY <2>1, <2>2
<1>4. LineMin(x, z) = (IF x * z <= 0 THEN 0 ELSE Sqr(m)) + y
  BY DEF LineMin
<1>5. Sqr(l) \in Nat
  BY <1>2, SqrIsNat
<1>6. y \in Nat
  BY SqrIsNat
<1> SUFFICES LineMin(x, z) <= Sqr(l) + y
  OBVIOUS
<1> HIDE DEF f, z, l, y
<1>7. CASE x * z <= 0
  BY <1>4, <1>5, <1>6, <1>7
<1>8. CASE ~(x * z <= 0)
  <2>1. (x > 0 /\ z > 0) \/ (x < 0 /\ z < 0)
    <3>1. x # 0 /\ z # 0
      BY <1>2, <1>8
    <3>2. ~(x > 0 /\ z < 0)
      <4>1. ASSUME x > 0, z < 0 PROVE FALSE
        <5>1. -z \in Nat /\ x \in Nat
          BY <1>2, <4>1
        <5>2. x * (-z) >= 0
          BY <5>1
        <5>3. x * (-z) = -(x * z) /\ x * z \in Int
          BY <1>2
        <5> QED BY <1>8, <5>2, <5>3
      <4> QED BY <4>1
    <3>3. ~(x < 0 /\ z > 0)
      <4>1. ASSUME x < 0, z > 0 PROVE FALSE
        <5>1. -x \in Nat /\ z \in Nat
          BY <1>2, <4>1
        <5>2. (-x) * z >= 0
          BY <5>1
        <5>3. (-x) * z = -(x * z) /\ x * z \in Int
          BY <1>2
        <5> QED BY <1>8, <5>2, <5>3
      <4> QED BY <4>1
    <3> QED BY <1>2, <3>1, <3>2, <3>3
  <2>2. m \in Nat /\ (m <= l \/ m <= -l)
    BY <1>2, <1>3, <2>1 DEF Less, Abs
  <2> HIDE DEF m
  <2>3. Sqr(m) <= Sqr(l)
    <3>1. CASE m <= l
      <4>1. l \in Nat /\ -l <= m
        BY <1>2, <2>2, <3>1
      <4> QED BY <2>2, <3>1, <4>1, SqrGrows
    <3>2. CASE m <= -l
      <4>1. -l \in Nat /\ -(-l) <= m
        BY <1>2, <2>2, <3>2
      <4>2. Sqr(m) <= Sqr(-l)
        BY <2>2, <3>2, <4>1, SqrGrows
      <4>3. Sqr(-l) = Sqr(l)
        BY <1>2 DEF Sqr
      <4> QED BY <4>2, <4>3
    <3> QED BY <2>2, <3>1, <3>2
  <2>4. Sqr(m) \in Nat
    BY <2>2, SqrIsNat
  <2> QED BY <1>4, <1>5, <1>6, <1>8, <2>3, <2>4
<1> QED BY <1>7, <1>8

\* interval_min_distance_bound is a lower bound: an interval is not dropped
\* that the pair comes within the threshold in.
LEMMA BoundIsLower ==
  ASSUME motion \in Motions, NEW k \in 0..(Intervals - 1), NEW t \in 0..Fine,
         Within(Apart(k, t), Coarse)
  PROVE  BoundWithin(k)
<1> DEFINE f == Fine
           h == (f * f) \div 2
           c == Coarse
           s == State[k]
           e == State[k + 1]
           a == motion.a[k + 1]
           x == s.x
           v == s.v
           y == motion.y
           l == x + v * t
           pad == (Abs(e.v - v) * f) \div 2
           near == LineMin(x, x + v * f)
           far == LineMin(e.x, e.x - e.v * f)
           p == Abs(a) * h
<1>1. f \in Nat /\ h \in Nat /\ f * f = 2 * h /\ c \in Nat /\ t \in Nat /\ t <= f
  BY FineSteps
<1>2. /\ k \in Grid /\ s \in Point /\ e \in Point /\ a \in Int /\ y \in Int
      /\ e = After(s, a)
  BY Samples, MotionIs
<1>3. x \in Int /\ v \in Int /\ e.x \in Int /\ e.v \in Int
  BY <1>2 DEF Point
<1>4. e.v = v + a * f
  BY <1>2 DEF After
<1>5. Apart(k, t) = Sqr(2 * x + 2 * v * t + a * t * t) + Sqr(2 * y)
  <2>1. k # Intervals
    BY FineSteps
  <2> QED BY <2>1 DEF Apart
<1>6. BoundWithin(k) <=> Less(near, far) <= Sqr(c + pad)
  BY DEF BoundWithin
<1>7. near <= Sqr(l) + Sqr(y)
  BY <1>2, <1>3, LineIs
<1>8. near \in Int /\ far \in Int
  <2>1. ASSUME NEW m \in Int, NEW n \in Int PROVE LineMin(m, n) \in Int
    <3>1. Less(Abs(m), Abs(n)) \in Int
      BY DEF Less, Abs
    <3>2. Sqr(Less(Abs(m), Abs(n))) \in Int /\ Sqr(y) \in Int
      BY <1>2, <3>1, SqrIsNat
    <3> QED BY <3>2 DEF LineMin
  <2>2. x + v * f \in Int /\ e.x - e.v * f \in Int
    BY <1>1, <1>3
  <2> HIDE DEF f, x, v
  <2> QED BY <1>3, <2>1, <2>2
<1>9. pad = p /\ p \in Nat
  <2>1. e.v - v = a * f
    <3>1. a * f \in Int
      BY <1>1, <1>2
    <3> QED BY <1>3, <1>4, <3>1
  <2>2. Abs(a * f) = Abs(a) * f
    <3>1. CASE a >= 0
      <4>1. a * f \in Nat
        BY <1>1, <1>2, <3>1
      <4> QED BY <3>1, <4>1 DEF Abs
    <3>2. CASE a < 0
      <4>1. (-a) * f \in Nat /\ (-a) * f = -(a * f) /\ a * f \in Int
        <5>1. -a \in Nat
          BY <1>2, <3>2
        <5> QED BY <1>1, <1>2, <5>1
      <4>2. a * f <= 0
        BY <4>1
      <4>3. Abs(a) = -a
        BY <1>2, <3>2 DEF Abs
      <4>4. Abs(a * f) = -(a * f)
        BY <4>1, <4>2 DEF Abs
      <4> QED BY <4>1, <4>3, <4>4
    <3> QED BY <1>2, <3>1, <3>2
  <2>3. Abs(a) \in Nat
    BY <1>2 DEF Abs
  <2> DEFINE b == Abs(a)
  <2> HIDE DEF h, f, b
  <2>4. b \in Nat
    BY <2>3 DEF b
  <2>5. (b * f) * f = 2 * (b * h) /\ b * h \in Nat
    <3>1. (b * f) * f = b * (f * f)
      BY <1>1, <2>4
    <3>2. b * (2 * h) = 2 * (b * h) /\ b * h \in Nat
      BY <1>1, <2>4
    <3> QED BY <1>1, <3>1, <3>2
  <2>6. pad = ((b * f) * f) \div 2
    BY <2>1, <2>2 DEF b
  <2>7. p = b * h
    BY DEF b
  <2> DEFINE q == b * h
  <2>8. q \in Nat /\ pad = (2 * q) \div 2 /\ p = q
    BY <2>5, <2>6, <2>7
  <2> HIDE DEF q, p, pad
  <2>9. (2 * q) \div 2 = q
    BY <2>8
  <2> QED BY <2>8, <2>9
<1> DEFINE X == 2 * x + 2 * v * t + a * t * t
           L == 2 * l
           Y == 2 * y
           D == 2 * c
           P == 2 * p
<1>10. X \in Int /\ L \in Int /\ Y \in Int /\ D \in Nat /\ P \in Nat /\ l \in Int
  BY <1>1, <1>2, <1>3, <1>9
<1>11. Sqr(X) + Sqr(Y) <= Sqr(D)
  BY <1>5 DEF Within
<1>12. -P <= L - X /\ L - X <= P
  <2>1. L - X = -(a * (t * t))
    <3>1. L = 2 * x + 2 * v * t
      <4> HIDE DEF x, v
      <4> QED BY <1>1, <1>3
    <3>2. a * t * t = a * (t * t) /\ a * (t * t) \in Int /\ 2 * x + 2 * v * t \in Int
      <4> HIDE DEF x, v, a
      <4> QED BY <1>1, <1>2, <1>3
    <3> QED BY <3>1, <3>2
  <2>2. t * t \in Nat /\ t * t <= 2 * h
    BY <1>1, TimesMonotone
  <2> DEFINE w == t * t
             b == Abs(a)
  <2> HIDE DEF a, h, w
  <2>3. b \in Nat /\ -b <= a /\ a <= b
    BY <1>2 DEF Abs
  <2>4. P = b * (2 * h)
    BY <1>1, <2>3
  <2>5. a * w <= P
    <3> HIDE DEF b
    <3>1. -(2 * h) <= w /\ w <= 2 * h /\ w \in Int /\ 2 * h \in Nat
      BY <1>1, <2>2 DEF w
    <3> QED BY <1>2, <2>3, <2>4, <3>1, ProductBound
  <2>6. (-a) * w <= P
    <3> HIDE DEF b
    <3>1. -(2 * h) <= w /\ w <= 2 * h /\ w \in Int /\ 2 * h \in Nat
      BY <1>1, <2>2 DEF w
    <3>2. -a \in Int /\ -b <= -a /\ -a <= b
      BY <1>2, <2>3
    <3> QED BY <2>3, <2>4, <3>1, <3>2, ProductBound
  <2>7. (-a) * w = -(a * w) /\ a * w \in Int /\ L - X = -(a * w)
    BY <1>2, <2>1, <2>2 DEF w
  <2> HIDE DEF P, L, X
  <2> QED BY <1>10, <2>5, <2>6, <2>7
<1>13. Sqr(L) + Sqr(Y) <= Sqr(D + P)
  <2> HIDE DEF X, L, Y, D, P
  <2> QED BY <1>10, <1>11, <1>12, Triangle
<1>14. Sqr(l) + Sqr(y) <= Sqr(c + p)
  <2>1. Sqr(L) = 4 * Sqr(l) /\ Sqr(Y) = 4 * Sqr(y)
    <3> HIDE DEF l, y
    <3> QED BY <1>2, <1>10 DEF Sqr
  <2>2. Sqr(D + P) = 4 * Sqr(c + p)
    <3>1. D + P = 2 * (c + p) /\ c + p \in Nat
      BY <1>1, <1>9
    <3> DEFINE n == c + p
    <3> HIDE DEF n
    <3>2. Sqr(2 * n) = 4 * Sqr(n)
      BY <3>1 DEF Sqr, n
    <3> QED BY <3>1, <3>2 DEF n
  <2>3. Sqr(l) \in Nat /\ Sqr(y) \in Nat /\ Sqr(c + p) \in Nat
    <3>1. c + p \in Int
      BY <1>1, <1>9
    <3> QED BY <1>2, <1>10, <3>1, SqrIsNat
  <2> QED BY <1>13, <2>1, <2>2, <2>3
<1>15. Less(near, far) <= near
  <2> HIDE DEF near, far
  <2> QED BY <1>8 DEF Less
<1>16. Less(near, far) \in Int
  <2> HIDE DEF near, far
  <2> QED BY <1>8 DEF Less
<1>17. Sqr(l) \in Nat /\ Sqr(y) \in Nat /\ Sqr(c + p) \in Nat
  <2>1. c + p \in Int
    BY <1>1, <1>9
  <2> QED BY <1>2, <1>10, <2>1, SqrIsNat
<1> DEFINE A == Less(near, far)
           B == Sqr(l) + Sqr(y)
           C == Sqr(c + p)
<1>18. A <= C
  <2>1. A \in Int /\ A <= near /\ near \in Int /\ near <= B /\ B <= C /\ B \in Int /\ C \in Int
    BY <1>7, <1>8, <1>14, <1>15, <1>16, <1>17
  <2> HIDE DEF A, B, C, near
  <2> QED BY <2>1
<1> QED BY <1>6, <1>9, <1>18

-----------------------------------------------------------------------------
(* Fine times.                                                             *)

LEMMA DistancesAreNatural ==
  ASSUME motion \in Motions, NEW k \in 0..(Intervals - 1), NEW t \in 0..Fine
  PROVE  Apart(k, t) \in Nat
<1> DEFINE s == State[k]
           a == motion.a[k + 1]
           m == 2 * s.x + 2 * s.v * t + a * t * t
           y == 2 * motion.y
<1>1. Apart(k, t) = Sqr(m) + Sqr(y)
  <2>1. k # Intervals
    BY FineSteps
  <2> QED BY <2>1 DEF Apart
<1>2. s.x \in Int /\ s.v \in Int /\ a \in Int /\ t \in Int /\ motion.y \in Int
  BY Samples, MotionIs, FineSteps DEF Point
<1>3. m \in Int /\ y \in Int
  BY <1>2
<1> HIDE DEF m, y
<1>4. Sqr(m) \in Nat /\ Sqr(y) \in Nat
  BY <1>3, SqrIsNat
<1> QED BY <1>1, <1>4

\* An interval ends where the next one begins.
LEMMA IntervalsMeet ==
  ASSUME motion \in Motions, NEW k \in 0..(Intervals - 1)
  PROVE  Apart(k, Fine) = Apart(k + 1, 0)
<1> DEFINE s == State[k]
           e == State[k + 1]
           a == motion.a[k + 1]
           h == (Fine * Fine) \div 2
           next == IF k + 1 = Intervals THEN 0 ELSE motion.a[(k + 1) + 1]
           y == Sqr(2 * motion.y)
<1>1. /\ s \in Point /\ e \in Point /\ a \in Int /\ e = After(s, a) /\ k # Intervals
      /\ Fine \in Nat /\ h \in Nat /\ 2 * h = Fine * Fine
  BY Samples, FineSteps
<1>2. s.x \in Int /\ s.v \in Int /\ e.x \in Int /\ e.v \in Int
  BY <1>1 DEF Point
<1>3. next \in Int
  <2>1. CASE k + 1 = Intervals
    BY <2>1
  <2>2. CASE k + 1 # Intervals
    <3>1. (k + 1) + 1 \in 1..Intervals
      BY <2>2, FineSteps
    <3> QED BY <2>2, <3>1, MotionIs
  <2> QED BY <2>1, <2>2
<1>4. e.x = s.x + s.v * Fine + a * h
  BY <1>1 DEF After
<1>5. Apart(k, Fine) = Sqr(2 * s.x + 2 * s.v * Fine + a * Fine * Fine) + y
  BY <1>1 DEF Apart
<1>6. Apart(k + 1, 0) = Sqr(2 * e.x + 2 * e.v * 0 + next * 0 * 0) + y
  BY DEF Apart
<1> HIDE DEF s, e, a, h, next, y
<1>7. 2 * e.x + 2 * e.v * 0 + next * 0 * 0 = 2 * e.x
  BY <1>2, <1>3
<1>8. 2 * s.x + 2 * s.v * Fine + a * Fine * Fine = 2 * e.x
  <2>1. a * Fine * Fine = a * (2 * h)
    BY <1>1
  <2>2. a * (2 * h) = 2 * (a * h) /\ a * h \in Int /\ s.v * Fine \in Int
    BY <1>1, <1>2
  <2> DEFINE m == a * h
             n == s.v * Fine
  <2>3. 2 * s.v * Fine = 2 * n
    BY <1>1, <1>2
  <2> HIDE DEF m, n
  <2>4. e.x = s.x + n + m
    BY <1>4 DEF m, n
  <2>5. m \in Int /\ n \in Int /\ a * (2 * h) = 2 * m
    BY <2>2 DEF m, n
  <2> QED BY <1>2, <2>1, <2>3, <2>4, <2>5
<1> QED BY <1>5, <1>6, <1>7, <1>8

LEMMA DivisionIs ==
  ASSUME NEW k \in Int, NEW f \in Nat \ {0}, NEW t \in 0..(f - 1)
  PROVE  (k * f + t) \div f = k /\ (k * f + t) % f = t
<1> DEFINE n == k * f + t
           q == n \div f
           r == n % f
<1>1. n \in Int /\ k * f \in Int
  OBVIOUS
<1> HIDE DEF n
<1>2. q \in Int /\ r \in 0..(f - 1) /\ n = f * q + r
  BY <1>1
<1> HIDE DEF q, r
<1>3. f * q = q * f /\ q * f \in Int /\ k * f \in Int
  BY <1>2
<1>4. n = k * f + t
  BY DEF n
<1>5. (q - k) * f = q * f - k * f
  BY <1>2
<1>6. (q - k) * f = t - r
  BY <1>1, <1>2, <1>3, <1>4, <1>5
<1>7. q = k
  <2> DEFINE d == q - k
  <2>1. d \in Int /\ d * f = t - r /\ -f < t - r /\ t - r < f
    BY <1>2, <1>6
  <2> HIDE DEF d
  <2>2. ~(d >= 1)
    <3>1. ASSUME d >= 1 PROVE FALSE
      <4>1. 1 * f <= d * f
        BY <2>1, <3>1, TimesMonotone
      <4> QED BY <2>1, <4>1
    <3> QED BY <3>1
  <2>3. ~(d <= -1)
    <3>1. ASSUME d <= -1 PROVE FALSE
      <4>1. -d \in Nat /\ 1 <= -d
        BY <2>1, <3>1
      <4>2. 1 * f <= (-d) * f
        BY <4>1, TimesMonotone
      <4>3. (-d) * f = -(d * f)
        BY <2>1
      <4> QED BY <2>1, <4>2, <4>3
    <3> QED BY <3>1
  <2>4. d = 0
    BY <2>1, <2>2, <2>3
  <2> QED BY <1>2, <2>4 DEF d
<1>8. r = t
  BY <1>1, <1>2, <1>3, <1>4, <1>7
<1> QED BY <1>7, <1>8 DEF q, r, n

\* A fine time of an interval, its end included.
LEMMA DistanceIs ==
  ASSUME motion \in Motions, NEW k \in 0..(Intervals - 1), NEW t \in 0..Fine
  PROVE  Distance(k * Fine + t) = Apart(k, t)
<1>1. Fine \in Nat \ {0} /\ Intervals \in Nat
  BY FineSteps
<1>2. CASE t # Fine
  <2>1. t \in 0..(Fine - 1)
    BY <1>1, <1>2
  <2>2. (k * Fine + t) \div Fine = k /\ (k * Fine + t) % Fine = t
    BY <1>1, <2>1, DivisionIs
  <2> QED BY <2>2 DEF Distance
<1>3. CASE t = Fine
  <2>1. k * Fine + t = (k + 1) * Fine + 0
    BY <1>1, <1>3
  <2>2. k + 1 \in Int /\ 0 \in 0..(Fine - 1)
    BY <1>1
  <2>3. ((k + 1) * Fine + 0) \div Fine = k + 1 /\ ((k + 1) * Fine + 0) % Fine = 0
    BY <1>1, <2>2, DivisionIs
  <2>4. Distance((k + 1) * Fine + 0) = Apart(k + 1, 0)
    BY <2>3 DEF Distance
  <2> QED BY <1>3, <2>1, <2>4, IntervalsMeet
<1> QED BY <1>2, <1>3

\* A fine time within the window, as an interval and a time in it.
LEMMA TimeIs ==
  ASSUME NEW n \in 1..(Intervals * Fine - 1)
  PROVE  \E k \in 0..(Intervals - 1), t \in 0..(Fine - 1) : n = k * Fine + t /\ (t > 0 \/ k > 0)
<1> DEFINE k == n \div Fine
           t == n % Fine
<1>1. Fine \in Nat \ {0} /\ Intervals \in Nat /\ Intervals * Fine \in Nat
  BY FineSteps
<1>2. n \in Nat \ {0} /\ n < Intervals * Fine
  BY <1>1
<1>3. k \in Nat /\ t \in 0..(Fine - 1) /\ n = Fine * k + t
  BY <1>1, <1>2
<1> HIDE DEF k, t
<1>4. Fine * k = k * Fine /\ k * Fine \in Nat
  BY <1>1, <1>3
<1>5. k < Intervals
  <2>1. ASSUME Intervals <= k PROVE FALSE
    <3>1. Intervals * Fine <= k * Fine
      BY <1>1, <1>3, <2>1, TimesMonotone
    <3> QED BY <1>1, <1>2, <1>3, <1>4, <3>1
  <2> QED BY <1>1, <1>3, <2>1
<1>6. t > 0 \/ k > 0
  <2>1. CASE t = 0 /\ k = 0
    BY <1>1, <1>2, <1>3, <2>1
  <2> QED BY <1>3, <2>1
<1>7. k \in 0..(Intervals - 1)
  BY <1>1, <1>3, <1>5
<1> QED BY <1>3, <1>4, <1>6, <1>7

-----------------------------------------------------------------------------
(* One approach, one candidate.                                            *)

LEMMA RatesAreWhole ==
  ASSUME motion \in Motions, NEW k \in Grid
  PROVE  RangeRate(k) \in Int
BY Samples DEF RangeRate, Point

\* The instant at which a resolved interval stops closing is the only one that
\* the root finder may return.
LEMMA OneTurn ==
  ASSUME Resolved, NEW k \in 0..(Intervals - 1), motion \in Motions, k \in Brackets,
         NEW t \in 0..Fine, t = 0 \/ Closes(k, t - 1), t = Fine \/ ~Closes(k, t)
  PROVE  \A r \in Refined(k) : r = t
<1>0. Fine \in Nat \ {0} /\ t \in Nat /\ t <= Fine
  BY FineSteps
<1>1. \A m, n \in 0..(Fine - 1) : m < n =>
        /\ Closes(k, n)  => Closes(k, m)
        /\ Recedes(k, m) => Recedes(k, n)
  BY DEF Resolved
<1>2. ASSUME NEW m \in 0..(Fine - 1), m < t PROVE Closes(k, m)
  <2>1. t - 1 \in 0..(Fine - 1) /\ Closes(k, t - 1) /\ (m < t - 1 \/ m = t - 1)
    BY <1>0, <1>2
  <2> QED BY <1>1, <2>1
<1>3. ASSUME NEW m \in 0..(Fine - 1), t <= m PROVE ~Closes(k, m)
  <2>1. t \in 0..(Fine - 1) /\ ~Closes(k, t) /\ (t < m \/ t = m)
    BY <1>0, <1>3
  <2> QED BY <1>1, <2>1
<1> SUFFICES ASSUME NEW r \in Refined(k)
             PROVE  r = t
  OBVIOUS
<1>4. /\ r \in 0..Fine
      /\ \/ /\ r = 0 \/ Apart(k, r) < Apart(k, r - 1)
            /\ r = Fine \/ Apart(k, r) <= Apart(k, r + 1)
         \/ /\ r \in 1..(Fine - 1)
            /\ Apart(k, r) > Apart(k, r - 1) /\ Apart(k, r) >= Apart(k, r + 1)
  BY DEF Refined
<1>5. r \in Nat /\ r <= Fine /\ Apart(k, r) \in Nat
  BY <1>0, <1>4, DistancesAreNatural
<1>6. r # 0 => r - 1 \in 0..(Fine - 1) /\ r - 1 \in 0..Fine /\ (r - 1) + 1 = r
  BY <1>0, <1>5
<1>7. r # Fine => r \in 0..(Fine - 1) /\ r + 1 \in 0..Fine
  BY <1>0, <1>5
<1>8. r # 0 => Apart(k, r - 1) \in Nat
  BY <1>6, DistancesAreNatural
<1>9. r # Fine => Apart(k, r + 1) \in Nat
  BY <1>7, DistancesAreNatural
<1>10. CASE /\ r = 0 \/ Apart(k, r) < Apart(k, r - 1)
            /\ r = Fine \/ Apart(k, r) <= Apart(k, r + 1)
  <2>1. CASE r < t
    <3>1. r # Fine /\ r \in 0..(Fine - 1)
      BY <1>0, <1>5, <2>1
    <3>2. Apart(k, r + 1) < Apart(k, r)
      BY <1>2, <2>1, <3>1 DEF Closes
    <3> QED BY <1>5, <1>9, <1>10, <3>1, <3>2
  <2>2. CASE t < r
    <3>1. r # 0 /\ r - 1 \in 0..(Fine - 1) /\ t <= r - 1 /\ (r - 1) + 1 = r
      BY <1>0, <1>5, <2>2
    <3>2. ~(Apart(k, r) < Apart(k, r - 1))
      BY <1>3, <3>1 DEF Closes
    <3> QED BY <1>10, <3>1, <3>2
  <2> QED BY <1>0, <1>5, <2>1, <2>2
<1>11. CASE /\ r \in 1..(Fine - 1)
            /\ Apart(k, r) > Apart(k, r - 1) /\ Apart(k, r) >= Apart(k, r + 1)
  <2>1. /\ r # 0 /\ r # Fine /\ r - 1 \in 0..(Fine - 1) /\ r \in 0..(Fine - 1)
        /\ r - 1 < r /\ (r - 1) + 1 = r
    BY <1>0, <1>11
  <2>2. Recedes(k, r - 1)
    BY <1>5, <1>8, <1>11, <2>1 DEF Recedes
  <2>3. Recedes(k, r)
    BY <1>1, <2>1, <2>2
  <2> QED BY <1>5, <1>9, <1>11, <2>1, <2>3 DEF Recedes
<1> QED BY <1>4, <1>10, <1>11

LEMMA BracketIs ==
  ASSUME motion \in Motions, Resolved, NEW k \in 0..(Intervals - 1), NEW t \in 0..Fine,
         Valid(k), Valid(k + 1), RangeRate(k) < 0, RangeRate(k + 1) >= 0,
         Within(Apart(k, t), Report), t = 0 \/ Closes(k, t - 1), t = Fine \/ ~Closes(k, t)
  PROVE  k \in Brackets /\ \A r \in Refined(k) : r = t
<1>1. Within(Apart(k, t), Coarse)
  <2>1. /\ 2 * Report \in Int /\ 2 * Coarse \in Nat /\ -(2 * Coarse) <= 2 * Report
        /\ 2 * Report <= 2 * Coarse
    BY FineSteps
  <2>2. Sqr(2 * Report) <= Sqr(2 * Coarse)
    <3> DEFINE m == 2 * Report
               n == 2 * Coarse
    <3> HIDE DEF m, n
    <3>1. m \in Int /\ n \in Nat /\ -n <= m /\ m <= n
      BY <2>1 DEF m, n
    <3>2. Sqr(m) <= Sqr(n)
      BY <3>1, SqrGrows
    <3> QED BY <3>2 DEF m, n
  <2>3. Sqr(2 * Report) \in Nat /\ Sqr(2 * Coarse) \in Nat /\ Apart(k, t) \in Nat
    BY <2>1, SqrIsNat, DistancesAreNatural
  <2> QED BY <2>2, <2>3 DEF Within
<1>2. BoundWithin(k)
  BY <1>1, BoundIsLower
<1>3. k \in Brackets
  BY <1>2 DEF Brackets
<1> QED BY <1>3, OneTurn

LEMMA ApproachIsBracketed ==
  ASSUME motion \in Motions, Resolved, NEW n \in 1..(Intervals * Fine - 1),
         Closest(n), Within(Distance(n), Report)
  PROVE  \E k \in Brackets, t \in 0..Fine :
           n = k * Fine + t /\ Apart(k, t) = Distance(n) /\ \A r \in Refined(k) : r = t
<1>1. Fine \in Nat \ {0} /\ 2 <= Fine /\ Intervals \in Nat
  BY FineSteps
<1>2. PICK k \in 0..(Intervals - 1), t \in 0..(Fine - 1) : n = k * Fine + t /\ (t > 0 \/ k > 0)
  BY TimeIs
<1>3. k \in Nat /\ t \in Nat /\ k * Fine \in Nat
  BY <1>1, <1>2
<1>4. /\ Distance(n) < Distance(n - 1) /\ Distance(n) <= Distance(n + 1)
      /\ Valid((n - 1) \div Fine) /\ Valid(((n - 1) + Fine - 1) \div Fine)
      /\ Valid((n + 1) \div Fine) /\ Valid(((n + 1) + Fine - 1) \div Fine)
  BY DEF Closest
<1>5. /\ \A j \in 0..(Intervals - 1) : \A u \in 0..(Fine - 1) :
           /\ RangeRate(j) >= 0 => ~Closes(j, u)
           /\ RangeRate(j + 1) < 0 => Closes(j, u)
      /\ \A j \in Grid : RangeRate(j) \in Int
  BY RatesAreWhole DEF Resolved
<1>6. k \in Grid /\ k + 1 \in Grid
  BY <1>1, <1>2 DEF Grid
<1>7. Distance(n + 1) = Apart(k, t + 1) /\ ~Closes(k, t) /\ Distance(n) = Apart(k, t)
  <2>1. t + 1 \in 0..Fine /\ t \in 0..Fine /\ n + 1 = k * Fine + (t + 1)
    BY <1>1, <1>2, <1>3
  <2>2. Distance(n + 1) = Apart(k, t + 1) /\ Distance(n) = Apart(k, t)
    BY <1>2, <2>1, DistanceIs
  <2>3. Apart(k, t + 1) \in Nat /\ Apart(k, t) \in Nat
    BY <2>1, DistancesAreNatural
  <2> QED BY <1>4, <2>2, <2>3 DEF Closes
<1>8. Valid(k + 1)
  <2>1. (n + 1) + Fine - 1 = (k + 1) * Fine + t /\ k + 1 \in Int
    BY <1>1, <1>2, <1>3
  <2>2. ((k + 1) * Fine + t) \div Fine = k + 1
    BY <1>1, <2>1, DivisionIs
  <2> QED BY <1>4, <2>1, <2>2
<1>9. RangeRate(k + 1) >= 0
  <2>1. ~(RangeRate(k + 1) < 0)
    BY <1>5, <1>7
  <2> QED BY <1>5, <1>6, <2>1
<1>10. CASE t > 0
  <2>1. /\ t - 1 \in 0..(Fine - 1) /\ t - 1 \in 0..Fine /\ t \in 0..Fine /\ (t - 1) + 1 = t
        /\ n - 1 = k * Fine + (t - 1)
    BY <1>1, <1>2, <1>3, <1>10
  <2>2. Distance(n - 1) = Apart(k, t - 1)
    BY <2>1, DistanceIs
  <2>3. Closes(k, t - 1)
    BY <1>4, <1>7, <2>1, <2>2 DEF Closes
  <2>4. Valid(k)
    <3>1. (k * Fine + (t - 1)) \div Fine = k
      BY <1>1, <2>1, DivisionIs
    <3> QED BY <1>4, <2>1, <3>1
  <2>5. RangeRate(k) < 0
    <3>1. ~(RangeRate(k) >= 0)
      BY <1>5, <2>1, <2>3
    <3> QED BY <1>5, <1>6, <3>1
  <2>6. k \in Brackets /\ \A r \in Refined(k) : r = t
    BY <1>7, <1>8, <1>9, <2>1, <2>3, <2>4, <2>5, BracketIs
  <2> QED BY <1>2, <1>7, <2>1, <2>6
<1>11. CASE t = 0
  <2> DEFINE j == k - 1
  <2>1. /\ j \in 0..(Intervals - 1) /\ j + 1 = k /\ j \in Int /\ j \in Grid
        /\ Fine - 1 \in 0..(Fine - 1) /\ Fine - 1 \in 0..Fine /\ (Fine - 1) + 1 = Fine
        /\ Fine \in 0..Fine /\ 0 \in 0..Fine /\ 0 \in 0..(Fine - 1)
    BY <1>1, <1>2, <1>11 DEF Grid
  <2>2. /\ n = j * Fine + Fine /\ n - 1 = j * Fine + (Fine - 1) /\ n = k * Fine
        /\ (n - 1) + Fine - 1 = k * Fine + (Fine - 2)
    BY <1>1, <1>2, <1>3, <1>11
  <2> HIDE DEF j
  <2>3. Distance(n - 1) = Apart(j, Fine - 1) /\ Distance(n) = Apart(j, Fine)
    BY <2>1, <2>2, DistanceIs
  <2>4. Closes(j, Fine - 1)
    BY <1>4, <2>1, <2>3 DEF Closes
  <2>5. Valid(j) /\ Valid(k)
    <3>1. (j * Fine + (Fine - 1)) \div Fine = j
      BY <1>1, <2>1, DivisionIs
    <3>2. Fine - 2 \in 0..(Fine - 1) /\ k \in Int
      BY <1>1, <1>3
    <3>3. (k * Fine + (Fine - 2)) \div Fine = k
      BY <1>1, <3>2, DivisionIs
    <3> QED BY <1>4, <2>2, <3>1, <3>3
  <2>6. RangeRate(j) < 0
    <3>1. ~(RangeRate(j) >= 0)
      BY <1>5, <2>1, <2>4
    <3> QED BY <1>5, <2>1, <3>1
  <2>7. CASE RangeRate(k) >= 0
    <3>1. j \in Brackets /\ \A r \in Refined(j) : r = Fine
      BY <2>1, <2>3, <2>4, <2>5, <2>6, <2>7, BracketIs
    <3> QED BY <2>1, <2>2, <2>3, <3>1
  <2>8. CASE ~(RangeRate(k) >= 0)
    <3>1. RangeRate(k) < 0
      BY <1>5, <1>6, <2>8
    <3>2. k \in Brackets /\ \A r \in Refined(k) : r = 0
      BY <1>7, <1>8, <1>9, <1>11, <2>1, <2>5, <3>1, BracketIs
    <3> QED BY <1>2, <1>7, <1>11, <2>1, <3>2
  <2> QED BY <2>7, <2>8
<1> QED BY <1>3, <1>10, <1>11

-----------------------------------------------------------------------------
(* The loop.                                                               *)

\* What the loop has made of a candidate: it was refined to some instant, and
\* if that is near enough there is an event.
Handled(k) ==
  \E t \in Refined(k) : Within(Apart(k, t), Report) =>
    \E tca \in tcas : Abs(tca - (k * Fine + t)) <= Tolerance

ScreenInv ==
  /\ motion \in Motions /\ step \in {"detect", "refine", "reported"}
  /\ todo \subseteq Grid /\ tcas \subseteq Int /\ lastTca \in Int
  /\ lastTca >= 0 => lastTca \in tcas
  /\ step # "detect" => \A k \in Brackets : k \in todo \/ Handled(k)
  /\ step = "reported" => todo = {}

LEMMA SameMotion ==
  ASSUME UNCHANGED motion
  PROVE  /\ Brackets' = Brackets
         /\ \A k \in Grid : Refined(k)' = Refined(k)
         /\ \A k \in Grid : \A t \in 0..Fine : Apart(k, t)' = Apart(k, t)
<1>1. State' = State
  BY DEF State
<1>2. ASSUME NEW k, NEW t PROVE Apart(k, t)' = Apart(k, t)
  BY <1>1 DEF Apart
<1>3. \A k : RangeRate(k)' = RangeRate(k) /\ Valid(k)' = Valid(k) /\ BoundWithin(k)' = BoundWithin(k)
  BY <1>1 DEF RangeRate, Valid, BoundWithin, LineMin
<1>4. Brackets' = Brackets
  BY <1>3 DEF Brackets
<1>5. ASSUME NEW k PROVE Refined(k)' = Refined(k)
  BY <1>2, <1>4 DEF Refined
<1> QED BY <1>2, <1>4, <1>5

LEMMA CandidatesOnTheGrid ==
  ASSUME motion \in Motions
  PROVE  /\ Brackets \subseteq Grid /\ Edges \subseteq Grid /\ Fallback \subseteq Grid
         /\ \A k \in Grid : Refined(k) \subseteq 0..Fine
<1>1. Brackets \subseteq Grid
  BY Samples DEF Brackets
<1>2. Edges \subseteq Grid /\ Fallback \subseteq Grid
  BY DEF Edges, Fallback
<1>3. ASSUME NEW k \in Grid PROVE Refined(k) \subseteq 0..Fine
  BY FineSteps DEF Refined
<1> QED BY <1>1, <1>2, <1>3

\* What was handled stays so: events are only added.
LEMMA HandledStays ==
  ASSUME motion \in Motions, UNCHANGED motion, tcas \subseteq tcas', NEW k \in Grid, Handled(k)
  PROVE  Handled(k)'
<1>1. PICK t \in Refined(k) : Within(Apart(k, t), Report) =>
                               \E tca \in tcas : Abs(tca - (k * Fine + t)) <= Tolerance
  BY DEF Handled
<1>2. t \in 0..Fine
  BY CandidatesOnTheGrid
<1>3. Refined(k)' = Refined(k) /\ Apart(k, t)' = Apart(k, t)
  BY <1>2, SameMotion
<1>4. Within(Apart(k, t), Report)' = Within(Apart(k, t), Report)
  BY <1>3 DEF Within
<1> QED BY <1>1, <1>3, <1>4 DEF Handled

LEMMA DetectKeeps ==
  ASSUME ScreenInv, Detect
  PROVE  ScreenInv'
<1>1. motion \in Motions /\ motion' = motion /\ lastTca' = lastTca /\ tcas' = tcas /\ step' = "refine"
  BY DEF ScreenInv, Detect
<1>2. todo' \subseteq Grid /\ Brackets \subseteq todo'
  <2>1. CASE Brackets \cup Edges # {}
    BY <1>1, <2>1, CandidatesOnTheGrid DEF Detect
  <2>2. CASE Brackets \cup Edges = {}
    BY <1>1, <2>2, CandidatesOnTheGrid DEF Detect
  <2> QED BY <2>1, <2>2
<1>3. Brackets' = Brackets
  BY <1>1, SameMotion
<1> QED BY <1>1, <1>2, <1>3 DEF ScreenInv

LEMMA RefineKeeps ==
  ASSUME ScreenInv, RefineNext
  PROVE  ScreenInv'
<1>1. /\ motion \in Motions /\ motion' = motion /\ step = "refine" /\ step' = step
      /\ todo # {} /\ todo \subseteq Grid /\ tcas \subseteq Int /\ lastTca \in Int
      /\ lastTca >= 0 => lastTca \in tcas
      /\ \A k \in Brackets : k \in todo \/ Handled(k)
  BY DEF ScreenInv, RefineNext
<1>2. (CHOOSE k \in todo : \A j \in todo : k <= j) \in todo
  <2>1. todo \in SUBSET Nat
    BY <1>1 DEF Grid
  <2>2. \E k \in todo : \A j \in todo : k <= j
    BY <1>1, <2>1, LeastOf
  <2> QED BY <2>2
<1>3. PICK c \in todo : \E t \in Refined(c) :
        LET tca == c * Fine + t
            new == /\ Within(Apart(c, t), Report)
                   /\ lastTca >= 0 => Abs(tca - lastTca) > Tolerance
        IN /\ todo' = todo \ {c}
           /\ tcas' = IF new THEN tcas \cup {tca} ELSE tcas
           /\ lastTca' = IF new THEN tca ELSE lastTca
  BY <1>2 DEF RefineNext
<1>4. PICK t \in Refined(c) :
        LET tca == c * Fine + t
            new == /\ Within(Apart(c, t), Report)
                   /\ lastTca >= 0 => Abs(tca - lastTca) > Tolerance
        IN /\ todo' = todo \ {c}
           /\ tcas' = IF new THEN tcas \cup {tca} ELSE tcas
           /\ lastTca' = IF new THEN tca ELSE lastTca
  BY <1>3
<1> DEFINE tca == c * Fine + t
           new == /\ Within(Apart(c, t), Report)
                  /\ lastTca >= 0 => Abs(tca - lastTca) > Tolerance
<1>5. c \in Grid /\ t \in 0..Fine /\ tca \in Int /\ tca >= 0 /\ Tolerance \in Nat
  <2>1. c \in Grid /\ t \in 0..Fine
    BY <1>1, CandidatesOnTheGrid
  <2>2. c \in Nat /\ t \in Nat /\ Fine \in Nat /\ Tolerance \in Nat
    BY <2>1, FineSteps DEF Grid
  <2>3. c * Fine \in Nat
    BY <2>2
  <2> QED BY <2>1, <2>2, <2>3
<1>6. /\ todo' = todo \ {c} /\ tcas \subseteq tcas' /\ tcas' \subseteq Int
      /\ lastTca' \in Int
      /\ lastTca' >= 0 => lastTca' \in tcas'
  <2> HIDE DEF tca
  <2>1. CASE new
    BY <1>1, <1>4, <1>5, <2>1 DEF tca
  <2>2. CASE ~new
    BY <1>1, <1>4, <2>2 DEF tca
  <2> QED BY <2>1, <2>2
<1>7. Within(Apart(c, t), Report) => \E e \in tcas' : Abs(e - tca) <= Tolerance
  <2> SUFFICES ASSUME Within(Apart(c, t), Report)
               PROVE  \E e \in tcas' : Abs(e - tca) <= Tolerance
    OBVIOUS
  <2>1. CASE new
    <3>1. tca \in tcas'
      BY <1>4, <2>1
    <3>2. Abs(tca - tca) <= Tolerance
      <4> HIDE DEF tca
      <4> QED BY <1>5 DEF Abs
    <3> QED BY <3>1, <3>2
  <2>2. CASE ~new
    <3>1. lastTca >= 0 /\ ~(Abs(tca - lastTca) > Tolerance)
      BY <2>2
    <3>2. lastTca \in tcas'
      BY <1>1, <1>6, <3>1
    <3>3. Abs(lastTca - tca) <= Tolerance
      <4> HIDE DEF tca
      <4> QED BY <1>1, <1>5, <3>1 DEF Abs
    <3> QED BY <3>2, <3>3
  <2> QED BY <2>1, <2>2
<1>8. Brackets' = Brackets /\ Refined(c)' = Refined(c) /\ Apart(c, t)' = Apart(c, t)
  BY <1>1, <1>5, SameMotion
<1>9. Handled(c)'
  <2>1. Within(Apart(c, t), Report)' = Within(Apart(c, t), Report)
    BY <1>8 DEF Within
  <2> QED BY <1>7, <1>8, <2>1 DEF Handled
<1>10. ASSUME NEW k \in Brackets' PROVE k \in todo' \/ Handled(k)'
  <2>1. k \in Grid /\ k \in Brackets
    BY <1>1, <1>8, <1>10, CandidatesOnTheGrid
  <2>2. CASE k = c
    BY <1>9, <2>2
  <2>3. CASE k # c /\ Handled(k)
    BY <1>1, <1>6, <2>1, <2>3, HandledStays
  <2>4. CASE k # c /\ k \in todo
    BY <1>6, <2>4
  <2> QED BY <1>1, <2>1, <2>2, <2>3, <2>4
<1> QED BY <1>1, <1>6, <1>10 DEF ScreenInv

LEMMA ScreeningKeeps ==
  ASSUME ScreenInv, [ScreeningNext]_screenVars
  PROVE  ScreenInv'
<1>1. ASSUME UNCHANGED <<motion, todo, lastTca, tcas>>, step' \in {"detect", "refine", "reported"},
             step' = "detect" <=> step = "detect", step' = "reported" => todo = {}
      PROVE  ScreenInv'
  <2>1. motion \in Motions /\ Brackets' = Brackets /\ Brackets \subseteq Grid /\ tcas \subseteq tcas'
    BY <1>1, SameMotion, CandidatesOnTheGrid DEF ScreenInv
  <2>2. ASSUME step # "detect", NEW k \in Brackets PROVE k \in todo' \/ Handled(k)'
    <3>1. k \in Grid /\ (k \in todo \/ Handled(k))
      BY <2>1, <2>2 DEF ScreenInv
    <3> QED BY <1>1, <2>1, <3>1, HandledStays
  <2> QED BY <1>1, <2>1, <2>2 DEF ScreenInv
<1>2. CASE ReportEvents
  BY <1>1, <1>2 DEF ReportEvents
<1>3. CASE UNCHANGED screenVars
  BY <1>1, <1>3 DEF screenVars, ScreenInv
<1> QED BY <1>2, <1>3, DetectKeeps, RefineKeeps DEF ScreeningNext

LEMMA HandledIsReported ==
  ASSUME ScreenInv
  PROVE  EveryApproachReported
<1> SUFFICES ASSUME step = "reported", Resolved, NEW n \in 1..(Intervals * Fine - 1),
                    Closest(n), Within(Distance(n), Report)
             PROVE  \E tca \in tcas : Abs(tca - n) <= Tolerance
  BY DEF EveryApproachReported
<1>1. motion \in Motions /\ \A k \in Brackets : Handled(k)
  BY DEF ScreenInv
<1>2. PICK k \in Brackets, t \in 0..Fine :
        n = k * Fine + t /\ Apart(k, t) = Distance(n) /\ \A r \in Refined(k) : r = t
  BY <1>1, ApproachIsBracketed
<1>3. Handled(k)
  BY <1>1
<1> QED BY <1>2, <1>3 DEF Handled

\* Every close approach of the window is reported: the bound drops no interval
\* that holds one, and what stands in for it is the same instant.
THEOREM ApproachesAreReported == ScreeningSpec => []EveryApproachReported
<1>1. ScreeningInit => ScreenInv
  BY DEF ScreeningInit, ScreenInv
<1> QED BY <1>1, ScreeningKeeps, HandledIsReported, PTL DEF ScreeningSpec

=============================================================================
