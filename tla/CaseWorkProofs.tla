---------------------------- MODULE CaseWorkProofs ----------------------------
(***************************************************************************)
(* Proofs about CaseWork, for any number of requests, rows and readings of *)
(* the clock: the audit trail is in order, and accounts for the rows.      *)
(*                                                                         *)
(* No stamp repeats or goes back, in this process and over a restart.  A   *)
(* request that has flushed a change holds the row until it has committed, *)
(* and is stamped meanwhile: two that changed a row cannot both be open,   *)
(* so the one that commits later was stamped later.  What an entry says of *)
(* a column it wrote is what its request wrote there.                      *)
(***************************************************************************)
EXTENDS CaseWork, TLAPS

CaseStages == {"idle", "event", "flush", "audit", "commit", "done"}

\* What a request holds may be anything.
Session(V) == [stage : CaseStages, request : V, saw : V, writes : V, entry : V]

CaseTypeOK ==
  /\ wall \in Int /\ last \in Int /\ past \in Int
  /\ \E V : work \in [Workers -> Session(V)] /\ trail \in Seq(V)

Latest == IF last >= 0 THEN last ELSE past

\* A request that has not flushed holds nothing; one that has, holds what it
\* set to something else; one that is stamped has told what it holds.
Holds(w) ==
  LET t == work[w] IN
  /\ t.stage \notin {"audit", "commit"} => DOMAIN t.writes = {}
  /\ t.stage \notin {"idle", "done"} => t.request.row \in Rows
  /\ t.stage = "audit" => t.writes = [c \in Dirty(w) |-> Effect(w, t.request)[c]]
  /\ t.stage = "commit" =>
       /\ t.entry.at \in Int /\ t.entry.at <= Latest
       /\ t.entry.wrote = DOMAIN t.writes /\ DOMAIN t.entry.new \subseteq Cells
       /\ \A c \in DOMAIN t.entry.new \cap t.entry.wrote : t.entry.new[c] = t.writes[c]
       /\ \A i \in 1..Len(trail) :
            RowsOf(trail[i]) \cap RowsOf(t.entry) # {} => trail[i].at < t.entry.at

LocksApart == \A u, w \in Workers : u # w => Locked(u) \cap Locked(w) = {}

Times ==
  /\ last = -1 => wall > past
  /\ last >= 0 \/ last = -1
  /\ wall >= 0 /\ past >= -1
  /\ \A i \in 1..Len(trail) :
       trail[i].at \in Int /\ trail[i].at <= Latest /\ DOMAIN trail[i].new \subseteq Cells

CaseInv ==
  /\ CaseTypeOK /\ LocksApart /\ Times
  /\ \A w \in Workers : Holds(w)
  /\ AuditInOrder /\ AuditExplains

-----------------------------------------------------------------------------
(* What each step makes of the request.                                    *)

\* A step of worker w, whose transaction becomes n.
Becomes(w, n) ==
  /\ work' = [work EXCEPT ![w] = n]
  /\ \E V : work' \in [Workers -> Session(V)] /\ trail \in Seq(V)
  /\ work'[w] = n /\ \A u \in Workers \ {w} : work'[u] = work[u]

LEMMA Moves ==
  ASSUME CaseTypeOK, NEW w \in Workers, NEW U, NEW n \in Session(U),
         work' = [work EXCEPT ![w] = n]
  PROVE  Becomes(w, n)
<1>1. PICK V : work \in [Workers -> Session(V)] /\ trail \in Seq(V)
  BY DEF CaseTypeOK
<1> DEFINE B == U \cup V
<1>2. n \in Session(B) /\ Session(V) \subseteq Session(B)
  BY DEF Session
<1>3. V \subseteq B
  OBVIOUS
<1> HIDE DEF B
<1>4. trail \in Seq(B)
  BY <1>1, <1>3
<1>5. work' \in [Workers -> Session(B)] /\ work'[w] = n
      /\ \A u \in Workers \ {w} : work'[u] = work[u]
  BY <1>1, <1>2
<1> QED BY <1>4, <1>5 DEF Becomes

LEMMA IdleTyped == Idle \in Session({NoValue, <<>>}) /\ Idle.writes = <<>> /\ Idle.stage = "idle"
BY DEF Idle, Session, CaseStages

LEMMA ReadMoves ==
  ASSUME CaseTypeOK, NEW w \in Workers, NEW q \in Requests, Read(w, q)
  PROVE  \E n : Becomes(w, n) /\ n.stage \in {"event", "flush"} /\ n.request = q /\ n.writes = <<>>
<1> DEFINE st == IF MovesEvent(q) THEN "event" ELSE "flush"
           saw == Values(q.row)
           i == Idle
           n == [i EXCEPT !.stage = st, !.request = q, !.saw = saw]
           U == {NoValue, <<>>, q, saw}
<1>1. work' = [work EXCEPT ![w] = n]
  BY DEF Read
<1>2. st \in {"event", "flush"}
  OBVIOUS
<1>3. i \in Session(U) /\ i.writes = <<>> /\ q \in U /\ saw \in U
  BY IdleTyped DEF Session
<1> HIDE DEF saw, st, i, U
<1>4. n \in Session(U) /\ n.stage = st /\ n.request = q /\ n.writes = <<>>
  BY <1>2, <1>3 DEF Session, CaseStages
<1> HIDE DEF n
<1> QED BY <1>1, <1>2, <1>4, Moves

LEMMA ReadEventMoves ==
  ASSUME CaseTypeOK, NEW w \in Workers, ReadEvent(w)
  PROVE  \E n : /\ Becomes(w, n) /\ n.stage = "flush" /\ n.request = work[w].request
                /\ n.writes = work[w].writes
<1> DEFINE t == work[w]
           saw == t.saw @@ Values(EventOf[t.request.row])
           n == [t EXCEPT !.stage = "flush", !.saw = saw]
<1>1. work' = [work EXCEPT ![w].stage = "flush", ![w].saw = saw]
  BY DEF ReadEvent
<1> HIDE DEF saw
<1>2. work' = [work EXCEPT ![w] = n]
  BY <1>1 DEF CaseTypeOK
<1>3. PICK V : t \in Session(V)
  BY DEF CaseTypeOK
<1> HIDE DEF t
<1>4. /\ n \in Session(V \cup {saw}) /\ n.stage = "flush" /\ n.request = t.request
      /\ n.writes = t.writes
  BY <1>3 DEF Session, CaseStages
<1> HIDE DEF n
<1> QED BY <1>2, <1>4, Moves DEF t

LEMMA FlushMoves ==
  ASSUME CaseTypeOK, NEW w \in Workers, FlushCase(w)
  PROVE  \E n : /\ Becomes(w, n) /\ n.stage = "audit" /\ n.request = work[w].request
                /\ n.saw = work[w].saw
                /\ n.writes = [c \in Dirty(w) |-> Effect(w, work[w].request)[c]]
<1> DEFINE t == work[w]
           wr == [c \in Dirty(w) |-> Effect(w, work[w].request)[c]]
           n == [t EXCEPT !.stage = "audit", !.writes = wr]
<1>1. work' = [work EXCEPT ![w].stage = "audit", ![w].writes = wr]
  BY DEF FlushCase
<1> HIDE DEF wr
<1>2. work' = [work EXCEPT ![w] = n]
  BY <1>1 DEF CaseTypeOK
<1>3. PICK V : t \in Session(V)
  BY DEF CaseTypeOK
<1> HIDE DEF t
<1>4. /\ n \in Session(V \cup {wr}) /\ n.stage = "audit" /\ n.request = t.request
      /\ n.saw = t.saw /\ n.writes = wr
  BY <1>3 DEF Session, CaseStages
<1> HIDE DEF n
<1> QED BY <1>2, <1>4, Moves DEF t, wr

LEMMA AuditMoves ==
  ASSUME CaseTypeOK, NEW w \in Workers, Audit(w)
  PROVE  \E n : /\ Becomes(w, n) /\ n.stage = "commit" /\ n.request = work[w].request
                /\ n.writes = work[w].writes
                /\ n.entry.at = AuditTimestamp /\ n.entry.new = NewState(w)
                /\ n.entry.wrote = DOMAIN work[w].writes
<1> DEFINE t == work[w]
           e == [at |-> AuditTimestamp, action |-> work[w].request.action,
                 row |-> work[w].request.row,
                 new |-> NewState(w), wrote |-> DOMAIN work[w].writes]
           n == [t EXCEPT !.stage = "commit", !.entry = e]
<1>1. work' = [work EXCEPT ![w].stage = "commit", ![w].entry = e]
  BY DEF Audit
<1>2. e.at = AuditTimestamp /\ e.new = NewState(w) /\ e.wrote = DOMAIN work[w].writes
  OBVIOUS
<1> HIDE DEF e
<1>3. work' = [work EXCEPT ![w] = n]
  BY <1>1 DEF CaseTypeOK
<1>4. PICK V : t \in Session(V)
  BY DEF CaseTypeOK
<1> HIDE DEF t
<1>5. /\ n \in Session(V \cup {e}) /\ n.stage = "commit" /\ n.request = t.request
      /\ n.writes = t.writes /\ n.entry = e
  BY <1>4 DEF Session, CaseStages
<1> HIDE DEF n
<1> QED BY <1>2, <1>3, <1>5, Moves DEF t

LEMMA DoneTyped ==
  LET n == [Idle EXCEPT !.stage = "done"] IN
  n \in Session({NoValue, <<>>}) /\ n.stage = "done" /\ n.writes = <<>>
<1> DEFINE i == Idle
           n == [i EXCEPT !.stage = "done"]
<1>1. i \in Session({NoValue, <<>>}) /\ i.writes = <<>>
  BY IdleTyped
<1> HIDE DEF i
<1>2. n \in Session({NoValue, <<>>}) /\ n.stage = "done" /\ n.writes = <<>>
  BY <1>1 DEF Session, CaseStages
<1> QED BY <1>2 DEF i

LEMMA CommitMoves ==
  ASSUME CaseTypeOK, NEW w \in Workers, CommitWork(w)
  PROVE  \E n : Becomes(w, n) /\ n.stage = "done" /\ n.writes = <<>>
<1> DEFINE n == [Idle EXCEPT !.stage = "done"]
<1>1. work' = [work EXCEPT ![w] = n]
  BY DEF CommitWork
<1>2. n \in Session({NoValue, <<>>}) /\ n.stage = "done" /\ n.writes = <<>>
  BY DoneTyped
<1> HIDE DEF n
<1> QED BY <1>1, <1>2, Moves

\* The trail grows by an entry.
LEMMA Appended ==
  ASSUME NEW V, NEW s \in Seq(V), NEW e
  PROVE  /\ Append(s, e) \in Seq(V \cup {e}) /\ Len(Append(s, e)) = Len(s) + 1
         /\ Len(s) \in Nat /\ Append(s, e)[Len(s) + 1] = e
         /\ \A i \in 1..Len(s) : Append(s, e)[i] = s[i]
<1>1. s \in Seq(V \cup {e})
  OBVIOUS
<1> QED BY <1>1

-----------------------------------------------------------------------------
(* The invariant.                                                          *)

\* What a step of w leaves to the requests that it does not touch.
LEMMA OthersHold ==
  ASSUME CaseInv, NEW w \in Workers, NEW u \in Workers \ {w}, work'[u] = work[u],
         trail' = trail, Latest' \in Int, Latest <= Latest', Latest \in Int
  PROVE  Holds(u)'
<1>1. Holds(u) /\ Dirty(u)' = Dirty(u)
  BY DEF CaseInv, Dirty
<1> QED BY <1>1 DEF Holds

LEMMA LatestTyped == ASSUME CaseInv PROVE Latest \in Int
BY DEF CaseInv, CaseTypeOK, Latest

\* A step of w that only changes its own transaction.
LEMMA OwnStep ==
  ASSUME CaseInv, NEW w \in Workers, NEW n, Becomes(w, n), Holds(w)',
         UNCHANGED <<cell, trail, wall, last, past>>,
         \A u \in Workers \ {w} : Locked(u) \cap {c[1] : c \in DOMAIN n.writes} = {}
  PROVE  CaseInv'
<1>1. CaseTypeOK'
  BY DEF CaseInv, CaseTypeOK, Becomes
<1>2. \A u \in Workers \ {w} : Locked(u)' = Locked(u)
  BY DEF Becomes, Locked
<1>3. Locked(w)' = {c[1] : c \in DOMAIN n.writes}
  BY DEF Becomes, Locked
<1>4. LocksApart'
  BY <1>2, <1>3 DEF CaseInv, LocksApart
<1>5. Latest' = Latest /\ Latest \in Int
  BY LatestTyped DEF Latest
<1>6. \A u \in Workers : Holds(u)'
  BY <1>5, OthersHold DEF Becomes
<1>7. Times' /\ AuditInOrder' /\ AuditExplains'
  BY <1>5 DEF CaseInv, Times, AuditInOrder, AuditExplains
<1> QED BY <1>1, <1>4, <1>6, <1>7 DEF CaseInv

LEMMA ReadKeeps ==
  ASSUME CaseAssumption, CaseInv, NEW w \in Workers, NEW q \in Requests, Read(w, q)
  PROVE  CaseInv'
<1>1. PICK n : Becomes(w, n) /\ n.stage \in {"event", "flush"} /\ n.request = q /\ n.writes = <<>>
  BY ReadMoves DEF CaseInv
<1>2. DOMAIN n.writes = {}
  BY <1>1
<1>3. Holds(w)'
  BY <1>1, <1>2 DEF Holds, Becomes, CaseAssumption
<1> QED BY <1>1, <1>2, <1>3, OwnStep DEF Read

LEMMA ReadEventKeeps ==
  ASSUME CaseInv, NEW w \in Workers, ReadEvent(w)
  PROVE  CaseInv'
<1>1. PICK n : /\ Becomes(w, n) /\ n.stage = "flush" /\ n.request = work[w].request
               /\ n.writes = work[w].writes
  BY ReadEventMoves DEF CaseInv
<1>2. DOMAIN n.writes = {} /\ n.request.row \in Rows
  BY <1>1 DEF CaseInv, Holds, ReadEvent
<1>3. Holds(w)'
  BY <1>1, <1>2 DEF Holds, Becomes
<1> QED BY <1>1, <1>2, <1>3, OwnStep DEF ReadEvent

LEMMA FlushKeeps ==
  ASSUME CaseInv, NEW w \in Workers, FlushCase(w)
  PROVE  CaseInv'
<1>1. PICK n : /\ Becomes(w, n) /\ n.stage = "audit" /\ n.request = work[w].request
               /\ n.saw = work[w].saw
               /\ n.writes = [c \in Dirty(w) |-> Effect(w, work[w].request)[c]]
  BY FlushMoves DEF CaseInv
<1>2. DOMAIN n.writes = Dirty(w) /\ n.request.row \in Rows
  BY <1>1 DEF CaseInv, Holds, FlushCase
<1>3. Dirty(w)' = Dirty(w)
  BY <1>1 DEF Dirty, Becomes
<1>4. Holds(w)'
  BY <1>1, <1>2, <1>3 DEF Holds, Becomes
<1>5. \A u \in Workers \ {w} : Locked(u) \cap {c[1] : c \in DOMAIN n.writes} = {}
  BY <1>2 DEF FlushCase
<1> QED BY <1>1, <1>4, <1>5, OwnStep DEF FlushCase

\* A stamp is later than all before it, and what it is put on holds its rows.
LEMMA AuditKeeps ==
  ASSUME CaseInv, NEW w \in Workers, Audit(w)
  PROVE  CaseInv'
<1> DEFINE t == work[w]
<1>1. PICK n : /\ Becomes(w, n) /\ n.stage = "commit" /\ n.request = t.request
               /\ n.writes = t.writes
               /\ n.entry.at = AuditTimestamp /\ n.entry.new = NewState(w)
               /\ n.entry.wrote = DOMAIN t.writes
  BY AuditMoves DEF CaseInv
<1>2. /\ last' = AuditTimestamp /\ UNCHANGED <<cell, trail, wall, past>> /\ t.stage = "audit"
      /\ wall \in Int /\ last \in Int /\ past \in Int
  BY DEF Audit, CaseInv, CaseTypeOK
<1>3. AuditTimestamp \in Int /\ Latest < AuditTimestamp /\ Latest \in Int
      /\ Latest' = AuditTimestamp /\ AuditTimestamp >= 0
  <2>1. /\ last = -1 => wall > past
        /\ last >= 0 \/ last = -1
    BY DEF CaseInv, Times
  <2>2. wall >= 0 /\ past >= -1
    BY DEF CaseInv, Times
  <2> QED BY <1>2, <2>1, <2>2 DEF AuditTimestamp, Latest
<1>4. CaseTypeOK'
  BY <1>1, <1>2, <1>3 DEF CaseTypeOK, Becomes
<1>5. LocksApart'
  <2>1. \A u \in Workers : Locked(u)' = Locked(u)
    BY <1>1 DEF Becomes, Locked
  <2> QED BY <2>1 DEF CaseInv, LocksApart
<1>6. \A i \in 1..Len(trail) : trail[i].at < AuditTimestamp /\ trail[i].at \in Int
  BY <1>3 DEF CaseInv, Times
<1>7. Holds(w)'
  <2>1. t.writes = [c \in Dirty(w) |-> Effect(w, t.request)[c]] /\ t.request.row \in Rows
    BY <1>2 DEF CaseInv, Holds
  <2>2. CellsOf(t.request.row) \subseteq Cells
    BY <2>1 DEF Cells
  <2>3. DOMAIN n.entry.new \subseteq Cells
    BY <1>1, <2>2 DEF NewState
  <2>4. \A c \in DOMAIN n.entry.new \cap n.entry.wrote : n.entry.new[c] = n.writes[c]
    BY <1>1, <2>1 DEF NewState, Dirty
  <2>5. n.entry.at \in Int /\ n.entry.at <= Latest'
    BY <1>1, <1>3
  <2>6. \A i \in 1..Len(trail) : trail[i].at < n.entry.at
    BY <1>1, <1>6
  <2> QED BY <1>1, <1>2, <2>1, <2>3, <2>4, <2>5, <2>6 DEF Holds, Becomes
<1>8. \A u \in Workers : Holds(u)'
  BY <1>1, <1>2, <1>3, <1>7, OthersHold DEF Becomes
<1>9. Times'
  BY <1>2, <1>3, <1>6 DEF CaseInv, Times
<1>10. AuditInOrder' /\ AuditExplains'
  BY <1>2 DEF CaseInv, AuditInOrder, AuditExplains
<1> QED BY <1>4, <1>5, <1>8, <1>9, <1>10 DEF CaseInv

\* The entry is later than those of the rows it changed, and says what it wrote.
LEMMA CommitKeeps ==
  ASSUME CaseInv, NEW w \in Workers, CommitWork(w)
  PROVE  CaseInv'
<1> DEFINE t == work[w]
           e == t.entry
           l == Len(trail)
<1>1. /\ t.stage = "commit" /\ trail' = Append(trail, e) /\ UNCHANGED <<wall, last, past>>
      /\ cell' = [c \in Cells |-> IF c \in DOMAIN t.writes THEN t.writes[c] ELSE cell[c]]
  BY DEF CommitWork
<1>2. PICK n : Becomes(w, n) /\ n.stage = "done" /\ n.writes = <<>>
  BY CommitMoves DEF CaseInv
<1>3. /\ e.at \in Int /\ e.at <= Latest
      /\ e.wrote = DOMAIN t.writes /\ DOMAIN e.new \subseteq Cells
      /\ \A c \in DOMAIN e.new \cap e.wrote : e.new[c] = t.writes[c]
      /\ \A i \in 1..l : RowsOf(trail[i]) \cap RowsOf(e) # {} => trail[i].at < e.at
  BY <1>1 DEF CaseInv, Holds
<1>4. PICK V : work' \in [Workers -> Session(V)] /\ trail \in Seq(V)
  BY <1>2 DEF Becomes
<1>5. /\ trail' \in Seq(V \cup {e}) /\ Len(trail') = l + 1 /\ l \in Nat /\ trail'[l + 1] = e
      /\ \A i \in 1..l : trail'[i] = trail[i]
  <2> HIDE DEF e
  <2> QED BY <1>1, <1>4, Appended
<1> HIDE DEF e, l
<1>6. CaseTypeOK'
  <2> DEFINE B == V \cup {e}
  <2>1. Session(V) \subseteq Session(B)
    BY DEF Session
  <2> HIDE DEF B
  <2>2. work' \in [Workers -> Session(B)]
    BY <1>4, <2>1
  <2> QED BY <1>1, <1>5, <2>2 DEF CaseInv, CaseTypeOK, B
<1>7. LocksApart'
  <2>1. \A u \in Workers \ {w} : Locked(u)' = Locked(u)
    BY <1>2 DEF Becomes, Locked
  <2>2. Locked(w)' = {}
    BY <1>2 DEF Becomes, Locked
  <2> QED BY <2>1, <2>2 DEF CaseInv, LocksApart
<1>8. Latest' = Latest /\ Latest \in Int
  BY <1>1, LatestTyped DEF Latest
<1>9. Times'
  <2>1. \A i \in 1..Len(trail') :
          trail'[i].at \in Int /\ trail'[i].at <= Latest /\ DOMAIN trail'[i].new \subseteq Cells
    <3> SUFFICES ASSUME NEW i \in 1..(l + 1)
                 PROVE  trail'[i].at \in Int /\ trail'[i].at <= Latest
                        /\ DOMAIN trail'[i].new \subseteq Cells
      BY <1>5
    <3>1. CASE i = l + 1
      BY <3>1, <1>3, <1>5
    <3>2. CASE i \in 1..l
      BY <3>2, <1>5 DEF CaseInv, Times, l
    <3> QED BY <3>1, <3>2, <1>5
  <2> QED BY <1>1, <1>8, <2>1 DEF CaseInv, Times
<1>10. AuditInOrder'
  <2> SUFFICES ASSUME NEW i \in 1..(l + 1), NEW j \in 1..(l + 1), i < j,
                      RowsOf(trail'[i]) \cap RowsOf(trail'[j]) # {}
               PROVE  trail'[i].at < trail'[j].at
    BY <1>5 DEF AuditInOrder
  <2>1. i \in 1..l /\ trail'[i] = trail[i]
    BY <1>5
  <2>2. CASE j = l + 1
    BY <2>1, <2>2, <1>3, <1>5
  <2>3. CASE j \in 1..l
    BY <2>1, <2>3, <1>5 DEF CaseInv, AuditInOrder, l
  <2> QED BY <2>2, <2>3, <1>5
<1>11. AuditExplains'
  <2> SUFFICES ASSUME NEW i \in 1..(l + 1), NEW c \in trail'[i].wrote \cap DOMAIN trail'[i].new,
                      \A j \in 1..(l + 1) : c \in trail'[j].wrote => trail'[j].at <= trail'[i].at
               PROVE  cell'[c] = trail'[i].new[c]
    BY <1>5 DEF AuditExplains
  <2>1. CASE i = l + 1
    <3>1. c \in Cells /\ c \in DOMAIN t.writes /\ e.new[c] = t.writes[c]
      BY <2>1, <1>3, <1>5
    <3> QED BY <3>1, <2>1, <1>1, <1>5
  <2>2. CASE i \in 1..l
    <3>1. trail'[i] = trail[i] /\ c \in Cells /\ trail[i].at \in Int
      BY <2>2, <1>5 DEF CaseInv, Times, l
    <3>2. c \notin e.wrote
      <4> SUFFICES ASSUME c \in e.wrote PROVE FALSE
        OBVIOUS
      <4>1. c[1] \in RowsOf(trail[i]) \cap RowsOf(e)
        BY <3>1 DEF RowsOf
      <4>2. trail[i].at < e.at
        BY <4>1, <2>2, <1>3
      <4>3. e.at <= trail[i].at
        BY <3>1, <1>5
      <4> QED BY <4>2, <4>3, <3>1, <1>3
    <3>3. cell'[c] = cell[c]
      BY <3>1, <3>2, <1>1, <1>3
    <3>4. \A j \in 1..l : c \in trail[j].wrote => trail[j].at <= trail[i].at
      BY <3>1, <1>5
    <3>5. cell[c] = trail[i].new[c]
      BY <2>2, <3>1, <3>4 DEF CaseInv, AuditExplains, l
    <3> QED BY <3>1, <3>3, <3>5
  <2> QED BY <2>1, <2>2, <1>5
<1>12. ASSUME NEW u \in Workers \ {w} PROVE Holds(u)'
  <2>1. Holds(u) /\ work'[u] = work[u] /\ Dirty(u)' = Dirty(u)
    BY <1>2 DEF CaseInv, Becomes, Dirty
  <2>2. ASSUME work[u].stage = "commit", NEW i \in 1..(l + 1),
               RowsOf(trail'[i]) \cap RowsOf(work[u].entry) # {}
        PROVE  trail'[i].at < work[u].entry.at
    <3>1. RowsOf(e) = Locked(w) /\ RowsOf(work[u].entry) = Locked(u)
      BY <1>3, <2>1, <2>2 DEF RowsOf, Locked, Holds
    <3>2. i # l + 1
      BY <3>1, <2>2, <1>5 DEF CaseInv, LocksApart
    <3>3. i \in 1..l /\ trail'[i] = trail[i]
      BY <3>2, <1>5
    <3> QED BY <3>3, <2>1, <2>2 DEF Holds, l
  <2> QED BY <2>1, <2>2, <1>5, <1>8 DEF Holds
<1>13. Holds(w)'
  BY <1>2 DEF Holds, Becomes
<1>14. \A u \in Workers : Holds(u)'
  BY <1>12, <1>13
<1> QED BY <1>6, <1>7, <1>9, <1>10, <1>11, <1>14 DEF CaseInv

LEMMA ClockKeeps ==
  ASSUME CaseInv, NEW t \in 0..MaxWall, CaseAssumption, SetClock(t)
  PROVE  CaseInv'
<1>1. /\ wall' = t /\ UNCHANGED <<cell, work, trail, last, past>>
      /\ last = -1 => t > past
      /\ t \in Int /\ t >= 0
  BY DEF SetClock, CaseAssumption
<1>2. CaseTypeOK'
  BY <1>1 DEF CaseInv, CaseTypeOK
<1>3. Latest' = Latest
  BY <1>1 DEF Latest
<1>4. Times'
  BY <1>1, <1>3 DEF CaseInv, Times
<1>5. ASSUME NEW u \in Workers PROVE Holds(u)' /\ Locked(u)' = Locked(u)
  <2>1. Holds(u) /\ Dirty(u)' = Dirty(u)
    BY <1>1 DEF CaseInv, Dirty
  <2> QED BY <2>1, <1>1, <1>3 DEF Holds, Locked
<1>6. LocksApart'
  BY <1>5 DEF CaseInv, LocksApart
<1>7. AuditInOrder' /\ AuditExplains'
  BY <1>1 DEF CaseInv, AuditInOrder, AuditExplains
<1> QED BY <1>2, <1>4, <1>5, <1>6, <1>7 DEF CaseInv

LEMMA RestartKeeps ==
  ASSUME CaseInv, CaseRestart
  PROVE  CaseInv'
<1> DEFINE d == [Idle EXCEPT !.stage = "done"]
<1>1. /\ last >= 0 /\ wall > last /\ last' = -1 /\ past' = last
      /\ work' = [w \in Workers |-> IF Busy(w) THEN d ELSE work[w]]
      /\ UNCHANGED <<cell, trail, wall>>
  BY DEF CaseRestart
<1>2. d \in Session({NoValue, <<>>}) /\ d.stage = "done" /\ DOMAIN d.writes = {}
  BY DoneTyped
<1> HIDE DEF d
<1>3. CaseTypeOK'
  <2>1. PICK V : work \in [Workers -> Session(V)] /\ trail \in Seq(V)
    BY DEF CaseInv, CaseTypeOK
  <2> DEFINE B == V \cup {NoValue, <<>>}
  <2>2. d \in Session(B) /\ Session(V) \subseteq Session(B) /\ V \subseteq B
    BY <1>2 DEF Session
  <2> HIDE DEF B
  <2>3. work' \in [Workers -> Session(B)] /\ trail' \in Seq(B)
    BY <1>1, <2>1, <2>2
  <2> QED BY <1>1, <2>3 DEF CaseInv, CaseTypeOK
<1>4. Latest' = Latest /\ Latest \in Int
  BY <1>1, LatestTyped DEF Latest
<1>5. Times'
  <2>1. last \in Int /\ wall \in Int
    BY DEF CaseInv, CaseTypeOK
  <2>2. last' = -1 /\ wall' > past' /\ wall' >= 0 /\ past' >= -1
    BY <1>1, <2>1
  <2>3. \A i \in 1..Len(trail) :
          trail[i].at \in Int /\ trail[i].at <= Latest /\ DOMAIN trail[i].new \subseteq Cells
    BY DEF CaseInv, Times
  <2> QED BY <1>1, <1>4, <2>2, <2>3 DEF Times
<1>6. ASSUME NEW u \in Workers
      PROVE  Holds(u)' /\ Locked(u)' = {}
  <2>1. work'[u] = IF Busy(u) THEN d ELSE work[u]
    BY <1>1
  <2>2. Holds(u)
    BY DEF CaseInv
  <2>3. work'[u].stage \in {"idle", "done"} /\ DOMAIN work'[u].writes = {}
    BY <1>2, <2>1, <2>2 DEF Busy, Holds
  <2> QED BY <2>3 DEF Holds, Locked
<1>7. LocksApart'
  BY <1>6 DEF LocksApart
<1>8. AuditInOrder' /\ AuditExplains'
  BY <1>1 DEF CaseInv, AuditInOrder, AuditExplains
<1> QED BY <1>3, <1>5, <1>6, <1>7, <1>8 DEF CaseInv

LEMMA CaseInvHolds ==
  ASSUME CaseInit PROVE CaseInv
<1> DEFINE d == Idle
           V == {NoValue, <<>>}
<1>1. d \in Session(V) /\ d.stage = "idle" /\ DOMAIN d.writes = {}
  BY IdleTyped
<1> HIDE DEF d
<1>2. work = [w \in Workers |-> d] /\ trail = <<>> /\ wall = 0 /\ last = -1 /\ past = -1
  BY DEF CaseInit, d
<1>3. work \in [Workers -> Session(V)] /\ trail \in Seq(V) /\ Len(trail) = 0
  BY <1>1, <1>2
<1> HIDE DEF V
<1>4. CaseTypeOK
  BY <1>2, <1>3 DEF CaseTypeOK
<1>5. \A w \in Workers : Holds(w) /\ Locked(w) = {}
  BY <1>1, <1>2 DEF Holds, Locked
<1>6. Times /\ AuditInOrder /\ AuditExplains
  BY <1>2, <1>3 DEF Times, AuditInOrder, AuditExplains
<1> QED BY <1>4, <1>5, <1>6 DEF CaseInv, LocksApart

LEMMA CaseInvStays ==
  ASSUME CaseAssumption, CaseInv, [CaseNext]_caseVars PROVE CaseInv'
<1>1. CASE UNCHANGED caseVars
  <2>1. \A u \in Workers : Dirty(u)' = Dirty(u) /\ Locked(u)' = Locked(u)
    BY <1>1 DEF caseVars, Dirty, Locked
  <2>2. Latest' = Latest
    BY <1>1 DEF caseVars, Latest
  <2>3. \A u \in Workers : Holds(u)'
    BY <1>1, <2>1, <2>2 DEF caseVars, CaseInv, Holds
  <2>4. Times' /\ LocksApart' /\ CaseTypeOK' /\ AuditInOrder' /\ AuditExplains'
    BY <1>1, <2>1, <2>2
       DEF caseVars, CaseInv, Times, LocksApart, CaseTypeOK, AuditInOrder, AuditExplains
  <2> QED BY <2>3, <2>4 DEF CaseInv
<1>2. CASE CaseNext
  BY <1>2, ReadKeeps, ReadEventKeeps, FlushKeeps, AuditKeeps, CommitKeeps, ClockKeeps, RestartKeeps
     DEF CaseNext
<1> QED BY <1>1, <1>2

\* Requests that changed the same row are stamped in the order in which their
\* changes took effect, whatever the clock does meanwhile: audit_timestamp,
\* apply_case_action.
THEOREM TrailIsInOrder == CaseSpec => []AuditInOrder
<1>1. CaseInv => AuditInOrder
  BY DEF CaseInv
<1>2. CaseInit => CaseInv
  BY CaseInvHolds
<1>3. CaseInv /\ [CaseNext]_caseVars => CaseInv'
  BY CaseAssumption, CaseInvStays
<1> QED BY <1>1, <1>2, <1>3, PTL DEF CaseSpec

\* The last entry, by its stamp, that changed a column of a case or an alert
\* says what the column holds: record_state, OntologyService._audit.
THEOREM TrailExplainsRows == CaseSpec => []AuditExplains
<1>1. CaseInv => AuditExplains
  BY DEF CaseInv
<1>2. CaseInit => CaseInv
  BY CaseInvHolds
<1>3. CaseInv /\ [CaseNext]_caseVars => CaseInv'
  BY CaseAssumption, CaseInvStays
<1> QED BY <1>1, <1>2, <1>3, PTL DEF CaseSpec

=============================================================================
