---------------------------- MODULE LiveFeedProofs ----------------------------
(***************************************************************************)
(* Proofs about LiveFeed, for any rows, pages, limits and clocks: a page   *)
(* receives one chronological feed, what a poll has seen is sent or gives  *)
(* way, and streams stay within the slots.                                 *)
(*                                                                         *)
(* That the feed is in order rests on one bound that moves with a request: *)
(* what the page has is no later than its cursor, nor than the mark of the *)
(* request that serves it, and a poll finds only what is later than the    *)
(* mark.  When the answer is ready the mark passes what was found, which   *)
(* is then delivered from the earliest on.                                 *)
(*                                                                         *)
(* What was there when a poll began is followed from query to answer to    *)
(* page; a row that an answer leaves out gives way to a full poll of newer *)
(* ones because the rows newer than it have the ranks below its own.       *)
(***************************************************************************)
EXTENDS LiveFeed, FiniteSetTheorems, TLAPS

FeedStages == {"off", "snapshot", "accepted", "polling", "shown", "sending", "waiting"}

Page == [stage : FeedStages, cursor : Int, mark : Int, next : Nat,
         found : SUBSET Items, settled : SUBSET Items, connects : Nat]

\* The type invariant: a row that is seen was stamped, and not in the future.
FeedTypeOK ==
  /\ time \in Nat
  /\ stamp \in [Items -> Int] /\ \A i \in Items : -1 <= stamp[i] /\ stamp[i] <= time
  /\ visible \subseteq Items /\ \A i \in visible : stamp[i] >= 0
  /\ sub \in [Subscribers -> Page]
  /\ got \in [Subscribers -> Seq(Items)]
  /\ open \in [Accounts -> Nat]

\* What page p, served by its request, has received (g), and what it will.
InOrder(p, g) ==
  /\ \A n \in 1..Len(g) : /\ stamp[g[n]] >= 0 /\ stamp[g[n]] <= p.cursor
                          /\ p.stage # "off" => stamp[g[n]] <= p.mark
  /\ \A m, n \in 1..Len(g) : m < n => Before(g[m], g[n])
  /\ p.stage \in {"snapshot", "polling"} =>
       \A i \in p.found : stamp[i] >= 0 /\ stamp[i] > p.mark
  /\ p.stage \in {"shown", "sending"} =>
       \A i \in p.found : /\ stamp[i] >= 0 /\ stamp[i] <= p.mark
                          /\ \A n \in 1..Len(g) : Before(g[n], i)

ChronoInv == \A c \in Subscribers : InOrder(sub[c], got[c])

-----------------------------------------------------------------------------
(* The first and the last of a set of rows.                                *)

LEMMA LeastNat ==
  ASSUME NEW T \in SUBSET Nat, T # {}
  PROVE  \E x \in T : \A y \in T : x <= y
<1>1. PICK x \in T : \A y \in T : ~ (<<y, x>> \in OpToRel(<, Nat))
  BY NatLessThanWellFounded, WFMin
<1>2. \A y \in T : ~ (y < x)
  BY <1>1 DEF OpToRel
<1> QED BY <1>2

\* Delivery's CHOOSE: a set of rows has one that is before all others.
LEMMA FirstRow ==
  ASSUME FeedTypeOK, FeedAssumption, NEW S \in SUBSET Items, S # {}, \A i \in S : stamp[i] >= 0
  PROVE  \E i \in S : \A j \in S \ {i} : Before(i, j)
<1>1. \A i \in S : stamp[i] \in Nat /\ i \in Nat
  BY DEF FeedTypeOK, FeedAssumption
<1> DEFINE T == {stamp[i] : i \in S}
<1>2. T \in SUBSET Nat /\ T # {}
  <2>1. PICK k \in S : stamp[k] \in T
    OBVIOUS
  <2>2. \A x \in T : x \in Nat
    BY <1>1
  <2> HIDE DEF T
  <2> QED BY <2>1, <2>2
<1>3. PICK t \in T : \A x \in T : t <= x
  BY <1>2, LeastNat
<1> DEFINE U == {i \in S : stamp[i] = t}
<1>4. U \in SUBSET Nat /\ U # {}
  BY <1>1
<1>5. PICK i \in U : \A j \in U : i <= j
  BY <1>4, LeastNat
<1>6. i \in S /\ stamp[i] = t
  OBVIOUS
<1>7. \A j \in S : /\ t <= stamp[j] /\ stamp[j] \in Nat /\ t \in Nat /\ j \in Nat /\ i \in Nat
                   /\ stamp[j] = t => i <= j
  BY <1>1, <1>3, <1>5, <1>6
<1> QED BY <1>6, <1>7 DEF Before

\* FeedCursor's CHOOSE: the rows have a last stamp.
LEMMA LastStamp ==
  ASSUME FeedTypeOK, NEW S \in SUBSET Items, S # {}
  PROVE  Latest(S) \in Int /\ (\A i \in S : stamp[i] <= Latest(S))
<1>1. \A i \in S : stamp[i] \in Int /\ stamp[i] <= time
  BY DEF FeedTypeOK
<1>2. time \in Int
  BY DEF FeedTypeOK
<1> DEFINE T == {time - stamp[i] : i \in S}
<1>3. T \in SUBSET Nat /\ T # {}
  BY <1>1, <1>2
<1>4. PICK x \in T : \A y \in T : x <= y
  BY <1>3, LeastNat
<1>5. PICK k \in S : x = time - stamp[k]
  BY <1>4
<1>6. \A i \in S : stamp[i] <= stamp[k]
  <2> TAKE i \in S
  <2>1. time - stamp[k] <= time - stamp[i]
    BY <1>4, <1>5
  <2> QED BY <2>1, <1>1, <1>2
<1>7. \E t \in {stamp[i] : i \in S} : \A i \in S : stamp[i] <= t
  BY <1>6
<1>8. Latest(S) \in {stamp[i] : i \in S} /\ (\A i \in S : stamp[i] <= Latest(S))
  BY <1>7 DEF Latest
<1> QED BY <1>1, <1>8

-----------------------------------------------------------------------------
(* Rows: what has a stamp keeps it.                                        *)

LEMMA RowsKeepOrder ==
  ASSUME FeedTypeOK, ChronoInv, UNCHANGED <<sub, got>>,
         stamp' \in [Items -> Int], \A i \in Items : stamp[i] >= 0 => stamp'[i] = stamp[i]
  PROVE  ChronoInv'
<1> SUFFICES ASSUME NEW c \in Subscribers PROVE InOrder(sub[c], got[c])'
  BY DEF ChronoInv
<1> DEFINE p == sub[c]
           g == got[c]
<1>1. p \in Page /\ g \in Seq(Items) /\ InOrder(p, g) /\ sub'[c] = p /\ got'[c] = g
  BY DEF FeedTypeOK, ChronoInv
<1>2. \A n \in 1..Len(g) : g[n] \in Items
  BY <1>1
<1>3. \A n \in 1..Len(g) : stamp[g[n]] >= 0 /\ stamp'[g[n]] = stamp[g[n]]
  BY <1>1, <1>2 DEF InOrder
<1>4. p.stage \in {"snapshot", "polling", "shown", "sending"} =>
        \A i \in p.found : i \in Items /\ stamp[i] >= 0 /\ stamp'[i] = stamp[i]
  BY <1>1 DEF InOrder, Page
<1> HIDE DEF p, g
<1> DEFINE Now(i, j) == stamp'[i] < stamp'[j] \/ (stamp'[i] = stamp'[j] /\ i < j)
<1>5. \A m, n \in 1..Len(g) : Now(g[m], g[n]) <=> Before(g[m], g[n])
  BY <1>3 DEF Before
<1>6. p.stage \in {"shown", "sending"} =>
        \A i \in p.found, n \in 1..Len(g) : Now(g[n], i) <=> Before(g[n], i)
  BY <1>3, <1>4 DEF Before
<1> QED BY <1>1, <1>3, <1>4, <1>5, <1>6 DEF InOrder, Before

-----------------------------------------------------------------------------
(* Pages: the step of one leaves the others as they are.                   *)

PageMoves(c, p, g) ==
  /\ sub' \in [Subscribers -> Page] /\ sub'[c] = p
  /\ \A d \in Subscribers \ {c} : sub'[d] = sub[d]
  /\ got' \in [Subscribers -> Seq(Items)] /\ got'[c] = g
  /\ \A d \in Subscribers \ {c} : got'[d] = got[d]
  /\ UNCHANGED <<time, stamp, visible>>

LEMMA MoveKeepsOrder ==
  ASSUME ChronoInv, NEW c \in Subscribers, NEW p, NEW g, PageMoves(c, p, g), InOrder(p, g)
  PROVE  ChronoInv'
<1> SUFFICES ASSUME NEW d \in Subscribers PROVE InOrder(sub[d], got[d])'
  BY DEF ChronoInv
<1>1. CASE d = c
  BY <1>1 DEF PageMoves, InOrder, Before
<1>2. CASE d # c
  BY <1>2 DEF PageMoves, ChronoInv, InOrder, Before
<1> QED BY <1>1, <1>2

\* A step that writes page p and delivers nothing.
LEMMA WrittenMoves ==
  ASSUME FeedTypeOK, NEW c \in Subscribers, NEW p \in Page,
         sub' = [sub EXCEPT ![c] = p], UNCHANGED <<time, stamp, visible, got>>
  PROVE  PageMoves(c, p, got[c])
BY DEF FeedTypeOK, PageMoves

\* What a page has, when its request is over or begins again at its cursor.
LEMMA SameReceived ==
  ASSUME NEW c \in Subscribers, ChronoInv, NEW p \in Page, p.cursor = sub[c].cursor,
         \/ p.stage = "off"
         \/ p.stage \in {"accepted", "waiting"} /\ p.mark = sub[c].cursor
         \/ p.stage \in {"accepted", "waiting"} /\ sub[c].stage # "off" /\ p.mark = sub[c].mark
         \/ p.stage = "polling" /\ p.found = {} /\ sub[c].stage # "off" /\ p.mark = sub[c].mark
  PROVE  InOrder(p, got[c])
BY DEF ChronoInv, InOrder

LEMMA SnapshotMoves ==
  ASSUME FeedAssumption, FeedTypeOK, ChronoInv, NEW c \in Subscribers, Snapshot(c)
  PROVE  \E p \in Page : PageMoves(c, p, got[c]) /\ InOrder(p, got[c])
<1> DEFINE s == sub[c]
           p == [s EXCEPT !.stage = "snapshot", !.next = 1, !.found = {},
                          !.mark = time - Replay, !.connects = s.connects + 1]
<1>1. s \in Page /\ time \in Nat /\ Replay \in Nat
  BY DEF FeedTypeOK, FeedAssumption
<1> HIDE DEF s
<1>2. p \in Page /\ p.stage = "snapshot" /\ p.found = {}
  <2>1. time - Replay \in Int /\ s.connects + 1 \in Nat
    BY <1>1 DEF Page
  <2> QED BY <1>1, <2>1, Zenon DEF Page, FeedStages
<1>3. sub' = [sub EXCEPT ![c] = p] /\ UNCHANGED <<time, stamp, visible, got>>
  BY DEF Snapshot, s
<1>4. Len(got[c]) = 0
  <2>1. got[c] \in Seq(Items) /\ s.cursor = NoCursor /\ NoCursor < 0
    BY <1>1 DEF FeedTypeOK, Snapshot, NoCursor, s
  <2>2. ASSUME 1 \in 1..Len(got[c]) PROVE FALSE
    <3>1. got[c][1] \in Items
      BY <2>1, <2>2
    <3>2. stamp[got[c][1]] >= 0 /\ stamp[got[c][1]] <= s.cursor
      BY <2>2 DEF ChronoInv, InOrder, s
    <3>3. stamp[got[c][1]] \in Int /\ s.cursor = -Replay - 1
      BY <2>1, <3>1 DEF FeedTypeOK, NoCursor
    <3> QED BY <1>1, <3>2, <3>3
  <2> QED BY <2>1, <2>2
<1> HIDE DEF p
<1>5. InOrder(p, got[c])
  BY <1>2, <1>4 DEF InOrder
<1> QED BY <1>2, <1>3, <1>5, WrittenMoves

LEMMA SubscribeMoves ==
  ASSUME FeedTypeOK, ChronoInv, NEW c \in Subscribers, Subscribe(c)
  PROVE  \E p \in Page : PageMoves(c, p, got[c]) /\ InOrder(p, got[c])
<1> DEFINE s == sub[c]
           p == [s EXCEPT !.stage = "accepted", !.mark = s.cursor, !.connects = s.connects + 1]
<1>1. s \in Page
  BY DEF FeedTypeOK
<1>2. sub' = [sub EXCEPT ![c] = p] /\ UNCHANGED <<time, stamp, visible, got>>
  BY DEF Subscribe
<1> HIDE DEF s
<1>3. p \in Page /\ p.stage = "accepted" /\ p.mark = s.cursor /\ p.cursor = s.cursor
  <2>1. s.connects + 1 \in Nat
    BY <1>1 DEF Page
  <2> QED BY <1>1, <2>1, Zenon DEF Page, FeedStages
<1> HIDE DEF p
<1> QED BY <1>2, <1>3, SameReceived, WrittenMoves DEF s

LEMMA PollMoves ==
  ASSUME FeedTypeOK, ChronoInv, NEW c \in Subscribers, Poll(c)
  PROVE  \E p \in Page : PageMoves(c, p, got[c]) /\ InOrder(p, got[c])
<1> DEFINE s == sub[c]
           S == {i \in visible : stamp[i] > s.mark}
           p == [s EXCEPT !.stage = "polling", !.next = 1, !.found = {}, !.settled = S]
<1>1. s \in Page /\ S \in SUBSET Items
  BY DEF FeedTypeOK
<1>2. sub' = [sub EXCEPT ![c] = p] /\ UNCHANGED <<time, stamp, visible, got>> /\ s.stage # "off"
  BY DEF Poll
<1> HIDE DEF s, S
<1>3. p \in Page /\ p.stage = "polling" /\ p.mark = s.mark /\ p.cursor = s.cursor /\ p.found = {}
  BY <1>1 DEF Page, FeedStages
<1> HIDE DEF p
<1> QED BY <1>2, <1>3, SameReceived, WrittenMoves DEF s

LEMMA CollectMoves ==
  ASSUME FeedTypeOK, ChronoInv, NEW c \in Subscribers, Collect(c)
  PROVE  \E p \in Page : PageMoves(c, p, got[c]) /\ InOrder(p, got[c])
<1> DEFINE s == sub[c]
<1>1. s \in Page /\ s.stage \in {"snapshot", "polling"} /\ InOrder(s, got[c])
  BY DEF Collect, FeedTypeOK, ChronoInv
<1>2. PICK R \in SUBSET Items :
        /\ IsRead(R, Matching(c, s.next, s.mark))
        /\ sub' = [sub EXCEPT ![c].found = @ \cup R, ![c].next = @ + 1]
  BY DEF Collect
<1> DEFINE p == [s EXCEPT !.found = s.found \cup R, !.next = s.next + 1]
<1>3. sub' = [sub EXCEPT ![c] = p] /\ UNCHANGED <<time, stamp, visible, got>>
  BY <1>2 DEF Collect, FeedTypeOK
<1>4. \A i \in R : stamp[i] >= 0 /\ stamp[i] > s.mark
  BY <1>2 DEF IsRead, Matching, After, FeedTypeOK
<1> HIDE DEF s
<1>5. /\ p \in Page /\ p.stage = s.stage /\ p.cursor = s.cursor /\ p.mark = s.mark
      /\ p.found = s.found \cup R
  <2>1. s.next + 1 \in Nat /\ s.found \cup R \in SUBSET Items
    BY <1>1 DEF Page
  <2> QED BY <1>1, <2>1, Zenon DEF Page
<1> HIDE DEF p
<1>6. InOrder(p, got[c])
  BY <1>1, <1>4, <1>5 DEF InOrder
<1> QED BY <1>3, <1>5, <1>6, WrittenMoves

LEMMA AnsweredMoves ==
  ASSUME FeedTypeOK, ChronoInv, NEW c \in Subscribers, Answered(c)
  PROVE  \E p \in Page : PageMoves(c, p, got[c]) /\ InOrder(p, got[c])
<1> DEFINE s == sub[c]
           K == Kept(s.found)
           m == FeedCursor(K, s.mark)
           st == IF s.stage = "snapshot" THEN "shown" ELSE "sending"
           p == [s EXCEPT !.stage = st, !.found = K, !.mark = m]
<1>1. s \in Page /\ s.stage \in {"snapshot", "polling"} /\ InOrder(s, got[c])
  BY DEF Answered, FeedTypeOK, ChronoInv
<1>2. sub' = [sub EXCEPT ![c] = p] /\ UNCHANGED <<time, stamp, visible, got>>
  BY DEF Answered
<1>3. K \subseteq s.found /\ K \in SUBSET Items
  BY <1>1 DEF Kept, Page
<1>4. \A i \in K : stamp[i] >= 0 /\ stamp[i] > s.mark
  BY <1>1, <1>3 DEF InOrder
<1>5. m \in Int /\ m >= s.mark /\ \A i \in K : stamp[i] <= m
  <2>1. \A i \in K : stamp[i] \in Int
    BY <1>3 DEF FeedTypeOK
  <2>2. CASE K = {}
    BY <1>1, <2>2 DEF FeedCursor, Page
  <2>3. CASE K # {}
    <3>1. Latest(K) \in Int /\ \A i \in K : stamp[i] <= Latest(K)
      BY <1>3, <2>3, LastStamp
    <3>2. m = Latest(K) /\ s.mark \in Int
      BY <1>1, <2>3 DEF FeedCursor, Page
    <3> QED BY <1>4, <2>1, <2>3, <3>1, <3>2
  <2> QED BY <2>2, <2>3
<1> HIDE DEF s, K, m
<1>6. /\ p \in Page /\ p.stage \in {"shown", "sending"} /\ p.cursor = s.cursor /\ p.mark = m
      /\ p.found = K
  BY <1>1, <1>3, <1>5 DEF Page, FeedStages
<1> HIDE DEF p
<1>7. ASSUME NEW n \in 1..Len(got[c])
      PROVE  /\ stamp[got[c][n]] \in Int /\ stamp[got[c][n]] >= 0
             /\ stamp[got[c][n]] <= s.cursor /\ stamp[got[c][n]] <= s.mark
  <2>1. got[c][n] \in Items
    BY DEF FeedTypeOK
  <2> QED BY <1>1, <2>1 DEF FeedTypeOK, InOrder
<1>8. \A n \in 1..Len(got[c]), i \in K : Before(got[c][n], i)
  <2> TAKE n \in 1..Len(got[c]), i \in K
  <2>1. stamp[i] \in Int /\ s.mark \in Int
    BY <1>1, <1>3 DEF FeedTypeOK, Page
  <2> QED BY <1>4, <1>7, <2>1 DEF Before
<1>9. \A n \in 1..Len(got[c]) : stamp[got[c][n]] <= m
  BY <1>1, <1>5, <1>7 DEF Page
<1>10. InOrder(p, got[c])
  BY <1>1, <1>4, <1>5, <1>6, <1>7, <1>8, <1>9 DEF InOrder
<1> QED BY <1>2, <1>6, <1>10, WrittenMoves

LEMMA DeliverMoves ==
  ASSUME FeedAssumption, FeedTypeOK, ChronoInv, NEW c \in Subscribers, Deliver(c)
  PROVE  \E p \in Page, g \in Seq(Items) : PageMoves(c, p, g) /\ InOrder(p, g)
<1> DEFINE s == sub[c]
           i == CHOOSE i \in s.found : \A j \in s.found \ {i} : Before(i, j)
           p == [s EXCEPT !.found = s.found \ {i}, !.cursor = stamp[i]]
           g == Append(got[c], i)
<1>1. s \in Page /\ s.stage \in {"shown", "sending"} /\ InOrder(s, got[c]) /\ s.found # {}
  BY DEF Deliver, FeedTypeOK, ChronoInv
<1>2. i \in s.found /\ \A j \in s.found \ {i} : Before(i, j)
  <2>1. s.found \in SUBSET Items /\ \A j \in s.found : stamp[j] >= 0
    BY <1>1 DEF Page, InOrder
  <2>2. \E k \in s.found : \A j \in s.found \ {k} : Before(k, j)
    BY <1>1, <2>1, FirstRow
  <2> QED BY <2>2
<1>3. /\ sub' = [sub EXCEPT ![c].found = @ \ {i}, ![c].cursor = stamp[i]]
      /\ got' = [got EXCEPT ![c] = g] /\ UNCHANGED <<time, stamp, visible>>
  BY DEF Deliver
<1> HIDE DEF i
<1>4. sub' = [sub EXCEPT ![c] = p]
  BY <1>3 DEF FeedTypeOK
<1> HIDE DEF s
<1>5. i \in Items /\ stamp[i] \in Int
  BY <1>1, <1>2 DEF Page, FeedTypeOK
<1>6. /\ p \in Page /\ p.stage = s.stage /\ p.cursor = stamp[i] /\ p.mark = s.mark
      /\ p.found = s.found \ {i}
  BY <1>1, <1>5 DEF Page
<1>7. /\ got[c] \in Seq(Items) /\ g \in Seq(Items) /\ Len(g) = Len(got[c]) + 1
      /\ g[Len(g)] = i /\ \A n \in 1..Len(got[c]) : g[n] = got[c][n]
  BY <1>5 DEF FeedTypeOK
<1>8. PageMoves(c, p, g)
  <2>1. sub \in [Subscribers -> Page] /\ got \in [Subscribers -> Seq(Items)]
    BY DEF FeedTypeOK
  <2>2. p \in Page /\ g \in Seq(Items)
    BY <1>6, <1>7
  <2> HIDE DEF p, g
  <2> QED BY <1>3, <1>4, <2>1, <2>2 DEF PageMoves
<1> HIDE DEF p, g
<1>9. \A n \in 1..Len(g) : n \in 1..Len(got[c]) \/ n = Len(g)
  BY <1>7
<1>10. stamp[i] >= 0 /\ stamp[i] <= s.mark
  BY <1>1, <1>2 DEF InOrder
<1>11. ASSUME NEW n \in 1..Len(got[c])
       PROVE  stamp[g[n]] >= 0 /\ stamp[g[n]] <= stamp[i] /\ stamp[g[n]] <= s.mark /\ Before(g[n], i)
  <2>1. got[c][n] \in Items /\ stamp[got[c][n]] \in Int
    <3>1. got[c][n] \in Items
      BY <1>7
    <3> QED BY <3>1 DEF FeedTypeOK
  <2>2. g[n] = got[c][n] /\ Before(got[c][n], i) /\ stamp[got[c][n]] >= 0 /\ stamp[got[c][n]] <= s.mark
    BY <1>1, <1>2, <1>7 DEF InOrder
  <2> QED BY <1>5, <2>1, <2>2 DEF Before
<1>12. \A n \in 1..Len(g) : stamp[g[n]] >= 0 /\ stamp[g[n]] <= stamp[i] /\ stamp[g[n]] <= s.mark
  BY <1>5, <1>7, <1>9, <1>10, <1>11
<1>13. \A m, n \in 1..Len(g) : m < n => Before(g[m], g[n])
  <2> SUFFICES ASSUME NEW m \in 1..Len(g), NEW n \in 1..Len(g), m < n PROVE Before(g[m], g[n])
    OBVIOUS
  <2>1. m \in 1..Len(got[c])
    BY <1>7
  <2>2. CASE n = Len(g)
    BY <1>7, <1>11, <2>1, <2>2
  <2>3. CASE n \in 1..Len(got[c])
    BY <1>1, <1>7, <2>1, <2>3 DEF InOrder
  <2> QED BY <1>9, <2>2, <2>3
<1>14. \A j \in p.found : /\ stamp[j] >= 0 /\ stamp[j] <= p.mark
                          /\ \A n \in 1..Len(g) : Before(g[n], j)
  BY <1>1, <1>2, <1>6, <1>7, <1>9 DEF InOrder
<1>15. InOrder(p, g)
  BY <1>1, <1>6, <1>12, <1>13, <1>14 DEF InOrder
<1> QED BY <1>6, <1>7, <1>8, <1>15

LEMMA PollOverMoves ==
  ASSUME FeedTypeOK, ChronoInv, NEW c \in Subscribers, PollOver(c)
  PROVE  \E p \in Page : PageMoves(c, p, got[c]) /\ InOrder(p, got[c])
<1> DEFINE s == sub[c]
           st == IF s.stage = "shown" THEN "off" ELSE "waiting"
           cu == IF s.stage = "shown" THEN s.mark ELSE s.cursor
           p == [s EXCEPT !.settled = {}, !.stage = st, !.cursor = cu]
<1>1. s \in Page /\ s.stage \in {"shown", "sending"} /\ InOrder(s, got[c])
  BY DEF PollOver, FeedTypeOK, ChronoInv
<1>2. sub' = [sub EXCEPT ![c] = p] /\ UNCHANGED <<time, stamp, visible, got>>
  BY DEF PollOver
<1>3. st \in FeedStages /\ cu \in Int
  BY <1>1 DEF Page, FeedStages
<1>4. st \in {"off", "waiting"} /\ cu \in {s.mark, s.cursor}
  OBVIOUS
<1> HIDE DEF s, st, cu
<1>5. p \in Page /\ p.stage = st /\ p.mark = s.mark /\ p.cursor = cu
  BY <1>1, <1>3 DEF Page
<1> HIDE DEF p
<1>6. InOrder(p, got[c])
  BY <1>1, <1>4, <1>5 DEF InOrder
<1> QED BY <1>2, <1>5, <1>6, WrittenMoves

LEMMA DropMoves ==
  ASSUME FeedTypeOK, ChronoInv, NEW c \in Subscribers, Drop(c) \/ DropEarly(c)
  PROVE  \E p \in Page : PageMoves(c, p, got[c]) /\ InOrder(p, got[c])
<1> DEFINE s == sub[c]
<1>1. s \in Page
  BY DEF FeedTypeOK
<1>2. CASE Drop(c)
  <2> DEFINE p == [s EXCEPT !.stage = "off", !.found = {}, !.settled = {}]
  <2>1. sub' = [sub EXCEPT ![c] = p] /\ UNCHANGED <<time, stamp, visible, got>>
    BY <1>2 DEF Drop
  <2> HIDE DEF s
  <2>2. p \in Page /\ p.stage = "off" /\ p.cursor = s.cursor
    BY <1>1 DEF Page, FeedStages
  <2> HIDE DEF p
  <2> QED BY <2>1, <2>2, SameReceived, WrittenMoves DEF s
<1>3. CASE DropEarly(c)
  <2> DEFINE p == [s EXCEPT !.stage = "off"]
  <2>1. sub' = [sub EXCEPT ![c] = p] /\ UNCHANGED <<time, stamp, visible, got>>
    BY <1>3 DEF DropEarly, FeedTypeOK
  <2> HIDE DEF s
  <2>2. p \in Page /\ p.stage = "off" /\ p.cursor = s.cursor
    BY <1>1 DEF Page, FeedStages
  <2> HIDE DEF p
  <2> QED BY <2>1, <2>2, SameReceived, WrittenMoves DEF s
<1> QED BY <1>2, <1>3

-----------------------------------------------------------------------------
(* Stream slots.                                                           *)

Slots == {s \in Accounts \X (1..PerAccount) : s[2] <= open[s[1]]}

Served(a) == {c \in Subscribers : Who[c] = a /\
                sub[c].stage \in {"accepted", "polling", "sending", "waiting"}}

LEMMA FiniteSlots ==
  ASSUME FeedAssumption
  PROVE  /\ IsFiniteSet(Accounts \X (1..PerAccount)) /\ IsFiniteSet(Slots) /\ IsFiniteSet(Slots')
         /\ AllOpen = Cardinality(Slots) /\ AllOpen' = Cardinality(Slots')
         /\ \A a : IsFiniteSet(Served(a)) /\ IsFiniteSet(Served(a)')
<1>1. IsFiniteSet(Subscribers) /\ Who \in [Subscribers -> Accounts] /\ PerAccount \in Nat
  BY DEF FeedAssumption
<1>2. Who \in Surjection(Subscribers, Accounts)
  BY <1>1 DEF Surjection, Accounts
<1>3. IsFiniteSet(Accounts)
  BY <1>1, <1>2, FS_Surjection
<1>4. IsFiniteSet(1..PerAccount)
  BY <1>1, FS_Interval
<1>5. IsFiniteSet(Accounts \X (1..PerAccount))
  BY <1>3, <1>4, FS_Product
<1>6. Slots \in SUBSET (Accounts \X (1..PerAccount)) /\ Slots' \in SUBSET (Accounts \X (1..PerAccount))
  BY DEF Slots
<1>7. \A a : Served(a) \in SUBSET Subscribers /\ Served(a)' \in SUBSET Subscribers
  BY DEF Served
<1>8. AllOpen = Cardinality(Slots) /\ AllOpen' = Cardinality(Slots')
  BY DEF AllOpen, Slots
<1> QED BY <1>1, <1>5, <1>6, <1>7, <1>8, FS_Subset

LEMMA OneMore ==
  ASSUME NEW S, IsFiniteSet(S), NEW x
  PROVE  /\ IsFiniteSet(S \cup {x}) /\ Cardinality(S \cup {x}) \in Nat
         /\ Cardinality(S \cup {x}) <= Cardinality(S) + 1
<1>1. /\ IsFiniteSet(S \cup {x})
      /\ Cardinality(S \cup {x}) = IF x \in S THEN Cardinality(S) ELSE Cardinality(S) + 1
  BY FS_AddElement
<1>2. Cardinality(S) \in Nat
  BY FS_CardinalityType
<1> QED BY <1>1, <1>2

LEMMA SlotTaken ==
  ASSUME FeedAssumption, FeedTypeOK, SlotsHeld, NEW c \in Subscribers, Subscribe(c)
  PROVE  SlotsHeld'
<1> DEFINE w == Who[c]
<1>1. w \in Accounts /\ open \in [Accounts -> Nat] /\ PerAccount \in Nat /\ Total \in Nat
  BY DEF FeedAssumption, FeedTypeOK
<1>2. open' = [open EXCEPT ![w] = open[w] + 1] /\ open[w] < PerAccount /\ AllOpen < Total
  BY DEF Subscribe, Acquired, Free
<1>3. \A d \in Subscribers : d # c => sub'[d] = sub[d]
  BY DEF Subscribe, FeedTypeOK
<1> HIDE DEF w
<1>4. open'[w] = open[w] + 1 /\ \A a \in Accounts : a # w => open'[a] = open[a]
  BY <1>1, <1>2
<1>5. Slots' = Slots \cup {<<w, open[w] + 1>>}
  BY <1>1, <1>2, <1>4 DEF Slots
<1>6. AllOpen' <= Total
  <2>1. Cardinality(Slots') <= Cardinality(Slots) + 1
    <3> DEFINE S == Slots
    <3>1. IsFiniteSet(S) /\ Slots' = S \cup {<<w, open[w] + 1>>}
      BY <1>5, FiniteSlots
    <3> HIDE DEF S
    <3>2. Cardinality(S \cup {<<w, open[w] + 1>>}) <= Cardinality(S) + 1
      BY <3>1, OneMore
    <3> QED BY <3>1, <3>2 DEF S
  <2>2. Cardinality(Slots) \in Nat /\ Cardinality(Slots') \in Nat
    BY FiniteSlots, FS_CardinalityType
  <2> QED BY <1>1, <1>2, <2>1, <2>2, FiniteSlots
<1>7. ASSUME NEW a \in Accounts
      PROVE  Cardinality(Served(a)') <= open'[a] /\ open'[a] <= PerAccount
  <2>1. /\ IsFiniteSet(Served(a)) /\ IsFiniteSet(Served(a)')
        /\ Cardinality(Served(a)) \in Nat /\ Cardinality(Served(a)') \in Nat
    BY FiniteSlots, FS_CardinalityType
  <2>2. Cardinality(Served(a)) <= open[a] /\ open[a] <= PerAccount /\ open[a] \in Nat
    BY <1>1 DEF SlotsHeld, Served
  <2>3. CASE a = w
    <3>1. Served(a)' \subseteq Served(a) \cup {c}
      BY <1>3 DEF Served
    <3>2. /\ IsFiniteSet(Served(a) \cup {c})
          /\ Cardinality(Served(a) \cup {c}) <= Cardinality(Served(a)) + 1
          /\ Cardinality(Served(a) \cup {c}) \in Nat
      BY <2>1, OneMore
    <3>3. Cardinality(Served(a)') <= Cardinality(Served(a) \cup {c})
      BY <3>1, <3>2, FS_Subset
    <3> QED BY <1>1, <1>2, <1>4, <2>1, <2>2, <2>3, <3>2, <3>3
  <2>4. CASE a # w
    <3>1. Served(a)' \subseteq Served(a)
      BY <1>3, <2>4 DEF Served, w
    <3>2. Cardinality(Served(a)') <= Cardinality(Served(a))
      BY <2>1, <3>1, FS_Subset
    <3> QED BY <1>4, <2>1, <2>2, <2>4, <3>2
  <2> QED BY <2>3, <2>4
<1> QED BY <1>6, <1>7 DEF SlotsHeld, Served

LEMMA SlotReleased ==
  ASSUME FeedAssumption, FeedTypeOK, SlotsHeld, NEW c \in Subscribers, Drop(c)
  PROVE  SlotsHeld'
<1> DEFINE w == Who[c]
           r == IF open[w] > 0 THEN open[w] - 1 ELSE 0
<1>1. w \in Accounts /\ open \in [Accounts -> Nat] /\ PerAccount \in Nat /\ Total \in Nat
  BY DEF FeedAssumption, FeedTypeOK
<1>2. open' = [open EXCEPT ![w] = r]
  BY DEF Drop, Released
<1>3. /\ \A d \in Subscribers : d # c => sub'[d] = sub[d]
      /\ sub'[c].stage = "off" /\ c \in Served(w)
  BY DEF Drop, FeedTypeOK, Page, Served
<1>4. open[w] \in Nat /\ r \in Nat /\ r <= open[w] /\ (open[w] > 0 => r = open[w] - 1)
  BY <1>1
<1> HIDE DEF w, r
<1>5. open'[w] = r /\ \A a \in Accounts : a # w => open'[a] = open[a]
  BY <1>1, <1>2
<1>6. AllOpen' <= Total
  <2>1. Slots' \subseteq Slots
    BY <1>1, <1>4, <1>5 DEF Slots
  <2>2. Cardinality(Slots') <= Cardinality(Slots)
    BY <2>1, FiniteSlots, FS_Subset
  <2>3. Cardinality(Slots) \in Nat /\ Cardinality(Slots') \in Nat
    BY FiniteSlots, FS_CardinalityType
  <2> QED BY <1>1, <2>2, <2>3, FiniteSlots DEF SlotsHeld
<1>7. ASSUME NEW a \in Accounts
      PROVE  Cardinality(Served(a)') <= open'[a] /\ open'[a] <= PerAccount
  <2>1. /\ IsFiniteSet(Served(a)) /\ IsFiniteSet(Served(a)')
        /\ Cardinality(Served(a)) \in Nat /\ Cardinality(Served(a)') \in Nat
    BY FiniteSlots, FS_CardinalityType
  <2>2. Cardinality(Served(a)) <= open[a] /\ open[a] <= PerAccount /\ open[a] \in Nat
    BY <1>1 DEF SlotsHeld, Served
  <2>3. CASE a = w
    <3>1. Served(a)' \subseteq Served(a) \ {c} /\ c \in Served(a)
      BY <1>3, <2>3 DEF Served
    <3>2. IsFiniteSet(Served(a) \ {c}) /\ Cardinality(Served(a) \ {c}) = Cardinality(Served(a)) - 1
      BY <2>1, <3>1, FS_RemoveElement
    <3>3. Cardinality(Served(a)') <= Cardinality(Served(a) \ {c})
      BY <3>1, <3>2, FS_Subset
    <3> QED BY <1>1, <1>4, <1>5, <2>1, <2>2, <2>3, <3>2, <3>3
  <2>4. CASE a # w
    <3>1. Served(a)' \subseteq Served(a)
      BY <1>3, <2>4 DEF Served, w
    <3>2. Cardinality(Served(a)') <= Cardinality(Served(a))
      BY <2>1, <3>1, FS_Subset
    <3> QED BY <1>5, <2>1, <2>2, <2>4, <3>2
  <2> QED BY <2>3, <2>4
<1> QED BY <1>6, <1>7 DEF SlotsHeld, Served

\* The other steps take no slot, and serve nobody who was not served.
LEMMA SlotsRest ==
  ASSUME FeedAssumption, FeedTypeOK, SlotsHeld, UNCHANGED open,
         \A a \in Accounts : Served(a)' \subseteq Served(a)
  PROVE  SlotsHeld'
<1>1. AllOpen' = AllOpen
  BY DEF AllOpen
<1>2. ASSUME NEW a \in Accounts
      PROVE  Cardinality(Served(a)') <= open'[a] /\ open'[a] <= PerAccount
  <2>1. /\ IsFiniteSet(Served(a)) /\ open[a] \in Nat
        /\ Cardinality(Served(a)) \in Nat /\ Cardinality(Served(a)') \in Nat
    BY FiniteSlots, FS_CardinalityType DEF FeedTypeOK
  <2>2. Cardinality(Served(a)') <= Cardinality(Served(a))
    BY <2>1, FS_Subset
  <2>3. Cardinality(Served(a)) <= open[a] /\ open[a] <= PerAccount
    BY DEF SlotsHeld, Served
  <2> QED BY <2>1, <2>2, <2>3
<1> QED BY <1>1, <1>2 DEF SlotsHeld, Served

LEMMA ServedNoMore ==
  ASSUME FeedTypeOK, NEW c \in Subscribers,
         \/ Snapshot(c) \/ Poll(c) \/ Collect(c) \/ Answered(c) \/ Deliver(c)
         \/ PollOver(c) \/ DropEarly(c)
  PROVE  UNCHANGED open /\ \A a \in Accounts : Served(a)' \subseteq Served(a)
<1> DEFINE Serving == {"accepted", "polling", "sending", "waiting"}
<1>1. /\ UNCHANGED open /\ \A d \in Subscribers : d # c => sub'[d] = sub[d]
      /\ sub'[c].stage \in Serving => sub[c].stage \in Serving
  <2>1. CASE Snapshot(c)
    BY <2>1 DEF Snapshot, FeedTypeOK, Page
  <2>2. CASE Poll(c)
    BY <2>2 DEF Poll, FeedTypeOK, Page
  <2>3. CASE Collect(c)
    BY <2>3 DEF Collect, FeedTypeOK, Page
  <2>4. CASE Answered(c)
    BY <2>4 DEF Answered, FeedTypeOK, Page
  <2>5. CASE Deliver(c)
    BY <2>5 DEF Deliver, FeedTypeOK, Page
  <2>6. CASE PollOver(c)
    BY <2>6 DEF PollOver, FeedTypeOK, Page
  <2>7. CASE DropEarly(c)
    BY <2>7 DEF DropEarly, FeedTypeOK, Page
  <2> QED BY <2>1, <2>2, <2>3, <2>4, <2>5, <2>6, <2>7
<1> QED BY <1>1 DEF Served

-----------------------------------------------------------------------------
(* What a poll has seen is sent, or gives way.                             *)

Later(S, i) == {j \in S : Before(i, j)}

\* Before is a strict order of the rows.
LEMMA RowsAreOrdered ==
  ASSUME FeedTypeOK, FeedAssumption, NEW i \in Items, NEW j \in Items
  PROVE  /\ ~Before(i, i) /\ (i # j => Before(i, j) \/ Before(j, i))
         /\ \A k \in Items : Before(i, j) /\ Before(j, k) => Before(i, k)
<1>1. \A k \in Items : stamp[k] \in Int /\ k \in Nat
  BY DEF FeedTypeOK, FeedAssumption
<1> QED BY <1>1 DEF Before

LEMMA LaterIsLess ==
  ASSUME FeedTypeOK, FeedAssumption, NEW S \in SUBSET Items, IsFiniteSet(S),
         NEW i \in S, NEW j \in S, Before(i, j)
  PROVE  /\ IsFiniteSet(Later(S, i)) /\ IsFiniteSet(Later(S, j))
         /\ Cardinality(Later(S, i)) \in Nat /\ Cardinality(Later(S, j)) \in Nat
         /\ Cardinality(Later(S, j)) < Cardinality(Later(S, i))
<1> DEFINE I == Later(S, i)
           J == Later(S, j)
<1>1. I \in SUBSET S /\ J \in SUBSET I /\ j \in I /\ j \notin J
  BY RowsAreOrdered DEF Later
<1> HIDE DEF I, J
<1>2. IsFiniteSet(I) /\ IsFiniteSet(J) /\ Cardinality(J) <= Cardinality(I)
      /\ (Cardinality(I) = Cardinality(J) => I = J)
  BY <1>1, FS_Subset
<1>3. Cardinality(I) \in Nat /\ Cardinality(J) \in Nat
  BY <1>2, FS_CardinalityType
<1> QED BY <1>1, <1>2, <1>3 DEF I, J

\* A row that is left out of a poll gives way to as many newer ones as a poll
\* holds: the ranks of the rows that are newer are the numbers below its own.
LEMMA LeftOut ==
  ASSUME FeedTypeOK, FeedAssumption, NEW S \in SUBSET Items, IsFiniteSet(S),
         NEW i \in S, i \notin Kept(S)
  PROVE  Cardinality(Later(Kept(S), i)) >= PollLimit
<1> DEFINE T == Later(S, i)
           rank(j) == Cardinality(Later(S, j))
           N == Cardinality(T)
           K == Later(Kept(S), i)
<1>1. PollLimit \in Nat \ {0}
  BY DEF FeedAssumption
<1>2. T \in SUBSET S /\ IsFiniteSet(T) /\ N \in Nat
  <2>1. T \in SUBSET S
    BY DEF Later
  <2> QED BY <2>1, FS_Subset, FS_CardinalityType
<1>3. N >= PollLimit
  BY <1>1, <1>2 DEF Kept, Later
<1>4. ASSUME NEW j \in T
      PROVE  rank(j) \in 0..(N - 1)
  <2>1. j \in S /\ Before(i, j)
    BY <1>4 DEF Later
  <2> QED BY <2>1, LaterIsLess
<1>5. ASSUME NEW j \in T, NEW k \in T, j # k
      PROVE  rank(j) # rank(k)
  <2>1. Before(j, k) \/ Before(k, j)
    BY <1>2, <1>5, RowsAreOrdered
  <2>2. ASSUME NEW x \in T, NEW y \in T, Before(x, y)
        PROVE  rank(x) # rank(y)
    <3>1. /\ rank(x) \in Nat /\ rank(y) \in Nat /\ rank(y) < rank(x)
      BY <1>2, <2>2, LaterIsLess
    <3> QED BY <3>1
  <2> QED BY <2>1, <2>2
<1>6. K = {j \in T : rank(j) < PollLimit}
  BY DEF Later, Kept
<1> HIDE DEF T, N, K, rank
<1> DEFINE f == [j \in T |-> rank(j)]
<1>7. f \in Injection(T, 0..(N - 1))
  BY <1>4, <1>5 DEF Injection, IsInjective
<1>8. f \in Surjection(T, 0..(N - 1))
  <2>1. IsFiniteSet(0..(N - 1)) /\ Cardinality(0..(N - 1)) = N
    BY <1>1, <1>2, <1>3, FS_Interval
  <2> QED BY <1>7, <2>1, FS_Injection DEF N
<1>9. \A n \in 0..(PollLimit - 1) : \E j \in K : rank(j) = n
  <2> TAKE n \in 0..(PollLimit - 1)
  <2>1. n \in 0..(N - 1) /\ n < PollLimit
    BY <1>1, <1>2, <1>3
  <2>2. PICK j \in T : f[j] = n
    BY <1>8, <2>1 DEF Surjection
  <2> QED BY <1>6, <2>1, <2>2
<1> DEFINE g == [j \in K |-> rank(j)]
<1>10. g \in Surjection(K, 0..(PollLimit - 1))
  <2>1. \A j \in K : rank(j) \in 0..(PollLimit - 1)
    BY <1>1, <1>2, <1>4, <1>6
  <2> QED BY <1>9, <2>1 DEF Surjection
<1>11. IsFiniteSet(K) /\ Cardinality(K) \in Nat
  BY <1>2, <1>6, FS_Subset, FS_CardinalityType
<1>12. Cardinality(0..(PollLimit - 1)) <= Cardinality(K)
  BY <1>10, <1>11, FS_Surjection
<1>13. Cardinality(0..(PollLimit - 1)) = PollLimit
  BY <1>1, FS_Interval
<1> QED BY <1>1, <1>11, <1>12, <1>13 DEF K

\* As many older rows of its kind as a query returns are in the way of row i.
Crowd(i) == {j \in visible \ {i} : Kind[j] = Kind[i] /\ stamp[j] <= stamp[i]}

Crowded(i) == Cardinality(Crowd(i)) >= ReadCap

\* What page p has of the rows that its poll was to see, or is going to have.
Sent(c, p, g) ==
  LET all == p.found \cup {g[n] : n \in 1..Len(g)} IN
  /\ all \subseteq visible /\ p.settled \subseteq visible
  /\ p.stage = "polling" => \A i \in p.settled : Concerns(c, i) =>
       stamp[i] > p.mark /\ (Kind[i] < p.next => i \in p.found \/ Crowded(i))
  /\ p.stage = "sending" => \A i \in p.settled : Concerns(c, i) =>
       i \in all \/ Cardinality(Later(all, i)) >= PollLimit \/ Crowded(i)

SentInv == IsFiniteSet(visible) /\ \A c \in Subscribers : Sent(c, sub[c], got[c])

LEMMA MoreThan ==
  ASSUME NEW S, NEW T, IsFiniteSet(T), S \subseteq T, NEW n \in Nat, Cardinality(S) >= n
  PROVE  Cardinality(T) >= n
<1>1. /\ Cardinality(S) <= Cardinality(T) /\ Cardinality(S) \in Nat /\ Cardinality(T) \in Nat
  BY FS_Subset, FS_CardinalityType
<1> QED BY <1>1

\* Rows that are seen keep their stamps, and are seen for ever.
LEMMA RowsKeepSent ==
  ASSUME FeedAssumption, FeedTypeOK, SentInv, UNCHANGED <<sub, got>>, IsFiniteSet(visible'),
         visible \subseteq visible', \A i \in visible : stamp'[i] = stamp[i]
  PROVE  SentInv'
<1> SUFFICES ASSUME NEW c \in Subscribers PROVE Sent(c, sub[c], got[c])'
  BY DEF SentInv
<1> DEFINE p == sub[c]
           all == p.found \cup {got[c][n] : n \in 1..Len(got[c])}
<1>1. /\ all \subseteq visible /\ p.settled \subseteq visible /\ Sent(c, p, got[c])
      /\ sub'[c] = p /\ got'[c] = got[c]
  BY DEF SentInv, Sent
<1>2. ReadCap \in Nat
  BY DEF FeedAssumption
<1>3. ASSUME NEW i \in visible, Crowded(i)
      PROVE  Crowded(i)'
  <2>1. Crowd(i) \subseteq Crowd(i)'
    BY <1>3 DEF Crowd
  <2>2. IsFiniteSet(Crowd(i)')
    <3>1. Crowd(i)' \in SUBSET (visible')
      BY DEF Crowd
    <3> QED BY <3>1, FS_Subset
  <2> QED BY <1>2, <1>3, <2>1, <2>2, MoreThan DEF Crowded
<1>4. \A i \in visible : Later(all, i)' = Later(all, i)
  BY <1>1 DEF Later, Before
<1>5. \A i \in visible : Concerns(c, i)' <=> Concerns(c, i)
  BY DEF Concerns
<1> QED BY <1>1, <1>3, <1>4, <1>5 DEF Sent

LEMMA MoveKeepsSent ==
  ASSUME SentInv, NEW c \in Subscribers, NEW p, NEW g, PageMoves(c, p, g), Sent(c, p, g)
  PROVE  SentInv'
<1>1. UNCHANGED <<stamp, visible>> /\ sub'[c] = p /\ got'[c] = g
      /\ \A d \in Subscribers \ {c} : sub'[d] = sub[d] /\ got'[d] = got[d]
  BY DEF PageMoves
<1>2. /\ \A S, i : Later(S, i)' = Later(S, i)
      /\ \A i : Crowded(i)' <=> Crowded(i)
  BY <1>1 DEF Crowded, Crowd, Later, Before
<1>3. \A i : \A d \in Subscribers : Concerns(d, i)' <=> Concerns(d, i)
  BY DEF Concerns
<1>4. Sent(c, sub[c], got[c])'
  BY <1>1, <1>2, <1>3 DEF Sent
<1>5. ASSUME NEW d \in Subscribers, d # c
      PROVE  Sent(d, sub[d], got[d])'
  BY <1>1, <1>2, <1>3, <1>5 DEF SentInv, Sent
<1> QED BY <1>1, <1>4, <1>5 DEF SentInv

\* A page that has no poll under way owes nothing.
LEMMA IdleIsSent ==
  ASSUME NEW c \in Subscribers, SentInv, NEW p, p.stage \notin {"polling", "sending"},
         p.found \subseteq sub[c].found, p.settled \subseteq sub[c].settled
  PROVE  Sent(c, p, got[c])
BY DEF SentInv, Sent

LEMMA PollIsSent ==
  ASSUME FeedTypeOK, FeedAssumption, SentInv, NEW c \in Subscribers, NEW p \in Page,
         p.stage = "polling", p.next = 1, p.found = {},
         p.settled = {i \in visible : stamp[i] > sub[c].mark}, p.mark = sub[c].mark
  PROVE  Sent(c, p, got[c])
<1>1. \A i \in visible : Kind[i] \in Nat /\ ~(Kind[i] < 1)
  BY DEF FeedTypeOK, FeedAssumption
<1> QED BY <1>1 DEF SentInv, Sent

\* A query returns the row, or as many older ones as it may.
LEMMA CollectIsSent ==
  ASSUME FeedTypeOK, FeedAssumption, SentInv, NEW c \in Subscribers, NEW p \in Page,
         NEW R \in SUBSET Items, IsRead(R, Matching(c, sub[c].next, sub[c].mark)),
         sub[c].stage \in {"snapshot", "polling"}, p.stage = sub[c].stage,
         p.mark = sub[c].mark, p.settled = sub[c].settled,
         p.found = sub[c].found \cup R, p.next = sub[c].next + 1
  PROVE  Sent(c, p, got[c])
<1> DEFINE s == sub[c]
           S == Matching(c, s.next, s.mark)
<1>1. s \in Page /\ Sent(c, s, got[c])
  BY DEF FeedTypeOK, SentInv
<1>2. R \subseteq visible
  BY DEF IsRead, Matching
<1>3. ASSUME s.stage = "polling", NEW i \in s.settled, Concerns(c, i), Kind[i] < p.next
      PROVE  stamp[i] > s.mark /\ (i \in p.found \/ Crowded(i))
  <2>1. i \in visible /\ i \in Items /\ stamp[i] > s.mark
    BY <1>1, <1>3 DEF Sent, FeedTypeOK
  <2>2. CASE Kind[i] < s.next
    BY <1>1, <1>3, <2>2 DEF Sent
  <2>3. CASE ~(Kind[i] < s.next) /\ i \notin R
    <3>1. Kind[i] = s.next
      <4>1. Kind[i] \in Nat /\ s.next \in Nat
        BY <1>1, <2>1 DEF FeedAssumption, Page
      <4> QED BY <1>3, <2>3, <4>1
    <3>2. i \in S
      BY <1>3, <2>1, <3>1 DEF Matching, After, MaySee, Concerns
    <3>3. Cardinality(R) = ReadCap /\ \A j \in R : stamp[j] <= stamp[i]
      BY <2>3, <3>2 DEF IsRead
    <3>4. R \subseteq Crowd(i)
      BY <2>3, <3>1, <3>3 DEF IsRead, Matching, Crowd
    <3>5. IsFiniteSet(Crowd(i))
      <4>1. Crowd(i) \in SUBSET visible
        BY DEF Crowd
      <4> QED BY <4>1, FS_Subset DEF SentInv
    <3>6. ReadCap \in Nat /\ Cardinality(R) >= ReadCap
      BY <3>3 DEF FeedAssumption
    <3>7. Crowded(i)
      BY <3>4, <3>5, <3>6, MoreThan DEF Crowded
    <3> QED BY <2>1, <3>7
  <2> QED BY <2>1, <2>2, <2>3
<1>4. p.stage = "polling" => \A i \in p.settled : Concerns(c, i) =>
        stamp[i] > p.mark /\ (Kind[i] < p.next => i \in p.found \/ Crowded(i))
  BY <1>1, <1>3 DEF Sent
<1> QED BY <1>1, <1>2, <1>4 DEF Sent

LEMMA AnswerIsSent ==
  ASSUME FeedTypeOK, FeedAssumption, SentInv, NEW c \in Subscribers, NEW p \in Page,
         sub[c].next > Collectors, sub[c].stage = "polling", p.stage = "sending",
         p.settled = sub[c].settled, p.found = Kept(sub[c].found)
  PROVE  Sent(c, p, got[c])
<1> DEFINE s == sub[c]
           all == p.found \cup {got[c][n] : n \in 1..Len(got[c])}
<1>1. s \in Page /\ Sent(c, s, got[c])
  BY DEF FeedTypeOK, SentInv
<1>2. s.found \subseteq visible /\ IsFiniteSet(s.found) /\ s.found \in SUBSET Items
  <2>1. s.found \in SUBSET visible
    BY <1>1 DEF Sent
  <2> QED BY <2>1, FS_Subset DEF SentInv, FeedTypeOK
<1>3. all \subseteq visible /\ p.settled \subseteq visible
  BY <1>1 DEF Sent, Kept
<1>4. ASSUME NEW i \in p.settled, Concerns(c, i), ~Crowded(i), i \notin all
      PROVE  Cardinality(Later(all, i)) >= PollLimit
  <2>1. Kind[i] < s.next
    <3>1. i \in Items /\ Kind[i] \in 1..Collectors /\ Collectors \in Nat
      BY <1>3, <1>4 DEF FeedTypeOK, FeedAssumption
    <3>2. s.next \in Nat
      BY <1>1 DEF Page
    <3> QED BY <3>1, <3>2
  <2>2. i \in s.found /\ i \notin Kept(s.found)
    BY <1>1, <1>4, <2>1 DEF Sent
  <2>3. Cardinality(Later(Kept(s.found), i)) >= PollLimit
    BY <1>2, <2>2, LeftOut
  <2>4. Later(Kept(s.found), i) \subseteq Later(all, i)
    BY DEF Later
  <2>5. IsFiniteSet(Later(all, i)) /\ PollLimit \in Nat
    <3>1. Later(all, i) \in SUBSET visible
      BY <1>3 DEF Later
    <3> QED BY <3>1, FS_Subset DEF SentInv, FeedAssumption
  <2> QED BY <2>3, <2>4, <2>5, MoreThan
<1> QED BY <1>3, <1>4 DEF Sent

\* What is delivered is received: together they stay the same.
LEMMA DeliveryIsSent ==
  ASSUME FeedTypeOK, SentInv, NEW c \in Subscribers, NEW p \in Page,
         NEW i \in sub[c].found, p.found = sub[c].found \ {i},
         p.settled = sub[c].settled, p.stage = sub[c].stage,
         sub[c].stage \in {"shown", "sending"}
  PROVE  Sent(c, p, Append(got[c], i))
<1> DEFINE g == got[c]
           h == Append(g, i)
<1>1. g \in Seq(Items) /\ i \in Items /\ Sent(c, sub[c], g)
  BY DEF FeedTypeOK, Page, SentInv
<1>2. /\ Len(h) = Len(g) + 1 /\ Len(g) \in Nat /\ h[Len(h)] = i
      /\ \A n \in 1..Len(g) : h[n] = g[n]
  BY <1>1
<1> HIDE DEF h, g
<1>3. {h[n] : n \in 1..Len(h)} = {g[n] : n \in 1..Len(g)} \cup {i}
  <2>1. \A n \in 1..Len(h) : n \in 1..Len(g) \/ n = Len(h)
    BY <1>2
  <2>2. \A n \in 1..Len(g) : n \in 1..Len(h)
    BY <1>2
  <2>3. Len(h) \in 1..Len(h)
    BY <1>2
  <2> QED BY <1>2, <2>1, <2>2, <2>3
<1>4. p.found \cup {h[n] : n \in 1..Len(h)} = sub[c].found \cup {g[n] : n \in 1..Len(g)}
  BY <1>3
<1>5. Sent(c, p, h)
  BY <1>1, <1>4 DEF Sent
<1> QED BY <1>5 DEF h, g

\* What each step writes.
LEMMA StepIsSent ==
  ASSUME FeedTypeOK, FeedAssumption, ChronoInv, SentInv, NEW c \in Subscribers,
         \/ Snapshot(c) \/ Subscribe(c) \/ Poll(c) \/ Collect(c) \/ Answered(c)
         \/ Deliver(c) \/ PollOver(c) \/ Drop(c) \/ DropEarly(c),
         NEW p \in Page, sub'[c] = p
  PROVE  Sent(c, p, got'[c])
<1>1. sub \in [Subscribers -> Page] /\ sub[c] \in Page /\ got \in [Subscribers -> Seq(Items)]
  BY DEF FeedTypeOK
<1>2. CASE Snapshot(c)
  <2>1. p.stage = "snapshot" /\ p.found = {} /\ p.settled = sub[c].settled /\ got' = got
    BY <1>1, <1>2 DEF Snapshot, Page
  <2> QED BY <2>1, IdleIsSent
<1>3. CASE Subscribe(c)
  <2>1. /\ p.stage = "accepted" /\ p.found = sub[c].found /\ p.settled = sub[c].settled
        /\ got' = got
    BY <1>1, <1>3 DEF Subscribe, Page
  <2> QED BY <2>1, IdleIsSent
<1>4. CASE Poll(c)
  <2> DEFINE S == {i \in visible : stamp[i] > sub[c].mark}
  <2>1. sub' = [sub EXCEPT ![c] = [@ EXCEPT !.stage = "polling", !.next = 1, !.found = {},
                                            !.settled = S]]
        /\ got' = got
    BY <1>4 DEF Poll
  <2> HIDE DEF S
  <2>2. /\ p.stage = "polling" /\ p.next = 1 /\ p.found = {} /\ p.settled = S
        /\ p.mark = sub[c].mark
    BY <1>1, <2>1 DEF Page
  <2> QED BY <2>1, <2>2, PollIsSent DEF S
<1>5. CASE Collect(c)
  <2>1. PICK R \in SUBSET Items :
          /\ IsRead(R, Matching(c, sub[c].next, sub[c].mark))
          /\ sub' = [sub EXCEPT ![c].found = @ \cup R, ![c].next = @ + 1]
    BY <1>5 DEF Collect
  <2>2. /\ p.stage = sub[c].stage /\ p.mark = sub[c].mark /\ p.settled = sub[c].settled
        /\ p.found = sub[c].found \cup R /\ p.next = sub[c].next + 1
        /\ got' = got /\ sub[c].stage \in {"snapshot", "polling"}
    BY <1>1, <1>5, <2>1 DEF Collect, Page
  <2> QED BY <2>1, <2>2, CollectIsSent
<1>6. CASE Answered(c)
  <2> DEFINE K == Kept(sub[c].found)
             m == FeedCursor(K, sub[c].mark)
             st == IF sub[c].stage = "snapshot" THEN "shown" ELSE "sending"
  <2>1. /\ sub' = [sub EXCEPT ![c] = [@ EXCEPT !.stage = st, !.found = K, !.mark = m]]
        /\ got' = got /\ sub[c].stage \in {"snapshot", "polling"}
        /\ sub[c].next > Collectors
    BY <1>6 DEF Answered
  <2>2. K \subseteq sub[c].found
    BY DEF Kept
  <2> HIDE DEF K, m, st
  <2>3. p.stage = st /\ p.found = K /\ p.settled = sub[c].settled
    BY <1>1, <2>1 DEF Page
  <2>4. CASE sub[c].stage = "snapshot"
    BY <2>1, <2>2, <2>3, <2>4, IdleIsSent DEF st
  <2>5. CASE sub[c].stage = "polling"
    BY <2>1, <2>3, <2>5, AnswerIsSent DEF st, K
  <2> QED BY <2>1, <2>4, <2>5
<1>7. CASE Deliver(c)
  <2> DEFINE i == CHOOSE i \in sub[c].found : \A j \in sub[c].found \ {i} : Before(i, j)
  <2>1. /\ sub' = [sub EXCEPT ![c].found = @ \ {i}, ![c].cursor = stamp[i]]
        /\ got' = [got EXCEPT ![c] = Append(@, i)]
        /\ sub[c].stage \in {"shown", "sending"} /\ sub[c].found # {}
    BY <1>7 DEF Deliver
  <2>2. i \in sub[c].found
    <3>1. sub[c].found \in SUBSET Items /\ \A j \in sub[c].found : stamp[j] >= 0
      BY <1>1, <2>1 DEF Page, InOrder, ChronoInv
    <3>2. \E k \in sub[c].found : \A j \in sub[c].found \ {k} : Before(k, j)
      BY <2>1, <3>1, FirstRow
    <3> QED BY <3>2
  <2> HIDE DEF i
  <2>3. /\ p.found = sub[c].found \ {i} /\ p.settled = sub[c].settled
        /\ p.stage = sub[c].stage
    BY <1>1, <2>1 DEF Page
  <2>4. got'[c] = Append(got[c], i)
    BY <1>1, <2>1
  <2>5. Sent(c, p, Append(got[c], i))
    BY <2>1, <2>2, <2>3, DeliveryIsSent
  <2> QED BY <2>4, <2>5
<1>8. CASE PollOver(c)
  <2>1. /\ p.stage \in {"off", "waiting"} /\ p.found = sub[c].found /\ p.settled = {}
        /\ got' = got
    BY <1>1, <1>8 DEF PollOver, Page
  <2> QED BY <2>1, IdleIsSent
<1>9. CASE Drop(c)
  <2>1. p.stage = "off" /\ p.found = {} /\ p.settled = {} /\ got' = got
    BY <1>1, <1>9 DEF Drop, Page
  <2> QED BY <2>1, IdleIsSent
<1>10. CASE DropEarly(c)
  <2>1. /\ p.stage = "off" /\ p.found = sub[c].found /\ p.settled = sub[c].settled
        /\ got' = got
    BY <1>1, <1>10 DEF DropEarly, Page
  <2> QED BY <2>1, IdleIsSent
<1> QED BY <1>2, <1>3, <1>4, <1>5, <1>6, <1>7, <1>8, <1>9, <1>10

LEMMA SentStays ==
  ASSUME FeedAssumption, FeedTypeOK, ChronoInv, SentInv, [FeedNext]_feedVars
  PROVE  SentInv'
<1>1. CASE FeedTick \/ UNCHANGED feedVars
  BY <1>1, RowsKeepSent DEF FeedTick, feedVars, SentInv
<1>2. ASSUME NEW i \in Items, Insert(i)
      PROVE  SentInv'
  <2>1. /\ UNCHANGED <<sub, got, visible>>
        /\ \A j \in visible : stamp'[j] = stamp[j]
    BY <1>2 DEF Insert, FeedTypeOK
  <2> QED BY <2>1, RowsKeepSent DEF SentInv
<1>3. ASSUME NEW i \in Items, CommitItem(i)
      PROVE  SentInv'
  BY <1>3, RowsKeepSent, FS_AddElement DEF CommitItem, SentInv
<1>4. ASSUME NEW c \in Subscribers,
             \/ Snapshot(c) \/ Subscribe(c) \/ Poll(c) \/ Collect(c) \/ Answered(c)
             \/ Deliver(c) \/ PollOver(c) \/ Drop(c) \/ DropEarly(c)
      PROVE  SentInv'
  <2>1. \E p \in Page, g \in Seq(Items) : PageMoves(c, p, g)
    <3>1. got[c] \in Seq(Items)
      BY DEF FeedTypeOK
    <3> QED BY <1>4, <3>1, SnapshotMoves, SubscribeMoves, PollMoves, CollectMoves,
               AnsweredMoves, DeliverMoves, PollOverMoves, DropMoves
  <2>2. PICK p \in Page, g \in Seq(Items) : PageMoves(c, p, g)
    BY <2>1
  <2>3. sub'[c] = p /\ got'[c] = g
    BY <2>2 DEF PageMoves
  <2>4. Sent(c, p, g)
    BY <1>4, <2>3, StepIsSent
  <2> QED BY <2>2, <2>4, MoveKeepsSent
<1> QED BY <1>1, <1>2, <1>3, <1>4 DEF FeedNext

-----------------------------------------------------------------------------
(* The theorems.                                                           *)

FeedInv == FeedTypeOK /\ ChronoInv /\ SlotsHeld

LEMMA FeedInitInv == FeedAssumption /\ FeedInit => FeedInv
<1> SUFFICES ASSUME FeedAssumption, FeedInit PROVE FeedInv
  OBVIOUS
<1>1. Replay \in Nat /\ Off \in Page
  BY DEF FeedAssumption, Off, NoCursor, Page, FeedStages
<1>2. FeedTypeOK
  BY <1>1 DEF FeedInit, FeedTypeOK
<1>3. \A c \in Subscribers : sub[c] = Off /\ got[c] = <<>> /\ Off.stage = "off"
  BY DEF FeedInit, Off
<1>4. ChronoInv
  <2> SUFFICES ASSUME NEW c \in Subscribers PROVE InOrder(sub[c], got[c])
    BY DEF ChronoInv
  <2>1. Len(got[c]) = 0 /\ sub[c].stage = "off"
    BY <1>3
  <2> QED BY <2>1 DEF InOrder
<1>5. PerAccount \in Nat /\ Total \in Nat
  BY DEF FeedAssumption
<1>6. Slots = {} /\ \A a \in Accounts : Served(a) = {} /\ open[a] = 0
  BY <1>3, <1>5 DEF FeedInit, Slots, Served
<1>7. SlotsHeld
  <2>1. AllOpen = 0 /\ \A a \in Accounts : Cardinality(Served(a)) = 0
    BY <1>6, FiniteSlots, FS_EmptySet
  <2> QED BY <1>5, <1>6, <2>1 DEF SlotsHeld, Served
<1> QED BY <1>2, <1>4, <1>7 DEF FeedInv

LEMMA MoveIsTyped ==
  ASSUME FeedTypeOK, NEW c \in Subscribers, NEW p, NEW g, PageMoves(c, p, g),
         open' \in [Accounts -> Nat]
  PROVE  FeedTypeOK'
BY DEF FeedTypeOK, PageMoves

LEMMA FeedStep == FeedAssumption /\ FeedInv /\ [FeedNext]_feedVars => FeedInv'
<1> SUFFICES ASSUME FeedAssumption, FeedTypeOK, ChronoInv, SlotsHeld, [FeedNext]_feedVars
             PROVE  FeedInv'
  BY DEF FeedInv
<1>1. CASE FeedTick
  <2>1. FeedTypeOK'
    BY <1>1 DEF FeedTick, FeedTypeOK
  <2>2. ChronoInv'
    BY <1>1 DEF FeedTick, ChronoInv, InOrder, Before
  <2>3. SlotsHeld'
    BY <1>1, SlotsRest DEF FeedTick, Served
  <2> QED BY <2>1, <2>2, <2>3 DEF FeedInv
<1>2. ASSUME NEW i \in Items, Insert(i)
      PROVE  FeedInv'
  <2>1. stamp' \in [Items -> Int] /\ \A j \in Items : stamp[j] >= 0 => stamp'[j] = stamp[j]
    BY <1>2 DEF Insert, FeedTypeOK
  <2>2. \A j \in Items : -1 <= stamp'[j] /\ stamp'[j] <= time
    BY <1>2 DEF Insert, FeedTypeOK
  <2>3. FeedTypeOK'
    BY <1>2, <2>1, <2>2 DEF Insert, FeedTypeOK
  <2>4. ChronoInv'
    BY <1>2, <2>1, RowsKeepOrder DEF Insert
  <2>5. SlotsHeld'
    BY <1>2, SlotsRest DEF Insert, Served
  <2> QED BY <2>3, <2>4, <2>5 DEF FeedInv
<1>3. ASSUME NEW i \in Items, CommitItem(i)
      PROVE  FeedInv'
  <2>1. FeedTypeOK'
    BY <1>3 DEF CommitItem, FeedTypeOK
  <2>2. ChronoInv'
    BY <1>3 DEF CommitItem, ChronoInv, InOrder, Before
  <2>3. SlotsHeld'
    BY <1>3, SlotsRest DEF CommitItem, Served
  <2> QED BY <2>1, <2>2, <2>3 DEF FeedInv
<1>4. ASSUME NEW c \in Subscribers,
             \/ Snapshot(c) \/ Poll(c) \/ Collect(c) \/ Answered(c) \/ Deliver(c)
             \/ PollOver(c) \/ DropEarly(c)
      PROVE  FeedInv'
  <2>1. UNCHANGED open /\ SlotsHeld'
    BY <1>4, ServedNoMore, SlotsRest
  <2>2. \E p \in Page, g \in Seq(Items) : PageMoves(c, p, g) /\ InOrder(p, g)
    <3>1. got[c] \in Seq(Items)
      BY DEF FeedTypeOK
    <3> QED BY <1>4, <3>1, SnapshotMoves, PollMoves, CollectMoves, AnsweredMoves,
               DeliverMoves, PollOverMoves, DropMoves
  <2>3. open' \in [Accounts -> Nat]
    BY <2>1 DEF FeedTypeOK
  <2> QED BY <2>1, <2>2, <2>3, MoveIsTyped, MoveKeepsOrder DEF FeedInv
<1>5. ASSUME NEW c \in Subscribers, Subscribe(c) \/ Drop(c)
      PROVE  FeedInv'
  <2>1. SlotsHeld'
    BY <1>5, SlotTaken, SlotReleased
  <2>2. \E p \in Page : PageMoves(c, p, got[c]) /\ InOrder(p, got[c])
    BY <1>5, SubscribeMoves, DropMoves
  <2>3. open' \in [Accounts -> Nat]
    <3>1. open \in [Accounts -> Nat] /\ Who[c] \in Accounts
      BY DEF FeedTypeOK, FeedAssumption
    <3> QED BY <1>5, <3>1 DEF Subscribe, Drop, Acquired, Released
  <2> QED BY <2>1, <2>2, <2>3, MoveIsTyped, MoveKeepsOrder DEF FeedInv
<1>6. CASE UNCHANGED feedVars
  <2>1. UNCHANGED <<time, stamp, visible, sub, got, open>>
    BY <1>6 DEF feedVars
  <2>2. FeedTypeOK'
    BY <2>1 DEF FeedTypeOK
  <2>3. ChronoInv'
    BY <2>1 DEF ChronoInv, InOrder, Before
  <2>4. SlotsHeld'
    BY <2>1, SlotsRest DEF Served
  <2> QED BY <2>2, <2>3, <2>4 DEF FeedInv
<1> QED BY <1>1, <1>2, <1>3, <1>4, <1>5, <1>6 DEF FeedNext

\* The inductive invariant holds of every behaviour.
THEOREM FeedInvariant == FeedSpec => []FeedInv
BY FeedInitInv, FeedStep, FeedAssumption, PTL DEF FeedSpec

\* A page receives one chronological feed and no row of it twice, however its
\* connections drop and resume (collect_activity, stream_activity, feed_cursor).
THEOREM FeedIsChronological == FeedSpec => []OneChronology
<1>1. FeedInv => OneChronology
  BY DEF FeedInv, ChronoInv, InOrder, Before, OneChronology
<1> QED BY <1>1, FeedInvariant, PTL

\* A row that was committed before a poll began, and concerns its page, reaches
\* the page or gives way to newer ones or to older ones of its kind
\* (collect_activity's two limits).
THEOREM SettledRowsAreSent == FeedSpec => []SettledIsSent
<1>1. FeedInit => SentInv
  <2> SUFFICES ASSUME FeedInit PROVE SentInv
    OBVIOUS
  <2>1. IsFiniteSet(visible)
    BY FS_EmptySet DEF FeedInit
  <2>2. \A c \in Subscribers : /\ sub[c].stage = "off" /\ sub[c].found = {}
                               /\ sub[c].settled = {} /\ Len(got[c]) = 0
    BY DEF FeedInit, Off
  <2> QED BY <2>1, <2>2 DEF SentInv, Sent
<1>2. FeedAssumption /\ FeedInv /\ SentInv /\ [FeedNext]_feedVars => SentInv'
  BY SentStays DEF FeedInv
<1>3. SentInv => SettledIsSent
  <2> SUFFICES ASSUME SentInv, NEW c \in Subscribers, sub[c].stage = "sending",
                      sub[c].found = {}, NEW i \in sub[c].settled, Concerns(c, i)
               PROVE  \/ i \in Received(c)
                      \/ Cardinality({j \in Received(c) : Before(i, j)}) >= PollLimit
                      \/ Cardinality({j \in visible \ {i} : Kind[j] = Kind[i]
                                                              /\ stamp[j] <= stamp[i]})
                           >= ReadCap
    BY DEF SettledIsSent
  <2> DEFINE all == sub[c].found \cup {got[c][n] : n \in 1..Len(got[c])}
  <2>1. all = Received(c)
    BY DEF Received
  <2>2. i \in all \/ Cardinality(Later(all, i)) >= PollLimit \/ Crowded(i)
    BY DEF SentInv, Sent
  <2> HIDE DEF all
  <2> QED BY <2>1, <2>2 DEF Later, Crowded, Crowd
<1> QED BY <1>1, <1>2, <1>3, FeedInvariant, FeedAssumption, PTL DEF FeedSpec

\* Each stream that is served holds a slot of its account, and neither limit is
\* exceeded (StreamSlots.acquire and release).
THEOREM SlotsAreKept == FeedSpec => []SlotsHeld
<1>1. FeedInv => SlotsHeld
  BY DEF FeedInv
<1> QED BY <1>1, FeedInvariant, PTL

=============================================================================
