------------------------------ MODULE LiveFeed ------------------------------
(***************************************************************************)
(* The activity feed: the rows it reports (activity.py), the stream that   *)
(* polls them (stream_activity, list_activity and StreamSlots, api/app.py) *)
(* and the subscriber that keeps a cursor (web/lib/useActivityFeed.ts).    *)
(*                                                                         *)
(* A row is stamped when it is written and seen when its transaction       *)
(* commits.  A poll runs one query for each kind of row, one after the     *)
(* other, for what is stamped after the watermark; a subscriber that comes *)
(* back asks for what is stamped after the last item it received.          *)
(***************************************************************************)
EXTENDS Integers, FiniteSets, Sequences

CONSTANTS Items,       \* the rows, numbers in the order of the items' ids
          Kind,        \* the collector that reports each of them
          Actor,       \* whose each of them is
          Collectors,  \* how many kinds there are, in the order of _COLLECTORS
          Subscribers, Who,  \* the pages that subscribe, and who each is
          Admins, Nobody,    \* who sees everything; the platform
          ReadCap,     \* MAX_FEED_ITEMS, of one query
          PollLimit,   \* limit, of one poll
          Replay,      \* ACTIVITY_REPLAY_HOURS
          PerAccount, Total, \* MAX_STREAMS_PER_ACCOUNT, MAX_STREAMS
          MaxClock,    \* bound: the clock
          MaxConnects  \* bound: connections of a subscriber

Accounts == {Who[c] : c \in Subscribers}

ASSUME FeedAssumption ==
  /\ Items \subseteq Nat /\ Collectors \in Nat
  /\ Kind \in [Items -> 1..Collectors]
  /\ DOMAIN Actor = Items /\ IsFiniteSet(Subscribers) /\ Who \in [Subscribers -> Accounts]
  /\ ReadCap \in Nat \ {0} /\ PollLimit \in Nat \ {0} /\ Replay \in Nat
  /\ PerAccount \in Nat /\ Total \in Nat /\ MaxClock \in Nat /\ MaxConnects \in Nat

VARIABLES
  time,    \* utcnow
  stamp,   \* created_at (updated_at, occurred_at) of each row; -1: not written
  visible, \* the rows whose transactions have committed
  sub,     \* each subscriber, and the request that serves it
  got,     \* what it received, in order
  open     \* StreamSlots._open

feedVars == <<time, stamp, visible, sub, got, open>>

-----------------------------------------------------------------------------
(* The rows.                                                               *)

Insert(i) ==
  /\ stamp[i] = -1
  /\ stamp' = [stamp EXCEPT ![i] = time]
  /\ UNCHANGED <<time, visible, sub, got, open>>

CommitItem(i) ==
  /\ stamp[i] >= 0 /\ i \notin visible
  /\ visible' = visible \cup {i}
  /\ UNCHANGED <<time, stamp, sub, got, open>>

FeedTick ==
  /\ time < MaxClock
  /\ time' = time + 1
  /\ UNCHANGED <<stamp, visible, sub, got, open>>

-----------------------------------------------------------------------------
(* Stream slots.                                                           *)

\* sum(_open.values()), as the number of slots in use.
AllOpen == Cardinality({s \in Accounts \X (1..PerAccount) : s[2] <= open[s[1]]})

Free(a) == AllOpen < Total /\ open[a] < PerAccount

Acquired(a) == [open EXCEPT ![a] = @ + 1]

\* Mutant: the account is dropped with its first stream.
Popped(a) == [open EXCEPT ![a] = 0]

Released(a) == [open EXCEPT ![a] = IF @ > 0 THEN @ - 1 ELSE 0]

-----------------------------------------------------------------------------
(* What a poll reads.                                                      *)

\* Mutant: only what is one's own.
OwnOnly(c, i) == Actor[i] = Who[c]

\* visibility_filter
MaySee(c, i) == Who[c] \in Admins \/ Actor[i] \in {Nobody, Who[c]}

Before(i, j) == stamp[i] < stamp[j] \/ (stamp[i] = stamp[j] /\ i < j)

\* Mutant: at the cursor, too.
FromCursor(i, cutoff) == stamp[i] >= cutoff

After(i, cutoff) == stamp[i] > cutoff

Matching(c, k, cutoff) ==
  {i \in visible : Kind[i] = k /\ After(i, cutoff) /\ MaySee(c, i)}

\* The oldest of them: order_by, limit.  Ties are the database's to break.
IsRead(R, S) ==
  /\ R \subseteq S
  /\ \A i \in R, j \in S \ R : stamp[i] <= stamp[j]
  /\ \/ Cardinality(R) = ReadCap
     \/ R = S /\ Cardinality(S) < ReadCap

\* The newest of all: items[-limit:].
Kept(S) == {i \in S : Cardinality({j \in S : Before(i, j)}) < PollLimit}

Latest(S) == CHOOSE t \in {stamp[i] : i \in S} : \A i \in S : stamp[i] <= t

\* Mutant: the cursor of what was kept first.
FirstKept(S, fallback) ==
  IF S = {} THEN fallback
  ELSE CHOOSE t \in {stamp[i] : i \in S} : \A i \in S : stamp[i] >= t

\* feed_cursor, and the watermark of a stream.
FeedCursor(S, fallback) == IF S = {} THEN fallback ELSE Latest(S)

-----------------------------------------------------------------------------
(* A subscriber.                                                           *)

\* The page has no cursor before its first snapshot.
NoCursor == -Replay - 1

\* mark: the cutoff of the polls.  next, found: the collector that is next, and
\* the rows read and not delivered.  settled: the rows that were to be seen
\* when the poll began.
Off == [stage |-> "off", cursor |-> NoCursor, mark |-> 0, next |-> 1, found |-> {},
        settled |-> {}, connects |-> 0]

Connects(c) == sub[c].stage = "off" /\ sub[c].connects < MaxConnects

\* The page has no cursor yet: it asks for a snapshot of the last hours.
Snapshot(c) ==
  /\ Connects(c) /\ sub[c].cursor = NoCursor
  /\ sub' = [sub EXCEPT ![c] = [@ EXCEPT !.stage = "snapshot", !.next = 1, !.found = {},
                                 !.mark = time - Replay, !.connects = sub[c].connects + 1]]
  /\ UNCHANGED <<time, stamp, visible, got, open>>

\* A stream is refused when the slots are taken, and the page retries.
Subscribe(c) ==
  /\ Connects(c) /\ sub[c].cursor # NoCursor /\ Free(Who[c])
  /\ open' = Acquired(Who[c])
  /\ sub' = [sub EXCEPT ![c] = [@ EXCEPT !.stage = "accepted", !.mark = sub[c].cursor,
                                 !.connects = sub[c].connects + 1]]
  /\ UNCHANGED <<time, stamp, visible, got>>

\* A poll of the stream begins: the generator's first step, or its next.
Poll(c) ==
  /\ sub[c].stage \in {"accepted", "waiting"}
  /\ sub' = [sub EXCEPT ![c] = [@ EXCEPT !.stage = "polling", !.next = 1, !.found = {},
                                         !.settled = {i \in visible : stamp[i] > sub[c].mark}]]
  /\ UNCHANGED <<time, stamp, visible, got, open>>

Collect(c) ==
  /\ sub[c].stage \in {"snapshot", "polling"} /\ sub[c].next <= Collectors
  /\ \E R \in SUBSET Items :
       /\ IsRead(R, Matching(c, sub[c].next, sub[c].mark))
       /\ sub' = [sub EXCEPT ![c].found = @ \cup R, ![c].next = @ + 1]
  /\ UNCHANGED <<time, stamp, visible, got, open>>

\* The answer to a poll is ready.  The watermark moves before anything is sent.
Answered(c) ==
  /\ sub[c].stage \in {"snapshot", "polling"} /\ sub[c].next > Collectors
  /\ LET kept == Kept(sub[c].found) IN
     sub' = [sub EXCEPT ![c] = [@ EXCEPT
       !.stage = IF sub[c].stage = "snapshot" THEN "shown" ELSE "sending",
       !.found = kept, !.mark = FeedCursor(kept, sub[c].mark)]]
  /\ UNCHANGED <<time, stamp, visible, got, open>>

\* Items reach the page one by one, in order, and move its cursor; a snapshot
\* sets it.
Deliver(c) ==
  /\ sub[c].stage \in {"shown", "sending"} /\ sub[c].found # {}
  /\ LET i == CHOOSE i \in sub[c].found : \A j \in sub[c].found \ {i} : Before(i, j) IN
     /\ got' = [got EXCEPT ![c] = Append(@, i)]
     /\ sub' = [sub EXCEPT ![c].found = @ \ {i}, ![c].cursor = stamp[i]]
  /\ UNCHANGED <<time, stamp, visible, open>>

\* The poll is over: the page has its snapshot, or the stream sleeps.
PollOver(c) ==
  /\ sub[c].stage \in {"shown", "sending"} /\ sub[c].found = {}
  /\ sub' = [sub EXCEPT ![c] = [@ EXCEPT !.settled = {},
       !.stage = IF sub[c].stage = "shown" THEN "off" ELSE "waiting",
       !.cursor = IF sub[c].stage = "shown" THEN sub[c].mark ELSE sub[c].cursor]]
  /\ UNCHANGED <<time, stamp, visible, got, open>>

\* The connection ends: the page is gone, the network is, or the stream has
\* lasted long enough.  What was not delivered is dropped.
Drop(c) ==
  /\ sub[c].stage \in {"polling", "sending", "waiting"}
  /\ open' = Released(Who[c])
  /\ sub' = [sub EXCEPT ![c] = [@ EXCEPT !.stage = "off", !.found = {}, !.settled = {}]]
  /\ UNCHANGED <<time, stamp, visible, got>>

\* It ends before the generator has run: what would release the slot never does.
DropEarly(c) ==
  /\ sub[c].stage = "accepted"
  /\ sub' = [sub EXCEPT ![c].stage = "off"]
  /\ UNCHANGED <<time, stamp, visible, got, open>>

FeedInit ==
  /\ time = 0
  /\ stamp = [i \in Items |-> -1] /\ visible = {}
  /\ sub = [c \in Subscribers |-> Off]
  /\ got = [c \in Subscribers |-> <<>>]
  /\ open = [a \in Accounts |-> 0]

FeedNext ==
  \/ FeedTick
  \/ \E i \in Items : Insert(i) \/ CommitItem(i)
  \/ \E c \in Subscribers :
       \/ Snapshot(c) \/ Subscribe(c) \/ Poll(c) \/ Collect(c) \/ Answered(c)
       \/ Deliver(c) \/ PollOver(c) \/ Drop(c) \/ DropEarly(c)

FeedSpec == FeedInit /\ [][FeedNext]_feedVars

-----------------------------------------------------------------------------
(* Properties.                                                             *)

Received(c) == {got[c][n] : n \in 1..Len(got[c])}

Concerns(c, i) == Who[c] \in Admins \/ Actor[i] \in {Nobody, Who[c]}

\* However connections drop and resume, and rows are committed out of order, a
\* page receives one chronological feed and no row of it twice (collect_activity,
\* stream_activity, useActivityFeed).
OneChronology ==
  \A c \in Subscribers : \A m, n \in 1..Len(got[c]) :
    m < n => \/ stamp[got[c][m]] < stamp[got[c][n]]
             \/ stamp[got[c][m]] = stamp[got[c][n]] /\ got[c][m] < got[c][n]

\* A row that was committed before a poll began, after the mark it began at,
\* reached the page by the poll's end, or gave way to newer ones or to older
\* ones of its kind (collect_activity's two limits).
SettledIsSent ==
  \A c \in Subscribers :
    sub[c].stage = "sending" /\ sub[c].found = {} =>
      \A i \in sub[c].settled :
        Concerns(c, i) =>
          \/ i \in Received(c)
          \/ Cardinality({j \in Received(c) : Before(i, j)}) >= PollLimit
          \/ Cardinality({j \in visible \ {i} : Kind[j] = Kind[i] /\ stamp[j] <= stamp[i]})
               >= ReadCap

\* Every stream that is served holds a slot of its account, within the limits:
\* none is given away twice (StreamSlots, stream_activity's finally).
SlotsHeld ==
  /\ \A a \in Accounts :
       /\ Cardinality({c \in Subscribers : Who[c] = a /\
            sub[c].stage \in {"accepted", "polling", "sending", "waiting"}}) <= open[a]
       /\ open[a] <= PerAccount
  /\ AllOpen <= Total

\* "Nothing is silently lost" (useActivityFeed): a page that is to resume has
\* every committed row that is older than what it saw last.
NothingLost ==
  \A c \in Subscribers :
    sub[c].stage = "off" =>
      \A i \in visible : Concerns(c, i) /\ stamp[i] < sub[c].cursor => i \in Received(c)
=============================================================================
