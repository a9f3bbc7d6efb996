---------------------------- MODULE SlidingWindow ---------------------------
(***************************************************************************)
(* SlidingWindowLimiter of ratelimit.py: a deque of the moments at which   *)
(* each key was charged, and the two things its lock makes one step,       *)
(* charging a call and refusing it.                                        *)
(*                                                                         *)
(* The moment a call is charged at is read before the lock is taken, so it *)
(* may be older than the moments other calls have charged in between: a    *)
(* deque is not sorted.  A key the dictionary does not hold is a key with  *)
(* an empty deque.                                                         *)
(***************************************************************************)
EXTENDS Integers, Sequences

CONSTANTS Keys,         \* what a call is metered under
          Limit,        \* hits a key may have in the window
          Window,       \* window_seconds
          IdleEviction, \* IDLE_EVICTION_SECONDS
          MaxWait       \* the longest between reading the clock and the lock

ASSUME LimiterAssumption ==
  /\ Limit \in [Keys -> Nat \ {0}]
  /\ Window \in Nat \ {0}
  /\ IdleEviction \in Nat
  /\ Window <= IdleEviction
  /\ MaxWait \in Nat

VARIABLES
  now,      \* time.monotonic()
  hits,     \* the deque of every key
  granted   \* history: when each unit of a key was granted, in that order

limiterVars == <<hits, granted>>

Idle(h, moment) == h = <<>> \/ moment - h[Len(h)] > IdleEviction

Evicted(moment) == [k \in Keys |-> IF Idle(hits[k], moment) THEN <<>> ELSE hits[k]]

\* Mutant: the whole window is dropped when its first hit has left it.
DropsAll(h, moment, n) == IF h # <<>> /\ moment - h[1] >= Window THEN n = Len(h) ELSE n = 0

\* The n hits that have left the window: from the left, up to the first that
\* has not.
Leaves(h, moment, n) ==
  /\ \A i \in 1..n : moment - h[i] >= Window
  /\ n < Len(h) => moment - h[n + 1] < Window

Rest(h, n) == SubSeq(h, n + 1, Len(h))

Units(cost, moment) == [i \in 1..cost |-> moment]

Fits(h, key, cost) == Len(h) + cost <= Limit[key]

Grant(key, cost, moment) ==
  LET kept == Evicted(moment) IN
  \E n \in 0..Len(kept[key]) :
    /\ Leaves(kept[key], moment, n)
    /\ Fits(Rest(kept[key], n), key, cost)
    /\ hits' = [kept EXCEPT ![key] = Rest(@, n) \o Units(cost, moment)]
    /\ granted' = [granted EXCEPT ![key] = @ \o Units(cost, now)]

\* A call that does not fit is not charged.
Deny(key, cost, moment) ==
  LET kept == Evicted(moment) IN
  \E n \in 0..Len(kept[key]) :
    /\ Leaves(kept[key], moment, n)
    /\ ~Fits(Rest(kept[key], n), key, cost)
    /\ hits' = [kept EXCEPT ![key] = Rest(@, n)]
    /\ UNCHANGED granted

\* Mutant: the age of the oldest hit, for the time it has left.
RetryAfterAge(key, moment) ==
  IF hits[key] = <<>> THEN 0
  ELSE IF moment - hits[key][1] > 1 THEN moment - hits[key][1] ELSE 1

\* Whole seconds until the oldest hit falls out of the window.
RetryAfter(key, moment) ==
  LET left == Window - (moment - hits[key][1]) + 1 IN
  IF hits[key] = <<>> THEN 0 ELSE IF left > 1 THEN left ELSE 1

LimiterInit ==
  /\ now = 0
  /\ hits = [k \in Keys |-> <<>>]
  /\ granted = [k \in Keys |-> <<>>]

\* No key gets more than its allowance in a rolling window: the unit Limit
\* units after another is at least the window later, less the time a thread
\* may have waited for the lock (SlidingWindowLimiter.check).
WindowHeld ==
  \A k \in Keys : \A i, j \in 1..Len(granted[k]) :
    i + Limit[k] <= j => granted[k][j] - granted[k][i] >= Window - MaxWait
=============================================================================
