--------------------------- MODULE RateLimitProofs --------------------------
(***************************************************************************)
(* No key ever gets more than its allowance in a rolling window, for any   *)
(* number of threads, keys, allowances and any window.                     *)
(*                                                                         *)
(* A deque is a suffix of what was granted, each hit no more than MaxWait  *)
(* older than its grant; what is no longer in the deque was granted a      *)
(* window ago.  The deque never exceeds the limit, so the unit Limit units *)
(* before a new one has left it.                                           *)
(*                                                                         *)
(* Who was told when to come back finds room then, unless units were       *)
(* granted to the key since: whatever else happens to its deque takes hits *)
(* out of it.                                                              *)
(***************************************************************************)
EXTENDS RateLimit, SequenceTheorems, TLAPS

\* The deque h of a key of limit l at time t, and what the key was granted, g,
\* by callers who wait for the lock at most w.
Suffix(h, g, l, t, w) ==
  /\ Len(h) <= Len(g)
  /\ Len(h) <= l
  /\ \A i \in 1..Len(h) :
       LET at == g[Len(g) - Len(h) + i] IN h[i] <= at /\ at <= h[i] + w
  /\ \A i \in 1..(Len(g) - Len(h)) : t - g[i] >= Window - w

\* Grants are in the order they were made.
Ordered(g, t) ==
  /\ \A i \in 1..Len(g) : g[i] <= t
  /\ \A i, j \in 1..Len(g) : i <= j => g[i] <= g[j]

Spaced(g, l, w) ==
  \A i, j \in 1..Len(g) : i + l <= j => g[j] - g[i] >= Window - w

Waits ==
  \A t \in Threads :
    thread[t].stage = "checking" =>
      thread[t].moment <= now /\ now <= thread[t].moment + MaxWait

Held(h, g, l, t, w) == Suffix(h, g, l, t, w) /\ Ordered(g, t) /\ Spaced(g, l, w)

LimiterTypes ==
  /\ now \in Nat
  /\ hits \in [Keys -> Seq(Nat)]
  /\ granted \in [Keys -> Seq(Nat)]

AllHeld(w) == \A k \in Keys : Held(hits[k], granted[k], Limit[k], now, w)

Types == LimiterTypes /\ thread \in [Threads -> Call]

IInv == Types /\ Waits /\ AllHeld(MaxWait)

LEMMA Seconds ==
  Window \in Nat /\ IdleEviction \in Nat /\ MaxWait \in Nat /\ Window <= IdleEviction
BY LimiterAssumption

-----------------------------------------------------------------------------
(* What the steps of check do to one deque.                                *)

\* Hits that are a window old may leave from the left.
LEMMA DropKeepsHeld ==
  ASSUME NEW h \in Seq(Nat), NEW g \in Seq(Nat), NEW l \in Nat, NEW t \in Nat, NEW w \in Nat,
         Held(h, g, l, t, w), NEW n \in 0..Len(h),
         \A i \in 1..n : t - g[Len(g) - Len(h) + i] >= Window - w
  PROVE  Rest(h, n) \in Seq(Nat) /\ Held(Rest(h, n), g, l, t, w)
<1> DEFINE r == Rest(h, n)
<1>1. /\ r \in Seq(Nat)
      /\ Len(r) = Len(h) - n
      /\ \A i \in 1..Len(r) : r[i] = h[n + i]
  <2>1. n + 1 \in Int /\ Len(h) \in Int /\ n \in Int
    BY LenProperties
  <2>2. \A i \in n + 1 .. Len(h) : h[i] \in Nat
    BY <2>1, ElementOfSeq
  <2>3. /\ r \in Seq(Nat)
        /\ Len(r) = IF n + 1 <= Len(h) THEN Len(h) - (n + 1) + 1 ELSE 0
        /\ \A i \in 1..Len(h) - (n + 1) + 1 : r[i] = h[n + 1 + i - 1]
    BY <2>1, <2>2, SubSeqProperties DEF Rest
  <2> QED BY <2>1, <2>3
<1>2. Len(h) \in Nat /\ Len(g) \in Nat /\ n \in Nat
  BY LenProperties
<1> HIDE DEF r
<1>3. Suffix(r, g, l, t, w)
  <2>1. Len(r) <= Len(g) /\ Len(r) <= l
    BY <1>1, <1>2 DEF Held, Suffix
  <2>2. ASSUME NEW i \in 1..Len(r)
        PROVE  r[i] <= g[Len(g) - Len(r) + i] /\ g[Len(g) - Len(r) + i] <= r[i] + w
    <3>1. n + i \in 1..Len(h) /\ r[i] = h[n + i]
      BY <1>1, <1>2
    <3>2. Len(g) - Len(r) + i = Len(g) - Len(h) + (n + i)
      BY <1>1, <1>2
    <3> QED BY <3>1, <3>2 DEF Held, Suffix
  <2>3. ASSUME NEW i \in 1..(Len(g) - Len(r))
        PROVE  t - g[i] >= Window - w
    <3>1. CASE i <= Len(g) - Len(h)
      BY <3>1, <1>1, <1>2 DEF Held, Suffix
    <3>2. CASE i > Len(g) - Len(h)
      <4>1. i - (Len(g) - Len(h)) \in 1..n
        BY <3>2, <1>1, <1>2
      <4>2. Len(g) - Len(h) + (i - (Len(g) - Len(h))) = i
        BY <1>2
      <4> QED BY <4>1, <4>2
    <3> QED BY <3>1, <3>2, <1>2
  <2> QED BY <2>1, <2>2, <2>3 DEF Suffix
<1> QED BY <1>1, <1>3 DEF Held, r

\* The clock, with nothing granted.
LEMMA LaterKeepsHeld ==
  ASSUME NEW h \in Seq(Nat), NEW g \in Seq(Nat), NEW l \in Nat, NEW t \in Nat, NEW w \in Nat,
         NEW u \in Nat, t <= u, Held(h, g, l, t, w)
  PROVE  Held(h, g, l, u, w)
<1>1. \A i \in 1..Len(g) : g[i] \in Nat
  BY ElementOfSeq
<1>2. Len(h) \in Nat /\ Len(g) \in Nat
  BY LenProperties
<1>3. \A i \in 1..Len(g) : g[i] <= t
  BY DEF Held, Ordered
<1>4. ASSUME NEW i \in 1..(Len(g) - Len(h))
      PROVE  u - g[i] >= Window - w
  <2>1. i \in 1..Len(g)
    BY <1>2
  <2>2. t - g[i] >= Window - w
    BY DEF Held, Suffix
  <2>3. g[i] \in Nat
    BY <1>1, <2>1
  <2> QED BY <2>2, <2>3, Seconds
<1>5. Suffix(h, g, l, u, w)
  <2>1. /\ Len(h) <= Len(g) /\ Len(h) <= l
        /\ \A i \in 1..Len(h) :
             LET at == g[Len(g) - Len(h) + i] IN h[i] <= at /\ at <= h[i] + w
    BY DEF Held, Suffix
  <2> QED BY <1>4, <2>1 DEF Suffix
<1>6. Ordered(g, u)
  <2>1. \A i \in 1..Len(g) : g[i] <= u
    BY <1>1, <1>3
  <2>2. \A i, j \in 1..Len(g) : i <= j => g[i] <= g[j]
    BY DEF Held, Ordered
  <2> QED BY <2>1, <2>2 DEF Ordered
<1> QED BY <1>5, <1>6 DEF Held

\* Units are granted, as many as fit.
LEMMA GrantKeepsHeld ==
  ASSUME NEW h \in Seq(Nat), NEW g \in Seq(Nat), NEW l \in Nat, NEW t \in Nat, NEW w \in Nat,
         NEW m \in Nat, NEW c \in Nat, m <= t, t <= m + w,
         Held(h, g, l, t, w), Len(h) + c <= l
  PROVE  /\ h \o Units(c, m) \in Seq(Nat)
         /\ g \o Units(c, t) \in Seq(Nat)
         /\ Held(h \o Units(c, m), g \o Units(c, t), l, t, w)
<1> DEFINE hh == h \o Units(c, m)
           gg == g \o Units(c, t)
<1>1. /\ Units(c, m) \in Seq(Nat) /\ Len(Units(c, m)) = c
      /\ Units(c, t) \in Seq(Nat) /\ Len(Units(c, t)) = c
  BY DEF Units
<1>2. /\ hh \in Seq(Nat) /\ Len(hh) = Len(h) + c
      /\ \A i \in 1..Len(hh) : hh[i] = IF i <= Len(h) THEN h[i] ELSE m
  BY <1>1, ConcatProperties DEF Units
<1>3. /\ gg \in Seq(Nat) /\ Len(gg) = Len(g) + c
      /\ \A i \in 1..Len(gg) : gg[i] = IF i <= Len(g) THEN g[i] ELSE t
  BY <1>1, ConcatProperties DEF Units
<1>4. Len(h) \in Nat /\ Len(g) \in Nat /\ Len(h) <= Len(g)
  BY LenProperties DEF Held, Suffix
<1>5. \A i \in 1..Len(g) : g[i] \in Nat /\ g[i] <= t
  BY ElementOfSeq DEF Held, Ordered
<1>6. \A i \in 1..Len(h) : h[i] \in Nat
  BY ElementOfSeq
<1> HIDE DEF hh, gg
<1>7. Suffix(hh, gg, l, t, w)
  <2>1. Len(hh) <= Len(gg) /\ Len(hh) <= l
    BY <1>2, <1>3, <1>4
  <2>2. Len(gg) - Len(hh) = Len(g) - Len(h)
    BY <1>2, <1>3, <1>4
  <2>3. ASSUME NEW i \in 1..Len(hh)
        PROVE  /\ hh[i] <= gg[Len(gg) - Len(hh) + i]
               /\ gg[Len(gg) - Len(hh) + i] <= hh[i] + w
    <3>1. Len(g) - Len(h) + i \in 1..Len(gg)
      BY <1>2, <1>3, <1>4
    <3>2. CASE i <= Len(h)
      <4>1. i \in 1..Len(h) /\ Len(g) - Len(h) + i <= Len(g)
        BY <3>2, <1>4, <1>2
      <4>2. hh[i] = h[i]
        BY <4>1, <1>2
      <4>3. gg[Len(g) - Len(h) + i] = g[Len(g) - Len(h) + i]
        BY <4>1, <3>1, <1>3
      <4> QED BY <4>1, <4>2, <4>3, <2>2 DEF Held, Suffix
    <3>3. CASE i > Len(h)
      <4>1. ~(i <= Len(h)) /\ ~(Len(g) - Len(h) + i <= Len(g))
        BY <3>3, <1>4, <1>2
      <4>2. hh[i] = IF i <= Len(h) THEN h[i] ELSE m
        BY <1>2
      <4>3. gg[Len(g) - Len(h) + i] = t
        <5>1. \A q \in 1..Len(gg) : ~(q <= Len(g)) => gg[q] = t
          BY <1>3
        <5> QED BY <5>1, <4>1, <3>1
      <4> QED BY <4>1, <4>2, <4>3, <2>2
    <3> QED BY <3>2, <3>3, <1>4, <1>2
  <2>4. ASSUME NEW i \in 1..(Len(gg) - Len(hh))
        PROVE  t - gg[i] >= Window - w
    <3>1. i \in 1..(Len(g) - Len(h)) /\ i <= Len(g) /\ i \in 1..Len(gg)
      BY <2>2, <1>3, <1>4
    <3>2. gg[i] = g[i]
      BY <3>1, <1>3
    <3> QED BY <3>1, <3>2 DEF Held, Suffix
  <2> QED BY <2>1, <2>3, <2>4 DEF Suffix
<1>8. Ordered(gg, t)
  <2>1. ASSUME NEW i \in 1..Len(gg), NEW j \in 1..Len(gg), i <= j
        PROVE  gg[i] <= t /\ gg[i] <= gg[j]
    <3>1. CASE j <= Len(g)
      <4>1. i \in 1..Len(g) /\ j \in 1..Len(g)
        BY <3>1, <2>1, <1>3, <1>4
      <4>2. gg[i] = g[i] /\ gg[j] = g[j]
        BY <4>1, <1>3, <1>4
      <4> QED BY <4>1, <4>2, <2>1, <1>5 DEF Held, Ordered
    <3>2. CASE j > Len(g)
      <4>1. gg[j] = t
        BY <3>2, <1>3, <1>4
      <4>2. CASE i <= Len(g)
        <5>1. i \in 1..Len(g) /\ gg[i] = g[i]
          BY <4>2, <1>3, <1>4
        <5> QED BY <5>1, <4>1, <1>5
      <4>3. CASE i > Len(g)
        BY <4>1, <4>3, <1>3, <1>4
      <4> QED BY <4>2, <4>3, <1>4
    <3> QED BY <3>1, <3>2, <1>4, <1>3
  <2> QED BY <2>1, <1>3, <1>4 DEF Ordered
<1>9. Spaced(gg, l, w)
  <2>1. ASSUME NEW i \in 1..Len(gg), NEW j \in 1..Len(gg), i + l <= j
        PROVE  gg[j] - gg[i] >= Window - w
    <3>1. CASE j <= Len(g)
      <4>1. i \in 1..Len(g) /\ j \in 1..Len(g)
        BY <3>1, <2>1, <1>3, <1>4
      <4>2. gg[i] = g[i] /\ gg[j] = g[j]
        BY <4>1, <1>3, <1>4
      <4> QED BY <4>1, <4>2, <2>1 DEF Held, Spaced
    <3>2. CASE j > Len(g)
      <4>1. gg[j] = t
        BY <3>2, <1>3, <1>4
      <4>2. i \in 1..(Len(g) - Len(h)) /\ i <= Len(g)
        BY <2>1, <1>3, <1>4
      <4>3. gg[i] = g[i]
        BY <4>2, <1>3
      <4> QED BY <4>1, <4>2, <4>3 DEF Held, Suffix
    <3> QED BY <3>1, <3>2, <1>4, <1>3
  <2> QED BY <2>1 DEF Spaced
<1> QED BY <1>2, <1>3, <1>7, <1>8, <1>9 DEF Held, hh, gg

-----------------------------------------------------------------------------
(* The actions of the limiter.                                             *)

\* A deque whose last hit is idle is dropped: it is a window old.
LEMMA IdleKeepsHeld ==
  ASSUME NEW h \in Seq(Nat), NEW g \in Seq(Nat), NEW l \in Nat, NEW t \in Nat, NEW w \in Nat,
         Held(h, g, l, t, w), NEW m \in Nat, m <= t, h # <<>>, m - h[Len(h)] > IdleEviction
  PROVE  Held(<<>>, g, l, t, w)
<1>1. Len(h) \in Nat /\ Len(g) \in Nat /\ Len(h) <= Len(g) /\ Len(h) >= 1
  BY LenProperties, EmptySeq DEF Held, Suffix
<1>2. Rest(h, Len(h)) = <<>>
  BY <1>1, SubSeqEmpty DEF Rest
<1> DEFINE x == h[Len(h)]
           z == g[Len(g)]
<1>3. Len(h) \in 1..Len(h) /\ Len(g) \in 1..Len(g) /\ Len(g) - Len(h) + Len(h) = Len(g)
  BY <1>1
<1>4. x \in Nat /\ z \in Nat
  BY <1>3, ElementOfSeq
<1>5. z <= x + w
  BY <1>3 DEF Held, Suffix
<1>6. m - x > IdleEviction
  OBVIOUS
<1> HIDE DEF x, z
<1>7. ASSUME NEW i \in 1..Len(h)
      PROVE  t - g[Len(g) - Len(h) + i] >= Window - w
  <2> DEFINE y == g[Len(g) - Len(h) + i]
  <2>1. Len(g) - Len(h) + i \in 1..Len(g) /\ Len(g) - Len(h) + i <= Len(g)
    BY <1>1
  <2>2. y \in Nat /\ y <= z
    BY <2>1, <1>3, ElementOfSeq DEF Held, Ordered, z
  <2> HIDE DEF y
  <2>3. t - y >= Window - w
    BY <2>2, <1>4, <1>5, <1>6, Seconds
  <2> QED BY <2>3 DEF y
<1>8. Len(h) \in 0..Len(h)
  BY <1>1
<1> QED BY <1>2, <1>7, <1>8, DropKeepsHeld

\* Evicting the idle keys drops hits that are a window old.
LEMMA EvictKeepsHeld ==
  ASSUME LimiterTypes, NEW w \in Nat, NEW k \in Keys, Held(hits[k], granted[k], Limit[k], now, w),
         NEW m \in Nat, m <= now
  PROVE  /\ Evicted(m) \in [Keys -> Seq(Nat)]
         /\ Held(Evicted(m)[k], granted[k], Limit[k], now, w)
<1>1. Evicted(m) \in [Keys -> Seq(Nat)]
  BY DEF Evicted, LimiterTypes
<1>2. /\ hits[k] \in Seq(Nat) /\ granted[k] \in Seq(Nat)
      /\ Limit[k] \in Nat /\ now \in Nat
  BY LimiterAssumption DEF LimiterTypes
<1>3. Evicted(m)[k] = IF Idle(hits[k], m) THEN <<>> ELSE hits[k]
  BY DEF Evicted
<1>4. CASE hits[k] # <<>> /\ Idle(hits[k], m)
  <2>1. m - hits[k][Len(hits[k])] > IdleEviction
    BY <1>4 DEF Idle
  <2>2. Held(<<>>, granted[k], Limit[k], now, w)
    BY <2>1, <1>2, <1>4, IdleKeepsHeld
  <2> QED BY <2>2, <1>1, <1>3, <1>4
<1>5. CASE hits[k] = <<>> \/ ~Idle(hits[k], m)
  BY <1>5, <1>1, <1>3
<1> QED BY <1>4, <1>5

\* The hits that leave are a window old.
LEMMA LeaveKeepsHeld ==
  ASSUME NEW h \in Seq(Nat), NEW g \in Seq(Nat), NEW l \in Nat, NEW t \in Nat, NEW w \in Nat,
         Held(h, g, l, t, w), NEW m \in Nat, m <= t, NEW n \in 0..Len(h), Leaves(h, m, n)
  PROVE  Rest(h, n) \in Seq(Nat) /\ Held(Rest(h, n), g, l, t, w)
<1>1. Len(h) \in Nat /\ Len(g) \in Nat /\ Len(h) <= Len(g) /\ n \in Nat
  BY LenProperties DEF Held, Suffix
<1>2. ASSUME NEW i \in 1..n
      PROVE  t - g[Len(g) - Len(h) + i] >= Window - w
  <2>1. i \in 1..Len(h) /\ Len(g) - Len(h) + i \in 1..Len(g)
    BY <1>1
  <2>2. h[i] \in Nat /\ g[Len(g) - Len(h) + i] \in Nat
    BY <2>1, ElementOfSeq
  <2>3. m - h[i] >= Window /\ g[Len(g) - Len(h) + i] <= h[i] + w
    BY <2>1, <1>2 DEF Leaves, Held, Suffix
  <2> DEFINE x == h[i]
             y == g[Len(g) - Len(h) + i]
  <2>4. x \in Nat /\ y \in Nat /\ m - x >= Window /\ y <= x + w
    BY <2>2, <2>3
  <2> HIDE DEF x, y
  <2>5. t - y >= Window - w
    BY <2>4, Seconds
  <2> QED BY <2>5 DEF y
<1> QED BY <1>2, DropKeepsHeld

\* A call that is granted or refused keeps every deque what it should be.
LEMMA CheckKeepsHeld ==
  ASSUME LimiterTypes, NEW w \in Nat, AllHeld(w),
         NEW key \in Keys, NEW c \in Nat, NEW m \in Nat, m <= now, now <= m + w,
         Grant(key, c, m) \/ Deny(key, c, m)
  PROVE  /\ hits' \in [Keys -> Seq(Nat)]
         /\ granted' \in [Keys -> Seq(Nat)]
         /\ \A k \in Keys : Held(hits'[k], granted'[k], Limit[k], now, w)
<1> DEFINE kept == Evicted(m)
<1>1. kept \in [Keys -> Seq(Nat)]
      /\ \A k \in Keys : Held(kept[k], granted[k], Limit[k], now, w)
  BY EvictKeepsHeld DEF AllHeld
<1>2. now \in Nat /\ granted \in [Keys -> Seq(Nat)] /\ \A k \in Keys : Limit[k] \in Nat
  BY LimiterAssumption DEF LimiterTypes
<1>3. CASE Grant(key, c, m)
  <2>1. PICK n \in 0..Len(kept[key]) :
          /\ Leaves(kept[key], m, n)
          /\ Fits(Rest(kept[key], n), key, c)
          /\ hits' = [kept EXCEPT ![key] = Rest(@, n) \o Units(c, m)]
          /\ granted' = [granted EXCEPT ![key] = @ \o Units(c, now)]
    BY <1>3 DEF Grant
  <2> HIDE DEF kept
  <2>2. Rest(kept[key], n) \in Seq(Nat)
        /\ Held(Rest(kept[key], n), granted[key], Limit[key], now, w)
    BY <1>1, <1>2, <2>1, LeaveKeepsHeld
  <2>3. /\ Rest(kept[key], n) \o Units(c, m) \in Seq(Nat)
        /\ granted[key] \o Units(c, now) \in Seq(Nat)
        /\ Held(Rest(kept[key], n) \o Units(c, m), granted[key] \o Units(c, now),
                Limit[key], now, w)
    BY <1>2, <2>1, <2>2, GrantKeepsHeld DEF Fits
  <2> QED BY <1>1, <1>2, <2>1, <2>3
<1>4. CASE Deny(key, c, m)
  <2>1. PICK n \in 0..Len(kept[key]) :
          /\ Leaves(kept[key], m, n)
          /\ hits' = [kept EXCEPT ![key] = Rest(@, n)]
          /\ granted' = granted
    BY <1>4 DEF Deny
  <2> HIDE DEF kept
  <2>2. Rest(kept[key], n) \in Seq(Nat)
        /\ Held(Rest(kept[key], n), granted[key], Limit[key], now, w)
    BY <1>1, <1>2, <2>1, LeaveKeepsHeld
  <2> QED BY <1>1, <1>2, <2>1, <2>2
<1> QED BY <1>3, <1>4

-----------------------------------------------------------------------------
(* The limiter, whoever calls it, and the pool's threads.                  *)

LimiterInv(w) == LimiterTypes /\ AllHeld(w)

LEMMA LimiterInitially ==
  ASSUME LimiterInit, NEW w \in Nat
  PROVE  LimiterInv(w)
<1>1. LimiterTypes
  BY DEF LimiterInit, LimiterTypes
<1>2. ASSUME NEW k \in Keys PROVE Held(hits[k], granted[k], Limit[k], now, w)
  <2>1. hits[k] = <<>> /\ granted[k] = <<>> /\ Limit[k] \in Nat
    BY LimiterAssumption DEF LimiterInit
  <2>2. Len(<<>>) = 0
    OBVIOUS
  <2> QED BY <2>1, <2>2 DEF Held, Suffix, Ordered, Spaced
<1> QED BY <1>1, <1>2 DEF LimiterInv, AllHeld

LEMMA LimiterWaits ==
  ASSUME NEW w \in Nat, LimiterInv(w), now' \in Nat, now <= now', UNCHANGED <<hits, granted>>
  PROVE  LimiterInv(w)'
<1>1. ASSUME NEW k \in Keys PROVE Held(hits[k], granted[k], Limit[k], now', w)
  <2>1. /\ hits[k] \in Seq(Nat) /\ granted[k] \in Seq(Nat) /\ Limit[k] \in Nat
        /\ now \in Nat /\ Held(hits[k], granted[k], Limit[k], now, w)
    BY LimiterAssumption DEF LimiterInv, LimiterTypes, AllHeld
  <2> QED BY <2>1, LaterKeepsHeld
<1> QED BY <1>1 DEF LimiterInv, LimiterTypes, AllHeld

LEMMA LimiterChecks ==
  ASSUME NEW w \in Nat, LimiterInv(w), now' = now,
         NEW key \in Keys, NEW c \in Nat, NEW m \in Nat, m <= now, now <= m + w,
         Grant(key, c, m) \/ Deny(key, c, m)
  PROVE  LimiterInv(w)'
<1>1. /\ hits' \in [Keys -> Seq(Nat)]
      /\ granted' \in [Keys -> Seq(Nat)]
      /\ \A k \in Keys : Held(hits'[k], granted'[k], Limit[k], now, w)
  BY CheckKeepsHeld DEF LimiterInv
<1> QED BY <1>1 DEF LimiterInv, LimiterTypes, AllHeld

LEMMA LimiterHolds == LimiterInv(MaxWait) => WindowHeld
  BY DEF LimiterInv, AllHeld, Held, Spaced, WindowHeld

LEMMA InitHolds == RateInit => IInv
<1> SUFFICES ASSUME RateInit PROVE IInv
  OBVIOUS
<1>1. LimiterInv(MaxWait)
  BY LimiterInitially, Seconds DEF RateInit
<1>2. thread \in [Threads -> Call] /\ Waits
  BY DEF RateInit, Call, Stages, Waits
<1> QED BY <1>1, <1>2 DEF IInv, Types, LimiterInv

LEMMA StepKeeps == IInv /\ [RateNext]_rateVars => IInv'
<1> SUFFICES ASSUME IInv, [RateNext]_rateVars PROVE IInv'
  OBVIOUS
<1> USE DEF IInv, LimiterInv
<1>1. CASE RateTick
  <2>1. now \in Nat /\ now' = now + 1 /\ hits' = hits /\ granted' = granted /\ thread' = thread
    BY <1>1 DEF RateTick, Types, LimiterTypes
  <2>2. LimiterInv(MaxWait)'
    BY <2>1, LimiterWaits, Seconds DEF Types
  <2>3. Waits'
    <3> SUFFICES ASSUME NEW t \in Threads, thread[t].stage = "checking"
                 PROVE  thread[t].moment <= now + 1 /\ now + 1 <= thread[t].moment + MaxWait
      BY <2>1 DEF Waits
    <3>1. thread[t].moment \in Nat
      BY DEF Types, Call
    <3>2. thread[t].moment <= now /\ now - thread[t].moment < MaxWait
      BY <1>1 DEF Waits, RateTick
    <3> QED BY <3>1, <3>2, <2>1, LimiterAssumption
  <2> QED BY <2>1, <2>2, <2>3 DEF Types
<1>2. ASSUME NEW t \in Threads, NEW k \in PoolKeys, ReadClock(t, k)
      PROVE  IInv'
  <2>1. Types' /\ Waits'
    BY <1>2, RateLimitAssumption, LimiterAssumption DEF ReadClock, Types, LimiterTypes, Call, Stages, Waits
  <2> QED BY <2>1, <1>2 DEF ReadClock, AllHeld
<1>3. ASSUME NEW t \in Threads, Admit(t) \/ Refuse(t)
      PROVE  IInv'
  <2>1. thread[t].key \in Keys /\ thread[t].moment \in Nat /\ thread[t].moment <= now
        /\ now <= thread[t].moment + MaxWait
    BY <1>3, RateLimitAssumption DEF Admit, Refuse, Types, LimiterTypes, Call, Waits
  <2>2. Grant(thread[t].key, 1, thread[t].moment) \/ Deny(thread[t].key, 1, thread[t].moment)
    BY <1>3 DEF Admit, Refuse
  <2>3. now' = now /\ LimiterInv(MaxWait)'
    BY <1>3, <2>1, <2>2, LimiterChecks, Seconds DEF Admit, Refuse, Types
  <2>4. thread' \in [Threads -> Call] /\ Waits'
    BY <1>3, <2>3 DEF Admit, Refuse, Types, Call, Stages, Waits
  <2> QED BY <2>3, <2>4 DEF Types
<1>4. ASSUME NEW t \in Threads, ReadClockAgain(t) \/ Answer(t)
      PROVE  IInv'
  <2>1. UNCHANGED <<now, hits, granted>>
    BY <1>4 DEF ReadClockAgain, Answer
  <2>2. \E c \in Call : c.stage # "checking" /\ thread' = [thread EXCEPT ![t] = c]
    <3>1. CASE ReadClockAgain(t)
      <4> DEFINE c == [thread[t] EXCEPT !.stage = "asking", !.moment = now]
      <4>1. c \in Call /\ c.stage = "asking"
        BY DEF Types, LimiterTypes, Call, Stages
      <4>2. thread' = [thread EXCEPT ![t] = c]
        BY <3>1 DEF ReadClockAgain, Types, LimiterTypes, Call
      <4> QED BY <4>1, <4>2
    <3>2. CASE Answer(t)
      <4> DEFINE c == [thread[t] EXCEPT !.stage = "idle"]
      <4>1. c \in Call /\ c.stage = "idle"
        BY DEF Types, LimiterTypes, Call, Stages
      <4>2. thread' = [thread EXCEPT ![t] = c]
        BY <3>2 DEF Answer, Types, LimiterTypes, Call
      <4> QED BY <4>1, <4>2
    <3> QED BY <1>4, <3>1, <3>2
  <2>3. Types' /\ Waits'
    BY <2>1, <2>2 DEF Types, LimiterTypes, Waits
  <2> QED BY <2>1, <2>3 DEF AllHeld
<1>5. CASE UNCHANGED rateVars
  <2>1. UNCHANGED <<now, hits, granted, thread>>
    BY <1>5 DEF rateVars
  <2>2. Types' /\ Waits'
    BY <2>1 DEF Types, LimiterTypes, Waits
  <2> QED BY <2>1, <2>2 DEF AllHeld
<1> QED BY <1>1, <1>2, <1>3, <1>4, <1>5 DEF RateNext

\* WindowHeld (SlidingWindowLimiter.check): in every behaviour of the pool's
\* limiters, no key gets more than its allowance in a rolling window.
THEOREM AllowanceHolds == RateSpec => []WindowHeld
<1>1. IInv => WindowHeld
  BY LimiterHolds, Seconds DEF IInv, Types, LimiterInv
<1> QED BY InitHolds, StepKeeps, <1>1, PTL DEF RateSpec

-----------------------------------------------------------------------------
(* The time to come back.                                                  *)

\* A call on a key with deque h and limit l that comes no earlier than due is
\* granted: the deque is not full, or its first hit has left by then.
Room(h, l, due) == Len(h) < l \/ due >= h[1] + Window

\* The last answer is still good, unless units were granted since.
Promised ==
  /\ promise \in [key : PoolKeys, due : Int, units : Nat]
  /\ Len(granted[promise.key]) >= promise.units
  /\ Len(granted[promise.key]) = promise.units =>
       Room(hits[promise.key], Limit[promise.key], promise.due)
  /\ \A t \in Threads : thread[t].stage = "asking" => thread[t].moment <= now

RetryInv == IInv /\ Promised

LEMMA RestLength ==
  ASSUME NEW h \in Seq(Nat), NEW n \in 0..Len(h)
  PROVE  /\ Rest(h, n) \in Seq(Nat) /\ Len(Rest(h, n)) = Len(h) - n /\ Len(h) \in Nat
         /\ n = 0 => Rest(h, n) = h
<1>1. Len(h) \in Nat
  OBVIOUS
<1>2. Rest(h, n) \in Seq(Nat) /\ Len(Rest(h, n)) = Len(h) - n
  BY <1>1 DEF Rest
<1>3. n = 0 => Rest(h, n) = h
  BY <1>1, <1>2 DEF Rest
<1> QED BY <1>1, <1>2, <1>3

\* Evicting and dropping hits only makes room.
LEMMA RoomStays ==
  ASSUME NEW h \in Seq(Nat), NEW l \in Nat \ {0}, NEW due \in Int, NEW n \in 0..Len(h),
         Len(h) <= l, Room(h, l, due)
  PROVE  Room(Rest(h, n), l, due) /\ Room(<<>>, l, due)
<1>1. Room(<<>>, l, due)
  BY DEF Room
<1>2. CASE n = 0
  BY <1>1, <1>2, RestLength
<1>3. CASE n # 0
  BY <1>1, <1>3, RestLength DEF Room
<1> QED BY <1>2, <1>3

\* Who comes when it was told to finds room.
LEMMA RoomIsUsed ==
  ASSUME NEW h \in Seq(Nat), NEW l \in Nat \ {0}, NEW due \in Int, NEW m \in Nat,
         NEW n \in 0..Len(h), Len(h) <= l, Room(h, l, due), Leaves(h, m, n), m >= due
  PROVE  Len(Rest(h, n)) + 1 <= l
<1>1. Len(Rest(h, n)) = Len(h) - n /\ Len(h) \in Nat
  BY RestLength
<1>2. CASE n > 0 \/ Len(h) < l
  BY <1>1, <1>2
<1>3. CASE n = 0 /\ ~ Len(h) < l
  <2>1. Len(h) >= 1 /\ due >= h[1] + Window /\ h[1] \in Nat
    BY <1>1, <1>3 DEF Room
  <2>2. m - h[1] < Window
    BY <1>1, <1>3, <2>1 DEF Leaves
  <2> DEFINE x == h[1]
  <2>3. x \in Nat /\ due >= x + Window /\ m - x < Window
    BY <2>1, <2>2
  <2> HIDE DEF x
  <2> QED BY <2>3, Seconds
<1> QED BY <1>1, <1>2, <1>3

\* What the lock's holder finds of key k when it looks at moment m.
LEMMA RoomWhenKept ==
  ASSUME IInv, NEW k \in Keys, NEW m \in Nat, m <= now, NEW due \in Int,
         Room(hits[k], Limit[k], due)
  PROVE  /\ Evicted(m)[k] \in Seq(Nat) /\ Len(Evicted(m)[k]) <= Limit[k]
         /\ Limit[k] \in Nat \ {0} /\ Room(Evicted(m)[k], Limit[k], due)
<1>1. /\ hits[k] \in Seq(Nat) /\ Limit[k] \in Nat \ {0}
      /\ Held(hits[k], granted[k], Limit[k], now, MaxWait) /\ Types
  BY LimiterAssumption DEF IInv, AllHeld, Types, LimiterTypes
<1>2. Evicted(m) \in [Keys -> Seq(Nat)] /\ Held(Evicted(m)[k], granted[k], Limit[k], now, MaxWait)
  BY <1>1, EvictKeepsHeld, Seconds DEF Types
<1>3. Evicted(m)[k] = <<>> \/ Evicted(m)[k] = hits[k]
  BY DEF Evicted
<1>4. Room(<<>>, Limit[k], due)
  BY <1>1 DEF Room
<1> QED BY <1>1, <1>2, <1>3, <1>4 DEF Held, Suffix

LEMMA GrantIsCounted ==
  ASSUME IInv, NEW k \in Keys, NEW m \in Nat, m <= now, Grant(k, 1, m)
  PROVE  /\ Len(granted'[k]) = Len(granted[k]) + 1 /\ Len(granted[k]) \in Nat
         /\ \A j \in Keys \ {k} : granted'[j] = granted[j] /\ hits'[j] = Evicted(m)[j]
<1>1. granted \in [Keys -> Seq(Nat)] /\ now \in Nat /\ Evicted(m) \in [Keys -> Seq(Nat)]
  BY EvictKeepsHeld, Seconds DEF IInv, AllHeld, Types, LimiterTypes
<1>2. granted' = [granted EXCEPT ![k] = granted[k] \o Units(1, now)]
  BY DEF Grant
<1>3. Units(1, now) \in Seq(Nat) /\ Len(Units(1, now)) = 1
  BY <1>1 DEF Units
<1>4. Len(granted[k] \o Units(1, now)) = Len(granted[k]) + 1 /\ Len(granted[k]) \in Nat
  <2> DEFINE u == Units(1, now)
             g == granted[k]
  <2>1. u \in Seq(Nat) /\ Len(u) = 1 /\ g \in Seq(Nat)
    BY <1>1, <1>3
  <2> HIDE DEF u, g
  <2>2. Len(g \o u) = Len(g) + Len(u) /\ Len(g) \in Nat
    BY <2>1, ConcatProperties, LenProperties
  <2>3. Len(g \o u) = Len(g) + 1 /\ Len(g) \in Nat
    BY <2>1, <2>2
  <2> QED BY <2>3 DEF u, g
<1>5. \E h : hits' = [Evicted(m) EXCEPT ![k] = h]
  BY DEF Grant
<1> QED BY <1>1, <1>2, <1>4, <1>5

LEMMA DenyIsNot ==
  ASSUME IInv, NEW k \in Keys, NEW m \in Nat, m <= now, Deny(k, 1, m)
  PROVE  /\ granted' = granted
         /\ \A j \in Keys \ {k} : hits'[j] = Evicted(m)[j]
         /\ \E n \in 0..Len(Evicted(m)[k]) :
              /\ Leaves(Evicted(m)[k], m, n) /\ hits'[k] = Rest(Evicted(m)[k], n)
              /\ ~ Len(Rest(Evicted(m)[k], n)) + 1 <= Limit[k]
<1>1. Evicted(m) \in [Keys -> Seq(Nat)]
  BY EvictKeepsHeld, Seconds DEF IInv, AllHeld, Types, LimiterTypes
<1>2. PICK n \in 0..Len(Evicted(m)[k]) :
        /\ Leaves(Evicted(m)[k], m, n)
        /\ ~ Fits(Rest(Evicted(m)[k], n), k, 1)
        /\ hits' = [Evicted(m) EXCEPT ![k] = Rest(@, n)]
        /\ granted' = granted
  BY DEF Deny
<1>3. hits'[k] = Rest(Evicted(m)[k], n) /\ \A j \in Keys \ {k} : hits'[j] = Evicted(m)[j]
  BY <1>1, <1>2
<1> QED BY <1>2, <1>3 DEF Fits

LEMMA PromisedAtFirst == RateInit => Promised
<1> SUFFICES ASSUME RateInit PROVE Promised
  OBVIOUS
<1>1. PICK k \in PoolKeys :
        /\ thread = [t \in Threads |-> [stage |-> "idle", key |-> k, moment |-> 0]]
        /\ promise = [key |-> k, due |-> Horizon + 1, units |-> 0]
  BY DEF RateInit
<1>2. k \in Keys /\ Horizon \in Nat /\ Limit[k] \in Nat \ {0}
  BY RateLimitAssumption, LimiterAssumption
<1>3. hits[k] = <<>> /\ granted[k] = <<>>
  BY <1>2 DEF RateInit, LimiterInit
<1> QED BY <1>1, <1>2, <1>3 DEF Promised, Room

LEMMA PromisedStays ==
  ASSUME RetryInv, [RateNext]_rateVars
  PROVE  Promised'
<1> DEFINE p == promise.key
<1>0. /\ IInv /\ Promised /\ Types /\ p \in PoolKeys /\ p \in Keys /\ promise.due \in Int
      /\ promise.units \in Nat /\ now \in Nat /\ Limit[p] \in Nat \ {0}
      /\ hits[p] \in Seq(Nat) /\ granted[p] \in Seq(Nat) /\ thread \in [Threads -> Call]
  BY RateLimitAssumption, LimiterAssumption DEF RetryInv, Promised, IInv, AllHeld, Types, LimiterTypes
<1>1. CASE RateTick
  BY <1>0, <1>1 DEF RateTick, Promised, Call
<1>2. ASSUME NEW t \in Threads, NEW k \in PoolKeys, ReadClock(t, k) PROVE Promised'
  BY <1>0, <1>2 DEF ReadClock, Promised
<1>3. ASSUME NEW t \in Threads, Admit(t) \/ Refuse(t) PROVE Promised'
  <2> DEFINE k == thread[t].key
             m == thread[t].moment
  <2>1. /\ k \in Keys /\ m \in Nat /\ m <= now /\ UNCHANGED <<now, promise>>
        /\ Grant(k, 1, m) \/ Deny(k, 1, m)
    BY <1>0, <1>3, RateLimitAssumption DEF Admit, Refuse, Types, LimiterTypes, Call, Waits, IInv, AllHeld
  <2>2. \A u \in Threads : thread'[u].stage = "asking" => thread'[u].moment <= now'
    <3>1. /\ now' = now
          /\ \/ thread' = [thread EXCEPT ![t].stage = "idle"]
             \/ thread' = [thread EXCEPT ![t].stage = "refused"]
      BY <1>3 DEF Admit, Refuse
    <3>2. \A u \in Threads : thread[u].stage = "asking" => thread[u].moment <= now
      BY <1>0 DEF Promised
    <3>3. ASSUME NEW u \in Threads, thread'[u].stage = "asking" PROVE thread'[u].moment <= now'
      <4>1. u # t /\ thread'[u] = thread[u]
        BY <1>0, <3>1, <3>3 DEF Call
      <4> QED BY <3>1, <3>2, <3>3, <4>1
    <3> QED BY <3>3
  <2> HIDE DEF k, m
  <2>3. CASE Grant(k, 1, m)
    <3>1. /\ Len(granted'[k]) = Len(granted[k]) + 1 /\ Len(granted[k]) \in Nat
          /\ \A j \in Keys \ {k} : granted'[j] = granted[j] /\ hits'[j] = Evicted(m)[j]
      BY <1>0, <2>1, <2>3, GrantIsCounted
    <3>2. CASE k = p
      BY <1>0, <2>1, <2>2, <3>1, <3>2 DEF Promised
    <3>3. CASE k # p
      <4>1. Room(hits[p], Limit[p], promise.due) => Room(Evicted(m)[p], Limit[p], promise.due)
        BY <1>0, <2>1, RoomWhenKept
      <4> QED BY <1>0, <2>1, <2>2, <3>1, <3>3, <4>1 DEF Promised
    <3> QED BY <3>2, <3>3
  <2>4. CASE Deny(k, 1, m)
    <3>1. /\ granted' = granted
          /\ \A j \in Keys \ {k} : hits'[j] = Evicted(m)[j]
          /\ \E n \in 0..Len(Evicted(m)[k]) : hits'[k] = Rest(Evicted(m)[k], n)
      BY <1>0, <2>1, <2>4, DenyIsNot
    <3>2. Room(hits[p], Limit[p], promise.due) =>
            /\ Evicted(m)[p] \in Seq(Nat) /\ Len(Evicted(m)[p]) <= Limit[p]
            /\ Room(Evicted(m)[p], Limit[p], promise.due)
      BY <1>0, <2>1, RoomWhenKept
    <3>3. Room(hits[p], Limit[p], promise.due) => Room(hits'[p], Limit[p], promise.due)
      <4>1. CASE k = p
        <5>1. PICK n \in 0..Len(Evicted(m)[k]) : hits'[k] = Rest(Evicted(m)[k], n)
          BY <3>1
        <5> DEFINE h == Evicted(m)[p]
                   d == promise.due
                   l == Limit[p]
        <5>2. n \in 0..Len(h) /\ hits'[p] = Rest(h, n) /\ d \in Int /\ l \in Nat \ {0}
          BY <1>0, <4>1, <5>1
        <5>3. Room(hits[p], l, d) => h \in Seq(Nat) /\ Len(h) <= l /\ Room(h, l, d)
          BY <3>2
        <5> HIDE DEF h, d, l
        <5>4. Room(hits[p], l, d) => Room(hits'[p], l, d)
          BY <5>2, <5>3, RoomStays
        <5> QED BY <5>4 DEF d, l
      <4>2. CASE k # p
        BY <1>0, <3>1, <3>2, <4>2
      <4> QED BY <4>1, <4>2
    <3> QED BY <1>0, <2>1, <2>2, <3>1, <3>3 DEF Promised
  <2> QED BY <2>1, <2>3, <2>4
<1>4. ASSUME NEW t \in Threads, ReadClockAgain(t) PROVE Promised'
  <2>1. UNCHANGED <<now, hits, granted, promise>>
    BY <1>4 DEF ReadClockAgain
  <2>2. \A u \in Threads : thread'[u].stage = "asking" => thread'[u].moment <= now
    BY <1>0, <1>4 DEF ReadClockAgain, Promised, Call
  <2> QED BY <1>0, <2>1, <2>2 DEF Promised
<1>5. ASSUME NEW t \in Threads, Answer(t) PROVE Promised'
  <2> DEFINE k == thread[t].key
             m == thread[t].moment
             r == RetryAfter(k, m)
  <2>1. /\ k \in PoolKeys /\ k \in Keys /\ m \in Nat /\ m <= now
        /\ hits[k] \in Seq(Nat) /\ granted[k] \in Seq(Nat) /\ Limit[k] \in Nat \ {0}
    BY <1>0, <1>5, RateLimitAssumption, LimiterAssumption DEF Answer, Promised, Call, Types, LimiterTypes
  <2>2. /\ promise' = [key |-> k, due |-> now + r, units |-> Len(granted[k])]
        /\ UNCHANGED <<now, hits, granted>>
    BY <1>5 DEF Answer
  <2>3. \A u \in Threads : thread'[u].stage = "asking" => thread'[u].moment <= now
    BY <1>0, <1>5 DEF Answer, Promised
  <2>4. r \in Int /\ Room(hits[k], Limit[k], now + r)
    <3>1. CASE hits[k] = <<>>
      BY <2>1, <3>1 DEF RetryAfter, Room
    <3>2. CASE hits[k] # <<>>
      <4> DEFINE x == hits[k][1]
                 left == Window - (m - x) + 1
      <4>1. x \in Nat
        BY <2>1, <3>2
      <4>2. r = IF left > 1 THEN left ELSE 1
        BY <3>2 DEF RetryAfter
      <4> HIDE DEF x, m, k, r
      <4>3. r \in Int /\ now + r >= x + Window
        BY <1>0, <2>1, <4>1, <4>2, Seconds
      <4> QED BY <4>3 DEF Room, x
    <3> QED BY <3>1, <3>2
  <2> HIDE DEF k, m, r
  <2> QED BY <1>0, <2>1, <2>2, <2>3, <2>4 DEF Promised
<1>6. CASE UNCHANGED rateVars
  BY <1>0, <1>6 DEF rateVars, Promised
<1> QED BY <1>1, <1>2, <1>3, <1>4, <1>5, <1>6 DEF RateNext

\* RetryAfterIsEnough (retry_after): a step that refuses who came when it was
\* told to has seen more units granted to its key than there were then.
LEMMA RefusedForOthers ==
  ASSUME RetryInv, [RateNext]_rateVars, NEW t \in Threads,
         thread[t].stage = "checking", thread'[t].stage = "refused",
         thread[t].key = promise.key, thread[t].moment >= promise.due
  PROVE  Len(granted[promise.key]) > promise.units
<1> DEFINE k == promise.key
           m == thread[t].moment
<1>0. /\ IInv /\ Promised /\ k \in Keys /\ promise.due \in Int /\ promise.units \in Nat
      /\ m \in Nat /\ m <= now /\ granted[k] \in Seq(Nat) /\ thread \in [Threads -> Call]
  BY RateLimitAssumption DEF RetryInv, Promised, IInv, AllHeld, Types, LimiterTypes, Waits, Call
<1>1. Refuse(t)
  <2>1. ASSUME NEW u \in Threads, NEW j \in PoolKeys, ReadClock(u, j) PROVE FALSE
    BY <1>0, <2>1 DEF ReadClock
  <2>2. ASSUME NEW u \in Threads, Admit(u) \/ ReadClockAgain(u) \/ Answer(u) PROVE FALSE
    BY <1>0, <2>2 DEF Admit, ReadClockAgain, Answer, Call
  <2>3. ASSUME NEW u \in Threads, Refuse(u) PROVE u = t
    BY <1>0, <2>3 DEF Refuse
  <2>4. ~RateTick /\ ~UNCHANGED rateVars
    BY DEF RateTick, rateVars
  <2> QED BY <2>1, <2>2, <2>3, <2>4 DEF RateNext
<1>2. Deny(k, 1, m)
  BY <1>1 DEF Refuse
<1> HIDE DEF k, m
<1>3. PICK n \in 0..Len(Evicted(m)[k]) :
        Leaves(Evicted(m)[k], m, n) /\ ~ Len(Rest(Evicted(m)[k], n)) + 1 <= Limit[k]
  BY <1>0, <1>2, DenyIsNot
<1>4. ~Room(hits[k], Limit[k], promise.due)
  <2> SUFFICES ASSUME Room(hits[k], Limit[k], promise.due) PROVE FALSE
    OBVIOUS
  <2>1. /\ Evicted(m)[k] \in Seq(Nat) /\ Len(Evicted(m)[k]) <= Limit[k]
        /\ Limit[k] \in Nat \ {0} /\ Room(Evicted(m)[k], Limit[k], promise.due)
    BY <1>0, RoomWhenKept
  <2>2. m >= promise.due
    BY DEF m
  <2> QED BY <1>0, <1>3, <2>1, <2>2, RoomIsUsed
<1>5. Len(granted[k]) \in Nat /\ Len(granted[k]) >= promise.units
      /\ Len(granted[k]) # promise.units
  BY <1>0, <1>4 DEF Promised, k
<1> QED BY <1>0, <1>5 DEF k

\* A caller who waits for as long as it was told to is not refused again,
\* unless others used the room in the meantime.
THEOREM WaitingIsEnough == RateSpec => RetryAfterIsEnough
<1>1. RateInit => RetryInv
  BY InitHolds, PromisedAtFirst DEF RetryInv
<1>2. RetryInv /\ [RateNext]_rateVars => RetryInv'
  BY StepKeeps, PromisedStays DEF RetryInv
<1> DEFINE Enough == \A t \in Threads :
             (/\ thread[t].stage = "checking" /\ thread'[t].stage = "refused"
              /\ thread[t].key = promise.key /\ thread[t].moment >= promise.due)
             => Len(granted[promise.key]) > promise.units
<1>3. RetryInv /\ [RateNext]_rateVars => [Enough]_rateVars
  BY RefusedForOthers
<1> HIDE DEF Enough
<1>4. RateSpec => [][Enough]_rateVars
  BY <1>1, <1>2, <1>3, PTL DEF RateSpec
<1> QED BY <1>4 DEF RetryAfterIsEnough, Enough
=============================================================================
