-------------------------- MODULE PublicApiProofs ---------------------------
(***************************************************************************)
(* Proofs about PublicApi, for any visitors, requests, lifetimes and       *)
(* limits: what the cache serves is as fresh as it promises, the cache is  *)
(* within its limits, and what is charged is within the allowances.        *)
(*                                                                         *)
(* The moment a body was made is not in the cache.  What is kept with it   *)
(* bounds that moment: a request takes at most MaxLatency, so an entry     *)
(* expires at most that long, and its lifetime, after the database was     *)
(* read.  A track is found by the anchor in its key, which is the anchor   *)
(* of the request that is served.                                          *)
(*                                                                         *)
(* The count of bytes is a sum over the entries.  That there is such a sum *)
(* and only one, and what it becomes when an entry is added or taken out,  *)
(* is shown from the least number of entries for which it would fail.      *)
(***************************************************************************)
EXTENDS PublicApi, RateLimitProofs, FiniteSetTheorems, WellFoundedInduction

\* A key of the cache: where a track starts is part of it.
KeyOK(key) == key.kind \in Kinds /\ key.anchor \in Int

\* A body that was stored: it holds what its key says, and expires in time.
EntryOK(e) ==
  /\ KeyOK(e.key)
  /\ e.expires \in Int /\ e.body.read \in Int /\ e.body.start = e.key.anchor
  /\ e.body.bytes \in Int
  /\ e.expires <= e.body.read + Ttl[e.key.kind] + MaxLatency

\* A request that is being served, at moment t.
VisitOK(x, t) ==
  /\ x.stage \notin {"idle", "done"} =>
       /\ x.request \in Requests /\ x.begun \in Int
       /\ x.begun <= t /\ t <= x.begun + MaxLatency
  /\ x.stage \in {"looking", "computing", "storing"} =>
       x.key = CacheKey(x.request, Anchor(x.request, x.begun))
  /\ x.stage = "storing" =>
       /\ x.body.start = x.key.anchor /\ x.body.read \in Int /\ x.body.bytes \in Int
       /\ x.begun <= x.body.read /\ x.body.read <= t

\* The fields of a request may hold anything.
Visit(V) == [stage : V, request : V, key : V, begun : V, body : V]

VisitsTyped == \E V : visit \in [Visitors -> Visit(V)]

Typed ==
  /\ now \in Nat
  /\ VisitsTyped
  /\ \E V : entries \in Seq(V) /\ \A e \in V : EntryOK(e)

VisitsOK == \A v \in Visitors : VisitOK(visit[v], now)

ApiInv == Typed /\ VisitsOK /\ StalenessBounded /\ TrackIsCurrent

-----------------------------------------------------------------------------
(* Keys and anchors.                                                       *)

LEMMA Requested ==
  ASSUME NEW r \in Requests
  PROVE  r.kind \in Kinds /\ Ttl[r.kind] \in Nat /\ Ttl[r.kind] > 0
BY ApiAssumption DEF Request

\* An anchor is less than a lifetime before the moment it is taken of.
LEMMA AnchorIsNear ==
  ASSUME NEW r \in Requests, NEW t \in Int
  PROVE  /\ Anchor(r, t) \in Int
         /\ Propagating(r) => Anchor(r, t) <= t /\ t - Anchor(r, t) < Ttl[r.kind]
<1> DEFINE d == Ttl[r.kind]
<1>1. d \in Nat /\ d > 0
  BY Requested
<1> HIDE DEF d
<1>2. t % d \in 0..(d - 1)
  BY <1>1
<1>3. Anchor(r, t) = IF Propagating(r) THEN t - (t % d) ELSE 0
  BY DEF Anchor, d
<1> QED BY <1>1, <1>2, <1>3 DEF d

LEMMA KeyIs ==
  ASSUME NEW r \in Requests, NEW t \in Int
  PROVE  /\ KeyOK(CacheKey(r, Anchor(r, t)))
         /\ CacheKey(r, Anchor(r, t)).kind = r.kind
         /\ CacheKey(r, Anchor(r, t)).anchor = Anchor(r, t)
BY Requested, AnchorIsNear DEF CacheKey, KeyOK

\* A body has a size: there are finitely many rows.
LEMMA BodyHasSize ==
  ASSUME NEW r \in Requests, NEW a
  PROVE  Body(r, a).bytes \in Int
<1>1. ASSUME NEW S \in SUBSET Objects PROVE Cardinality(RowsOf(S)) \in Nat
  <2> DEFINE Q == {o \in S : elements[o] > 0}
             f == [o \in Q |-> <<o, elements[o]>>]
  <2>1. IsFiniteSet(Q)
    BY ApiAssumption, FS_Subset
  <2>2. f \in Surjection(Q, RowsOf(S))
    BY DEF Surjection, RowsOf
  <2> QED BY <2>1, <2>2, FS_Surjection, FS_CardinalityType
<1>2. r.wanted \in Seq(Objects) /\ r.window \in Nat /\ r.step \in Nat \ {0}
  BY ApiAssumption DEF Request
<1>3. ToSet(r.wanted) \in SUBSET Objects
  BY <1>2 DEF ToSet
<1>4. Cardinality(Rows(r)) \in Int
  BY <1>1, <1>3 DEF Rows, Listed, Explained, Tracks
<1>5. SamplesEach(r) \in Int
  BY <1>2 DEF SamplesEach
<1> DEFINE c == Cardinality(Rows(r))
           n == SamplesEach(r)
<1>6. Body(r, a).bytes = c * (IF Propagating(r) THEN n ELSE 1)
  BY DEF Body
<1> HIDE DEF c, n
<1>7. c \in Int /\ n \in Int
  BY <1>4, <1>5 DEF c, n
<1> QED BY <1>6, <1>7

-----------------------------------------------------------------------------
(* Steps of one request.                                                   *)

\* A step of request v, which becomes n.
Turns(v, n) == visit' = [visit EXCEPT ![v] = n]

LEMMA TurnsKeep ==
  ASSUME Typed, VisitsOK, NEW v \in Visitors, NEW U, NEW n \in Visit(U), Turns(v, n),
         now' = now, VisitOK(n, now)
  PROVE  VisitsTyped' /\ VisitsOK'
<1>1. PICK V : visit \in [Visitors -> Visit(V)]
  BY DEF Typed, VisitsTyped
<1> DEFINE W == V \cup U
<1>2. n \in Visit(W) /\ Visit(V) \subseteq Visit(W)
  BY DEF Visit
<1> HIDE DEF W
<1>3. visit' \in [Visitors -> Visit(W)]
  BY <1>1, <1>2 DEF Turns
<1>4. visit'[v] = n /\ \A w \in Visitors \ {v} : visit'[w] = visit[w]
  BY <1>1 DEF Turns
<1>5. \A w \in Visitors : VisitOK(visit'[w], now)
  BY <1>4 DEF VisitsOK
<1> QED BY <1>3, <1>5 DEF VisitsOK, VisitsTyped

\* What an EXCEPT makes of a visit.
LEMMA VisitType ==
  ASSUME NEW V, NEW x \in Visit(V), NEW e
  PROVE  /\ [x EXCEPT !.stage = e] \in Visit(V \cup {e}) /\ [x EXCEPT !.stage = e].stage = e
BY DEF Visit

LEMMA IdleType == \E V : Idling \in Visit(V)
<1> DEFINE V == {"idle", CHOOSE r \in Requests : TRUE, <<>>, 0, NoBody}
<1>1. Idling \in Visit(V)
  BY DEF Idling, Visit
<1> QED BY <1>1

LEMMA LeaveKeeps ==
  ASSUME Typed, VisitsOK, NEW v \in Visitors, Leave(v), now' = now
  PROVE  VisitsTyped' /\ VisitsOK'
<1>0. PICK V : Idling \in Visit(V)
  BY IdleType
<1> DEFINE n == [Idling EXCEPT !.stage = "done"]
<1>1. n \in Visit(V \cup {"done"}) /\ n.stage = "done"
  BY <1>0, VisitType
<1>2. Turns(v, n)
  BY DEF Leave, Turns
<1> HIDE DEF n
<1>3. VisitOK(n, now)
  BY <1>1 DEF VisitOK
<1> QED BY <1>1, <1>2, <1>3, TurnsKeep

\* What is served is within both bounds.
LEMMA Served ==
  ASSUME Typed, VisitsOK, NEW v \in Visitors, NEW body, Serve(v, body),
         visit[v].stage \in {"looking", "storing"},
         body.read \in Int, body.start = visit[v].key.anchor,
         now < body.read + Ttl[visit[v].key.kind] + 2 * MaxLatency
  PROVE  StalenessBounded' /\ TrackIsCurrent'
<1> DEFINE x == visit[v]
           r == x.request
<1>1. /\ r \in Requests /\ x.begun \in Int /\ now \in Int /\ MaxLatency \in Nat
      /\ now <= x.begun + MaxLatency
      /\ x.key = CacheKey(r, Anchor(r, x.begun))
  BY ApiAssumption DEF VisitsOK, VisitOK, Typed
<1>2. x.key.kind = r.kind /\ x.key.anchor = Anchor(r, x.begun)
  BY <1>1, KeyIs
<1>3. r.kind \in {"one", "batch"} => x.begun - Anchor(r, x.begun) < Ttl[r.kind]
  BY <1>1, AnchorIsNear DEF Propagating
<1>4. Ttl[r.kind] \in Nat /\ Anchor(r, x.begun) \in Int
  BY <1>1, Requested, AnchorIsNear
<1>5. answer' = [key |-> x.key, body |-> body, at |-> now]
  BY DEF Serve
<1>6. answer'.key = x.key /\ answer'.body = body /\ answer'.at = now
  BY <1>5
<1> HIDE DEF x, r
<1>7. answer'.at - answer'.body.read < Ttl[answer'.key.kind] + 2 * MaxLatency
  BY <1>1, <1>2, <1>4, <1>6 DEF x
<1>8. answer'.key.kind \in {"one", "batch"} =>
        answer'.at - answer'.body.start < Ttl[answer'.key.kind] + MaxLatency
  BY <1>1, <1>2, <1>3, <1>4, <1>6 DEF x
<1> QED BY <1>7, <1>8 DEF StalenessBounded, TrackIsCurrent

-----------------------------------------------------------------------------
(* What is kept.                                                           *)

EntriesOK(es) == \E V : es \in Seq(V) /\ \A e \in V : EntryOK(e)

LEMMA EntryOf ==
  ASSUME NEW es, EntriesOK(es), NEW i \in 1..Len(es)
  PROVE  EntryOK(es[i])
BY DEF EntriesOK

LEMMA EntriesAppend ==
  ASSUME NEW es, EntriesOK(es), NEW e, EntryOK(e)
  PROVE  EntriesOK(Append(es, e))
<1>1. PICK V : es \in Seq(V) /\ \A x \in V : EntryOK(x)
  BY DEF EntriesOK
<1> DEFINE W == V \cup {e}
<1>2. es \in Seq(W) /\ e \in W /\ \A x \in W : EntryOK(x)
  BY <1>1
<1> HIDE DEF W
<1>3. Append(es, e) \in Seq(W)
  BY <1>2
<1> QED BY <1>2, <1>3 DEF EntriesOK

LEMMA EntriesRemove ==
  ASSUME NEW es, EntriesOK(es), NEW i \in 1..Len(es)
  PROVE  EntriesOK(RemoveAt(es, i))
<1>1. PICK V : es \in Seq(V) /\ \A x \in V : EntryOK(x)
  BY DEF EntriesOK
<1>2. RemoveAt(es, i) \in Seq(V)
  BY <1>1 DEF RemoveAt
<1> QED BY <1>1, <1>2 DEF EntriesOK

LEMMA EntriesEvict ==
  ASSUME NEW es, EntriesOK(es), NEW n \in 0..Len(es)
  PROVE  EntriesOK(Evict(es, n))
<1>1. PICK V : es \in Seq(V) /\ \A x \in V : EntryOK(x)
  BY DEF EntriesOK
<1>2. Evict(es, n) \in Seq(V)
  BY <1>1 DEF Evict
<1> QED BY <1>1, <1>2 DEF EntriesOK

LEMMA EntriesWithout ==
  ASSUME NEW key, EntriesOK(entries)
  PROVE  EntriesOK(Without(key))
<1>1. CASE Previous(key) = {}
  BY <1>1 DEF Without
<1>2. CASE Previous(key) # {}
  <2>1. PICK i \in Previous(key) : i = CHOOSE k \in Previous(key) : TRUE
    BY <1>2
  <2>2. i \in 1..Len(entries) /\ Without(key) = RemoveAt(entries, i)
    BY <1>2, <2>1 DEF Previous, Without
  <2> QED BY <2>2, EntriesRemove
<1> QED BY <1>1, <1>2

-----------------------------------------------------------------------------
(* The steps.                                                              *)

\* A step of the visits alone.
LEMMA OnlyVisits ==
  ASSUME Typed, StalenessBounded, TrackIsCurrent, UNCHANGED <<now, entries, answer>>,
         VisitsTyped', VisitsOK'
  PROVE  ApiInv'
BY DEF Typed, ApiInv, StalenessBounded, TrackIsCurrent

LEMMA EnterKeeps ==
  ASSUME ApiInv, NEW v \in Visitors, NEW r \in Requests, Enter(v, r),
         UNCHANGED <<now, entries, answer>>
  PROVE  ApiInv'
<1>0. PICK V : Idling \in Visit(V)
  BY IdleType
<1> DEFINE i == Idling
           n == [i EXCEPT !.stage = "admitted", !.request = r, !.begun = now]
           U == V \cup {"admitted", r, now}
<1>1. Turns(v, n)
  BY DEF Enter, Turns
<1> HIDE DEF i
<1>2. i \in Visit(V)
  BY <1>0 DEF i
<1>3. n \in Visit(U) /\ n.stage = "admitted" /\ n.request = r /\ n.begun = now
  BY <1>2 DEF Visit
<1> HIDE DEF n, U
<1>4. VisitOK(n, now)
  BY <1>3, ApiAssumption DEF VisitOK, ApiInv, Typed
<1> QED BY <1>1, <1>3, <1>4, TurnsKeep, OnlyVisits DEF ApiInv

LEMMA AskKeeps ==
  ASSUME ApiInv, NEW v \in Visitors, Ask(v)
  PROVE  ApiInv'
<1>0. PICK V : visit \in [Visitors -> Visit(V)]
  BY DEF ApiInv, Typed, VisitsTyped
<1> DEFINE x == visit[v]
           k == CacheKey(x.request, Anchor(x.request, now))
           n == [x EXCEPT !.stage = "looking", !.begun = now, !.key = k]
           U == V \cup {"looking", now, k}
<1>1. VisitOK(x, now) /\ x.stage = "admitted" /\ x \in Visit(V)
  BY <1>0 DEF ApiInv, VisitsOK, Ask
<1>2. Turns(v, n)
  BY <1>0 DEF Ask, Turns, Visit
<1> HIDE DEF x
<1>3. /\ n \in Visit(U)
      /\ n.stage = "looking" /\ n.begun = now /\ n.key = k /\ n.request = x.request
  BY <1>1 DEF Visit
<1> HIDE DEF n, U
<1>4. VisitOK(n, now)
  BY <1>1, <1>3, ApiAssumption DEF VisitOK, ApiInv, Typed
<1> QED BY <1>2, <1>3, <1>4, TurnsKeep, OnlyVisits DEF ApiInv, Ask

LEMMA MissKeeps ==
  ASSUME ApiInv, NEW v \in Visitors, Miss(v)
  PROVE  ApiInv'
<1>0. PICK V : visit \in [Visitors -> Visit(V)]
  BY DEF ApiInv, Typed, VisitsTyped
<1> DEFINE x == visit[v]
           n == [x EXCEPT !.stage = "computing"]
<1>1. VisitOK(x, now) /\ x.stage = "looking" /\ x \in Visit(V)
  BY <1>0 DEF ApiInv, VisitsOK, Miss
<1>2. Turns(v, n)
  BY DEF Miss, Turns
<1> HIDE DEF x
<1>3. /\ n \in Visit(V \cup {"computing"}) /\ n.stage = "computing"
      /\ n.begun = x.begun /\ n.key = x.key /\ n.request = x.request
  BY <1>1 DEF Visit
<1> HIDE DEF n
<1>4. VisitOK(n, now)
  BY <1>1, <1>3 DEF VisitOK
<1> QED BY <1>2, <1>3, <1>4, TurnsKeep, OnlyVisits DEF ApiInv, Miss

LEMMA ComputeKeeps ==
  ASSUME ApiInv, NEW v \in Visitors, Compute(v)
  PROVE  ApiInv'
<1>0. PICK V : visit \in [Visitors -> Visit(V)]
  BY DEF ApiInv, Typed, VisitsTyped
<1> DEFINE x == visit[v]
           b == Body(x.request, Anchor(x.request, x.begun))
           n == [x EXCEPT !.stage = "storing", !.body = b]
<1>1. VisitOK(x, now) /\ x.stage = "computing" /\ x \in Visit(V)
  BY <1>0 DEF ApiInv, VisitsOK, Compute
<1>2. Turns(v, n)
  BY <1>0 DEF Compute, Turns, Visit
<1>3. b.start = Anchor(x.request, x.begun) /\ b.read = now /\ b.bytes \in Int
  BY <1>1, BodyHasSize DEF Body, VisitOK
<1> HIDE DEF x, b
<1>4. /\ n \in Visit(V \cup {"storing", b}) /\ n.stage = "storing" /\ n.body = b
      /\ n.begun = x.begun /\ n.key = x.key /\ n.request = x.request
  BY <1>1 DEF Visit
<1> HIDE DEF n
<1>5. VisitOK(n, now)
  <2>1. now \in Int /\ x.request \in Requests /\ x.begun \in Int
    BY <1>1 DEF VisitOK, ApiInv, Typed
  <2>2. x.key = CacheKey(x.request, Anchor(x.request, x.begun))
    BY <1>1 DEF VisitOK
  <2>3. x.key.anchor = Anchor(x.request, x.begun)
    BY <2>1, <2>2, KeyIs
  <2> QED BY <1>1, <1>3, <1>4, <2>1, <2>3 DEF VisitOK
<1> QED BY <1>2, <1>4, <1>5, TurnsKeep, OnlyVisits DEF ApiInv, Compute

LEMMA LeavesKeep ==
  ASSUME ApiInv, NEW v \in Visitors, Reject(v) \/ NotFound(v)
  PROVE  ApiInv'
BY LeaveKeeps, OnlyVisits DEF ApiInv, Reject, NotFound

\* A request is served, and the cache is left with entries.
LEMMA ServeKeeps ==
  ASSUME ApiInv, NEW v \in Visitors, NEW body, Serve(v, body), now' = now,
         visit[v].stage \in {"looking", "storing"},
         body.read \in Int, body.start = visit[v].key.anchor,
         now < body.read + Ttl[visit[v].key.kind] + 2 * MaxLatency, EntriesOK(entries')
  PROVE  ApiInv'
<1>1. VisitsTyped' /\ VisitsOK'
  BY LeaveKeeps DEF Serve, ApiInv
<1>2. StalenessBounded' /\ TrackIsCurrent'
  BY Served DEF ApiInv
<1> QED BY <1>1, <1>2 DEF ApiInv, Typed, EntriesOK

\* What a visit that has its key says of it.
LEMMA KeyOfVisit ==
  ASSUME ApiInv, NEW v \in Visitors, visit[v].stage \in {"looking", "storing"}
  PROVE  /\ KeyOK(visit[v].key) /\ Ttl[visit[v].key.kind] \in Nat \ {0}
         /\ visit[v].begun \in Int /\ now \in Int /\ MaxLatency \in Nat
         /\ visit[v].begun <= now /\ now <= visit[v].begun + MaxLatency
<1> DEFINE x == visit[v]
           r == x.request
<1>1. /\ r \in Requests /\ x.begun \in Int /\ now \in Int /\ MaxLatency \in Nat
      /\ x.begun <= now /\ now <= x.begun + MaxLatency
      /\ x.key = CacheKey(r, Anchor(r, x.begun))
  BY ApiAssumption DEF ApiInv, VisitsOK, VisitOK, Typed
<1> HIDE DEF x, r
<1>2. KeyOK(x.key) /\ x.key.kind = r.kind
  BY <1>1, KeyIs
<1>3. Ttl[x.key.kind] \in Nat \ {0}
  BY <1>1, <1>2, Requested
<1> QED BY <1>1, <1>2, <1>3 DEF x

LEMMA HitKeeps ==
  ASSUME ApiInv, NEW v \in Visitors, Hit(v)
  PROVE  ApiInv'
<1>1. PICK i \in 1..Len(entries) :
        /\ Fresh(v, i)
        /\ entries' = Append(RemoveAt(entries, i), entries[i])
        /\ Serve(v, entries[i].body)
  BY DEF Hit
<1>2. EntriesOK(entries) /\ visit[v].stage = "looking" /\ now' = now
  BY DEF ApiInv, Typed, EntriesOK, Hit
<1> DEFINE e == entries[i]
           t == Ttl[e.key.kind]
<1>3. EntryOK(e) /\ e.key = visit[v].key /\ e.expires > visit[v].begun
  BY <1>1, <1>2, EntryOf DEF Fresh
<1>4. EntriesOK(entries')
  BY <1>1, <1>2, <1>3, EntriesRemove, EntriesAppend
<1>5. Serve(v, e.body)
  BY <1>1
<1>6. /\ t \in Nat /\ t = Ttl[visit[v].key.kind] /\ visit[v].begun \in Int /\ now \in Int
      /\ MaxLatency \in Nat /\ now <= visit[v].begun + MaxLatency
  BY <1>2, <1>3, KeyOfVisit
<1>7. /\ e.expires \in Int /\ e.body.read \in Int /\ e.body.start = visit[v].key.anchor
      /\ e.expires <= e.body.read + t + MaxLatency
  BY <1>3 DEF EntryOK
<1>8. now < e.body.read + Ttl[visit[v].key.kind] + 2 * MaxLatency
  <2> DEFINE x == e.expires
             r == e.body.read
             b == visit[v].begun
  <2>1. /\ x \in Int /\ r \in Int /\ b \in Int /\ t \in Int /\ now \in Int /\ MaxLatency \in Int
        /\ now <= b + MaxLatency /\ x > b /\ x <= r + t + MaxLatency
    BY <1>3, <1>6, <1>7
  <2> HIDE DEF x, r, b, t
  <2>2. now < r + t + 2 * MaxLatency
    BY <2>1
  <2> QED BY <1>6, <2>2 DEF r
<1> QED BY <1>2, <1>4, <1>5, <1>7, <1>8, ServeKeeps

\* A body that is ready: it was read while its request ran.
LEMMA BodyReady ==
  ASSUME ApiInv, NEW v \in Visitors, visit[v].stage = "storing"
  PROVE  /\ visit[v].body.read \in Int /\ visit[v].body.start = visit[v].key.anchor
         /\ visit[v].body.bytes \in Int /\ visit[v].begun <= visit[v].body.read
         /\ now < visit[v].body.read + Ttl[visit[v].key.kind] + 2 * MaxLatency
<1> DEFINE x == visit[v]
           t == Ttl[x.key.kind]
<1>1. /\ t \in Nat \ {0} /\ x.begun \in Int /\ now \in Int /\ MaxLatency \in Nat
      /\ now <= x.begun + MaxLatency
  BY KeyOfVisit
<1>2. /\ x.body.start = x.key.anchor /\ x.body.read \in Int /\ x.body.bytes \in Int
      /\ x.begun <= x.body.read
  BY DEF ApiInv, VisitsOK, VisitOK
<1> HIDE DEF x, t
<1>3. now < x.body.read + t + 2 * MaxLatency
  BY <1>1, <1>2
<1> QED BY <1>2, <1>3 DEF x, t

LEMMA OversizeKeeps ==
  ASSUME ApiInv, NEW v \in Visitors, Oversize(v)
  PROVE  ApiInv'
<1>1. EntriesOK(entries') /\ now' = now /\ visit[v].stage = "storing" /\ Serve(v, visit[v].body)
  BY DEF ApiInv, Typed, EntriesOK, Oversize, Serving, cache
<1> QED BY <1>1, BodyReady, ServeKeeps

\* The entry of a body that is stored.
LEMMA EntryIsMade ==
  ASSUME ApiInv, NEW v \in Visitors, visit[v].stage = "storing"
  PROVE  EntryOK([key |-> visit[v].key, expires |-> now + Ttl[visit[v].key.kind],
                  body |-> visit[v].body])
<1> DEFINE key   == visit[v].key
           body  == visit[v].body
           e     == [key |-> key, expires |-> now + Ttl[key.kind], body |-> body]
<1>1. /\ body.read \in Int /\ body.start = key.anchor /\ visit[v].begun <= body.read
      /\ body.bytes \in Int /\ KeyOK(key) /\ Ttl[key.kind] \in Nat
      /\ visit[v].begun \in Int /\ now \in Int
      /\ MaxLatency \in Nat /\ now <= visit[v].begun + MaxLatency
  BY BodyReady, KeyOfVisit
<1>2. e.key = key /\ e.expires = now + Ttl[key.kind] /\ e.body = body
  OBVIOUS
<1> HIDE DEF e, key, body
<1>3. EntryOK(e)
  <2> DEFINE t == Ttl[key.kind]
             r == body.read
  <2>1. /\ t \in Int /\ r \in Int /\ now \in Int /\ MaxLatency \in Int
        /\ now <= visit[v].begun + MaxLatency /\ visit[v].begun <= r /\ visit[v].begun \in Int
    BY <1>1
  <2> HIDE DEF t, r
  <2>2. now + t \in Int /\ now + t <= r + t + MaxLatency
    BY <2>1
  <2> QED BY <1>1, <1>2, <2>1, <2>2 DEF EntryOK, t, r
<1> QED BY <1>3 DEF e, key, body

LEMMA StoreKeeps ==
  ASSUME ApiInv, NEW v \in Visitors, Store(v)
  PROVE  ApiInv'
<1> DEFINE key   == visit[v].key
           body  == visit[v].body
           e     == [key |-> key, expires |-> now + Ttl[key.kind], body |-> body]
           es    == Append(Without(key), e)
<1>1. EntriesOK(entries) /\ now' = now /\ visit[v].stage = "storing" /\ Serve(v, body)
  BY DEF ApiInv, Typed, EntriesOK, Store, Serving
<1>2. PICK n \in 0..Len(es) : entries' = Evict(es, n)
  BY DEF Store
<1>3. EntryOK(e)
  BY <1>1, EntryIsMade
<1> HIDE DEF e
<1>4. EntriesOK(es)
  BY <1>1, <1>3, EntriesWithout, EntriesAppend
<1> HIDE DEF es
<1>5. EntriesOK(entries')
  BY <1>2, <1>4, EntriesEvict
<1> QED BY <1>1, <1>5, BodyReady, ServeKeeps

\* The clock waits for a request that has taken as long as it may.
LEMMA TickKeeps ==
  ASSUME ApiInv, ApiTick
  PROVE  ApiInv'
<1>1. /\ now \in Nat /\ now' = now + 1 /\ UNCHANGED <<visit, entries, answer>>
      /\ \A v \in Visitors : visit[v].stage \notin {"idle", "done"} =>
           now - visit[v].begun < MaxLatency
  BY DEF ApiInv, Typed, ApiTick
<1>2. ASSUME NEW v \in Visitors PROVE VisitOK(visit[v], now')
  <2>1. VisitOK(visit[v], now) /\ MaxLatency \in Nat
    BY ApiAssumption DEF ApiInv, VisitsOK
  <2> DEFINE x == visit[v]
  <2>2. x.stage \notin {"idle", "done"} =>
          /\ x.begun \in Int /\ x.begun <= now' /\ now' <= x.begun + MaxLatency
    BY <1>1, <2>1 DEF VisitOK
  <2>3. x.stage = "storing" => x.body.read \in Int /\ x.body.read <= now'
    BY <1>1, <2>1 DEF VisitOK
  <2> QED BY <2>1, <2>2, <2>3 DEF VisitOK
<1> QED BY <1>1, <1>2 DEF ApiInv, Typed, VisitsTyped, VisitsOK, StalenessBounded, TrackIsCurrent

LEMMA ApiInitially == ApiInit => ApiInv
<1> SUFFICES ASSUME ApiInit PROVE ApiInv
  OBVIOUS
<1>1. PICK V : Idling \in Visit(V)
  BY IdleType
<1>2. VisitsTyped
  BY <1>1 DEF ApiInit, VisitsTyped
<1>3. \A v \in Visitors : visit[v].stage = "idle"
  BY DEF ApiInit, Idling
<1>4. VisitsOK
  BY <1>3 DEF VisitsOK, VisitOK
<1>5. now = 0 /\ entries = <<>> /\ answer.key = <<>>
  BY DEF ApiInit, LimiterInit
<1>6. entries \in Seq({})
  BY <1>5
<1>7. Typed
  BY <1>2, <1>5, <1>6 DEF Typed
<1> QED BY <1>4, <1>5, <1>7 DEF ApiInv, StalenessBounded, TrackIsCurrent

LEMMA ApiInductive == ApiInv /\ [ApiNext]_apiVars => ApiInv'
<1> SUFFICES ASSUME ApiInv, [ApiNext]_apiVars PROVE ApiInv'
  OBVIOUS
<1>1. ASSUME NEW o \in Objects, Ingest(o) PROVE ApiInv'
  <2>1. UNCHANGED <<now, visit, entries, answer>>
    BY <1>1 DEF Ingest
  <2> QED BY <2>1 DEF ApiInv, Typed, VisitsTyped, VisitsOK, StalenessBounded, TrackIsCurrent
<1>2. ASSUME NEW v \in Visitors, NEW r \in Requests, Unmetered(v, r) \/ Metered(v, r)
      PROVE  ApiInv'
  BY <1>2, EnterKeeps DEF Unmetered, Metered
<1>3. ASSUME NEW v \in Visitors, NEW r \in Requests, Throttled(v, r) PROVE ApiInv'
  <2>1. UNCHANGED <<now, visit, entries, answer>>
    BY <1>3 DEF Throttled
  <2> QED BY <2>1 DEF ApiInv, Typed, VisitsTyped, VisitsOK, StalenessBounded, TrackIsCurrent
<1>4. CASE UNCHANGED apiVars
  BY <1>4 DEF apiVars, ApiInv, Typed, VisitsTyped, VisitsOK, StalenessBounded, TrackIsCurrent
<1> QED BY <1>1, <1>2, <1>3, <1>4, TickKeeps, LeavesKeep, AskKeeps, HitKeeps, MissKeeps,
           ComputeKeeps, OversizeKeeps, StoreKeeps DEF ApiNext

\* However requests overlap, and whichever of them made the body that is
\* served, it is never older than its lifetime and the time two requests take.
THEOREM WhatIsServedIsFresh == ApiSpec => []StalenessBounded
<1>1. ApiInv => StalenessBounded
  BY DEF ApiInv
<1> QED BY ApiInitially, ApiInductive, <1>1, PTL DEF ApiSpec

\* A track begins at most one lifetime, and the time of its request, before it
\* is served: the anchor is part of the key under which it is found.
THEOREM TracksAreCurrent == ApiSpec => []TrackIsCurrent
<1>1. ApiInv => TrackIsCurrent
  BY DEF ApiInv
<1> QED BY ApiInitially, ApiInductive, <1>1, PTL DEF ApiSpec

-----------------------------------------------------------------------------
(* What is metered.                                                        *)

\* A request is charged whole units.
LEMMA CostIsNatural ==
  ASSUME NEW r \in Requests
  PROVE  Cost(r) \in Nat
<1> DEFINE d == r.step * SamplesPerUnit
           c == Ceiling(r.window, d)
           u == UnitCost(r)
           n == AtLeastOne(Len(r.wanted))
<1>1. r.window \in Nat /\ r.step \in Nat \ {0} /\ r.wanted \in Seq(Objects)
  BY ApiAssumption DEF Request
<1>2. d \in Nat \ {0}
  BY <1>1, ApiAssumption
<1> HIDE DEF d
<1>3. c \in Int
  BY <1>1, <1>2 DEF Ceiling
<1>4. u = AtLeastOne(c)
  BY DEF UnitCost, d
<1> HIDE DEF c, u
<1>5. u \in Nat
  BY <1>3, <1>4 DEF AtLeastOne
<1>6. n \in Nat
  BY <1>1 DEF AtLeastOne
<1> HIDE DEF n
<1>7. u * n \in Nat
  BY <1>5, <1>6
<1> QED BY <1>5, <1>7 DEF Cost, u, n

\* The event loop reads the clock and charges in one step: nobody waits.
Metering == LimiterInv(0)

LEMMA ReadsAreMetered ==
  ASSUME Metering, [ApiNext]_apiVars
  PROVE  Metering'
<1>0. now \in Nat
  BY DEF Metering, LimiterInv, LimiterTypes
<1>1. ASSUME NEW v \in Visitors, NEW r \in Requests, Metered(v, r) \/ Throttled(v, r)
      PROVE  Metering'
  <2>1. /\ MeterKey(r) \in Keys /\ now' = now /\ Cost(r) \in Nat
        /\ Grant(MeterKey(r), Cost(r), now) \/ Deny(MeterKey(r), Cost(r), now)
    BY <1>1, MeterAssumption, CostIsNatural DEF Metered, Throttled
  <2>2. now <= now /\ now <= now + 0
    BY <1>0
  <2> QED BY <1>0, <2>1, <2>2, LimiterChecks DEF Metering
<1>2. CASE ApiTick
  <2>1. now' = now + 1 /\ UNCHANGED <<hits, granted>>
    BY <1>2 DEF ApiTick
  <2> QED BY <1>0, <2>1, LimiterWaits DEF Metering
<1>3. ASSUME UNCHANGED <<now, hits, granted>>
      PROVE  Metering'
  BY <1>0, <1>3, LimiterWaits DEF Metering
<1>4. ASSUME NEW o \in Objects, Ingest(o) PROVE Metering'
  BY <1>3, <1>4 DEF Ingest
<1>5. ASSUME NEW v \in Visitors, NEW r \in Requests, Unmetered(v, r) PROVE Metering'
  BY <1>3, <1>5 DEF Unmetered
<1>6. ASSUME NEW v \in Visitors,
             \/ Reject(v) \/ Ask(v) \/ Hit(v) \/ Miss(v) \/ Compute(v) \/ NotFound(v)
             \/ Oversize(v) \/ Store(v)
      PROVE  Metering'
  <2>1. UNCHANGED <<now, hits, granted>>
    BY <1>6 DEF Reject, Ask, Hit, Miss, Compute, NotFound, Oversize, Store, Serving
  <2> QED BY <1>3, <2>1
<1>7. CASE UNCHANGED apiVars
  BY <1>3, <1>7 DEF apiVars
<1> QED BY <1>1, <1>2, <1>4, <1>5, <1>6, <1>7 DEF ApiNext

LEMMA MeteringAtFirst == ApiInit => Metering
BY LimiterInitially DEF ApiInit, Metering

LEMMA MeteringHolds ==
  ASSUME Metering
  PROVE  WindowHeld
<1> SUFFICES ASSUME NEW k \in Keys, NEW i \in 1..Len(granted[k]), NEW j \in 1..Len(granted[k]),
                    i + Limit[k] <= j
             PROVE  granted[k][j] - granted[k][i] >= Window - MaxWait
  BY DEF WindowHeld
<1>1. granted[k][j] - granted[k][i] >= Window - 0
  BY DEF Metering, LimiterInv, AllHeld, Held, Spaced
<1>2. granted[k][j] \in Nat /\ granted[k][i] \in Nat
  BY ElementOfSeq DEF Metering, LimiterInv, LimiterTypes
<1> QED BY <1>1, <1>2, Seconds

\* The public reads, charged by weight and as they come, keep the allowance of
\* every key as the calls of the pool's threads do.
THEOREM ReadsKeepTheAllowance == ApiSpec => []WindowHeld
BY MeteringAtFirst, ReadsAreMetered, MeteringHolds, PTL DEF ApiSpec

-----------------------------------------------------------------------------
(* What is paid for.                                                       *)

LEMMA TimesGrows ==
  ASSUME NEW a \in Nat, NEW b \in Nat, NEW c \in Nat, a <= b
  PROVE  a * c <= b * c /\ a * c \in Nat
OBVIOUS

LEMMA TimesFits ==
  ASSUME NEW a \in Int, NEW b \in Int, NEW d \in Nat \ {0}, a * d <= b * d
  PROVE  a <= b
OBVIOUS

LEMMA DivisionFits ==
  ASSUME NEW a \in Nat, NEW d \in Nat \ {0}
  PROVE  /\ a \div d \in Nat /\ (a \div d) * d <= a
         /\ Ceiling(a, d) \in Nat /\ a <= Ceiling(a, d) * d
BY DEF Ceiling

\* A unit pays for SamplesPerUnit samples of a track, and its first point.
LEMMA UnitsPayForATrack ==
  ASSUME NEW r \in Requests
  PROVE  /\ UnitCost(r) \in Nat \ {0} /\ SamplesEach(r) \in Nat
         /\ SamplesEach(r) <= UnitCost(r) * (SamplesPerUnit + 1)
<1> DEFINE a == r.window
           d == r.step
           n == SamplesPerUnit
           e == d * n
           c == Ceiling(a, e)
           u == AtLeastOne(c)
           q == a \div d
<1>1. a \in Nat /\ d \in Nat \ {0} /\ n \in Nat \ {0}
  BY ApiAssumption DEF Request
<1>2. UnitCost(r) = u /\ SamplesEach(r) = q + 1
  BY DEF UnitCost, SamplesEach
<1> HIDE DEF a, d, n
<1>3. e \in Nat \ {0}
  BY <1>1
<1>4. q \in Nat /\ q * d <= a
  BY <1>1, DivisionFits
<1> HIDE DEF q
<1>5. c \in Nat /\ a <= c * e
  <2> HIDE DEF e
  <2> QED BY <1>1, <1>3, DivisionFits
<1> HIDE DEF c
<1>6. u \in Nat \ {0} /\ c <= u
  BY <1>5 DEF AtLeastOne
<1> HIDE DEF u
<1>7. c * e <= u * e
  <2> HIDE DEF e
  <2> QED BY <1>3, <1>5, <1>6, TimesGrows
<1>8. u * e = (u * n) * d /\ u * n \in Nat
  BY <1>1, <1>6
<1>9. q * d <= (u * n) * d
  <2>1. q * d \in Int /\ c * e \in Int /\ u * e \in Int
    BY <1>1, <1>3, <1>4, <1>5, <1>6
  <2> DEFINE A == q * d
             B == c * e
             C == u * e
  <2>2. A <= a /\ a <= B /\ B <= C /\ A \in Int /\ B \in Int /\ C \in Int
    BY <1>4, <1>5, <1>7, <2>1
  <2> HIDE DEF A, B, C
  <2>3. A <= C
    BY <1>1, <2>2
  <2> QED BY <1>8, <2>3 DEF A, C
<1>10. q <= u * n
  BY <1>1, <1>4, <1>8, <1>9, TimesFits
<1>11. u * (n + 1) = u * n + u
  BY <1>1, <1>6
<1>12. q + 1 <= u * (n + 1)
  BY <1>4, <1>6, <1>8, <1>10, <1>11
<1> QED BY <1>2, <1>4, <1>6, <1>12 DEF n

LEMMA FewerThanAsked ==
  ASSUME NEW s \in Seq(Objects)
  PROVE  Cardinality(ToSet(s)) \in Nat /\ Cardinality(ToSet(s)) <= Len(s) /\ Len(s) \in Nat
<1> DEFINE I == 1..Len(s)
           T == ToSet(s)
           f == [i \in I |-> s[i]]
<1>1. Len(s) \in Nat /\ DOMAIN s = I
  OBVIOUS
<1>2. IsFiniteSet(I) /\ Cardinality(I) = Len(s)
  BY <1>1, FS_Interval
<1>3. f \in Surjection(I, T)
  BY <1>1 DEF ToSet, Surjection
<1>4. IsFiniteSet(T) /\ Cardinality(T) <= Cardinality(I)
  <2> HIDE DEF I, T, f
  <2> QED BY <1>2, <1>3, FS_Surjection
<1> QED BY <1>1, <1>2, <1>4, FS_CardinalityType

\* A batch is charged for every object that is asked for, and does the work of
\* each once.
LEMMA UnitsPayForSamples ==
  ASSUME NEW r \in Requests, Propagating(r), ~TooLarge(r)
  PROVE  /\ Cost(r) \in Nat \ {0} /\ Samples(r) \in Nat
         /\ Samples(r) <= Cost(r) * (SamplesPerUnit + 1)
<1> DEFINE u == UnitCost(r)
           e == SamplesEach(r)
           k == SamplesPerUnit + 1
           c == AtLeastOne(Cardinality(ToSet(r.wanted)))
           l == AtLeastOne(Len(r.wanted))
<1>1. u \in Nat \ {0} /\ e \in Nat /\ e <= u * k /\ k \in Nat
  BY UnitsPayForATrack, ApiAssumption
<1>2. c \in Nat \ {0} /\ l \in Nat \ {0} /\ c <= l
  <2>1. r.wanted \in Seq(Objects)
    BY ApiAssumption DEF Request
  <2> QED BY <2>1, FewerThanAsked DEF AtLeastOne
<1>3. Cost(r) = u * l
  <2>1. CASE r.kind = "batch"
    BY <2>1 DEF Cost
  <2>2. CASE r.kind = "one"
    <3>1. l = 1
      BY <2>2, MeterAssumption DEF AtLeastOne
    <3> QED BY <1>1, <2>2, <3>1 DEF Cost
  <2> QED BY <2>1, <2>2 DEF Propagating
<1>4. Samples(r) = e * c
  BY DEF Samples
<1> HIDE DEF u, e, k, c, l
<1>5. e * c <= e * l /\ e * c \in Nat
  BY <1>1, <1>2, TimesGrows
<1>6. u * k \in Nat /\ e * l <= (u * k) * l
  BY <1>1, <1>2, TimesGrows
<1>7. (u * k) * l = (u * l) * k /\ u * l \in Nat \ {0} /\ e * l \in Nat
  BY <1>1, <1>2
<1> DEFINE A == e * c
           B == e * l
           C == (u * l) * k
<1>8. A <= B /\ B <= C /\ A \in Nat /\ B \in Nat /\ C \in Nat
  BY <1>1, <1>2, <1>5, <1>6, <1>7
<1> HIDE DEF A, B, C
<1>9. A <= C
  BY <1>8
<1> QED BY <1>3, <1>4, <1>5, <1>7, <1>9 DEF A, C, k

\* What a payer's samples are charged under, and one of its grants.
KeyOf(p) == <<p[1], IF p[1] = "proxy" THEN "propagate" ELSE p[2], "propagate">>

\* The samples that n units pay for.
Worth(n) == n * (SamplesPerUnit + 1)

Granted == [at : Nat, total : Nat]

\* From any grant of s to any later one, units were granted at those moments and
\* between them, which pay for the samples.
Covers(s, g) ==
  \A i, j \in 1..Len(s) : i <= j =>
    \E b \in 0..(Len(g) - 1), e \in 1..Len(g) :
      /\ b < e /\ g[b + 1] = s[i].at /\ g[e] = s[j].at
      /\ UpTo(s, j) - UpTo(s, i - 1) <= Worth(e - b)

PaidFor(p, s, g) ==
  /\ s # <<>> => KeyOf(p) \in Keys /\ Worth(Limit[KeyOf(p)]) = SampleAllowance(p)
  /\ Covers(s, g)

Payers == {Payer(r) : r \in Requests}

WorkInv ==
  /\ Metering /\ spent \in [Payers -> Seq(Granted)]
  /\ \A p \in Payers : PaidFor(p, spent[p], granted[KeyOf(p)])

LEMMA WorthAdds ==
  ASSUME NEW a \in Nat, NEW b \in Nat
  PROVE  /\ Worth(a) \in Nat /\ Worth(a) + Worth(b) = Worth(a + b)
         /\ a <= b => Worth(a) <= Worth(b)
<1> DEFINE k == SamplesPerUnit + 1
<1>1. k \in Nat
  BY ApiAssumption
<1>2. Worth(a) = a * k /\ Worth(b) = b * k /\ Worth(a + b) = (a + b) * k
  BY DEF Worth
<1> HIDE DEF k
<1>3. a * k \in Nat /\ (a + b) * k = a * k + b * k
  BY <1>1
<1>4. a <= b => a * k <= b * k
  BY <1>1, TimesGrows
<1> QED BY <1>2, <1>3, <1>4

LEMMA NothingIsCovered ==
  ASSUME NEW g
  PROVE  Covers(<<>>, g)
BY DEF Covers

LEMMA UpToIsNatural ==
  ASSUME NEW s \in Seq(Granted), NEW n \in 0..Len(s)
  PROVE  UpTo(s, n) \in Nat
<1>1. n = 0 \/ n \in 1..Len(s)
  OBVIOUS
<1>2. ASSUME n \in 1..Len(s) PROVE s[n] \in Granted
  BY <1>2, ElementOfSeq
<1> QED BY <1>1, <1>2 DEF UpTo, Granted

\* More that is granted to the key takes nothing away.
LEMMA CoversMore ==
  ASSUME NEW s, NEW g \in Seq(Nat), NEW h \in Seq(Nat), Covers(s, g),
         Len(g) <= Len(h), \A i \in 1..Len(g) : h[i] = g[i]
  PROVE  Covers(s, h)
<1>1. Len(g) \in Nat /\ Len(h) \in Nat
  OBVIOUS
<1> SUFFICES ASSUME NEW i \in 1..Len(s), NEW j \in 1..Len(s), i <= j
             PROVE  \E b \in 0..(Len(h) - 1), e \in 1..Len(h) :
                      /\ b < e /\ h[b + 1] = s[i].at /\ h[e] = s[j].at
                      /\ UpTo(s, j) - UpTo(s, i - 1) <= Worth(e - b)
  BY DEF Covers
<1>2. PICK b \in 0..(Len(g) - 1), e \in 1..Len(g) :
        /\ b < e /\ g[b + 1] = s[i].at /\ g[e] = s[j].at
        /\ UpTo(s, j) - UpTo(s, i - 1) <= Worth(e - b)
  BY DEF Covers
<1>3. /\ b \in 0..(Len(h) - 1) /\ e \in 1..Len(h) /\ b + 1 \in 1..Len(g)
  BY <1>1
<1>4. h[b + 1] = g[b + 1] /\ h[e] = g[e]
  BY <1>3
<1> QED BY <1>2, <1>3, <1>4

Between(s, g, i, j) ==
  \E b \in 0..(Len(g) - 1), e \in 1..Len(g) :
    /\ b < e /\ g[b + 1] = s[i].at /\ g[e] = s[j].at
    /\ UpTo(s, j) - UpTo(s, i - 1) <= Worth(e - b)

LEMMA MoreIsPaid ==
  ASSUME NEW a \in Nat, NEW u \in Nat, NEW n \in Nat, NEW z \in Int, NEW x \in Int,
         a + u <= n, z <= Worth(a), x <= Worth(u)
  PROVE  z + x <= Worth(n)
<1> DEFINE A == Worth(a)
           B == Worth(u)
           C == Worth(a + u)
           D == Worth(n)
<1>1. A \in Nat /\ B \in Nat /\ A + B = C
  BY WorthAdds
<1>2. C \in Nat /\ D \in Nat /\ C <= D
  <2>1. a + u \in Nat
    OBVIOUS
  <2> QED BY <2>1, WorthAdds
<1> HIDE DEF A, B, C, D
<1>3. z <= A /\ x <= B
  BY DEF A, B
<1>4. z + x <= D
  BY <1>1, <1>2, <1>3
<1> QED BY <1>4 DEF D

\* Samples that are granted together with the units that pay for them.
LEMMA CoversPaid ==
  ASSUME NEW s \in Seq(Granted), NEW g \in Seq(Nat), NEW h \in Seq(Nat), Covers(s, g),
         NEW u \in Nat \ {0}, NEW x \in Nat, NEW t \in Nat, x <= Worth(u),
         Len(h) = Len(g) + u, \A i \in 1..Len(g) : h[i] = g[i],
         \A i \in (Len(g) + 1)..Len(h) : h[i] = t
  PROVE  LET more == Append(s, [at |-> t, total |-> UpTo(s, Len(s)) + x])
         IN  more \in Seq(Granted) /\ Covers(more, h)
<1> DEFINE l == Len(s)
           m == Len(g)
           c == Len(h)
           all == UpTo(s, Len(s))
           new == [at |-> t, total |-> all + x]
           more == Append(s, new)
<1>1. l \in Nat /\ m \in Nat /\ c \in Nat /\ c = m + u /\ m < c /\ m <= c
  OBVIOUS
<1>2. all \in Nat
  <2>1. Len(s) \in 0..Len(s)
    OBVIOUS
  <2> QED BY <2>1, UpToIsNatural
<1>3. new \in Granted
  <2> HIDE DEF all
  <2> QED BY <1>2 DEF Granted
<1>4. /\ more \in Seq(Granted) /\ Len(more) = l + 1 /\ more[l + 1] = new
      /\ \A i \in 1..l : more[i] = s[i]
  <2> HIDE DEF new
  <2> QED BY <1>3, AppendProperties
<1>5. Covers(s, h)
  <2>1. Len(g) <= Len(h)
    BY <1>1
  <2> QED BY <2>1, CoversMore
<1>6. more[l + 1].at = t /\ more[l + 1].total = all + x
  <2> HIDE DEF all, more
  <2> QED BY <1>4
<1>7. /\ \A i \in 1..m : h[i] = g[i]
      /\ \A i \in (m + 1)..c : h[i] = t
  OBVIOUS
<1>8. all = UpTo(s, l) /\ x <= Worth(u) /\ u \in Nat /\ u > 0
  OBVIOUS
<1>9. /\ \A i, j \in 1..l : i <= j => Between(s, h, i, j)
      /\ \A i, j \in 1..l : i <= j => Between(s, g, i, j)
  BY <1>5 DEF Covers, Between
<1>10. Len(s) = l /\ Len(g) = m /\ Len(h) = c
  OBVIOUS
<1> HIDE DEF more, new, all, l, m, c
<1>11. UpTo(more, l + 1) = all + x /\ \A n \in 0..l : UpTo(more, n) = UpTo(s, n)
  <2>1. l + 1 # 0
    BY <1>1
  <2>2. UpTo(more, l + 1) = all + x
    BY <2>1, <1>6 DEF UpTo
  <2>3. ASSUME NEW n \in 0..l PROVE UpTo(more, n) = UpTo(s, n)
    <3>1. n = 0 \/ n \in 1..l
      BY <1>1
    <3> QED BY <3>1, <1>4 DEF UpTo
  <2> QED BY <2>2, <2>3
<1>12. c \in 1..c /\ h[c] = t /\ m \in 0..(c - 1) /\ h[m + 1] = t
  <2>1. c \in 1..c /\ m \in 0..(c - 1) /\ c \in (m + 1)..c /\ m + 1 \in (m + 1)..c
    BY <1>1, <1>8
  <2> QED BY <2>1, <1>7
<1>13. ASSUME NEW i \in 1..(l + 1), NEW j \in 1..(l + 1), i <= j
       PROVE  Between(more, h, i, j)
  <2>1. CASE j <= l
    <3>1. i \in 1..l /\ j \in 1..l /\ j \in 0..l /\ i - 1 \in 0..l
      BY <1>1, <2>1, <1>13
    <3>2. Between(s, h, i, j)
      BY <1>9, <1>13, <3>1
    <3>3. /\ more[i] = s[i] /\ more[j] = s[j]
          /\ UpTo(more, j) = UpTo(s, j) /\ UpTo(more, i - 1) = UpTo(s, i - 1)
      BY <1>4, <1>11, <3>1
    <3> QED BY <3>2, <3>3 DEF Between
  <2>2. CASE i = l + 1
    <3>1. j = l + 1 /\ i - 1 = l /\ l \in 0..l /\ c - m = u
      BY <1>1, <1>13, <2>2
    <3>2. UpTo(more, j) = all + x /\ UpTo(more, i - 1) = all
      BY <1>8, <1>11, <3>1
    <3>3. UpTo(more, j) - UpTo(more, i - 1) = x
      BY <1>2, <3>2
    <3>4. UpTo(more, j) - UpTo(more, i - 1) <= Worth(c - m)
      BY <1>8, <3>1, <3>3
    <3>5. h[m + 1] = more[i].at /\ h[c] = more[j].at /\ m < c
      BY <1>1, <1>6, <1>12, <2>2, <3>1
    <3> QED BY <1>10, <1>12, <3>4, <3>5 DEF Between
  <2>3. CASE i <= l /\ j = l + 1
    <3>1. i \in 1..l /\ l \in 1..l /\ i - 1 \in 0..l /\ i <= l
      BY <1>1, <2>3
    <3>2. Between(s, g, i, l)
      BY <1>9, <3>1
    <3>3. PICK b \in 0..(m - 1), e \in 1..m :
            /\ b < e /\ g[b + 1] = s[i].at /\ g[e] = s[l].at
            /\ UpTo(s, l) - UpTo(s, i - 1) <= Worth(e - b)
      BY <1>10, <3>2 DEF Between
    <3>4. b \in Nat /\ e \in Nat /\ b < e /\ e <= m
      BY <1>1, <3>3
    <3>5. /\ b \in 0..(c - 1) /\ b < c /\ b + 1 \in 1..m /\ c - b \in Nat /\ e - b \in Nat
          /\ (e - b) + u <= c - b
      BY <1>1, <1>8, <3>4
    <3>6. h[b + 1] = more[i].at
      BY <1>4, <1>7, <3>1, <3>3, <3>5
    <3> DEFINE before == UpTo(s, i - 1)
    <3>7. UpTo(more, j) = all + x /\ UpTo(more, i - 1) = before /\ before \in Nat
      BY <1>10, <1>11, <2>3, <3>1, UpToIsNatural
    <3>8. all - before <= Worth(e - b)
      BY <1>8, <3>3
    <3> HIDE DEF before
    <3>9. (all - before) + x <= Worth(c - b)
      <4>1. all - before \in Int /\ x \in Int
        BY <1>2, <3>7
      <4> QED BY <1>8, <3>5, <3>8, <4>1, MoreIsPaid
    <3>10. UpTo(more, j) - UpTo(more, i - 1) = (all - before) + x
      BY <1>2, <3>7
    <3>11. h[c] = more[j].at
      BY <1>6, <1>12, <2>3
    <3> QED BY <1>10, <1>12, <3>5, <3>6, <3>9, <3>10, <3>11 DEF Between
  <2>4. j <= l \/ i = l + 1 \/ (i <= l /\ j = l + 1)
    BY <1>1, <1>13
  <2> QED BY <2>1, <2>2, <2>3, <2>4
<1>14. Covers(more, h)
  <2>1. Len(more) = l + 1
    BY <1>4
  <2> QED BY <1>13, <2>1 DEF Covers, Between
<1> QED BY <1>4, <1>14 DEF more, new, all

\* Payers and keys of the meter correspond, and so do their allowances.
LEMMA TracksArePaidFor ==
  ASSUME NEW r \in Requests, Propagating(r)
  PROVE  /\ KeyOf(Payer(r)) = MeterKey(r) /\ MeterKey(r) \in Keys
         /\ Worth(Limit[MeterKey(r)]) = SampleAllowance(Payer(r))
<1>1. r.via \in {"proxy", "user", "anon"} /\ ~Exempt(r)
  BY ApiAssumption DEF Request, Exempt
<1>2. /\ MeterKey(r) \in Keys /\ Limit[MeterKey(r)] = Allowance(MeterKey(r))
      /\ UnitsPerWindow \in Nat /\ UserTimes \in Nat /\ ProxyTimes \in Nat
  BY <1>1, MeterAssumption
<1>3. KeyOf(Payer(r)) = MeterKey(r)
  BY DEF KeyOf, Payer, MeterKey
<1> DEFINE n == CASE r.via = "proxy" -> ProxyTimes [] r.via = "user" -> UserTimes [] OTHER -> 1
           k == SamplesPerUnit + 1
<1>4. n \in Nat /\ k \in Nat
  BY <1>2, ApiAssumption
<1>5. Allowance(MeterKey(r)) = UnitsPerWindow * n
  BY DEF Allowance, MeterKey
<1>6. SampleAllowance(Payer(r)) = (UnitsPerWindow * k) * n
  BY <1>1 DEF SampleAllowance, Payer
<1> HIDE DEF n, k
<1>7. (UnitsPerWindow * n) * k = (UnitsPerWindow * k) * n
  BY <1>2, <1>4
<1> QED BY <1>2, <1>3, <1>5, <1>6, <1>7 DEF Worth, k

LEMMA GrantExtends ==
  ASSUME Metering, NEW key \in Keys, NEW cost \in Nat, Grant(key, cost, now)
  PROVE  /\ \A k \in Keys : k # key => granted'[k] = granted[k]
         /\ Len(granted'[key]) = Len(granted[key]) + cost
         /\ \A i \in 1..Len(granted[key]) : granted'[key][i] = granted[key][i]
         /\ \A i \in (Len(granted[key]) + 1)..Len(granted'[key]) : granted'[key][i] = now
<1> DEFINE g == granted[key]
           u == Units(cost, now)
<1>1. granted \in [Keys -> Seq(Nat)] /\ now \in Nat
  BY DEF Metering, LimiterInv, LimiterTypes
<1>2. granted' = [granted EXCEPT ![key] = g \o u]
  BY DEF Grant
<1>3. g \in Seq(Nat) /\ granted'[key] = g \o u /\ \A k \in Keys : k # key => granted'[k] = granted[k]
  BY <1>1, <1>2
<1>4. u \in Seq(Nat) /\ Len(u) = cost /\ \A i \in 1..cost : u[i] = now
  BY <1>1 DEF Units
<1> HIDE DEF g, u
<1>5. /\ Len(g \o u) = Len(g) + Len(u)
      /\ \A i \in 1..Len(g) + Len(u) :
           (g \o u)[i] = IF i <= Len(g) THEN g[i] ELSE u[i - Len(g)]
  BY <1>3, <1>4, ConcatProperties
<1>6. \A i \in 1..Len(g) : (g \o u)[i] = g[i]
  BY <1>3, <1>4, <1>5
<1>7. ASSUME NEW i \in (Len(g) + 1)..Len(g \o u) PROVE (g \o u)[i] = now
  <2>1. i \in 1..Len(g) + Len(u) /\ ~(i <= Len(g)) /\ i - Len(g) \in 1..cost
    BY <1>3, <1>4, <1>5, <1>7
  <2> QED BY <1>4, <1>5, <2>1
<1> QED BY <1>3, <1>4, <1>5, <1>6, <1>7 DEF g

LEMMA WorkAtFirst == ApiInit => WorkInv
<1> SUFFICES ASSUME ApiInit PROVE WorkInv
  OBVIOUS
<1>1. Metering
  BY MeteringAtFirst
<1>2. spent = [p \in Payers |-> <<>>]
  BY DEF ApiInit, Payers
<1>3. spent \in [Payers -> Seq(Granted)]
  BY <1>2
<1>4. ASSUME NEW p \in Payers PROVE PaidFor(p, spent[p], granted[KeyOf(p)])
  BY <1>2, NothingIsCovered DEF PaidFor
<1> QED BY <1>1, <1>3, <1>4 DEF WorkInv

\* What one payer is owed when its grants stay and its key is granted more.
LEMMA OthersStayPaid ==
  ASSUME WorkInv, Metering', NEW p \in Payers,
         \A k \in Keys : /\ Len(granted[k]) <= Len(granted'[k])
                         /\ \A i \in 1..Len(granted[k]) : granted'[k][i] = granted[k][i]
  PROVE  PaidFor(p, spent[p], granted'[KeyOf(p)])
<1> DEFINE s == spent[p]
           k == KeyOf(p)
<1>1. PaidFor(p, s, granted[k])
  BY DEF WorkInv
<1>2. CASE s = <<>>
  BY <1>2, NothingIsCovered DEF PaidFor
<1>3. CASE s # <<>>
  <2>1. k \in Keys
    BY <1>1, <1>3 DEF PaidFor
  <2>2. granted[k] \in Seq(Nat) /\ granted'[k] \in Seq(Nat)
    BY <2>1 DEF WorkInv, Metering, LimiterInv, LimiterTypes
  <2> HIDE DEF s, k
  <2>3. Covers(s, granted[k])
    BY <1>1 DEF PaidFor
  <2>4. Covers(s, granted'[k])
    BY <2>1, <2>2, <2>3, CoversMore
  <2> QED BY <1>1, <2>4 DEF PaidFor, s, k
<1> QED BY <1>2, <1>3

LEMMA WorkIsMetered ==
  ASSUME WorkInv, Metering', NEW v \in Visitors, NEW r \in Requests, Metered(v, r)
  PROVE  WorkInv'
<1> DEFINE key == MeterKey(r)
           q == Payer(r)
           paying == Propagating(r) /\ ~TooLarge(r)
<1>1. key \in Keys /\ Cost(r) \in Nat /\ Grant(key, Cost(r), now) /\ Metering
  BY MeterAssumption, CostIsNatural DEF Metered, WorkInv
<1>2. /\ granted \in [Keys -> Seq(Nat)] /\ granted' \in [Keys -> Seq(Nat)] /\ now \in Nat
      /\ spent \in [Payers -> Seq(Granted)] /\ q \in Payers
  BY DEF WorkInv, Metering, LimiterInv, LimiterTypes, Payers
<1>3. /\ \A k \in Keys : k # key => granted'[k] = granted[k]
      /\ Len(granted'[key]) = Len(granted[key]) + Cost(r)
      /\ \A i \in 1..Len(granted[key]) : granted'[key][i] = granted[key][i]
      /\ \A i \in (Len(granted[key]) + 1)..Len(granted'[key]) : granted'[key][i] = now
  <2> HIDE DEF key
  <2> QED BY <1>1, GrantExtends
<1>4. \A k \in Keys : /\ Len(granted[k]) <= Len(granted'[k])
                      /\ \A i \in 1..Len(granted[k]) : granted'[k][i] = granted[k][i]
  <2> HIDE DEF key
  <2>1. SUFFICES ASSUME NEW k \in Keys
                 PROVE  /\ Len(granted[k]) <= Len(granted'[k])
                        /\ \A i \in 1..Len(granted[k]) : granted'[k][i] = granted[k][i]
    OBVIOUS
  <2>2. Len(granted[k]) \in Nat
    BY <1>2
  <2>3. CASE k = key
    <3>1. Len(granted[key]) <= Len(granted[key]) + Cost(r)
      BY <1>1, <2>2, <2>3
    <3> QED BY <1>3, <2>3, <3>1
  <2>4. CASE k # key
    <3>1. granted'[k] = granted[k]
      BY <1>3, <2>4
    <3> QED BY <2>2, <3>1
  <2> QED BY <2>3, <2>4
<1>5. \A p \in Payers : PaidFor(p, spent[p], granted'[KeyOf(p)])
  BY <1>4, OthersStayPaid
<1>6. spent' = [spent EXCEPT ![q] = IF paying THEN Paid(spent[q], Samples(r)) ELSE spent[q]]
  BY DEF Metered, Enter
<1>7. CASE ~paying
  <2>1. spent' = spent
    <3> HIDE DEF paying, q
    <3> QED BY <1>2, <1>6, <1>7
  <2> QED BY <1>2, <1>5, <2>1 DEF WorkInv, Payers
<1>8. CASE paying
  <2> DEFINE s == spent[q]
             more == Paid(s, Samples(r))
  <2>1. /\ Cost(r) \in Nat \ {0} /\ Samples(r) \in Nat /\ Samples(r) <= Worth(Cost(r))
        /\ KeyOf(q) = key /\ Worth(Limit[key]) = SampleAllowance(q)
    BY <1>8, UnitsPayForSamples, TracksArePaidFor DEF Worth
  <2>2. s \in Seq(Granted) /\ granted[key] \in Seq(Nat) /\ granted'[key] \in Seq(Nat)
    <3> HIDE DEF key, q
    <3> QED BY <1>1, <1>2
  <2>3. Covers(s, granted[key])
    BY <1>2, <2>1 DEF WorkInv, PaidFor
  <2>4. more = Append(s, [at |-> now, total |-> UpTo(s, Len(s)) + Samples(r)])
    BY DEF Paid
  <2>5. spent' = [spent EXCEPT ![q] = more]
    BY <1>6, <1>8
  <2> HIDE DEF key, q, s, more
  <2>6. more \in Seq(Granted) /\ Covers(more, granted'[key])
    <3> DEFINE g == granted[key]
               h == granted'[key]
               u == Cost(r)
               x == Samples(r)
    <3>1. /\ g \in Seq(Nat) /\ h \in Seq(Nat) /\ Covers(s, g)
          /\ u \in Nat \ {0} /\ x \in Nat /\ x <= Worth(u) /\ Len(h) = Len(g) + u
          /\ \A i \in 1..Len(g) : h[i] = g[i]
          /\ \A i \in (Len(g) + 1)..Len(h) : h[i] = now
      BY <1>3, <2>1, <2>2, <2>3
    <3>2. more = Append(s, [at |-> now, total |-> UpTo(s, Len(s)) + x])
      BY <2>4
    <3> HIDE DEF g, h, u, x
    <3>3. more \in Seq(Granted) /\ Covers(more, h)
      BY <1>2, <2>2, <3>1, <3>2, CoversPaid
    <3> QED BY <3>3 DEF h
  <2>7. PaidFor(q, more, granted'[KeyOf(q)])
    BY <1>1, <2>1, <2>6 DEF PaidFor
  <2>8. spent' \in [Payers -> Seq(Granted)]
    BY <1>2, <2>5, <2>6
  <2>9. ASSUME NEW p \in Payers PROVE PaidFor(p, spent'[p], granted'[KeyOf(p)])
    <3>1. CASE p = q
      BY <1>2, <2>5, <2>7, <3>1
    <3>2. CASE p # q
      <4>1. spent'[p] = spent[p]
        BY <1>2, <2>5, <3>2
      <4> QED BY <1>5, <4>1
    <3> QED BY <3>1, <3>2
  <2> QED BY <2>8, <2>9 DEF WorkInv, Payers
<1> QED BY <1>7, <1>8

LEMMA WorkIsPaidFor ==
  ASSUME WorkInv, [ApiNext]_apiVars
  PROVE  WorkInv'
<1>1. Metering'
  BY ReadsAreMetered DEF WorkInv
<1>2. ASSUME UNCHANGED <<spent, granted>> PROVE WorkInv'
  BY <1>1, <1>2 DEF WorkInv, PaidFor, Payers
<1>3. ASSUME NEW v \in Visitors, NEW r \in Requests, Metered(v, r) PROVE WorkInv'
  BY <1>1, <1>3, WorkIsMetered
<1>4. ASSUME NEW v \in Visitors, NEW r \in Requests, Unmetered(v, r) PROVE WorkInv'
  <2>1. ~Propagating(r)
    BY <1>4 DEF Unmetered, Exempt
  <2>2. spent \in [Payers -> Seq(Granted)]
    BY DEF WorkInv
  <2>3. spent' = [spent EXCEPT ![Payer(r)] = spent[Payer(r)]] /\ granted' = granted
    BY <1>4, <2>1 DEF Unmetered, Enter
  <2>4. spent' = spent
    BY <2>2, <2>3
  <2> QED BY <1>2, <2>3, <2>4
<1>5. ASSUME NEW v \in Visitors, NEW r \in Requests, Throttled(v, r) PROVE WorkInv'
  BY <1>2, <1>5 DEF Throttled, Deny
<1>6. CASE ApiTick
  BY <1>2, <1>6 DEF ApiTick
<1>7. ASSUME NEW o \in Objects, Ingest(o) PROVE WorkInv'
  BY <1>2, <1>7 DEF Ingest
<1>8. ASSUME NEW v \in Visitors,
             \/ Reject(v) \/ Ask(v) \/ Hit(v) \/ Miss(v) \/ Compute(v) \/ NotFound(v)
             \/ Oversize(v) \/ Store(v)
      PROVE  WorkInv'
  <2>1. UNCHANGED <<spent, granted>>
    BY <1>8 DEF Reject, Ask, Hit, Miss, Compute, NotFound, Oversize, Store, Serving
  <2> QED BY <1>2, <2>1
<1>9. CASE UNCHANGED apiVars
  BY <1>2, <1>9 DEF apiVars
<1> QED BY <1>3, <1>4, <1>5, <1>6, <1>7, <1>8, <1>9 DEF ApiNext

\* Fewer units than the allowance lie between two moments of one window.
LEMMA PaidForIsBounded ==
  ASSUME WorkInv
  PROVE  WorkBounded
<1> SUFFICES ASSUME NEW p \in Payers, NEW i \in 1..Len(spent[p]), NEW j \in 1..Len(spent[p]),
                    i <= j, spent[p][j].at - spent[p][i].at < Window
             PROVE  UpTo(spent[p], j) - UpTo(spent[p], i - 1) <= SampleAllowance(p)
  <2>1. DOMAIN spent = Payers
    BY DEF WorkInv
  <2> QED BY <2>1 DEF WorkBounded
<1> DEFINE s == spent[p]
           k == KeyOf(p)
           g == granted[k]
           l == Limit[k]
<1>1. s \in Seq(Granted) /\ PaidFor(p, s, g)
  BY DEF WorkInv
<1>2. s # <<>>
  BY <1>1
<1>3. k \in Keys /\ Worth(l) = SampleAllowance(p) /\ Covers(s, g)
  BY <1>1, <1>2 DEF PaidFor
<1>4. l \in Nat
  BY <1>3, LimiterAssumption
<1>5. g \in Seq(Nat) /\ Spaced(g, l, 0)
  BY <1>3 DEF WorkInv, Metering, LimiterInv, LimiterTypes, AllHeld, Held
<1>6. Window \in Nat
  BY Seconds
<1> HIDE DEF k, g, l
<1>7. PICK b \in 0..(Len(g) - 1), e \in 1..Len(g) :
        /\ b < e /\ g[b + 1] = s[i].at /\ g[e] = s[j].at
        /\ UpTo(s, j) - UpTo(s, i - 1) <= Worth(e - b)
  BY <1>3 DEF Covers
<1>8. Len(g) \in Nat /\ b \in Nat /\ e \in Nat /\ e - b \in Nat /\ b + 1 \in 1..Len(g)
  BY <1>5, <1>7
<1>9. g[e] - g[b + 1] < Window
  BY <1>7
<1>10. e - b <= l
  <2>1. CASE ~(e - b <= l)
    <3>1. b + 1 + l <= e
      BY <1>4, <1>8, <2>1
    <3>2. g[e] - g[b + 1] >= Window - 0
      BY <1>5, <1>7, <1>8, <3>1 DEF Spaced
    <3>3. g[e] \in Nat /\ g[b + 1] \in Nat
      BY <1>5, <1>7, <1>8, ElementOfSeq
    <3> QED BY <1>6, <1>9, <3>2, <3>3
  <2> QED BY <2>1
<1>11. UpTo(s, j) \in Nat /\ UpTo(s, i - 1) \in Nat
  <2>1. Len(s) \in Nat /\ j \in 0..Len(s) /\ i - 1 \in 0..Len(s)
    BY <1>1
  <2> HIDE DEF s
  <2> QED BY <1>1, <2>1, UpToIsNatural
<1> DEFINE X == UpTo(s, j) - UpTo(s, i - 1)
           A == Worth(e - b)
           B == Worth(l)
<1>12. A \in Nat /\ B \in Nat /\ A <= B
  BY <1>4, <1>8, <1>10, WorthAdds
<1>13. X <= B
  <2>1. X \in Int
    BY <1>11
  <2>2. X <= A
    BY <1>7
  <2> HIDE DEF X, A, B
  <2> QED BY <1>12, <2>1, <2>2
<1> QED BY <1>3, <1>13 DEF s

\* However it is split over requests, a payer's work in a window is what its
\* allowance pays for: the units in the key's history pay for the samples.
THEOREM WorkIsBounded == ApiSpec => []WorkBounded
BY WorkAtFirst, WorkIsPaidFor, PaidForIsBounded, PTL DEF ApiSpec

-----------------------------------------------------------------------------
(* Adding up: what BytesOf makes of a sequence of entries.                 *)

LEMMA LeastNat ==
  ASSUME NEW T \in SUBSET Nat, T # {}
  PROVE  \E x \in T : \A y \in T : x <= y
<1>1. PICK x \in T : \A y \in T : ~ (<<y, x>> \in OpToRel(<, Nat))
  BY NatLessThanWellFounded, WFMin
<1>2. \A y \in T : ~ (y < x)
  BY <1>1 DEF OpToRel
<1> QED BY <1>2

\* The first that fails has one before it that does not.
LEMMA FirstBad ==
  ASSUME NEW m \in Nat, NEW Bad \in SUBSET (0..m), 0 \notin Bad, Bad # {}
  PROVE  \E x \in Bad : x \in 1..m /\ x - 1 \in 0..m /\ x - 1 \notin Bad
<1>1. PICK x \in Bad : \A y \in Bad : x <= y
  BY LeastNat
<1>2. x \in 1..m /\ x - 1 \in 0..m
  BY <1>1
<1> QED BY <1>1, <1>2

Weighed(es) == Len(es) \in Nat /\ \A n \in 1..Len(es) : es[n].body.bytes \in Int

\* f holds the bytes of the first n entries, for each n up to m.
AddsUp(f, es, m) ==
  /\ f \in [0..m -> Int] /\ f[0] = 0
  /\ \A n \in 1..m : f[n] = f[n - 1] + es[n].body.bytes

LEMMA SomethingAddsUp ==
  ASSUME NEW es, Weighed(es)
  PROVE  \E f : AddsUp(f, es, Len(es))
<1> DEFINE l == Len(es)
           Bad == {m \in 0..l : ~ \E f : AddsUp(f, es, m)}
<1>1. l \in Nat
  BY DEF Weighed
<1>2. 0 \notin Bad
  <2>1. AddsUp([n \in 0..0 |-> 0], es, 0)
    BY DEF AddsUp
  <2> QED BY <2>1
<1>3. ASSUME NEW x \in 1..l, x - 1 \in 0..l, x - 1 \notin Bad PROVE x \notin Bad
  <2>1. PICK f : AddsUp(f, es, x - 1)
    BY <1>3
  <2> DEFINE w == es[x].body.bytes
             g == [n \in 0..x |-> IF n = x THEN f[x - 1] + w ELSE f[n]]
  <2>2. w \in Int /\ f \in [0..(x - 1) -> Int] /\ x \in Nat /\ x - 1 \in 0..(x - 1) /\ f[0] = 0
    BY <1>1, <2>1 DEF Weighed, AddsUp
  <2>3. f[x - 1] + w \in Int
    BY <2>2
  <2> HIDE DEF w
  <2>4. g \in [0..x -> Int] /\ g[0] = 0
    BY <2>2, <2>3
  <2>5. ASSUME NEW n \in 1..x PROVE g[n] = g[n - 1] + es[n].body.bytes
    <3>1. n - 1 \in 0..x /\ n - 1 # x /\ n \in 0..x
      BY <2>2
    <3>2. CASE n = x
      BY <3>1, <3>2 DEF w
    <3>3. CASE n # x
      <4>1. n \in 1..(x - 1)
        BY <2>2, <3>3
      <4>2. f[n] = f[n - 1] + es[n].body.bytes
        BY <2>1, <4>1 DEF AddsUp
      <4> QED BY <3>1, <3>3, <4>2
    <3> QED BY <3>2, <3>3
  <2> HIDE DEF g
  <2>6. AddsUp(g, es, x)
    BY <2>4, <2>5 DEF AddsUp
  <2> QED BY <2>6
<1> HIDE DEF Bad, l
<1>4. Bad \in SUBSET (0..l)
  BY DEF Bad
<1>5. Bad = {}
  BY <1>1, <1>2, <1>3, <1>4, FirstBad
<1> QED BY <1>1, <1>5 DEF Bad, l

LEMMA OneAddsUp ==
  ASSUME NEW es, NEW f, Weighed(es), AddsUp(f, es, Len(es))
  PROVE  BytesOf(es) = f[Len(es)] /\ BytesOf(es) \in Int
<1> DEFINE l == Len(es)
           r == RunningBytes(es)
<1>1. l \in Nat /\ f \in [0..l -> Int]
  BY DEF Weighed, AddsUp
<1>2. f = [n \in 0..l |-> IF n = 0 THEN 0 ELSE f[n - 1] + es[n].body.bytes]
  <2>1. ASSUME NEW n \in 0..l PROVE f[n] = IF n = 0 THEN 0 ELSE f[n - 1] + es[n].body.bytes
    <3>1. n = 0 \/ n \in 1..l
      BY <1>1
    <3> QED BY <3>1 DEF AddsUp
  <2> QED BY <1>1, <2>1
<1>3. r = [n \in 0..l |-> IF n = 0 THEN 0 ELSE r[n - 1] + es[n].body.bytes]
  <2>1. \E g : g = [n \in 0..Len(es) |-> IF n = 0 THEN 0 ELSE g[n - 1] + es[n].body.bytes]
    BY <1>2
  <2> QED BY <2>1 DEF RunningBytes
<1> DEFINE Bad == {n \in 0..l : r[n] # f[n]}
<1> HIDE DEF r
<1>4. 0 \notin Bad
  BY <1>1, <1>3 DEF AddsUp
<1>5. ASSUME NEW x \in 1..l, x - 1 \in 0..l, x - 1 \notin Bad PROVE x \notin Bad
  <2>1. r[x - 1] = f[x - 1]
    BY <1>5
  <2>2. f[x] = f[x - 1] + es[x].body.bytes
    BY DEF AddsUp
  <2>3. r[x] = r[x - 1] + es[x].body.bytes
    BY <1>1, <1>3
  <2> QED BY <2>1, <2>2, <2>3
<1> HIDE DEF Bad, l
<1>6. Bad \in SUBSET (0..l)
  BY DEF Bad
<1>7. Bad = {}
  BY <1>1, <1>4, <1>5, <1>6, FirstBad
<1>8. l \in 0..l
  BY <1>1
<1>9. r[l] = f[l]
  BY <1>7, <1>8 DEF Bad
<1> QED BY <1>1, <1>8, <1>9 DEF BytesOf, r, l

LEMMA BytesOfNone == BytesOf(<<>>) = 0
<1>1. AddsUp([n \in 0..0 |-> 0], <<>>, 0) /\ Len(<<>>) = 0 /\ Weighed(<<>>)
  BY DEF AddsUp, Weighed
<1> QED BY <1>1, OneAddsUp

LEMMA BytesAreWhole ==
  ASSUME NEW es, Weighed(es)
  PROVE  BytesOf(es) \in Int
BY SomethingAddsUp, OneAddsUp

LEMMA BytesOfOne ==
  ASSUME NEW es, Weighed(es), Len(es) = 1
  PROVE  BytesOf(es) = es[1].body.bytes
<1>1. PICK f : AddsUp(f, es, 1)
  BY SomethingAddsUp
<1>2. f[1] = f[0] + es[1].body.bytes /\ f[0] = 0 /\ f[1] \in Int /\ es[1].body.bytes \in Int
  BY <1>1 DEF AddsUp, Weighed
<1>3. BytesOf(es) = f[1]
  BY <1>1, OneAddsUp
<1>4. f[1] = es[1].body.bytes
  BY <1>2
<1> QED BY <1>3, <1>4

\* One more entry at the end.
LEMMA BytesOfMore ==
  ASSUME NEW es, NEW ls, Weighed(es), Weighed(ls), Len(ls) = Len(es) + 1,
         \A n \in 1..Len(es) : ls[n] = es[n]
  PROVE  BytesOf(ls) = BytesOf(es) + ls[Len(ls)].body.bytes
<1> DEFINE l == Len(es)
<1>0. l \in Nat /\ Len(ls) = l + 1
  BY DEF Weighed
<1>1. PICK f : AddsUp(f, ls, l + 1)
  BY <1>0, SomethingAddsUp
<1> DEFINE g == [n \in 0..l |-> f[n]]
<1>2. f \in [0..(l + 1) -> Int] /\ f[0] = 0
  BY <1>1 DEF AddsUp
<1> HIDE DEF l
<1>3. g \in [0..l -> Int] /\ g[0] = 0 /\ g[l] = f[l]
  BY <1>0, <1>2
<1>4. ASSUME NEW n \in 1..l PROVE g[n] = g[n - 1] + es[n].body.bytes
  <2>1. n \in 1..(l + 1) /\ n \in 0..l /\ n - 1 \in 0..l /\ ls[n] = es[n]
    BY <1>0 DEF l
  <2>2. f[n] = f[n - 1] + es[n].body.bytes
    BY <1>1, <2>1 DEF AddsUp
  <2> QED BY <2>1, <2>2
<1> HIDE DEF g
<1>5. AddsUp(g, es, l)
  BY <1>3, <1>4 DEF AddsUp
<1>6. BytesOf(es) = f[l] /\ BytesOf(ls) = f[l + 1]
  BY <1>0, <1>1, <1>3, <1>5, OneAddsUp DEF l
<1>7. f[l + 1] = f[l] + ls[l + 1].body.bytes
  <2>1. l + 1 \in 1..(l + 1) /\ (l + 1) - 1 = l
    BY <1>0
  <2> QED BY <1>1, <2>1 DEF AddsUp
<1> QED BY <1>0, <1>6, <1>7

\* One entry less.
LEMMA BytesOfLess ==
  ASSUME NEW es, NEW ls, Weighed(es), Weighed(ls), NEW i \in 1..Len(es), Len(ls) = Len(es) - 1,
         \A n \in 1..Len(ls) : ls[n] = IF n < i THEN es[n] ELSE es[n + 1]
  PROVE  BytesOf(ls) = BytesOf(es) - es[i].body.bytes
<1> DEFINE l == Len(es)
           w == es[i].body.bytes
<1>0. l \in Nat /\ i \in 1..l /\ l - 1 \in Nat /\ w \in Int /\ Len(ls) = l - 1
  BY DEF Weighed
<1>1. PICK f : AddsUp(f, es, l)
  BY SomethingAddsUp
<1> DEFINE g == [n \in 0..(l - 1) |-> IF n < i THEN f[n] ELSE f[n + 1] - w]
<1>2. f \in [0..l -> Int] /\ f[0] = 0
  BY <1>1 DEF AddsUp
<1>3. \A n \in 1..l : f[n] = f[n - 1] + es[n].body.bytes
  BY <1>1 DEF AddsUp
<1>4. f[i] = f[i - 1] + w
  BY <1>3 DEF w, l
<1>5. \A n \in 1..(l - 1) : ls[n] = IF n < i THEN es[n] ELSE es[n + 1]
  BY <1>0
<1> HIDE DEF l, w
<1>6. g \in [0..(l - 1) -> Int] /\ g[0] = 0
  <2>1. ASSUME NEW n \in 0..(l - 1)
        PROVE  n \in 0..l /\ n + 1 \in 0..l /\ f[n] \in Int /\ f[n + 1] - w \in Int
    <3>1. n \in 0..l /\ n + 1 \in 0..l
      BY <1>0
    <3>2. f[n] \in Int /\ f[n + 1] \in Int
      BY <1>2, <3>1
    <3> QED BY <1>0, <3>1, <3>2
  <2>2. 0 \in 0..(l - 1) /\ 0 < i
    BY <1>0
  <2> QED BY <1>2, <2>1, <2>2
<1>7. \A n \in 0..(l - 1) : g[n] = IF n < i THEN f[n] ELSE f[n + 1] - w
  OBVIOUS
<1> HIDE DEF g
<1>8. ASSUME NEW n \in 1..(l - 1) PROVE g[n] = g[n - 1] + ls[n].body.bytes
  <2>1. /\ n \in 0..(l - 1) /\ n - 1 \in 0..(l - 1) /\ n \in 1..l /\ n + 1 \in 1..l
        /\ (n + 1) - 1 = n /\ (n - 1) + 1 = n /\ n \in Nat /\ i \in Nat
    BY <1>0
  <2>2. f[n] \in Int /\ f[n - 1] \in Int /\ f[n + 1] \in Int
    <3>1. n \in 0..l /\ n - 1 \in 0..l /\ n + 1 \in 0..l
      BY <1>0
    <3> QED BY <1>2, <3>1
  <2>3. /\ g[n] = IF n < i THEN f[n] ELSE f[n + 1] - w
        /\ g[n - 1] = IF n - 1 < i THEN f[n - 1] ELSE f[n] - w
    BY <2>1, <1>7
  <2>4. CASE n < i
    <3>1. g[n] = f[n] /\ g[n - 1] = f[n - 1] /\ ls[n] = es[n]
      BY <1>5, <2>1, <2>3, <2>4
    <3> QED BY <1>3, <2>1, <3>1
  <2>5. CASE n = i
    <3>1. g[n] = f[n + 1] - w /\ g[n - 1] = f[n - 1] /\ ls[n] = es[n + 1]
      BY <1>5, <2>1, <2>3, <2>5
    <3>2. f[n + 1] = f[n] + es[n + 1].body.bytes /\ f[n] = f[n - 1] + w
      BY <1>3, <1>4, <2>1, <2>5
    <3>3. es[n + 1].body.bytes \in Int
      BY <2>1 DEF Weighed, l
    <3> DEFINE a == f[n - 1]
               b == es[n + 1].body.bytes
               c == f[n]
               d == f[n + 1]
    <3>4. /\ a \in Int /\ b \in Int /\ d = c + b /\ c = a + w
          /\ g[n] = d - w /\ g[n - 1] = a /\ ls[n].body.bytes = b
      BY <2>2, <3>1, <3>2, <3>3
    <3> HIDE DEF a, b, c, d
    <3>5. d - w = a + b
      BY <1>0, <3>4
    <3> QED BY <3>4, <3>5
  <2>6. CASE n > i
    <3>1. g[n] = f[n + 1] - w /\ g[n - 1] = f[n] - w /\ ls[n] = es[n + 1]
      BY <1>5, <2>1, <2>3, <2>6
    <3>2. f[n + 1] = f[n] + es[n + 1].body.bytes
      BY <1>3, <2>1
    <3>3. es[n + 1].body.bytes \in Int
      BY <2>1 DEF Weighed, l
    <3> DEFINE b == es[n + 1].body.bytes
               c == f[n]
               d == f[n + 1]
    <3>4. /\ b \in Int /\ c \in Int /\ d = c + b
          /\ g[n] = d - w /\ g[n - 1] = c - w /\ ls[n].body.bytes = b
      BY <2>2, <3>1, <3>2, <3>3
    <3> HIDE DEF b, c, d
    <3>5. d - w = c - w + b
      BY <1>0, <3>4
    <3> QED BY <3>4, <3>5
  <2> QED BY <2>1, <2>4, <2>5, <2>6
<1>9. g[l - 1] = f[l] - w
  <2>1. l - 1 \in 0..(l - 1) /\ (l - 1) + 1 = l
    BY <1>0
  <2>2. CASE l - 1 < i
    <3>1. i = l
      BY <1>0, <2>2
    <3>2. g[l - 1] = f[i - 1] /\ f[l] = f[i - 1] + w /\ f[i - 1] \in Int
      <4>1. i - 1 \in 0..l
        BY <1>0
      <4> QED BY <1>2, <1>4, <1>7, <2>1, <2>2, <3>1, <4>1
    <3> QED BY <1>0, <3>2
  <2>3. CASE ~ (l - 1 < i)
    BY <1>7, <2>1, <2>3
  <2> QED BY <2>2, <2>3
<1>10. AddsUp(g, ls, l - 1)
  BY <1>6, <1>8 DEF AddsUp
<1>11. BytesOf(es) = f[l] /\ BytesOf(ls) = g[l - 1]
  BY <1>0, <1>1, <1>10, OneAddsUp DEF l
<1> QED BY <1>9, <1>11 DEF w

-----------------------------------------------------------------------------
(* The cache within its limits.                                            *)

Unique(es) == \A i, j \in 1..Len(es) : es[i].key = es[j].key => i = j

LEMMA OKIsWeighed ==
  ASSUME NEW es, EntriesOK(es)
  PROVE  Weighed(es) /\ BytesOf(es) \in Int
BY EntryOf, BytesAreWhole DEF EntriesOK, EntryOK, Weighed

LEMMA Removed ==
  ASSUME NEW es, EntriesOK(es), NEW i \in 1..Len(es)
  PROVE  /\ Len(RemoveAt(es, i)) = Len(es) - 1 /\ Len(es) \in Nat
         /\ \A n \in 1..Len(RemoveAt(es, i)) :
              RemoveAt(es, i)[n] = IF n < i THEN es[n] ELSE es[n + 1]
<1>1. PICK V : es \in Seq(V)
  BY DEF EntriesOK
<1> DEFINE l == Len(es)
           a == SubSeq(es, 1, i - 1)
           b == SubSeq(es, i + 1, l)
<1>2. l \in Nat /\ i \in 1..l /\ \A n \in 1..l : es[n] \in V
  BY <1>1
<1> HIDE DEF l
<1>3. /\ a \in Seq(V) /\ Len(a) = i - 1
      /\ \A n \in 1..(i - 1) : a[n] = es[n]
  <2>1. \A n \in 1..(i - 1) : n \in 1..l
    BY <1>2
  <2>2. \A n \in 1..(i - 1) : es[n] \in V
    BY <1>2, <2>1
  <2>3. /\ a \in Seq(V) /\ Len(a) = (IF 1 <= i - 1 THEN (i - 1) - 1 + 1 ELSE 0)
        /\ \A n \in 1..((i - 1) - 1 + 1) : a[n] = es[1 + n - 1]
    BY <1>2, <2>2, SubSeqProperties
  <2> QED BY <1>2, <2>3
<1>4. /\ b \in Seq(V) /\ Len(b) = l - i
      /\ \A n \in 1..(l - i) : b[n] = es[i + n]
  <2>1. \A n \in (i + 1)..l : n \in 1..l
    BY <1>2
  <2>2. \A n \in (i + 1)..l : es[n] \in V
    BY <1>2, <2>1
  <2>3. /\ b \in Seq(V) /\ Len(b) = (IF i + 1 <= l THEN l - (i + 1) + 1 ELSE 0)
        /\ \A n \in 1..(l - (i + 1) + 1) : b[n] = es[(i + 1) + n - 1]
    BY <1>2, <2>2, SubSeqProperties
  <2>4. \A n \in 1..(l - i) : n \in 1..(l - (i + 1) + 1) /\ (i + 1) + n - 1 = i + n
    BY <1>2
  <2> QED BY <1>2, <2>3, <2>4
<1> HIDE DEF a, b
<1>5. /\ Len(a \o b) = Len(a) + Len(b)
      /\ \A n \in 1..(Len(a) + Len(b)) : (a \o b)[n] = IF n <= Len(a) THEN a[n] ELSE b[n - Len(a)]
  BY <1>3, <1>4, ConcatProperties
<1>6. Len(a \o b) = l - 1
  BY <1>2, <1>3, <1>4, <1>5
<1>7. ASSUME NEW n \in 1..(l - 1)
      PROVE  (a \o b)[n] = IF n < i THEN es[n] ELSE es[n + 1]
  <2>1. n \in 1..(Len(a) + Len(b)) /\ n \in Nat /\ i \in Nat /\ Len(a) = i - 1
    BY <1>2, <1>3, <1>4
  <2>2. CASE n < i
    BY <1>3, <1>5, <2>1, <2>2
  <2>3. CASE ~ (n < i)
    <3>1. n - (i - 1) \in 1..(l - i) /\ i + (n - (i - 1)) = n + 1 /\ ~ (n <= i - 1)
      BY <1>2, <2>1, <2>3
    <3>2. (a \o b)[n] = b[n - (i - 1)]
      BY <1>5, <2>1, <3>1
    <3> QED BY <1>4, <2>3, <3>1, <3>2
  <2> QED BY <2>2, <2>3
<1> QED BY <1>2, <1>6, <1>7 DEF RemoveAt, a, b, l

LEMMA Appended ==
  ASSUME NEW es, EntriesOK(es), NEW e
  PROVE  /\ Len(Append(es, e)) = Len(es) + 1 /\ Len(es) \in Nat
         /\ \A n \in 1..Len(es) : Append(es, e)[n] = es[n]
         /\ Append(es, e)[Len(es) + 1] = e
<1>1. PICK V : es \in Seq(V)
  BY DEF EntriesOK
<1> DEFINE W == V \cup {e}
<1>2. es \in Seq(W) /\ e \in W
  BY <1>1
<1> HIDE DEF W
<1> QED BY <1>2, AppendProperties

LEMMA Evicts ==
  ASSUME NEW es, EntriesOK(es), NEW n \in 0..Len(es)
  PROVE  /\ Len(Evict(es, n)) = Len(es) - n /\ Len(es) \in Nat
         /\ \A i \in 1..(Len(es) - n) : Evict(es, n)[i] = es[n + i]
         /\ n = Len(es) => Evict(es, n) = <<>>
<1>1. PICK V : es \in Seq(V)
  BY DEF EntriesOK
<1> DEFINE l == Len(es)
<1>2. l \in Nat /\ n \in 0..l /\ \A i \in 1..l : es[i] \in V
  BY <1>1
<1> HIDE DEF l
<1>3. \A i \in (n + 1)..l : i \in 1..l
  BY <1>2
<1>4. \A i \in (n + 1)..l : es[i] \in V
  BY <1>2, <1>3
<1>5. /\ Len(SubSeq(es, n + 1, l)) = (IF n + 1 <= l THEN l - (n + 1) + 1 ELSE 0)
      /\ \A i \in 1..(l - (n + 1) + 1) : SubSeq(es, n + 1, l)[i] = es[(n + 1) + i - 1]
  BY <1>2, <1>4, SubSeqProperties
<1>6. \A i \in 1..(l - n) : i \in 1..(l - (n + 1) + 1) /\ (n + 1) + i - 1 = n + i
  BY <1>2
<1>7. n = l => SubSeq(es, n + 1, l) = <<>>
  BY <1>2, SubSeqEmpty
<1> QED BY <1>2, <1>5, <1>6, <1>7 DEF Evict, l

\* An entry is taken out, and its key with it.
LEMMA RemoveIsClean ==
  ASSUME NEW es, EntriesOK(es), Unique(es), NEW i \in 1..Len(es)
  PROVE  /\ EntriesOK(RemoveAt(es, i)) /\ Unique(RemoveAt(es, i))
         /\ BytesOf(RemoveAt(es, i)) = BytesOf(es) - es[i].body.bytes
         /\ Len(RemoveAt(es, i)) = Len(es) - 1
         /\ \A n \in 1..Len(RemoveAt(es, i)) : RemoveAt(es, i)[n].key # es[i].key
<1> DEFINE l == Len(es)
           rs == RemoveAt(es, i)
<1>1. l \in Nat /\ i \in 1..l /\ Len(rs) = l - 1 /\ EntriesOK(rs)
  BY Removed, EntriesRemove
<1>2. \A n \in 1..(l - 1) : rs[n] = IF n < i THEN es[n] ELSE es[n + 1]
  BY <1>1, Removed
<1>3. BytesOf(rs) = BytesOf(es) - es[i].body.bytes
  <2>1. Weighed(es) /\ Weighed(rs)
    BY <1>1, OKIsWeighed
  <2> HIDE DEF rs
  <2> QED BY <1>1, <1>2, <2>1, BytesOfLess
<1>4. \A m, n \in 1..l : es[m].key = es[n].key => m = n
  BY DEF Unique
<1> HIDE DEF l, rs
<1>5. ASSUME NEW n \in 1..(l - 1)
      PROVE  \E k \in 1..l : /\ k = (IF n < i THEN n ELSE n + 1)
                             /\ rs[n] = es[k] /\ k # i
  <2>1. n \in 1..l /\ n + 1 \in 1..l /\ n \in Nat /\ i \in Nat /\ (n < i \/ n + 1 # i)
    BY <1>1
  <2> QED BY <1>2, <2>1
<1>6. ASSUME NEW m \in 1..(l - 1), NEW n \in 1..(l - 1), rs[m].key = rs[n].key
      PROVE  m = n
  <2>1. PICK j \in 1..l : j = (IF m < i THEN m ELSE m + 1) /\ rs[m] = es[j]
    BY <1>5
  <2>2. PICK k \in 1..l : k = (IF n < i THEN n ELSE n + 1) /\ rs[n] = es[k]
    BY <1>5
  <2>3. j = k
    BY <1>4, <1>6, <2>1, <2>2
  <2> QED BY <1>1, <2>1, <2>2, <2>3
<1>7. ASSUME NEW n \in 1..(l - 1) PROVE rs[n].key # es[i].key
  BY <1>1, <1>4, <1>5
<1> QED BY <1>1, <1>3, <1>6, <1>7 DEF Unique, l, rs

\* An entry is added under a key that is not there.
LEMMA AppendIsClean ==
  ASSUME NEW es, EntriesOK(es), Unique(es), NEW e, EntryOK(e),
         \A n \in 1..Len(es) : es[n].key # e.key
  PROVE  /\ EntriesOK(Append(es, e)) /\ Unique(Append(es, e))
         /\ BytesOf(Append(es, e)) = BytesOf(es) + e.body.bytes
<1> DEFINE l == Len(es)
           ls == Append(es, e)
<1>1. /\ l \in Nat /\ Len(ls) = l + 1 /\ ls[l + 1] = e /\ EntriesOK(ls)
      /\ \A n \in 1..l : ls[n] = es[n]
  BY Appended, EntriesAppend
<1>2. BytesOf(ls) = BytesOf(es) + e.body.bytes
  <2>1. Weighed(es) /\ Weighed(ls)
    BY <1>1, OKIsWeighed
  <2> HIDE DEF ls
  <2>2. BytesOf(ls) = BytesOf(es) + ls[Len(ls)].body.bytes
    BY <1>1, <2>1, BytesOfMore
  <2> QED BY <1>1, <2>2
<1>3. /\ \A m, n \in 1..l : es[m].key = es[n].key => m = n
      /\ \A n \in 1..l : es[n].key # e.key
  BY DEF Unique
<1> HIDE DEF l, ls
<1>4. ASSUME NEW m \in 1..(l + 1), NEW n \in 1..(l + 1), ls[m].key = ls[n].key
      PROVE  m = n
  <2>1. (m \in 1..l \/ m = l + 1) /\ (n \in 1..l \/ n = l + 1)
    BY <1>1
  <2> QED BY <1>1, <1>3, <1>4, <2>1
<1> QED BY <1>1, <1>2, <1>4 DEF Unique, ls

LEMMA EvictIsClean ==
  ASSUME NEW es, EntriesOK(es), Unique(es), NEW n \in 0..Len(es)
  PROVE  Unique(Evict(es, n))
<1> DEFINE l == Len(es)
           rs == Evict(es, n)
<1>1. l \in Nat /\ n \in 0..l /\ Len(rs) = l - n /\ \A i \in 1..(l - n) : rs[i] = es[n + i]
  BY Evicts
<1>2. \A i, j \in 1..l : es[i].key = es[j].key => i = j
  BY DEF Unique
<1> HIDE DEF l, rs
<1>3. ASSUME NEW i \in 1..(l - n), NEW j \in 1..(l - n), rs[i].key = rs[j].key
      PROVE  i = j
  <2>1. n + i \in 1..l /\ n + j \in 1..l
    BY <1>1
  <2>2. n + i = n + j
    BY <1>1, <1>2, <1>3, <2>1
  <2> QED BY <1>1, <2>2
<1> QED BY <1>1, <1>3 DEF Unique, rs

\* pop: what is left has no entry of the key.
LEMMA WithoutIsClean ==
  ASSUME NEW key, EntriesOK(entries), Unique(entries)
  PROVE  /\ EntriesOK(Without(key)) /\ Unique(Without(key))
         /\ Replaced(key) \in Int
         /\ BytesOf(Without(key)) = BytesOf(entries) - Replaced(key)
         /\ \A n \in 1..Len(Without(key)) : Without(key)[n].key # key
<1>0. BytesOf(entries) \in Int
  BY OKIsWeighed
<1>1. CASE Previous(key) = {}
  <2>1. Without(key) = entries /\ Replaced(key) = 0
    BY <1>1 DEF Without, Replaced
  <2>2. \A n \in 1..Len(entries) : entries[n].key # key
    BY <1>1 DEF Previous
  <2> QED BY <1>0, <2>1, <2>2
<1>2. CASE Previous(key) # {}
  <2>1. PICK i \in Previous(key) : i = CHOOSE k \in Previous(key) : TRUE
    BY <1>2
  <2>2. i \in 1..Len(entries) /\ entries[i].key = key
    BY <2>1 DEF Previous
  <2>3. Without(key) = RemoveAt(entries, i) /\ Replaced(key) = entries[i].body.bytes
    BY <1>2, <2>1 DEF Without, Replaced
  <2>4. entries[i].body.bytes \in Int
    BY <2>2, EntryOf DEF EntryOK
  <2>5. /\ EntriesOK(RemoveAt(entries, i)) /\ Unique(RemoveAt(entries, i))
        /\ BytesOf(RemoveAt(entries, i)) = BytesOf(entries) - entries[i].body.bytes
        /\ \A n \in 1..Len(RemoveAt(entries, i)) : RemoveAt(entries, i)[n].key # entries[i].key
    BY <2>2, RemoveIsClean
  <2> QED BY <2>2, <2>3, <2>4, <2>5
<1> QED BY <1>1, <1>2

\* A hit moves its entry to the end.
LEMMA HitKeepsCache ==
  ASSUME ApiInv, CacheWithinLimits, NEW v \in Visitors, Hit(v)
  PROVE  CacheWithinLimits'
<1>1. PICK i \in 1..Len(entries) : entries' = Append(RemoveAt(entries, i), entries[i])
  BY DEF Hit
<1> DEFINE e == entries[i]
           rs == RemoveAt(entries, i)
<1>2. /\ EntriesOK(entries) /\ Unique(entries) /\ held' = held /\ EntryOK(e)
      /\ Len(entries) <= MaxEntries /\ held <= MaxBytes /\ held = BytesOf(entries)
  BY EntryOf DEF ApiInv, Typed, EntriesOK, CacheWithinLimits, Unique, Hit
<1>3. /\ EntriesOK(rs) /\ Unique(rs) /\ BytesOf(rs) = BytesOf(entries) - e.body.bytes
      /\ Len(rs) = Len(entries) - 1
      /\ \A n \in 1..Len(rs) : rs[n].key # e.key
  BY <1>2, RemoveIsClean
<1>4. e.body.bytes \in Int /\ BytesOf(entries) \in Int
  BY <1>2, OKIsWeighed DEF EntryOK
<1>5. entries' = Append(rs, e)
  BY <1>1
<1> HIDE DEF rs, e
<1>6. Unique(entries') /\ BytesOf(entries') = BytesOf(rs) + e.body.bytes
  BY <1>2, <1>3, <1>5, AppendIsClean
<1>7. Len(entries') = Len(rs) + 1 /\ Len(rs) \in Nat
  BY <1>3, <1>5, Appended
<1>8. BytesOf(entries') = BytesOf(entries)
  BY <1>3, <1>4, <1>6
<1>9. Len(entries') = Len(entries)
  <2>1. Len(entries) \in Nat
    BY <1>2 DEF EntriesOK
  <2> QED BY <1>3, <1>7, <2>1
<1> QED BY <1>2, <1>6, <1>8, <1>9 DEF CacheWithinLimits, Unique

\* What a store leaves: es is the cache with the entry of visit v at its end,
\* and the n oldest go, as few as bring the rest within the limits.
Leaving(es, n, v) ==
  LET e == es[Len(es)] IN
  /\ EntriesOK(es) /\ Unique(es) /\ Len(es) \in Nat \ {0}
  /\ e.key = visit[v].key /\ e.body = visit[v].body /\ e.body.bytes <= MaxEntryBytes
  /\ entries' = Evict(es, n) /\ held' = BytesOf(Evict(es, n))
  /\ n = Len(es) \/ ~Over(Evict(es, n), BytesOf(Evict(es, n)))
  /\ \A m \in 0..(n - 1) : Over(Evict(es, m), BytesOf(Evict(es, m)))

LEMMA StoreLeaves ==
  ASSUME ApiInv, CacheWithinLimits, NEW v \in Visitors, Store(v)
  PROVE  \E es : \E n \in 0..Len(es) : Leaving(es, n, v)
<1> DEFINE key   == visit[v].key
           body  == visit[v].body
           e     == [key |-> key, expires |-> now + Ttl[key.kind], body |-> body]
           ws    == Without(key)
           es    == Append(ws, e)
           total == held - Replaced(key) + body.bytes
           Left(n) == total - BytesOf(es) + BytesOf(Evict(es, n))
<1>1. /\ EntriesOK(entries) /\ Unique(entries) /\ held = BytesOf(entries)
      /\ visit[v].stage = "storing" /\ body.bytes <= MaxEntryBytes
  BY DEF ApiInv, Typed, EntriesOK, CacheWithinLimits, Unique, Store
<1>2. PICK n \in 0..Len(es) :
        /\ n = Len(es) \/ ~Over(Evict(es, n), Left(n))
        /\ \A m \in 0..(n - 1) : Over(Evict(es, m), Left(m))
        /\ entries' = Evict(es, n)
        /\ held' = Left(n)
  BY DEF Store
<1>3. e.key = key /\ e.body = body
  OBVIOUS
<1>4. EntryOK(e)
  BY <1>1, EntryIsMade
<1>5. body.bytes \in Int
  BY <1>1, BodyReady
<1> HIDE DEF e, body, key
<1>6. /\ EntriesOK(ws) /\ Unique(ws) /\ Replaced(key) \in Int /\ BytesOf(entries) \in Int
      /\ BytesOf(ws) = BytesOf(entries) - Replaced(key)
      /\ \A i \in 1..Len(ws) : ws[i].key # key
  BY <1>1, WithoutIsClean, OKIsWeighed
<1> HIDE DEF ws
<1>7. /\ EntriesOK(es) /\ Unique(es) /\ BytesOf(es) = BytesOf(ws) + e.body.bytes
      /\ Len(es) = Len(ws) + 1 /\ Len(ws) \in Nat /\ es[Len(ws) + 1] = e
  BY <1>3, <1>4, <1>6, AppendIsClean, Appended
<1>8. total = BytesOf(es) /\ BytesOf(es) \in Int
  BY <1>1, <1>3, <1>5, <1>6, <1>7
<1> HIDE DEF es, total
<1>9. ASSUME NEW m \in 0..Len(es) PROVE Left(m) = BytesOf(Evict(es, m))
  <2>1. BytesOf(Evict(es, m)) \in Int
    BY <1>7, EntriesEvict, OKIsWeighed
  <2> QED BY <1>8, <2>1
<1>10. Len(es) \in Nat \ {0} /\ es[Len(es)] = e
  BY <1>7
<1>11. \A m \in 0..(n - 1) : m \in 0..Len(es)
  BY <1>10
<1> HIDE DEF Left
<1>12. /\ entries' = Evict(es, n) /\ held' = BytesOf(Evict(es, n))
       /\ n = Len(es) \/ ~Over(Evict(es, n), BytesOf(Evict(es, n)))
       /\ \A m \in 0..(n - 1) : Over(Evict(es, m), BytesOf(Evict(es, m)))
  BY <1>2, <1>9, <1>11
<1>13. e.key = visit[v].key /\ e.body = visit[v].body /\ e.body.bytes <= MaxEntryBytes
  BY <1>1, <1>3 DEF key, body
<1> QED BY <1>7, <1>10, <1>12, <1>13 DEF Leaving

LEMMA StoreKeepsCache ==
  ASSUME ApiInv, CacheWithinLimits, NEW v \in Visitors, Store(v)
  PROVE  CacheWithinLimits'
<1>1. PICK es : \E n \in 0..Len(es) : Leaving(es, n, v)
  BY StoreLeaves
<1>2. PICK n \in 0..Len(es) : Leaving(es, n, v)
  BY <1>1
<1>3. Unique(entries') /\ held' = BytesOf(entries')
  BY <1>2, EvictIsClean DEF Leaving
<1>4. MaxEntries \in Nat \ {0} /\ MaxBytes \in Nat
  BY ApiAssumption
<1>5. CASE n = Len(es)
  <2>1. entries' = <<>>
    BY <1>2, <1>5, Evicts DEF Leaving
  <2>2. Len(entries') = 0 /\ held' = 0
    BY <1>3, <2>1, BytesOfNone
  <2> QED BY <1>3, <1>4, <2>2 DEF CacheWithinLimits, Unique
<1>6. CASE ~Over(entries', held')
  <2>1. EntriesOK(entries')
    BY <1>2, EntriesEvict DEF Leaving
  <2>2. Len(entries') \in Nat /\ held' \in Int
    BY <1>3, <2>1, OKIsWeighed DEF Weighed
  <2>3. Len(entries') <= MaxEntries /\ held' <= MaxBytes
    BY <1>4, <1>6, <2>2 DEF Over
  <2> QED BY <1>3, <2>3 DEF CacheWithinLimits, Unique
<1>7. n = Len(es) \/ ~Over(entries', held')
  BY <1>2 DEF Leaving
<1> QED BY <1>5, <1>6, <1>7

\* What was stored is the last to be evicted, and alone it is within both limits.
LEMMA StoreKeepsItsOwn ==
  ASSUME ApiInv, CacheWithinLimits, NEW v \in Visitors, Store(v)
  PROVE  \E i \in 1..Len(entries') :
           entries'[i].key = visit[v].key /\ entries'[i].body = visit[v].body
<1>1. PICK es : \E n \in 0..Len(es) : Leaving(es, n, v)
  BY StoreLeaves
<1>2. PICK n \in 0..Len(es) : Leaving(es, n, v)
  BY <1>1
<1> DEFINE l   == Len(es)
           e   == es[l]
           one == Evict(es, l - 1)
<1>3. /\ EntriesOK(es) /\ l \in Nat \ {0} /\ entries' = Evict(es, n)
      /\ e.key = visit[v].key /\ e.body = visit[v].body /\ e.body.bytes <= MaxEntryBytes
      /\ \A m \in 0..(n - 1) : Over(Evict(es, m), BytesOf(Evict(es, m)))
  BY <1>2 DEF Leaving
<1>4. n # l
  <2> SUFFICES ASSUME n = l PROVE FALSE
    OBVIOUS
  <2>1. l - 1 \in 0..l /\ l - 1 \in 0..(n - 1) /\ 1 \in 1..(l - (l - 1)) /\ (l - 1) + 1 = l
    BY <1>3
  <2>2. EntriesOK(one)
    BY <1>3, <2>1, EntriesEvict
  <2>3. /\ Len(one) = l - (l - 1)
        /\ \A i \in 1..(l - (l - 1)) : one[i] = es[l - 1 + i]
    BY <1>3, <2>1, Evicts
  <2>4. Len(one) = 1 /\ one[1] = e
    BY <1>3, <2>1, <2>3
  <2>5. BytesOf(one) = e.body.bytes /\ BytesOf(one) \in Int
    BY <2>2, <2>4, OKIsWeighed, BytesOfOne
  <2>6. Over(one, BytesOf(one))
    BY <1>3, <2>1
  <2> HIDE DEF one
  <2> QED BY <1>3, <2>4, <2>5, <2>6, ApiAssumption DEF Over
<1>5. Len(entries') = l - n /\ \A i \in 1..(l - n) : entries'[i] = es[n + i]
  BY <1>3, Evicts
<1>6. l - n \in 1..(l - n) /\ n + (l - n) = l
  BY <1>3, <1>4
<1>7. entries'[l - n] = e
  BY <1>5, <1>6
<1> QED BY <1>3, <1>5, <1>6, <1>7

LEMMA CacheInductive ==
  ASSUME ApiInv, CacheWithinLimits, [ApiNext]_apiVars
  PROVE  CacheWithinLimits'
<1>1. ASSUME UNCHANGED <<entries, held>> PROVE CacheWithinLimits'
  BY <1>1 DEF CacheWithinLimits
<1>2. CASE UNCHANGED apiVars \/ ApiTick
  BY <1>1, <1>2 DEF apiVars, ApiTick
<1>3. ASSUME NEW o \in Objects, Ingest(o) PROVE CacheWithinLimits'
  BY <1>1, <1>3 DEF Ingest
<1>4. ASSUME NEW v \in Visitors, NEW r \in Requests,
             Unmetered(v, r) \/ Metered(v, r) \/ Throttled(v, r)
      PROVE  CacheWithinLimits'
  BY <1>1, <1>4 DEF Unmetered, Metered, Throttled
<1>5. ASSUME NEW v \in Visitors,
             Reject(v) \/ Ask(v) \/ Miss(v) \/ Compute(v) \/ NotFound(v) \/ Oversize(v)
      PROVE  CacheWithinLimits'
  BY <1>1, <1>5 DEF Reject, Ask, Miss, Compute, NotFound, Oversize, cache
<1> QED BY <1>2, <1>3, <1>4, <1>5, HitKeepsCache, StoreKeepsCache DEF ApiNext

LEMMA CacheIsKept == ApiSpec => [](ApiInv /\ CacheWithinLimits)
<1>1. ApiInit => CacheWithinLimits
  <2> SUFFICES ASSUME ApiInit PROVE CacheWithinLimits
    OBVIOUS
  <2>1. entries = <<>> /\ held = 0 /\ Len(entries) = 0
    BY DEF ApiInit
  <2> QED BY <2>1, BytesOfNone, ApiAssumption DEF CacheWithinLimits
<1> QED BY <1>1, ApiInitially, ApiInductive, CacheInductive, PTL DEF ApiSpec

\* Whatever is stored over what, and in whichever order the requests that
\* compute side by side come to the lock, the cache keeps both its limits, one
\* entry for a key, and counts the bytes it holds.
THEOREM TheCacheKeepsItsLimits == ApiSpec => []CacheWithinLimits
BY CacheIsKept, PTL

\* Only a store ends a request whose body may be kept.
LEMMA OnlyStoreStores ==
  ASSUME ApiInv, [ApiNext]_apiVars, NEW v \in Visitors,
         visit[v].stage = "storing", visit'[v].stage = "done",
         visit[v].body.bytes <= MaxEntryBytes
  PROVE  Store(v)
<1>1. PICK V : visit \in [Visitors -> Visit(V)]
  BY DEF ApiInv, Typed, VisitsTyped
<1>2. ASSUME NEW u \in Visitors, NEW n, visit' = [visit EXCEPT ![u] = n] PROVE u = v
  BY <1>1, <1>2
<1>3. visit' # visit
  OBVIOUS
<1>4. ASSUME NEW u \in Visitors, NEW r \in Requests, Unmetered(u, r) \/ Metered(u, r)
      PROVE  FALSE
  BY <1>2, <1>4 DEF Unmetered, Metered, Enter
<1>5. ASSUME NEW u \in Visitors, Reject(u) \/ NotFound(u) PROVE FALSE
  BY <1>2, <1>5 DEF Reject, NotFound, Leave
<1>6. ASSUME NEW u \in Visitors, Hit(u) PROVE FALSE
  <2>1. visit[u].stage = "looking" /\ Leave(u)
    BY <1>6 DEF Hit, Serve
  <2> QED BY <1>2, <2>1 DEF Leave
<1>7. ASSUME NEW u \in Visitors, Ask(u) \/ Miss(u) \/ Compute(u) PROVE FALSE
  <2>1. visit[u].stage # "storing" /\ u # v
    BY <1>7 DEF Ask, Miss, Compute
  <2>2. visit'[v] = visit[v]
    BY <1>1, <1>7, <2>1 DEF Ask, Miss, Compute
  <2> QED BY <2>2
<1>8. ASSUME NEW u \in Visitors, Oversize(u) PROVE FALSE
  <2>1. u = v /\ visit[u].body.bytes > MaxEntryBytes
    BY <1>2, <1>8 DEF Oversize, Serve, Leave
  <2>2. visit[v].body.bytes \in Int /\ MaxEntryBytes \in Int
    BY BodyReady, ApiAssumption
  <2> QED BY <2>1, <2>2
<1>9. ASSUME NEW u \in Visitors, Store(u) PROVE u = v
  BY <1>2, <1>9 DEF Store, Serve, Leave
<1>10. ASSUME \/ UNCHANGED apiVars \/ ApiTick \/ \E o \in Objects : Ingest(o)
              \/ \E u \in Visitors, r \in Requests : Throttled(u, r)
       PROVE  FALSE
  BY <1>3, <1>10 DEF apiVars, ApiTick, Ingest, Throttled
<1> QED BY <1>4, <1>5, <1>6, <1>7, <1>8, <1>9, <1>10 DEF ApiNext

\* A body that may be kept is in the cache after the step that stores it,
\* however much it pushes out: the next request for it is a hit.
THEOREM WhatIsStoredIsKept == ApiSpec => StoredIsKept
<1> DEFINE Kept == \A v \in Visitors :
             visit[v].stage = "storing" /\ visit'[v].stage = "done"
             /\ visit[v].body.bytes <= MaxEntryBytes
             => \E i \in 1..Len(entries') :
                  entries'[i].key = visit[v].key /\ entries'[i].body = visit[v].body
<1>1. ApiInv /\ CacheWithinLimits /\ [ApiNext]_apiVars => [Kept]_apiVars
  BY OnlyStoreStores, StoreKeepsItsOwn
<1> HIDE DEF Kept
<1>2. ApiSpec => [][Kept]_apiVars
  BY <1>1, CacheIsKept, PTL DEF ApiSpec
<1> QED BY <1>2 DEF StoredIsKept, Kept
=============================================================================
