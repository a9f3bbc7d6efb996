------------------------------ MODULE PublicApi -----------------------------
(***************************************************************************)
(* The public reads: the middleware throttle_anonymous of api/app.py, the  *)
(* routes behind it, and the response cache of api/public_cache.py.        *)
(*                                                                         *)
(* The middleware runs on the event loop, so a request is metered in one   *)
(* step.  The routes run on pool threads: a request takes the cache's lock *)
(* to look, computes outside it, and takes it again to store.  Between any *)
(* two of these steps other requests run, time passes, and the database    *)
(* changes under them.                                                     *)
(***************************************************************************)
EXTENDS SlidingWindow, FiniteSets, SequencesExt

CONSTANTS Visitors,       \* who asks, once each (more often while answered 429)
          Requests,       \* what they ask for, a subset of Request
          Callers,        \* accounts and addresses
          Objects,
          Known,          \* those that have elements to begin with
          Ttl,            \* seconds a body of each kind is kept
          MaxEntries, MaxBytes, MaxEntryBytes, \* the cache's limits
          MaxBatch,       \* MAX_BATCH_TRAJECTORIES
          MaxSamples,     \* MAX_SAMPLES_PER_TRAJECTORY_REQUEST
          SamplesPerUnit, \* SAMPLES_PER_PROPAGATION_UNIT
          ReadsPerWindow, UnitsPerWindow, \* the anonymous allowances
          UserTimes, ProxyTimes, \* how many of them an account, the proxy has
          MaxLatency,     \* the longest a request takes
          MaxChanges,     \* bound: changes of an object's elements
          MaxTime         \* bound on the clock

Kinds == {"list", "explanation", "one", "batch"}

\* via: the caching proxy with its secret, a verified account, or an address.
\* window: window_hours, in seconds.
Request == [via : {"proxy", "user", "anon"}, caller : Callers, kind : Kinds,
            wanted : Seq(Objects), window : Nat, step : Nat \ {0}]

ASSUME ApiAssumption ==
  /\ Requests \subseteq Request
  /\ Known \subseteq Objects
  /\ Ttl \in [Kinds -> Nat \ {0}]
  /\ MaxEntries \in Nat \ {0}
  /\ MaxBytes \in Nat /\ MaxEntryBytes \in Nat /\ MaxEntryBytes <= MaxBytes
  /\ IsFiniteSet(Objects)
  /\ MaxLatency \in Nat
  /\ SamplesPerUnit \in Nat \ {0}

VARIABLES
  visit,    \* the request each visitor is in
  entries,  \* the cached bodies, least recently used first
  held,     \* _bytes
  elements, \* the newest element set of each object in the database, 0: none
  answer,   \* history: the last body served
  spent     \* history: when each payer was granted samples, and how many it had
            \* been granted by then

apiVars == <<now, hits, granted, visit, entries, held, elements, answer, spent>>
cache == <<entries, held>>

-----------------------------------------------------------------------------
(* Metering.                                                               *)

Propagating(r) == r.kind \in {"one", "batch"}

Exempt(r) == r.via = "proxy" /\ ~Propagating(r)

MeterKey(r) ==
  <<r.via, IF r.via = "proxy" THEN "propagate" ELSE r.caller,
    IF Propagating(r) THEN "propagate" ELSE "read">>

\* The allowance of a key, which LIMIT of the instance is.
Allowance(key) ==
  LET each  == IF key[3] = "propagate" THEN UnitsPerWindow ELSE ReadsPerWindow
      times == CASE key[1] = "proxy" -> ProxyTimes
                 [] key[1] = "user"  -> UserTimes
                 [] OTHER            -> 1
  IN each * times

\* A request that is metered has a key, with its allowance; one track is of one
\* object.
ASSUME MeterAssumption ==
  /\ UnitsPerWindow \in Nat /\ UserTimes \in Nat /\ ProxyTimes \in Nat
  /\ \A r \in Requests :
       /\ ~Exempt(r) => MeterKey(r) \in Keys /\ Limit[MeterKey(r)] = Allowance(MeterKey(r))
       /\ r.kind = "one" => Len(r.wanted) = 1

AtLeastOne(n) == IF n < 1 THEN 1 ELSE n

Ceiling(a, b) == (a + b - 1) \div b

\* propagation_cost
UnitCost(r) == AtLeastOne(Ceiling(r.window, r.step * SamplesPerUnit))

\* Mutant: a batch is charged as one request.
BatchIsOne(r) == IF Propagating(r) THEN UnitCost(r) ELSE 1

Cost(r) ==
  CASE r.kind = "batch" -> UnitCost(r) * AtLeastOne(Len(r.wanted))
    [] r.kind = "one"   -> UnitCost(r)
    [] OTHER            -> 1

\* trajectory_samples
SamplesEach(r) == r.window \div r.step + 1
Samples(r) == SamplesEach(r) * AtLeastOne(Cardinality(ToSet(r.wanted)))

TooLarge(r) ==
  \/ r.kind = "batch" /\ (Len(r.wanted) = 0 \/ Len(r.wanted) > MaxBatch)
  \/ Propagating(r) /\ Samples(r) > MaxSamples

-----------------------------------------------------------------------------
(* What is asked for and what is answered.                                 *)

\* _grid_anchor: rounded down to a multiple of the lifetime.
Anchor(r, moment) == IF Propagating(r) THEN moment - (moment % Ttl[r.kind]) ELSE 0

\* Mutant: the key of a track leaves out where it starts.
KeyWithoutAnchor(r, anchor) ==
  [kind |-> r.kind, wanted |-> ToSet(r.wanted), window |-> r.window,
   step |-> r.step, anchor |-> 0]

CacheKey(r, anchor) ==
  [kind |-> r.kind, wanted |-> ToSet(r.wanted), window |-> r.window,
   step |-> r.step, anchor |-> anchor]

\* What the database has of some objects: those without elements are left out.
RowsOf(S) == {<<o, elements[o]>> : o \in {o \in S : elements[o] > 0}}

\* _assessed_events and the lists, _event_explanation, _build_trajectories.
Listed       == RowsOf(Objects)
Explained(r) == RowsOf(ToSet(r.wanted))
Tracks(r)    == RowsOf(ToSet(r.wanted))

Rows(r) == CASE r.kind = "list"        -> Listed
             [] r.kind = "explanation" -> Explained(r)
             [] OTHER                  -> Tracks(r)

\* start: where its tracks begin; read: when the database was read.
Body(r, anchor) ==
  [rows |-> Rows(r), start |-> anchor, read |-> now,
   bytes |-> Cardinality(Rows(r)) * (IF Propagating(r) THEN SamplesEach(r) ELSE 1)]

NoBody == [rows |-> {}, start |-> 0, read |-> 0, bytes |-> 0]

Idling == [stage |-> "idle", request |-> CHOOSE r \in Requests : TRUE, key |-> <<>>,
           begun |-> 0, body |-> NoBody]

-----------------------------------------------------------------------------
(* The middleware.                                                         *)

\* The proxy pays for all its visitors.
Payer(r) == <<r.via, IF r.via = "proxy" THEN "everyone" ELSE r.caller>>

\* The samples of the first n grants.
UpTo(grants, n) == IF n = 0 THEN 0 ELSE grants[n].total

Paid(grants, samples) ==
  Append(grants, [at |-> now, total |-> UpTo(grants, Len(grants)) + samples])

Enter(v, r) ==
  /\ visit' = [visit EXCEPT ![v] =
       [Idling EXCEPT !.stage = "admitted", !.request = r, !.begun = now]]
  /\ spent' = [spent EXCEPT ![Payer(r)] =
       IF Propagating(r) /\ ~TooLarge(r) THEN Paid(@, Samples(r)) ELSE @]

Unmetered(v, r) ==
  /\ visit[v].stage = "idle" /\ Exempt(r)
  /\ Enter(v, r)
  /\ UNCHANGED <<now, hits, granted, entries, held, elements, answer>>

Metered(v, r) ==
  /\ visit[v].stage = "idle" /\ ~Exempt(r)
  /\ Grant(MeterKey(r), Cost(r), now)
  /\ Enter(v, r)
  /\ UNCHANGED <<now, entries, held, elements, answer>>

\* Answered 429.
Throttled(v, r) ==
  /\ visit[v].stage = "idle" /\ ~Exempt(r)
  /\ Deny(MeterKey(r), Cost(r), now)
  /\ UNCHANGED <<now, visit, spent, entries, held, elements, answer>>

-----------------------------------------------------------------------------
(* The routes, and get_or_compute.                                         *)

Leave(v) == visit' = [visit EXCEPT ![v] = [Idling EXCEPT !.stage = "done"]]

Serve(v, body) ==
  /\ answer' = [key |-> visit[v].key, body |-> body, at |-> now]
  /\ Leave(v)

\* Answered 422.
Reject(v) ==
  /\ visit[v].stage = "admitted" /\ TooLarge(visit[v].request)
  /\ Leave(v)
  /\ UNCHANGED <<now, hits, granted, entries, held, elements, answer, spent>>

\* The anchor and the moment of the look-up are read together.
Ask(v) ==
  /\ visit[v].stage = "admitted" /\ ~TooLarge(visit[v].request)
  /\ visit' = [visit EXCEPT ![v].stage = "looking", ![v].begun = now,
               ![v].key = CacheKey(visit[v].request, Anchor(visit[v].request, now))]
  /\ UNCHANGED <<now, hits, granted, entries, held, elements, answer, spent>>

\* Mutant: an entry is served for as long as it is held.
AnyEntry(v, i) == entries[i].key = visit[v].key

Fresh(v, i) == entries[i].key = visit[v].key /\ entries[i].expires > visit[v].begun

Hit(v) ==
  /\ visit[v].stage = "looking"
  /\ \E i \in 1..Len(entries) :
       /\ Fresh(v, i)
       /\ entries' = Append(RemoveAt(entries, i), entries[i])
       /\ Serve(v, entries[i].body)
  /\ UNCHANGED <<now, hits, granted, held, elements, spent>>

Miss(v) ==
  /\ visit[v].stage = "looking"
  /\ ~ \E i \in 1..Len(entries) : Fresh(v, i)
  /\ visit' = [visit EXCEPT ![v].stage = "computing"]
  /\ UNCHANGED <<now, hits, granted, entries, held, elements, answer, spent>>

\* The track starts at the anchor the route computed.
Compute(v) ==
  LET r == visit[v].request IN
  /\ visit[v].stage = "computing"
  /\ r.kind \in {"list", "batch"} \/ Rows(r) # {}
  /\ visit' = [visit EXCEPT ![v].stage = "storing",
               ![v].body = Body(r, Anchor(r, visit[v].begun))]
  /\ UNCHANGED <<now, hits, granted, entries, held, elements, answer, spent>>

\* Answered 404: the exception leaves get_or_compute, and nothing is stored.
NotFound(v) ==
  /\ visit[v].stage = "computing"
  /\ visit[v].request.kind \notin {"list", "batch"} /\ Rows(visit[v].request) = {}
  /\ Leave(v)
  /\ UNCHANGED <<now, hits, granted, entries, held, elements, answer, spent>>

RunningBytes(es) ==
  LET upTo[n \in 0..Len(es)] == IF n = 0 THEN 0 ELSE upTo[n - 1] + es[n].body.bytes
  IN upTo

BytesOf(es) == RunningBytes(es)[Len(es)]

\* pop: the entry of a key is taken out, if there is one.
Previous(key) == {i \in 1..Len(entries) : entries[i].key = key}

Without(key) ==
  IF Previous(key) = {} THEN entries
  ELSE RemoveAt(entries, CHOOSE i \in Previous(key) : TRUE)

\* Mutant: what the entry replaces is not taken off the count.
ReplacedStays(key) == 0

Replaced(key) ==
  IF Previous(key) = {} THEN 0 ELSE entries[CHOOSE i \in Previous(key) : TRUE].body.bytes

\* Mutant: popitem() takes the newest.
EvictNewest(es, n) == SubSeq(es, 1, Len(es) - n)

Evict(es, n) == SubSeq(es, n + 1, Len(es))

Over(es, bytes) == Len(es) > MaxEntries \/ bytes > MaxBytes

Serving == UNCHANGED <<now, hits, granted, elements, spent>>

\* Served, and too large to keep.
Oversize(v) ==
  /\ visit[v].stage = "storing" /\ visit[v].body.bytes > MaxEntryBytes
  /\ Serve(v, visit[v].body)
  /\ Serving /\ UNCHANGED cache

Store(v) ==
  LET key   == visit[v].key
      body  == visit[v].body
      entry == [key |-> key, expires |-> now + Ttl[key.kind], body |-> body]
      es    == Append(Without(key), entry)
      total == held - Replaced(key) + body.bytes
      Left(n) == total - BytesOf(es) + BytesOf(Evict(es, n))
  IN
  /\ visit[v].stage = "storing" /\ body.bytes <= MaxEntryBytes
  /\ \E n \in 0..Len(es) :
       /\ n = Len(es) \/ ~Over(Evict(es, n), Left(n))
       /\ \A m \in 0..n-1 : Over(Evict(es, m), Left(m))
       /\ entries' = Evict(es, n)
       /\ held' = Left(n)
  /\ Serve(v, body)
  /\ Serving

-----------------------------------------------------------------------------
(* Around them.                                                            *)

\* A screening or a refresh adds elements.
Ingest(o) ==
  /\ elements[o] < MaxChanges
  /\ elements' = [elements EXCEPT ![o] = @ + 1]
  /\ UNCHANGED <<now, hits, granted, visit, entries, held, answer, spent>>

ApiTick ==
  /\ now < MaxTime
  /\ \A v \in Visitors : visit[v].stage \notin {"idle", "done"} => now - visit[v].begun < MaxLatency
  /\ now' = now + 1
  /\ UNCHANGED <<hits, granted, visit, entries, held, elements, answer, spent>>

ApiInit ==
  /\ LimiterInit
  /\ visit = [v \in Visitors |-> Idling]
  /\ entries = <<>> /\ held = 0
  /\ elements = [o \in Objects |-> IF o \in Known THEN 1 ELSE 0]
  /\ answer = [key |-> <<>>, body |-> NoBody, at |-> 0]
  /\ spent = [p \in {Payer(r) : r \in Requests} |-> <<>>]

ApiNext ==
  \/ ApiTick
  \/ \E o \in Objects : Ingest(o)
  \/ \E v \in Visitors :
       \/ \E r \in Requests : Unmetered(v, r) \/ Metered(v, r) \/ Throttled(v, r)
       \/ Reject(v) \/ Ask(v) \/ Hit(v) \/ Miss(v) \/ Compute(v) \/ NotFound(v)
       \/ Oversize(v) \/ Store(v)

ApiSpec == ApiInit /\ [][ApiNext]_apiVars

-----------------------------------------------------------------------------
(* Properties.                                                             *)

\* Allowance in samples of SGP4: each unit pays for SamplesPerUnit of them and
\* the first point of a track.
SampleAllowance(p) ==
  UnitsPerWindow * (SamplesPerUnit + 1)
    * (IF p[1] = "proxy" THEN ProxyTimes ELSE IF p[1] = "user" THEN UserTimes ELSE 1)

\* However the work is split over requests, objects and steps, what one payer is
\* granted in a window, from any grant to any other, is what its allowance pays
\* for (throttle_anonymous, propagation_cost).
WorkBounded ==
  \A p \in DOMAIN spent : \A i, j \in 1..Len(spent[p]) :
    i <= j /\ spent[p][j].at - spent[p][i].at < Window =>
      UpTo(spent[p], j) - UpTo(spent[p], i - 1) <= SampleAllowance(p)

\* The cache stays within its two limits, whatever is stored over what, and
\* its count of bytes is the size of what it holds (PublicCache).
CacheWithinLimits ==
  /\ Len(entries) <= MaxEntries
  /\ held <= MaxBytes
  /\ held = BytesOf(entries)
  /\ \A i, j \in 1..Len(entries) : entries[i].key = entries[j].key => i = j

\* A body is served no later than its lifetime after the database was read for
\* it, give or take the two requests' own time (get_or_compute).
StalenessBounded ==
  answer.key # <<>> =>
    answer.at - answer.body.read < Ttl[answer.key.kind] + 2 * MaxLatency

\* A track begins at most one window before it is served ("The cost is that a
\* track can begin up to one window in the past", _grid_anchor).
TrackIsCurrent ==
  answer.key # <<>> /\ answer.key.kind \in {"one", "batch"} =>
    answer.at - answer.body.start < Ttl[answer.key.kind] + MaxLatency

\* Storing a body that may be kept never evicts that body itself: the request
\* after the one that missed is a hit.
StoredIsKept ==
  [][ \A v \in Visitors :
        visit[v].stage = "storing" /\ visit'[v].stage = "done"
        /\ visit[v].body.bytes <= MaxEntryBytes
        => \E i \in 1..Len(entries') :
             entries'[i].key = visit[v].key /\ entries'[i].body = visit[v].body ]_apiVars
=============================================================================
