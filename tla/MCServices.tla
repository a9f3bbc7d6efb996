----------------------------- MODULE MCServices ----------------------------
(***************************************************************************)
(* The parts of the service that share no state, side by side: the         *)
(* limiters of the pool threads, the public reads, the activity feed, the  *)
(* scheduled screening with its cache and alerts, and the detection of     *)
(* close approaches.  A behaviour exercises one of them: part says which.  *)
(***************************************************************************)
EXTENDS RateLimit, PublicApi, LiveFeed, Pipeline, Screening, TLC

CONSTANTS ann, bob, addr, u, w, v1, v2, v3, c1, c2, c3, g, h

VARIABLE part

-----------------------------------------------------------------------------
(* The limiters and the public reads.                                      *)

Ask1(via, caller, kind, wanted, window) ==
  [via |-> via, caller |-> caller, kind |-> kind, wanted |-> wanted,
   window |-> window, step |-> 1]

\* Two tracks of three samples fill the cache; one of six is too large to keep;
\* three objects are too many, and w is unknown until it is ingested.
MCRequests ==
  {Ask1("anon", addr, "batch", <<u, w>>, 2), Ask1("anon", addr, "one", <<u>>, 2),
   Ask1("proxy", addr, "list", <<>>, 0)}

OddRequests ==
  {Ask1("user", ann, "one", <<u>>, 5), Ask1("user", ann, "batch", <<u, u, w>>, 2),
   Ask1("user", ann, "explanation", <<w>>, 0), Ask1("proxy", addr, "batch", <<u, w>>, 2)}

AllRequests == MCRequests \cup OddRequests

PoolKey == <<"command", ann, "read">>
MCPoolKeys == {PoolKey}
MCKeys  == {MeterKey(r) : r \in {q \in AllRequests : ~Exempt(q)}} \cup {PoolKey}
MCLimit == [k \in MCKeys |-> IF k = PoolKey THEN 2 ELSE Allowance(k)]
MCTtl   == [k \in Kinds |-> IF k = "explanation" THEN 3 ELSE 2]

\* The public reads are two parts: three visitors with the first requests, or
\* two with the others.
Parted ==
  /\ \A v \in Visitors :
       \/ visit[v].stage \in {"idle", "done"}
       \/ visit[v].request \in IF part = "odd" THEN OddRequests ELSE MCRequests
  /\ part = "odd" => \E v \in Visitors : visit[v].stage = "idle"

-----------------------------------------------------------------------------
(* The feed: one page over rows, or three over the slots.                  *)

MCKind  == <<1, 2, 1, 1>>
MCActor == <<Nobody, ann, ann, bob>>
MCWho   == [c \in Subscribers |-> IF c = c3 THEN bob ELSE ann]

OnePage == \A c \in Subscribers \ {c1} : sub[c] = Off
NoRows  == time = 0 /\ \A i \in Items : stamp[i] = -1

-----------------------------------------------------------------------------
(* The scheduled screening: runs start in order.                           *)

MCPlace == (u :> 0) @@ (g :> 1) @@ (h :> 2)

InTurn == \A p, q \in Runs : p < q /\ run[p].stage = "new" => run[q].stage = "new"

-----------------------------------------------------------------------------
(* A pair: every speed and acceleration of a small range, closing or not,  *)
(* head on or passing, with every sample valid or one of them not.         *)

MCMotions ==
  {Moves(x, v, y, a, valid) :
     x \in -9..9, v \in -4..4, y \in {0, 2}, a \in [1..2 -> -1..1],
     valid \in {<<TRUE, TRUE, TRUE>>, <<FALSE, TRUE, TRUE>>, <<TRUE, FALSE, TRUE>>}}

AMotion == Moves(0, 0, 0, <<0, 0>>, <<TRUE, TRUE, TRUE>>)

-----------------------------------------------------------------------------

poolVars  == <<thread, promise>>
readVars  == <<visit, entries, held, elements, answer, spent>>
limitVars == <<now, hits, granted>>

mcVars == <<rateVars, apiVars, feedVars, pipeVars, screenVars, part>>

Parts == {"pool", "reads", "odd", "feed", "slots", "batch", "pair"}

MCInit ==
  /\ RateInit /\ ApiInit /\ FeedInit /\ PipeInit
  /\ part \in Parts
  /\ todo = {} /\ lastTca = -1 /\ tcas = {} /\ step = "detect"
  /\ motion \in IF part = "pair" THEN MCMotions ELSE {AMotion}

PoolStep ==
  /\ part = "pool" /\ RateNext
  /\ UNCHANGED <<readVars, feedVars, pipeVars, screenVars, part>>

ReadStep ==
  /\ part \in {"reads", "odd"} /\ ApiNext
  /\ UNCHANGED <<poolVars, feedVars, pipeVars, screenVars, part>>
  /\ Parted'

FeedStep ==
  /\ part \in {"feed", "slots"} /\ FeedNext
  /\ IF part = "feed" THEN OnePage' ELSE NoRows'
  /\ UNCHANGED <<limitVars, poolVars, readVars, pipeVars, screenVars, part>>

BatchStep ==
  /\ part = "batch" /\ PipeNext /\ InTurn'
  /\ UNCHANGED <<limitVars, poolVars, readVars, feedVars, screenVars, part>>

PairStep ==
  /\ part = "pair" /\ ScreeningNext
  /\ UNCHANGED <<limitVars, poolVars, readVars, feedVars, pipeVars, part>>

MCNext == PoolStep \/ ReadStep \/ FeedStep \/ BatchStep \/ PairStep

MCSpec == MCInit /\ [][MCNext]_mcVars

Twins == Permutations({v1, v2, v3})
=============================================================================
