----------------------------- MODULE Screening -----------------------------
(***************************************************************************)
(* The screening of one pair (screening/tca.py, screening/screen.py): the  *)
(* states of the pair are sampled on a coarse grid, close approaches are   *)
(* detected between the samples, refined one by one, and reported.         *)
(*                                                                         *)
(* The relative motion is along a line that passes the target at distance  *)
(* y, with a constant acceleration between two samples.  Times are counted *)
(* in fine steps, Fine of them between two samples, positions are doubled  *)
(* so that they stay whole, and distances are compared by their squares.   *)
(***************************************************************************)
EXTENDS Integers, FiniteSets

CONSTANTS Motions,   \* the motions: see Moves
          Intervals, \* of the grid
          Fine,      \* step_sec, in fine steps
          Coarse,    \* coarse_threshold_km
          Report,    \* report_threshold_km
          Tolerance  \* tca_tolerance_sec, in fine steps

ASSUME ScreeningAssumption ==
  /\ Intervals \in Nat \ {0} /\ Fine \in Nat \ {0} /\ Fine % 2 = 0
  /\ Coarse \in Nat /\ Report \in 0..Coarse /\ Tolerance \in Nat

VARIABLES
  motion, \* of the pair
  todo,   \* the candidates that are left, by their sample
  lastTca,\* last_tca; -1: none
  tcas,   \* the times of the events reported
  step    \* "detect", "refine" or "reported"

screenVars == <<motion, todo, lastTca, tcas, step>>

-----------------------------------------------------------------------------
(* The motion, as the propagator has it.                                   *)

\* Position and velocity at the first sample, the distance at which the line
\* passes, the acceleration in each interval, and which samples are valid.
Moves(x, v, y, a, valid) == [x |-> x, v |-> v, y |-> y, a |-> a, valid |-> valid]

ASSUME MotionAssumption ==
  Motions \subseteq [x : Int, v : Int, y : Int, a : [1..Intervals -> Int],
                     valid : [1..(Intervals + 1) -> BOOLEAN]]

Grid == 0..Intervals

\* Position along the line and velocity at each sample.
State ==
  LET at[k \in Grid] ==
        IF k = 0 THEN [x |-> motion.x, v |-> motion.v]
        ELSE LET a == motion.a[k] IN
             [x |-> at[k - 1].x + at[k - 1].v * Fine + a * ((Fine * Fine) \div 2),
              v |-> at[k - 1].v + a * Fine]
  IN at

Sqr(n) == n * n

\* The squared distance, four times, t fine steps after sample k.
Apart(k, t) ==
  LET s == State[k]
      a == IF k = Intervals THEN 0 ELSE motion.a[k + 1]
  IN Sqr(2 * s.x + 2 * s.v * t + a * t * t) + Sqr(2 * motion.y)

Within(apart, distance) == apart <= Sqr(2 * distance)

RangeRate(k) == State[k].x * State[k].v

Valid(k) == k \in Grid /\ motion.valid[k + 1]

-----------------------------------------------------------------------------
(* Detection: find_close_approach_candidates.                              *)

Less(m, n) == IF m <= n THEN m ELSE n
Abs(n) == IF n >= 0 THEN n ELSE -n

\* The least distance from the target, squared, on the straight line from x to
\* z: where it passes the target, or at an end.
LineMin(x, z) ==
  (IF x * z <= 0 THEN 0 ELSE Sqr(Less(Abs(x), Abs(z)))) + Sqr(motion.y)

\* Mutant: the two samples decide.
SampledWithin(k) ==
  Less(Sqr(State[k].x), Sqr(State[k + 1].x)) + Sqr(motion.y) <= Sqr(Coarse)

\* interval_min_distance_bound: the motion from either sample as a straight
\* line, less what the change of velocity may have added.
BoundWithin(k) ==
  LET s == State[k]
      e == State[k + 1]
      pad == (Abs(e.v - s.v) * Fine) \div 2
      least == Less(LineMin(s.x, s.x + s.v * Fine), LineMin(e.x, e.x - e.v * Fine))
  IN least <= Sqr(Coarse + pad)

\* Range-rate from negative to non-negative, in an interval with two valid ends.
Brackets ==
  {k \in 0..(Intervals - 1) :
     Valid(k) /\ Valid(k + 1) /\ RangeRate(k) < 0 /\ RangeRate(k + 1) >= 0 /\ BoundWithin(k)}

\* Ends of a valid span that the pair recedes from, or still approaches.
Edges ==
  {k \in Grid : Valid(k) /\ Within(Apart(k, 0), Coarse) /\
     \/ ~Valid(k - 1) /\ RangeRate(k) > 0
     \/ ~Valid(k + 1) /\ RangeRate(k) < 0}

\* The closest sample, when there is nothing else.
Fallback ==
  LET valid == {k \in Grid : Valid(k)} IN
  {k \in valid :
     /\ Within(Apart(k, 0), Coarse)
     /\ \A j \in valid : Apart(k, 0) < Apart(j, 0) \/ (Apart(k, 0) = Apart(j, 0) /\ k <= j)}

Detect ==
  /\ step = "detect"
  /\ todo' = IF Brackets \cup Edges # {} THEN Brackets \cup Edges ELSE Fallback
  /\ step' = "refine"
  /\ UNCHANGED <<motion, lastTca, tcas>>

-----------------------------------------------------------------------------
(* Refinement: refine_tca_sgp4, and the loop of screen_target.             *)

\* The fine times at which the range-rate passes zero in the bracket, any of
\* which the root finder may return, or the sample itself.
Refined(k) ==
  LET turns(t) == /\ t = 0 \/ Apart(k, t) < Apart(k, t - 1)
                  /\ t = Fine \/ Apart(k, t) <= Apart(k, t + 1)
      peaks(t) == /\ t \in 1..(Fine - 1)
                  /\ Apart(k, t) > Apart(k, t - 1) /\ Apart(k, t) >= Apart(k, t + 1)
  IN IF k \in Brackets THEN {t \in 0..Fine : turns(t) \/ peaks(t)} ELSE {0}

\* Candidates come in the order of their samples.  Too far: no event.  The same
\* instant again: no event.
RefineNext ==
  /\ step = "refine" /\ todo # {}
  /\ LET k == CHOOSE k \in todo : \A j \in todo : k <= j IN
     \E t \in Refined(k) :
     LET tca == k * Fine + t
         new == /\ Within(Apart(k, t), Report)
                /\ lastTca >= 0 => Abs(tca - lastTca) > Tolerance
     IN /\ todo' = todo \ {k}
        /\ tcas' = IF new THEN tcas \cup {tca} ELSE tcas
        /\ lastTca' = IF new THEN tca ELSE lastTca
  /\ UNCHANGED <<motion, step>>

ReportEvents ==
  /\ step = "refine" /\ todo = {}
  /\ step' = "reported"
  /\ UNCHANGED <<motion, todo, lastTca, tcas>>

ScreeningInit ==
  /\ motion \in Motions
  /\ todo = {} /\ lastTca = -1 /\ tcas = {} /\ step = "detect"

ScreeningNext == Detect \/ RefineNext \/ ReportEvents

ScreeningSpec == ScreeningInit /\ [][ScreeningNext]_screenVars

-----------------------------------------------------------------------------
(* Properties.                                                             *)

\* Distance at fine time n of the window.
Distance(n) == Apart(n \div Fine, n % Fine)

\* Between valid samples, the pair stops closing at n.
Closest(n) ==
  /\ Distance(n) < Distance(n - 1) /\ Distance(n) <= Distance(n + 1)
  /\ \A m \in {n - 1, n + 1} : Valid(m \div Fine) /\ Valid((m + Fine - 1) \div Fine)

Closes(k, t)  == Apart(k, t + 1) < Apart(k, t)
Recedes(k, t) == Apart(k, t) < Apart(k, t + 1)

\* The grid is fine enough for the motion: in an interval the pair closes and
\* then recedes, and not the other way round, nor between two fine steps.
Resolved ==
  \A k \in 0..(Intervals - 1) :
    /\ RangeRate(k) >= 0    => \A t \in 0..(Fine - 1) : ~Closes(k, t)
    /\ RangeRate(k + 1) < 0 => \A t \in 0..(Fine - 1) : Closes(k, t)
    /\ \A t, u \in 0..(Fine - 1) : t < u =>
         /\ Closes(k, u)  => Closes(k, t)
         /\ Recedes(k, t) => Recedes(k, u)

\* Every close approach of the window is reported, however far apart the pair
\* is at the samples on either side: the bound never drops an interval that
\* holds one, and no event stands in for two (screen_target: "finds every close
\* approach in the window").
EveryApproachReported ==
  step = "reported" /\ Resolved =>
    \A n \in 1..(Intervals * Fine - 1) :
      Closest(n) /\ Within(Distance(n), Report) =>
        \E tca \in tcas : Abs(tca - n) <= Tolerance
=============================================================================
