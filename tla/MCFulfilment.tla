----------------------------- MODULE MCFulfilment -----------------------------
(* Instances of Fulfilment for TLC: who buys what. *)
EXTENDS FulfilmentProofs, TLC

CONSTANTS ann, bob, p1, p2, p3, s1

\* Ann may open two checkouts, Bob one.
SeatBuyers == (p1 :> ann) @@ (p2 :> ann) @@ (p3 :> bob)
Twins == Permutations({p1, p2})

\* Ann has a subscription, and both want a founding seat.
MixedBuyers == (p1 :> ann) @@ (p2 :> bob) @@ (s1 :> ann)
=============================================================================
