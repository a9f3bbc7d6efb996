--------------------------- MODULE MCScreeningJobs --------------------------
(* Small instances of ScreeningJobs for TLC.                               *)
EXTENDS ScreeningJobsInvariant, TLC

CONSTANTS alice, root

\* Console screenings that persist, and one made through the API that does not.
MixedRequests ==
  {[account |-> alice, command |-> TRUE, persist |-> TRUE],
   [account |-> root, command |-> FALSE, persist |-> FALSE]}

TwoRuns == [a \in Accounts |-> 2]

\* Jobs are interchangeable: no operator tells one from another.
JobSymmetry == Permutations(Jobs)
=============================================================================
