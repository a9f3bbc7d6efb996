----------------------------- MODULE MCJobStream ----------------------------
(* A small instance of JobStream for TLC.                                  *)
EXTENDS JobStream

CONSTANTS alice, root

RootRequests ==
  {[account |-> root, command |-> FALSE, persist |-> TRUE]}

TwoRuns == [a \in Accounts |-> 2]
=============================================================================
