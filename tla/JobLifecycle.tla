---------------------------- MODULE JobLifecycle ----------------------------
(***************************************************************************)
(* What a screening job promises its owner, without saying how it is run:  *)
(* a job is queued, runs, and ends exactly once, in one of three outcomes; *)
(* an outcome is never taken back, and "cancelled" is only ever the answer *)
(* to somebody's request.  ScreeningJobs implements it.                    *)
(***************************************************************************)
CONSTANT Jobs

VARIABLES status,  \* what the job's row says
          asked    \* whether a cancellation was recorded for the job

vars == <<status, asked>>

Outcome == {"succeeded", "failed", "cancelled"}
Active  == {"queued", "running"}

Init ==
  /\ status = [j \in Jobs |-> "none"]
  /\ asked = [j \in Jobs |-> FALSE]

Queue(j) ==
  /\ status[j] = "none"
  /\ status' = [status EXCEPT ![j] = "queued"]
  /\ UNCHANGED asked

Run(j) ==
  /\ status[j] \in Active
  /\ status' = [status EXCEPT ![j] = "running"]
  /\ UNCHANGED asked

\* A request may reach the row of a job that ended while it was being made.
AskCancel(j) ==
  /\ status[j] # "none"
  /\ asked' = [asked EXCEPT ![j] = TRUE]
  /\ UNCHANGED status

Finish(j, outcome) ==
  /\ status[j] \in Active
  /\ outcome = "cancelled" => asked[j]
  /\ status' = [status EXCEPT ![j] = outcome]
  /\ UNCHANGED asked

\* After a restart every job that was still active has failed.
Interrupt ==
  /\ status' = [j \in Jobs |-> IF status[j] \in Active THEN "failed" ELSE status[j]]
  /\ UNCHANGED asked

Next ==
  \/ \E j \in Jobs :
       \/ Queue(j)
       \/ Run(j)
       \/ AskCancel(j)
       \/ \E outcome \in Outcome : Finish(j, outcome)
  \/ Interrupt

Spec == Init /\ [][Next]_vars
=============================================================================
