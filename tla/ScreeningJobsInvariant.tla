----------------------- MODULE ScreeningJobsInvariant -----------------------
(***************************************************************************)
(* The inductive invariant of ScreeningJobs, by the idea each part         *)
(* carries: TLC checks it, ScreeningJobsProofs proves it.                  *)
(***************************************************************************)
EXTENDS ScreeningJobs

\* The row of a job exists exactly from its insert on, and the insert is the
\* step of the one request that holds the admission lock.
RowInv ==
  \A j \in Jobs :
    /\ handler[j] \in {"none", "asked", "refused", "inserting"} => status[j] = "none"
    /\ handler[j] \in {"submitting", "linking", "answered"} => status[j] # "none"
    /\ handler[j] = "inserting" <=> admission = j
    /\ handler[j] # "none" => request[j] \in Requests

\* A thread, or a place in the backlog, belongs to a job that has not ended,
\* and a job has one of them at most.
ThreadInv ==
  /\ ~up => /\ queue = <<>>
            /\ \A j \in Jobs : /\ worker[j] = Idle
                               /\ handler[j] \in {"none", "refused", "answered", "lost"}
  /\ \A j \in Jobs :
       /\ worker[j].at # "off" => status[j] \in Active
       /\ worker[j].at \in {"off"} \cup Progress \cup Outcome
       /\ worker[j].at = "cancelled" => cancelRequested[j]
       /\ canceller[j] # Idle => status[j] # "none"
       /\ handler[j] = "submitting" =>
            /\ status[j] \in Active
            /\ worker[j].at = "off"
            /\ \A i \in 1..Len(queue) : queue[i] # j
  /\ \A i \in 1..Len(queue) :
       /\ status[queue[i]] \in Active
       /\ worker[queue[i]].at = "off"
       /\ \A k \in 1..Len(queue) : queue[i] = queue[k] => i = k

\* What the lock holder was admitted against still holds when it inserts.
AdmissionInv == admission # NoJob => Admissible(request[admission].account)

\* Nothing is persisted before the ontology step, and one run is persisted by
\* the time a job that persists can succeed.
RunInv ==
  /\ \A j \in Jobs :
       /\ runs[j] <= 1
       /\ status[j] = "none" \/ handler[j] = "submitting" => runs[j] = 0
       /\ worker[j].at \in Progress => runs[j] = 0
       /\ worker[j].at = "ontology" => request[j].persist
       /\ worker[j].at = "succeeded" => (runs[j] = 1 <=> request[j].persist)
       /\ resultRun[j] => status[j] = "succeeded" /\ runs[j] = 1
       /\ status[j] = "succeeded" => resultRun[j] = request[j].persist
  /\ \A i \in 1..Len(queue) : runs[queue[i]] = 0

\* An execution that names its job waits while the job is active.
ExecutionInv ==
  \A j \in Jobs :
    linked[j] =>
      /\ handler[j] = "answered"
      /\ status[j] \in Active => execution[j] = "queued"
      /\ execution[j] \in Outcome => execution[j] = status[j]

\* Past its read, and about to record a step of the run.
Recording(j) ==
  worker[j].at \in Progress \cup {"succeeded"} /\ worker[j].phase \in {"number", "commit"}

CancelInv ==
  \A j \in Jobs :
    /\ (\E k \in DOMAIN events[j] : events[j][k] = "cancel-requested") => cancelRequested[j]
    /\ Recording(j) => StepsAfterCancel(j) = {}
    /\ Cardinality(StepsAfterCancel(j)) <= 1

IInv ==
  /\ TypeOK /\ RowInv /\ ThreadInv /\ AdmissionInv /\ QuotaHeld /\ SlotsHeld
  /\ RunInv /\ ExecutionInv /\ LogClosesOnce /\ CancelInv
=============================================================================
