---------------------------- MODULE ScreeningJobs ---------------------------
(***************************************************************************)
(* Screening jobs: jobs/manager.py, the admission checks of api/app.py and *)
(* the command execution a job reports back to.                            *)
(*                                                                         *)
(* Three kinds of thread touch a job's row: the request that creates it,   *)
(* the requests that cancel it, and the one pool thread that runs it.      *)
(* Every handler opens its own database session, and a session takes no    *)
(* lock when it reads, so a transaction that appends to the job's event    *)
(* log is three steps here: "read" the row, "number" the event (one more   *)
(* than the largest sequence committed), and "commit" both.  The event     *)
(* lock of the manager covers the numbering only.  What keeps two          *)
(* transactions with one number apart is the UNIQUE constraint on          *)
(* (job_id, sequence): the second to commit raises.                        *)
(*                                                                         *)
(* The thread back end is modelled; a crash loses all memory, and the      *)
(* startup sweep closes the rows it left active.                           *)
(***************************************************************************)
EXTENDS Naturals, Sequences, FiniteSets

CONSTANTS Jobs,           \* identities of the requests, and of their jobs
          Accounts,
          Admins,         \* accounts exempt from the per-account slot
          Requests,       \* what a request may ask for, see Request
          Workers,        \* max_workers of the pool
          SlotsPerAccount,\* MAX_ACTIVE_JOBS_PER_ACCOUNT
          Slots,          \* MAX_ACTIVE_JOBS
          RunsPerMonth,   \* the plan's screening_runs_per_month, per account
          MaxCancels,     \* bound: cancellations made in a behaviour
          MaxCrashes,     \* bound: crashes in a behaviour
          MaxAged,        \* bound: jobs that outlive the horizon
          NoJob

\* A request's account, whether it came as a console command (and so has a
\* command execution to settle), and persist_ontology.
Request == [account : Accounts, command : BOOLEAN, persist : BOOLEAN]

ASSUME ConstantsAssumption ==
  /\ IsFiniteSet(Jobs)
  /\ NoJob \notin Jobs
  /\ Admins \subseteq Accounts
  /\ Requests \subseteq Request
  /\ Workers \in Nat \ {0}
  /\ SlotsPerAccount \in Nat \ {0}
  /\ Slots \in Nat \ {0}
  /\ RunsPerMonth \in [Accounts -> Nat]
  /\ MaxCancels \in Nat
  /\ MaxCrashes \in Nat
  /\ MaxAged \in Nat

VARIABLES
  up,          \* the API process is serving
  handler,     \* how far the request of each job has come
  request,     \* what it asked for
  admission,   \* the request that passed admission and holds the lock
  queue,       \* the pool's backlog
  worker,      \* the transaction the pool thread of each job is in
  canceller,   \* the transaction a cancel request for each job is in
  cancels,     \* cancellations made so far
  crashes,     \* crashes so far
  \* the database
  status, cancelRequested, resultRun, events,  \* screening_jobs and its events
  runs,        \* how many screening runs each job has persisted
  execution,   \* the status of the command execution of each job
  linked,      \* whether that execution names the job
  aged         \* jobs created before ACTIVE_JOB_HORIZON

memory   == <<handler, admission, queue, worker, canceller>>
rows     == <<status, cancelRequested, resultRun, events>>
commands == <<execution, linked>>
vars == <<up, handler, request, admission, queue, worker, canceller, cancels,
          crashes, status, cancelRequested, resultRun, events, runs, execution,
          linked, aged>>

Active  == {"queued", "running"}
Outcome == {"succeeded", "failed", "cancelled"}

\* The progress _run records, in order; "loaded" is the second "catalog" event.
Progress == {"catalog", "loaded", "propagation", "screening", "ontology"}
Phase    == {"read", "number", "commit", "work"}

Idle == [at |-> "off", phase |-> "read", seq |-> 0, found |-> FALSE]
At(step, phase) == [at |-> step, phase |-> phase, seq |-> 0, found |-> FALSE]

NoRequest == [account |-> NoJob, command |-> FALSE, persist |-> FALSE]

-----------------------------------------------------------------------------
(* Admission: _screening_admission, run under the admission lock.          *)

Owned(a)  == {j \in Jobs : status[j] # "none" /\ request[j].account = a}
Counted   == {j \in Jobs : status[j] \in Active /\ j \notin aged}

\* Mutant: the account's slot is only held by a job that has started.
AdmissibleByRunning(a) ==
  /\ Cardinality(Owned(a)) < RunsPerMonth[a]
  /\ a \in Admins \/ Cardinality({j \in Owned(a) : status[j] = "running"}) < SlotsPerAccount
  /\ Cardinality(Counted) < Slots

Admissible(a) ==
  /\ Cardinality(Owned(a)) < RunsPerMonth[a]
  /\ a \in Admins \/ Cardinality(Counted \cap Owned(a)) < SlotsPerAccount
  /\ Cardinality(Counted) < Slots

\* Mutant: admission and insert are not under one lock.
NoLock == TRUE

LockFree == admission = NoJob

Ask(j, r) ==
  /\ up /\ handler[j] = "none"
  /\ handler' = [handler EXCEPT ![j] = "asked"]
  /\ request' = [request EXCEPT ![j] = r]
  /\ execution' = [execution EXCEPT ![j] = IF r.command THEN "running" ELSE "none"]
  /\ UNCHANGED <<up, admission, queue, worker, canceller, cancels, crashes,
                 rows, runs, linked, aged>>

Admit(j) ==
  /\ up /\ handler[j] = "asked" /\ LockFree
  /\ Admissible(request[j].account)
  /\ admission' = j
  /\ handler' = [handler EXCEPT ![j] = "inserting"]
  /\ UNCHANGED <<up, request, queue, worker, canceller, cancels, crashes,
                 rows, runs, commands, aged>>

Refuse(j) ==
  /\ up /\ handler[j] = "asked" /\ LockFree
  /\ ~Admissible(request[j].account)
  /\ handler' = [handler EXCEPT ![j] = "refused"]
  /\ execution' = [execution EXCEPT ![j] = IF request[j].command THEN "failed" ELSE @]
  /\ UNCHANGED <<up, request, admission, queue, worker, canceller, cancels, crashes,
                 rows, runs, linked, aged>>

Insert(j) ==
  /\ up /\ handler[j] = "inserting"
  /\ admission' = NoJob
  /\ handler' = [handler EXCEPT ![j] = "submitting"]
  /\ status' = [status EXCEPT ![j] = "queued"]
  /\ events' = [events EXCEPT ![j] = <<"queued">>]
  /\ UNCHANGED <<up, request, queue, worker, canceller, cancels, crashes,
                 cancelRequested, resultRun, runs, commands, aged>>

Submit(j) ==
  /\ up /\ handler[j] = "submitting"
  /\ queue' = Append(queue, j)
  /\ handler' = [handler EXCEPT ![j] = IF request[j].command THEN "linking" ELSE "answered"]
  /\ UNCHANGED <<up, request, admission, worker, canceller, cancels, crashes,
                 rows, runs, commands, aged>>

\* execute_command names the job in the execution only after create has
\* returned, when the pool may already have run the job to its end.
Link(j) ==
  /\ up /\ handler[j] = "linking"
  /\ handler' = [handler EXCEPT ![j] = "answered"]
  /\ execution' = [execution EXCEPT ![j] = "queued"]
  /\ linked' = [linked EXCEPT ![j] = TRUE]
  /\ UNCHANGED <<up, request, admission, queue, worker, canceller, cancels, crashes,
                 rows, runs, aged>>

\* The job's created_at falls behind the horizon.  No clock bounds when: a job
\* may wait for the pool, and a timeout is only looked at between steps.
Age(j) ==
  /\ up /\ status[j] \in Active /\ j \notin aged
  /\ Cardinality(aged) < MaxAged
  /\ aged' = aged \cup {j}
  /\ UNCHANGED <<up, memory, request, cancels, crashes, rows, runs, commands>>

-----------------------------------------------------------------------------
(* Cancelling: a transaction of its own that never waits for the worker.   *)

CancelRead(j) ==
  /\ up /\ canceller[j] = Idle /\ cancels < MaxCancels
  /\ status[j] \in Active
  /\ cancels' = cancels + 1
  /\ canceller' = [canceller EXCEPT ![j] = At("cancel", "number")]
  /\ UNCHANGED <<up, handler, request, admission, queue, worker, crashes,
                 rows, runs, commands, aged>>

\* _append_event: one more than the largest sequence committed so far.
Numbered(j, tx) == [tx EXCEPT !.phase = "commit", !.seq = Len(events[j]) + 1]

CancelNumber(j) ==
  /\ up /\ canceller[j].phase = "number"
  /\ canceller' = [canceller EXCEPT ![j] = Numbered(j, @)]
  /\ UNCHANGED <<up, handler, request, admission, queue, worker, cancels, crashes,
                 rows, runs, commands, aged>>

\* The event's number is still the next one: the UNIQUE constraint admits it.
Unique(j, tx) == tx.seq = Len(events[j]) + 1

CancelCommit(j) ==
  /\ up /\ canceller[j].phase = "commit"
  /\ canceller' = [canceller EXCEPT ![j] = Idle]
  /\ IF Unique(j, canceller[j])
     THEN /\ cancelRequested' = [cancelRequested EXCEPT ![j] = TRUE]
          /\ events' = [events EXCEPT ![j] = Append(@, "cancel-requested")]
     ELSE UNCHANGED <<cancelRequested, events>>
  /\ UNCHANGED <<up, handler, request, admission, queue, worker, cancels, crashes,
                 status, resultRun, runs, commands, aged>>

-----------------------------------------------------------------------------
(* The pool thread that runs a job: _run, _progress and the two handlers.  *)

Busy == {j \in Jobs : worker[j].at # "off"}

Start(j) ==
  /\ up /\ queue # <<>> /\ j = Head(queue)
  /\ Cardinality(Busy) < Workers
  /\ queue' = Tail(queue)
  /\ worker' = [worker EXCEPT ![j] = At("catalog", "read")]
  /\ UNCHANGED <<up, handler, request, admission, canceller, cancels, crashes,
                 rows, runs, commands, aged>>

\* Mutant: only the last transaction looks for a cancellation.
StopsAtTheEnd(j) == worker[j].at = "succeeded"

StopsOnRequest(j) == worker[j].at \in Progress \cup {"succeeded"}

\* The row is loaded; a progress step, and the last one, stop here if a
\* cancellation is on it.  The closing transactions also look up the
\* executions that name the job.
Read(j) ==
  /\ up /\ worker[j].at # "off" /\ worker[j].phase = "read"
  /\ worker' = [worker EXCEPT ![j] =
       IF StopsOnRequest(j) /\ cancelRequested[j] THEN At("cancelled", "read")
       ELSE [@ EXCEPT !.phase = "number",
                      !.found = linked[j] /\ worker[j].at \in Outcome]]
  /\ UNCHANGED <<up, handler, request, admission, queue, canceller, cancels, crashes,
                 rows, runs, commands, aged>>

Number(j) ==
  /\ up /\ worker[j].at # "off" /\ worker[j].phase = "number"
  /\ worker' = [worker EXCEPT ![j] = Numbered(j, @)]
  /\ UNCHANGED <<up, handler, request, admission, queue, canceller, cancels, crashes,
                 rows, runs, commands, aged>>

\* Mutant: the persist_ontology test is the wrong way round.
AfterProgressInverted(j) ==
  CASE worker[j].at \in {"catalog", "propagation", "ontology"} -> At(worker[j].at, "work")
    [] worker[j].at = "loaded"    -> At("propagation", "read")
    [] worker[j].at = "screening" ->
         IF request[j].persist THEN At("succeeded", "read") ELSE At("ontology", "read")

\* Where _run is once a progress event is committed: in the work that follows
\* it, or at the next transaction.
AfterProgress(j) ==
  CASE worker[j].at \in {"catalog", "propagation", "ontology"} -> At(worker[j].at, "work")
    [] worker[j].at = "loaded"    -> At("propagation", "read")
    [] worker[j].at = "screening" ->
         IF request[j].persist THEN At("ontology", "read") ELSE At("succeeded", "read")

CommitProgress(j) ==
  /\ up /\ worker[j].at \in Progress /\ worker[j].phase = "commit"
  /\ Unique(j, worker[j])
  /\ status' = [status EXCEPT ![j] = "running"]
  /\ events' = [events EXCEPT ![j] = Append(@, worker[j].at)]
  /\ worker' = [worker EXCEPT ![j] = AfterProgress(j)]
  /\ UNCHANGED <<up, handler, request, admission, queue, canceller, cancels, crashes,
                 cancelRequested, resultRun, runs, commands, aged>>

\* The final transaction of a run, and those of the two exception handlers.
CommitOutcome(j) ==
  /\ up /\ worker[j].at \in Outcome /\ worker[j].phase = "commit"
  /\ Unique(j, worker[j])
  /\ status' = [status EXCEPT ![j] = worker[j].at]
  /\ events' = [events EXCEPT ![j] = Append(@, worker[j].at)]
  /\ resultRun' = [resultRun EXCEPT ![j] =
                     IF worker[j].at = "succeeded" THEN request[j].persist ELSE @]
  /\ execution' = [execution EXCEPT ![j] = IF worker[j].found THEN worker[j].at ELSE @]
  /\ worker' = [worker EXCEPT ![j] = Idle]
  /\ UNCHANGED <<up, handler, request, admission, queue, canceller, cancels, crashes,
                 cancelRequested, runs, linked, aged>>

\* A commit refused by the constraint raises IntegrityError.  Inside the try
\* block that is one more reason to fail the job; inside a handler nothing
\* catches it, and the thread leaves the job as it is.
Collide(j) ==
  /\ up /\ worker[j].at # "off" /\ worker[j].phase = "commit"
  /\ ~Unique(j, worker[j])
  /\ worker' = [worker EXCEPT ![j] =
       IF worker[j].at \in {"failed", "cancelled"} THEN Idle ELSE At("failed", "read")]
  /\ UNCHANGED <<up, handler, request, admission, queue, canceller, cancels, crashes,
                 rows, runs, commands, aged>>

\* Mutant: the last stage is taken for the status it leads to.
AfterWorkComplete(j) == CASE worker[j].at = "catalog"     -> "loaded"
                          [] worker[j].at = "propagation" -> "screening"
                          [] worker[j].at = "ontology"    -> "complete"

\* The work between two transactions, which may raise: the catalog cannot be
\* read or lacks the target, the screening is too large, the deadline passed.
AfterWork(j) == CASE worker[j].at = "catalog"     -> "loaded"
                  [] worker[j].at = "propagation" -> "screening"
                  [] worker[j].at = "ontology"    -> "succeeded"

Work(j) ==
  /\ up /\ worker[j].at \in {"catalog", "propagation"} /\ worker[j].phase = "work"
  /\ \E next \in {AfterWork(j), "failed"} :
       worker' = [worker EXCEPT ![j] = At(next, "read")]
  /\ UNCHANGED <<up, handler, request, admission, queue, canceller, cancels, crashes,
                 rows, runs, commands, aged>>

\* persist_screening_result commits the run and its cases in one transaction
\* of its own, and only then is the deadline looked at.
Persist(j) ==
  /\ up /\ worker[j].at = "ontology" /\ worker[j].phase = "work"
  /\ \/ /\ runs' = [runs EXCEPT ![j] = @ + 1]
        /\ \E next \in {AfterWork(j), "failed"} :
             worker' = [worker EXCEPT ![j] = At(next, "read")]
     \/ /\ worker' = [worker EXCEPT ![j] = At("failed", "read")]
        /\ UNCHANGED runs
  /\ UNCHANGED <<up, handler, request, admission, queue, canceller, cancels, crashes,
                 rows, commands, aged>>

-----------------------------------------------------------------------------
(* A crash loses every thread; fail_orphaned_jobs runs before serving.     *)

Crash ==
  /\ up /\ crashes < MaxCrashes
  /\ up' = FALSE
  /\ crashes' = crashes + 1
  /\ handler' = [j \in Jobs |->
       IF handler[j] \in {"none", "refused", "answered"} THEN handler[j] ELSE "lost"]
  /\ admission' = NoJob
  /\ queue' = <<>>
  /\ worker' = [j \in Jobs |-> Idle]
  /\ canceller' = [j \in Jobs |-> Idle]
  /\ UNCHANGED <<request, cancels, rows, runs, commands, aged>>

\* Mutants: the sweep takes every row, or forgets those still in the queue.
EveryRow == {j \in Jobs : status[j] # "none"}
OnlyRunning == {j \in Jobs : status[j] = "running"}

Orphans == {j \in Jobs : status[j] \in Active}

\* Mutant: the executions are not restricted to the orphans'.
EveryCommand == {j \in Jobs : linked[j]}

\* The executions that name an orphan.
OrphanCommands == {j \in Orphans : linked[j]}

Restart ==
  /\ ~up
  /\ up' = TRUE
  /\ status' = [j \in Jobs |-> IF j \in Orphans THEN "failed" ELSE status[j]]
  /\ events' = [j \in Jobs |-> IF j \in Orphans THEN Append(events[j], "failed") ELSE events[j]]
  /\ execution' = [j \in Jobs |-> IF j \in OrphanCommands THEN "failed" ELSE execution[j]]
  /\ UNCHANGED <<memory, request, cancels, crashes, cancelRequested, resultRun, runs,
                 linked, aged>>

-----------------------------------------------------------------------------
Init ==
  /\ up = TRUE
  /\ handler = [j \in Jobs |-> "none"]
  /\ request = [j \in Jobs |-> NoRequest]
  /\ admission = NoJob
  /\ queue = <<>>
  /\ worker = [j \in Jobs |-> Idle]
  /\ canceller = [j \in Jobs |-> Idle]
  /\ cancels = 0
  /\ crashes = 0
  /\ status = [j \in Jobs |-> "none"]
  /\ cancelRequested = [j \in Jobs |-> FALSE]
  /\ resultRun = [j \in Jobs |-> FALSE]
  /\ events = [j \in Jobs |-> <<>>]
  /\ runs = [j \in Jobs |-> 0]
  /\ execution = [j \in Jobs |-> "none"]
  /\ linked = [j \in Jobs |-> FALSE]
  /\ aged = {}

Handle(j) == Admit(j) \/ Refuse(j) \/ Insert(j) \/ Submit(j) \/ Link(j)
Cancel(j) == CancelNumber(j) \/ CancelCommit(j)
Run(j) == Read(j) \/ Number(j) \/ CommitProgress(j) \/ CommitOutcome(j) \/ Collide(j)
          \/ Work(j) \/ Persist(j)

Next ==
  \/ \E j \in Jobs : \E r \in Requests : Ask(j, r)
  \/ \E j \in Jobs : Handle(j) \/ Age(j) \/ CancelRead(j) \/ Cancel(j) \/ Start(j) \/ Run(j)
  \/ Crash
  \/ Restart

Spec == Init /\ [][Next]_vars

-----------------------------------------------------------------------------
(* Fairness: the pool and the request threads are run by the operating     *)
(* system, and a crashed API is started again.  Nobody has to ask for a    *)
(* screening, cancel one, or crash.                                        *)

Fairness ==
  /\ \A j \in Jobs : /\ WF_vars(Handle(j))
                     /\ WF_vars(Cancel(j))
                     /\ WF_vars(Start(j))
                     /\ WF_vars(Run(j))
  /\ WF_vars(Restart)

FairSpec == Spec /\ Fairness

-----------------------------------------------------------------------------
(* Properties                                                              *)

Events == {"queued", "cancel-requested"} \cup Progress \cup Outcome

Transaction == [at : {"off", "cancel"} \cup Progress \cup Outcome, phase : Phase,
                seq : Nat, found : BOOLEAN]

\* Every variable has its type.
TypeOK ==
  /\ up \in BOOLEAN
  /\ handler \in [Jobs -> {"none", "asked", "inserting", "submitting", "linking",
                           "answered", "refused", "lost"}]
  /\ request \in [Jobs -> Requests \cup {NoRequest}]
  /\ admission \in Jobs \cup {NoJob}
  /\ queue \in Seq(Jobs)
  /\ worker \in [Jobs -> Transaction]
  /\ canceller \in [Jobs -> Transaction]
  /\ cancels \in Nat
  /\ crashes \in Nat
  /\ status \in [Jobs -> {"none"} \cup Active \cup Outcome]
  /\ cancelRequested \in [Jobs -> BOOLEAN]
  /\ resultRun \in [Jobs -> BOOLEAN]
  /\ events \in [Jobs -> Seq(Events)]
  /\ runs \in [Jobs -> Nat]
  /\ execution \in [Jobs -> {"none", "queued", "running"} \cup Outcome]
  /\ linked \in [Jobs -> BOOLEAN]
  /\ aged \in SUBSET Jobs

\* No account gets more runs in a month than its plan allows, however its
\* requests interleave: create() admits and inserts under one lock.
QuotaHeld == \A a \in Accounts : Cardinality(Owned(a)) <= RunsPerMonth[a]

\* Jobs that still count as active never exceed the instance's slots, nor,
\* for an account that is not an administrator's, the account's.
SlotsHeld ==
  /\ Cardinality(Counted) <= Slots
  /\ \A a \in Accounts \ Admins : Cardinality(Counted \cap Owned(a)) <= SlotsPerAccount

\* The job goes through the life the abstract specification promises: whatever
\* the pool, cancellations, collisions and restarts do, an outcome is recorded
\* once and never replaced, and "cancelled" answers a recorded request.
Lifecycle == INSTANCE JobLifecycle WITH asked <- cancelRequested
ImplementsLifecycle == Lifecycle!Spec

\* A job that succeeded has persisted exactly the run it reports (none, if it
\* was asked not to); no job persists two, and only a success reports one.
ResultIsTheRun ==
  \A j \in Jobs :
    /\ runs[j] <= 1
    /\ resultRun[j] => status[j] = "succeeded" /\ runs[j] = 1
    /\ status[j] = "succeeded" => resultRun[j] = request[j].persist

\* The closing events in the log of a job.
Closing(j) == {i \in DOMAIN events[j] : events[j][i] \in Outcome}

\* The event log closes exactly once, with the outcome the row has, and after
\* the closing event only the trace of a late cancellation may follow.
LogClosesOnce ==
  \A j \in Jobs :
    /\ status[j] \notin Outcome => Closing(j) = {}
    /\ status[j] \in Outcome =>
         \E i \in DOMAIN events[j] :
           /\ Closing(j) = {i}
           /\ events[j][i] = status[j]
           /\ \A k \in DOMAIN events[j] : k > i => events[j][k] = "cancel-requested"

\* A command execution that names its job never reports another outcome than
\* the job's, nor one before the job has it.
ExecutionAgrees ==
  \A j \in Jobs : linked[j] /\ execution[j] \in Outcome => execution[j] = status[j]

\* The steps of the run that are in the log after a cancellation.
StepsAfterCancel(j) ==
  {i \in DOMAIN events[j] :
     /\ events[j][i] \in Progress \cup {"succeeded"}
     /\ \E k \in 1..(i - 1) : events[j][k] = "cancel-requested"}

\* Once a cancellation is in the log, the run records at most one more step:
\* the one whose transaction had already read the row.
CancelStopsTheRun == \A j \in Jobs : Cardinality(StepsAfterCancel(j)) <= 1

\* Every job that is queued ends, crashes or not: the pool runs it, or the
\* next startup closes it.
EveryJobEnds == \A j \in Jobs : status[j] \in Active ~> status[j] \in Outcome
=============================================================================
