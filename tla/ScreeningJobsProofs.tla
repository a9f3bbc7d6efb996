------------------------- MODULE ScreeningJobsProofs ------------------------
(***************************************************************************)
(* What ScreeningJobs guarantees for any number of jobs, accounts, pool    *)
(* threads, cancellations and crashes, and what JobStream does for any     *)
(* number of streams, by the invariant of ScreeningJobsInvariant.          *)
(***************************************************************************)
EXTENDS JobStream, ScreeningJobsInvariant, FiniteSetTheorems, TLAPS

-----------------------------------------------------------------------------
(* Types                                                                   *)

Steps == Progress \cup Outcome

\* What the records of a transaction look like, without expanding them.
LEMMA IdleType == Idle \in Transaction /\ Idle.at = "off" /\ Idle.phase = "read"
  BY DEF Idle, Transaction, Phase

LEMMA AtType ==
  ASSUME NEW step \in Steps \cup {"cancel"}, NEW phase \in Phase
  PROVE  /\ At(step, phase) \in Transaction
         /\ At(step, phase).at = step /\ At(step, phase).phase = phase
  BY DEF At, Steps, Transaction

LEMMA NumberedType ==
  ASSUME NEW j \in Jobs, NEW tx \in Transaction, events[j] \in Seq(Events)
  PROVE  /\ Numbered(j, tx) \in Transaction
         /\ Numbered(j, tx).at = tx.at /\ Numbered(j, tx).found = tx.found
         /\ Numbered(j, tx).seq = Len(events[j]) + 1
  <1>1. Len(events[j]) + 1 \in Nat
    OBVIOUS
  <1>2. QED
    BY <1>1 DEF Numbered, Transaction, Phase

LEMMA ReadType ==
  ASSUME NEW tx \in Transaction, NEW found \in BOOLEAN
  PROVE  LET next == [tx EXCEPT !.phase = "number", !.found = found]
         IN next \in Transaction /\ next.at = tx.at /\ next.found = found
  BY DEF Transaction, Phase

LEMMA AfterProgressType ==
  ASSUME NEW j \in Jobs, worker[j].at \in Progress
  PROVE  /\ AfterProgress(j) \in Transaction
         /\ AfterProgress(j).at \in Steps
         /\ AfterProgress(j).at \in Progress \cup {"succeeded"}
  <1>1. worker[j].at \in {"catalog", "loaded", "propagation", "screening", "ontology"}
    BY DEF Progress
  <1>2. CASE worker[j].at \in {"catalog", "propagation", "ontology"}
    BY <1>2, AtType DEF AfterProgress, Steps, Progress, Phase
  <1>3. CASE worker[j].at = "loaded"
    BY <1>3, AtType DEF AfterProgress, Steps, Progress, Phase
  <1>4. CASE worker[j].at = "screening"
    BY <1>4, AtType DEF AfterProgress, Steps, Progress, Outcome, Phase
  <1>5. QED
    BY <1>1, <1>2, <1>3, <1>4

\* The log of a job stays a sequence of events, one longer.
LEMMA LogGrows ==
  ASSUME NEW log \in Seq(Events), NEW e \in Events
  PROVE  Append(log, e) \in Seq(Events)
  OBVIOUS

-----------------------------------------------------------------------------
LEMMA TypeInit == Init => TypeOK
<1> SUFFICES ASSUME Init PROVE TypeOK
  OBVIOUS
<1>1. <<>> \in Seq(Jobs) /\ <<>> \in Seq(Events)
  OBVIOUS
<1>2. QED
  BY <1>1, IdleType, ConstantsAssumption DEF Init, TypeOK

\* Every step keeps every variable in its type.
LEMMA TypeStep == TypeOK /\ [Next]_vars => TypeOK'
<1> SUFFICES ASSUME TypeOK, [Next]_vars PROVE TypeOK'
  OBVIOUS
<1> USE DEF TypeOK
<1>1. ASSUME NEW j \in Jobs, NEW r \in Requests, Ask(j, r) PROVE TypeOK'
  BY <1>1 DEF Ask, rows
<1>2. ASSUME NEW j \in Jobs, Admit(j) PROVE TypeOK'
  BY <1>2 DEF Admit, rows, commands
<1>3. ASSUME NEW j \in Jobs, Refuse(j) PROVE TypeOK'
  BY <1>3 DEF Refuse, rows, Outcome
<1>4. ASSUME NEW j \in Jobs, Insert(j) PROVE TypeOK'
  <2>1. <<"queued">> \in Seq(Events)
    BY DEF Events
  <2>2. QED
    BY <1>4, <2>1 DEF Insert, commands, Active
<1>5. ASSUME NEW j \in Jobs, Submit(j) PROVE TypeOK'
  BY <1>5 DEF Submit, rows, commands
<1>6. ASSUME NEW j \in Jobs, Link(j) PROVE TypeOK'
  BY <1>6 DEF Link, rows
<1>7. ASSUME NEW j \in Jobs, Age(j) PROVE TypeOK'
  BY <1>7 DEF Age, memory, rows, commands
<1>8. ASSUME NEW j \in Jobs, CancelRead(j) PROVE TypeOK'
  <2>1. At("cancel", "number") \in Transaction
    BY AtType DEF Phase
  <2>2. QED
    BY <1>8, <2>1 DEF CancelRead, rows, commands
<1>9. ASSUME NEW j \in Jobs, CancelNumber(j) PROVE TypeOK'
  <2>1. Numbered(j, canceller[j]) \in Transaction
    BY NumberedType
  <2>2. QED
    BY <1>9, <2>1 DEF CancelNumber, rows, commands
<1>10. ASSUME NEW j \in Jobs, CancelCommit(j) PROVE TypeOK'
  <2>1. Append(events[j], "cancel-requested") \in Seq(Events)
    BY LogGrows DEF Events
  <2>2. QED
    BY <1>10, <2>1, IdleType DEF CancelCommit, commands
<1>11. ASSUME NEW j \in Jobs, Start(j) PROVE TypeOK'
  <2>1. At("catalog", "read") \in Transaction
    BY AtType DEF Phase, Steps, Progress
  <2>2. Tail(queue) \in Seq(Jobs)
    BY <1>11 DEF Start
  <2>3. QED
    BY <1>11, <2>1, <2>2 DEF Start, rows, commands
<1>12. ASSUME NEW j \in Jobs, Read(j) PROVE TypeOK'
  <2>1. At("cancelled", "read") \in Transaction
    BY AtType DEF Phase, Steps, Outcome
  <2>2. [worker[j] EXCEPT !.phase = "number", !.found = linked[j] /\ worker[j].at \in Outcome]
          \in Transaction
    BY ReadType
  <2>3. worker' \in [Jobs -> Transaction]
    BY <1>12, <2>1, <2>2 DEF Read
  <2>4. QED
    BY <1>12, <2>3 DEF Read, rows, commands
<1>13. ASSUME NEW j \in Jobs, Number(j) PROVE TypeOK'
  <2>1. Numbered(j, worker[j]) \in Transaction
    BY NumberedType
  <2>2. QED
    BY <1>13, <2>1 DEF Number, rows, commands
<1>14. ASSUME NEW j \in Jobs, CommitProgress(j) PROVE TypeOK'
  <2>1. worker[j].at \in Events
    BY <1>14 DEF CommitProgress, Events
  <2>2. Append(events[j], worker[j].at) \in Seq(Events)
    BY <2>1, LogGrows
  <2>3. AfterProgress(j) \in Transaction
    BY <1>14, AfterProgressType DEF CommitProgress
  <2>4. QED
    BY <1>14, <2>2, <2>3 DEF CommitProgress, commands, Active
<1>15. ASSUME NEW j \in Jobs, CommitOutcome(j) PROVE TypeOK'
  <2>1. worker[j].at \in Events /\ worker[j].at \in Outcome
    BY <1>15 DEF CommitOutcome, Events
  <2>2. Append(events[j], worker[j].at) \in Seq(Events)
    BY <2>1, LogGrows
  <2>3. request[j].persist \in BOOLEAN
    <3>1. request[j] \in Request \/ request[j] = NoRequest
      BY ConstantsAssumption
    <3>2. ASSUME NEW r \in Request PROVE r.persist \in BOOLEAN
      BY DEF Request
    <3>3. NoRequest.persist \in BOOLEAN
      BY DEF NoRequest
    <3>4. QED
      BY <3>1, <3>2, <3>3
  <2>4. QED
    BY <1>15, <2>1, <2>2, <2>3, IdleType DEF CommitOutcome
<1>16. ASSUME NEW j \in Jobs, Collide(j) PROVE TypeOK'
  <2>1. At("failed", "read") \in Transaction
    BY AtType DEF Phase, Steps, Outcome
  <2>2. QED
    BY <1>16, <2>1, IdleType DEF Collide, rows, commands
<1>17. ASSUME NEW j \in Jobs, Work(j) PROVE TypeOK'
  <2>1. \A next \in {AfterWork(j), "failed"} : At(next, "read") \in Transaction
    BY <1>17, AtType DEF Work, AfterWork, Phase, Steps, Progress, Outcome
  <2>2. QED
    BY <1>17, <2>1 DEF Work, rows, commands
<1>18. ASSUME NEW j \in Jobs, Persist(j) PROVE TypeOK'
  <2>1. \A next \in {AfterWork(j), "failed"} : At(next, "read") \in Transaction
    BY <1>18, AtType DEF Persist, AfterWork, Phase, Steps, Progress, Outcome
  <2>2. worker' \in [Jobs -> Transaction]
    BY <1>18, <2>1, ZenonT(60) DEF Persist
  <2>3. runs' \in [Jobs -> Nat]
    <3>1. runs' = [runs EXCEPT ![j] = runs[j] + 1] \/ runs' = runs
      BY <1>18 DEF Persist
    <3>2. runs[j] \in Nat /\ runs[j] + 1 \in Nat
      OBVIOUS
    <3>3. QED
      BY <3>1, <3>2
  <2>4. QED
    BY <1>18, <2>2, <2>3 DEF Persist, rows, commands
<1>19. CASE Crash
  <2>1. /\ handler' \in [Jobs -> {"none", "asked", "inserting", "submitting", "linking",
                                  "answered", "refused", "lost"}]
        /\ worker' \in [Jobs -> Transaction]
        /\ canceller' \in [Jobs -> Transaction]
    BY <1>19, IdleType DEF Crash
  <2>2. crashes' \in Nat
    BY <1>19 DEF Crash
  <2>3. queue' = <<>> /\ queue' \in Seq(Jobs)
    BY <1>19 DEF Crash
  <2>4. QED
    BY <1>19, <2>1, <2>2, <2>3 DEF Crash, rows, commands
<1>20. CASE Restart
  <2>1. \A j \in Jobs : Append(events[j], "failed") \in Seq(Events)
    BY LogGrows DEF Events, Outcome
  <2>2. events' \in [Jobs -> Seq(Events)]
    BY <1>20, <2>1 DEF Restart
  <2>3. QED
    BY <1>20, <2>2 DEF Restart, memory, Outcome
<1>21. CASE UNCHANGED vars
  BY <1>21 DEF vars
<1>22. QED
  BY <1>1, <1>2, <1>3, <1>4, <1>5, <1>6, <1>7, <1>8, <1>9, <1>10, <1>11, <1>12, <1>13,
     <1>14, <1>15, <1>16, <1>17, <1>18, <1>19, <1>20, <1>21 DEF Next, Handle, Cancel, Run

\* Whatever the jobs, the pool and the requests do, every variable has its type.
THEOREM TypeCorrect == Spec => []TypeOK
  BY TypeInit, TypeStep, PTL DEF Spec

\* A row that is read without stopping the run leaves the thread at its step.
LEMMA KeepsStep ==
  ASSUME TypeOK, NEW j \in Jobs, Read(j), ~(StopsOnRequest(j) /\ cancelRequested[j])
  PROVE  worker'[j].at = worker[j].at
<1>1. worker[j] \in Transaction /\ worker \in [Jobs -> Transaction]
  BY DEF TypeOK
<1> DEFINE found == linked[j] /\ worker[j].at \in Outcome
           next == [worker[j] EXCEPT !.phase = "number", !.found = found]
<1>2. next.at = worker[j].at
  BY <1>1, ReadType
<1>3. worker' = [worker EXCEPT ![j] = next]
  BY DEF Read
<1>4. worker'[j] = next
  BY <1>1, <1>3
<1>5. QED
  BY <1>2, <1>4

-----------------------------------------------------------------------------
(* Rows                                                                    *)

LEMMA RowStep == TypeOK /\ RowInv /\ ThreadInv /\ [Next]_vars => RowInv'
<1> SUFFICES ASSUME TypeOK, RowInv, ThreadInv, [Next]_vars PROVE RowInv'
  OBVIOUS
<1> USE ConstantsAssumption DEF RowInv
<1>1. ASSUME NEW j \in Jobs, NEW r \in Requests, Ask(j, r) PROVE RowInv'
  BY <1>1 DEF Ask, rows, TypeOK
<1>2. ASSUME NEW j \in Jobs, Admit(j) PROVE RowInv'
  BY <1>2 DEF Admit, LockFree, rows, TypeOK
<1>3. ASSUME NEW j \in Jobs, Refuse(j) PROVE RowInv'
  BY <1>3 DEF Refuse, rows, TypeOK
<1>4. ASSUME NEW j \in Jobs, Insert(j) PROVE RowInv'
  BY <1>4 DEF Insert, TypeOK
<1>5. ASSUME NEW j \in Jobs, Submit(j) PROVE RowInv'
  BY <1>5 DEF Submit, rows, TypeOK
<1>6. ASSUME NEW j \in Jobs, Link(j) PROVE RowInv'
  BY <1>6 DEF Link, rows, TypeOK
<1>7. ASSUME NEW j \in Jobs, CommitProgress(j) PROVE RowInv'
  <2>1. status[j] # "none" /\ worker[j].at # "off"
    BY <1>7 DEF CommitProgress, ThreadInv, Active, Progress
  <2>2. QED
    BY <1>7, <2>1 DEF CommitProgress, TypeOK
<1>8. ASSUME NEW j \in Jobs, CommitOutcome(j) PROVE RowInv'
  <2>1. status[j] # "none" /\ worker[j].at # "none"
    BY <1>8 DEF CommitOutcome, ThreadInv, Active, Outcome
  <2>2. QED
    BY <1>8, <2>1 DEF CommitOutcome, TypeOK
<1>9. CASE Crash
  BY <1>9 DEF Crash, rows, TypeOK
<1>10. CASE Restart
  BY <1>10 DEF Restart, Orphans, Active, memory, TypeOK
<1>11. ASSUME NEW j \in Jobs,
              \/ Age(j) \/ CancelRead(j) \/ Cancel(j) \/ Start(j) \/ Read(j) \/ Number(j)
              \/ Collide(j) \/ Work(j) \/ Persist(j)
       PROVE  RowInv'
  <2>1. UNCHANGED <<handler, status, admission, request>>
    BY <1>11 DEF Age, CancelRead, Cancel, CancelNumber, CancelCommit, Start, Read, Number,
                 Collide, Work, Persist, rows, memory
  <2>2. QED
    BY <2>1
<1>12. CASE UNCHANGED vars
  BY <1>12 DEF vars
<1>13. QED
  BY <1>1, <1>2, <1>3, <1>4, <1>5, <1>6, <1>7, <1>8, <1>9, <1>10, <1>11, <1>12
  DEF Next, Handle, Run

-----------------------------------------------------------------------------
(* Threads                                                                 *)

LEMMA ThreadStep == TypeOK /\ RowInv /\ ThreadInv /\ [Next]_vars => ThreadInv'
<1> SUFFICES ASSUME TypeOK, RowInv, ThreadInv, [Next]_vars PROVE ThreadInv'
  OBVIOUS
<1> USE ConstantsAssumption DEF ThreadInv
<1>1. ASSUME NEW j \in Jobs, NEW r \in Requests, Ask(j, r) PROVE ThreadInv'
  BY <1>1 DEF Ask, rows, TypeOK
<1>2. ASSUME NEW j \in Jobs, Admit(j) PROVE ThreadInv'
  BY <1>2 DEF Admit, rows, TypeOK
<1>3. ASSUME NEW j \in Jobs, Refuse(j) \/ Link(j) PROVE ThreadInv'
  <2>1. /\ UNCHANGED <<up, queue, worker, canceller, status, cancelRequested>>
        /\ up /\ \A k \in Jobs : handler'[k] = "submitting" => handler[k] = "submitting"
    BY <1>3 DEF Refuse, Link, rows, TypeOK
  <2>2. QED
    BY <2>1
<1>4. ASSUME NEW j \in Jobs, Insert(j) PROVE ThreadInv'
  BY <1>4 DEF Insert, TypeOK, RowInv, Active
<1>5. ASSUME NEW j \in Jobs, Submit(j) PROVE ThreadInv'
  <2>1. /\ up /\ handler[j] = "submitting" /\ queue' = Append(queue, j)
        /\ UNCHANGED <<up, worker, canceller, status, cancelRequested>>
        /\ \A k \in Jobs \ {j} : handler'[k] = handler[k]
        /\ handler'[j] # "submitting"
    BY <1>5 DEF Submit, rows, TypeOK
  <2>2. /\ Len(queue') = Len(queue) + 1 /\ Len(queue) \in Nat
        /\ queue'[Len(queue) + 1] = j
        /\ \A i \in 1..Len(queue) : queue'[i] = queue[i] /\ queue[i] \in Jobs /\ queue[i] # j
    <3>1. queue \in Seq(Jobs)
      BY DEF TypeOK
    <3>2. /\ Len(queue') = Len(queue) + 1 /\ Len(queue) \in Nat
          /\ queue'[Len(queue) + 1] = j
          /\ \A i \in 1..Len(queue) : queue'[i] = queue[i] /\ queue[i] \in Jobs
      <4>1. queue' = Append(queue, j)
        BY <2>1
      <4> QED BY ONLY <3>1, <4>1, j \in Jobs
    <3>3. \A i \in 1..Len(queue) : queue[i] # j
      BY <2>1
    <3> QED BY <3>2, <3>3
  <2>3. \A i \in 1..Len(queue') : i \in 1..Len(queue) \/ i = Len(queue) + 1
    BY <2>2
  <2>4. \A k \in Jobs : handler'[k] = "submitting" => \A i \in 1..Len(queue') : queue'[i] # k
    BY <2>1, <2>2, <2>3
  <2>5. \A i \in 1..Len(queue') :
          /\ status[queue'[i]] \in Active
          /\ worker[queue'[i]].at = "off"
          /\ \A k \in 1..Len(queue') : queue'[i] = queue'[k] => i = k
    BY <2>1, <2>2, <2>3
  <2>6. QED
    BY <2>1, <2>4, <2>5
<1>6. ASSUME NEW j \in Jobs, CancelRead(j) PROVE ThreadInv'
  BY <1>6 DEF CancelRead, rows, TypeOK, Active
<1>7. ASSUME NEW j \in Jobs, CancelNumber(j) PROVE ThreadInv'
  <2>1. canceller[j] # Idle
    BY <1>7, IdleType DEF CancelNumber
  <2>2. QED
    BY <1>7, <2>1 DEF CancelNumber, rows, TypeOK
<1>8. ASSUME NEW j \in Jobs, CancelCommit(j) PROVE ThreadInv'
  BY <1>8 DEF CancelCommit, TypeOK
<1>9. ASSUME NEW j \in Jobs, Start(j) PROVE ThreadInv'
  <2>1. /\ up /\ queue # <<>> /\ j = Head(queue) /\ queue' = Tail(queue)
        /\ worker' = [worker EXCEPT ![j] = At("catalog", "read")]
        /\ UNCHANGED <<up, handler, canceller, status, cancelRequested>>
    BY <1>9 DEF Start, rows
  <2>2. At("catalog", "read").at = "catalog"
    BY DEF At
  <2>3. /\ 1 \in 1..Len(queue) /\ j = queue[1]
        /\ \A i \in 1..Len(queue') : /\ i + 1 \in 1..Len(queue) /\ i + 1 # 1
                                     /\ queue'[i] = queue[i + 1] /\ queue'[i] \in Jobs
    BY <2>1 DEF TypeOK
  <2>4. /\ worker'[j].at = "catalog" /\ status[j] \in Active
        /\ \A k \in Jobs \ {j} : worker'[k] = worker[k]
        /\ handler[j] # "submitting"
    BY <2>1, <2>2, <2>3 DEF TypeOK
  <2>5. \A i \in 1..Len(queue') :
          /\ queue'[i] # j
          /\ status[queue'[i]] \in Active
          /\ worker'[queue'[i]].at = "off"
    BY <2>3, <2>4, SMTT(30)
  <2>6. \A i, k \in 1..Len(queue') : queue'[i] = queue'[k] => i = k
    <3>1. SUFFICES ASSUME NEW i \in 1..Len(queue'), NEW k \in 1..Len(queue'),
                          queue'[i] = queue'[k]
                   PROVE  i = k
      OBVIOUS
    <3>2. i + 1 = k + 1
      BY <2>3, <3>1
    <3>3. QED
      BY <3>2
  <2>7. \A k \in Jobs : handler'[k] = "submitting" =>
          \A i \in 1..Len(queue') : queue'[i] # k
    BY <2>1, <2>3
  <2>8. QED
    BY <2>1, <2>4, <2>5, <2>6, <2>7 DEF Progress
<1>10. ASSUME NEW j \in Jobs, Read(j) PROVE ThreadInv'
  <2>1. /\ worker'[j].at \in {worker[j].at, "cancelled"}
        /\ worker'[j].at = "cancelled" => cancelRequested[j] \/ worker[j].at = "cancelled"
    <3>1. CASE StopsOnRequest(j) /\ cancelRequested[j]
      BY <1>10, <3>1, AtType DEF Read, TypeOK, Outcome, Phase, Steps
    <3>2. CASE ~(StopsOnRequest(j) /\ cancelRequested[j])
      BY <1>10, <3>2, KeepsStep
    <3>3. QED
      BY <3>1, <3>2
  <2>2. /\ worker[j].at # "off" /\ up
        /\ \A k \in Jobs \ {j} : worker'[k] = worker[k]
        /\ UNCHANGED <<up, handler, queue, canceller, status, cancelRequested>>
    BY <1>10 DEF Read, rows, TypeOK
  <2>3. \A k \in Jobs : /\ worker'[k].at = "off" <=> worker[k].at = "off"
                        /\ worker'[k].at \in {"off"} \cup Progress \cup Outcome
                        /\ worker'[k].at = "cancelled" => cancelRequested[k]
    BY <2>1, <2>2 DEF Outcome
  <2>4. \A i \in 1..Len(queue) : queue[i] \in Jobs
    BY DEF TypeOK
  <2>5. QED
    BY <2>2, <2>3, <2>4
<1>11. ASSUME NEW j \in Jobs, Number(j) PROVE ThreadInv'
  BY <1>11, NumberedType DEF Number, rows, TypeOK
<1>12. ASSUME NEW j \in Jobs, CommitProgress(j) PROVE ThreadInv'
  <2>1. /\ worker[j].at # "off"
        /\ AfterProgress(j).at \in Progress \cup {"succeeded"}
    BY <1>12, AfterProgressType DEF CommitProgress, Progress
  <2>2. /\ up /\ UNCHANGED <<up, handler, queue, canceller, cancelRequested>>
        /\ \A k \in Jobs \ {j} : worker'[k] = worker[k] /\ status'[k] = status[k]
        /\ worker'[j] = AfterProgress(j) /\ status'[j] = "running"
    BY <1>12 DEF CommitProgress, TypeOK
  <2>3. handler[j] # "submitting" /\ \A i \in 1..Len(queue) : queue[i] \in Jobs \ {j}
    BY <2>1 DEF TypeOK
  <2>4. QED
    BY <2>1, <2>2, <2>3 DEF Active, Progress, Outcome
<1>13. ASSUME NEW j \in Jobs, CommitOutcome(j) PROVE ThreadInv'
  <2>1. worker[j].at # "off" /\ worker[j].at # "none"
    BY <1>13 DEF CommitOutcome, Outcome
  <2>2. /\ up /\ UNCHANGED <<up, handler, queue, canceller, cancelRequested>>
        /\ \A k \in Jobs \ {j} : worker'[k] = worker[k] /\ status'[k] = status[k]
        /\ worker'[j].at = "off" /\ status'[j] # "none"
    BY <1>13, <2>1, IdleType DEF CommitOutcome, TypeOK
  <2>3. handler[j] # "submitting" /\ \A i \in 1..Len(queue) : queue[i] \in Jobs \ {j}
    BY <2>1 DEF TypeOK
  <2>4. QED
    BY <2>2, <2>3
<1>14. ASSUME NEW j \in Jobs, Collide(j) PROVE ThreadInv'
  BY <1>14, IdleType, AtType, SMTT(30) DEF Collide, rows, TypeOK, Outcome, Phase, Steps
<1>15. ASSUME NEW j \in Jobs, Work(j) \/ Persist(j) PROVE ThreadInv'
  <2>1. PICK next \in {AfterWork(j), "failed"} : worker' = [worker EXCEPT ![j] = At(next, "read")]
    BY <1>15 DEF Work, Persist
  <2>2. /\ At(next, "read").at \in Progress \cup Outcome
        /\ At(next, "read").at # "cancelled" /\ At(next, "read").at # "off"
    <3>1. next \in {"loaded", "screening", "succeeded", "failed"}
      BY <1>15 DEF Work, Persist, AfterWork
    <3>2. QED
      BY <3>1, AtType DEF Progress, Outcome, Phase, Steps
  <2>3. /\ worker[j].at # "off" /\ up
        /\ UNCHANGED <<up, handler, queue, canceller, status, cancelRequested>>
    BY <1>15 DEF Work, Persist, rows
  <2>4. QED
    BY <2>1, <2>2, <2>3 DEF TypeOK
<1>16. ASSUME NEW j \in Jobs, Age(j) PROVE ThreadInv'
  BY <1>16 DEF Age, rows, memory
<1>17. CASE Crash
  BY <1>17, IdleType DEF Crash, rows, TypeOK
<1>18. CASE Restart
  <2>1. /\ queue' = <<>>
        /\ \A j \in Jobs : worker'[j].at = "off" /\ handler'[j] # "submitting"
    BY <1>18, IdleType DEF Restart, memory
  <2>2. \A j \in Jobs : status[j] # "none" => status'[j] # "none"
    BY <1>18 DEF Restart, TypeOK
  <2>3. QED
    BY <1>18, <2>1, <2>2 DEF Restart, memory
<1>19. CASE UNCHANGED vars
  BY <1>19 DEF vars
<1>20. QED
  BY <1>1, <1>2, <1>3, <1>4, <1>5, <1>6, <1>7, <1>8, <1>9, <1>10, <1>11, <1>12,
     <1>13, <1>14, <1>15, <1>16, <1>17, <1>18, <1>19 DEF Next, Handle, Cancel, Run

-----------------------------------------------------------------------------
(* Admission: what is counted under the lock only shrinks until the insert *)

LEMMA CountsFinite ==
  /\ \A a \in Accounts : IsFiniteSet(Owned(a)) /\ Cardinality(Owned(a)) \in Nat
  /\ \A a \in Accounts : /\ IsFiniteSet(Counted \cap Owned(a))
                         /\ Cardinality(Counted \cap Owned(a)) \in Nat
  /\ IsFiniteSet(Counted) /\ Cardinality(Counted) \in Nat
<1>1. /\ \A a \in Accounts : Owned(a) \in SUBSET Jobs /\ Counted \cap Owned(a) \in SUBSET Jobs
      /\ Counted \in SUBSET Jobs
  BY DEF Owned, Counted
<1>2. \A S \in SUBSET Jobs : IsFiniteSet(S) /\ Cardinality(S) \in Nat
  BY ConstantsAssumption, FS_Subset, FS_CardinalityType
<1>3. QED
  BY <1>1, <1>2

LEMMA FewerCount ==
  ASSUME NEW S, IsFiniteSet(S), NEW T \in SUBSET S
  PROVE  /\ Cardinality(T) <= Cardinality(S)
         /\ Cardinality(T) \in Nat /\ Cardinality(S) \in Nat
  BY FS_Subset, FS_CardinalityType

LEMMA OneMoreCount ==
  ASSUME NEW S, IsFiniteSet(S), NEW x, NEW T \in SUBSET (S \cup {x})
  PROVE  /\ Cardinality(T) <= Cardinality(S) + 1
         /\ Cardinality(T) \in Nat /\ Cardinality(S) \in Nat
<1>1. /\ IsFiniteSet(S \cup {x})
      /\ Cardinality(S \cup {x}) = IF x \in S THEN Cardinality(S) ELSE Cardinality(S) + 1
  BY FS_AddElement
<1>2. Cardinality(S) \in Nat
  BY FS_CardinalityType
<1>3. Cardinality(T) <= Cardinality(S \cup {x}) /\ Cardinality(T) \in Nat
  BY <1>1, FewerCount
<1>4. QED
  BY <1>1, <1>2, <1>3

LEMMA OwnerKnown ==
  ASSUME RowInv, NEW j \in Jobs, handler[j] # "none"
  PROVE  request[j].account \in Accounts
  BY ConstantsAssumption DEF RowInv, Request

\* Only an insert changes whose rows there are, or adds to the active ones.
LEMMA CountsStep ==
  ASSUME TypeOK, RowInv, ThreadInv, [Next]_vars, \A j \in Jobs : ~Insert(j)
  PROVE  /\ \A a \in Accounts : Owned(a)' = Owned(a)
         /\ Counted' \subseteq Counted
<1> USE DEF Owned, Counted
<1>1. ASSUME NEW j \in Jobs, NEW r \in Requests, Ask(j, r)
      PROVE  (\A a \in Accounts : Owned(a)' = Owned(a)) /\ Counted' \subseteq Counted
  <2>1. status[j] = "none" /\ UNCHANGED <<status, aged>>
    BY <1>1 DEF Ask, RowInv, rows
  <2>2. \A k \in Jobs \ {j} : request'[k] = request[k]
    BY <1>1 DEF Ask, TypeOK
  <2>3. QED
    BY <2>1, <2>2
<1>2. ASSUME NEW j \in Jobs, CommitProgress(j) \/ CommitOutcome(j)
      PROVE  (\A a \in Accounts : Owned(a)' = Owned(a)) /\ Counted' \subseteq Counted
  <2>1. worker[j].at # "off" /\ worker[j].at # "none"
    BY <1>2 DEF CommitProgress, CommitOutcome, Progress, Outcome
  <2>2. status[j] \in Active /\ status[j] # "none" /\ UNCHANGED <<request, aged>>
    BY <1>2, <2>1 DEF CommitProgress, CommitOutcome, ThreadInv, Active
  <2>3. status'[j] # "none" /\ \A k \in Jobs \ {j} : status'[k] = status[k]
    BY <1>2, <2>1 DEF CommitProgress, CommitOutcome, TypeOK
  <2>4. QED
    BY <2>2, <2>3
<1>3. ASSUME Restart
      PROVE  (\A a \in Accounts : Owned(a)' = Owned(a)) /\ Counted' \subseteq Counted
  BY <1>3 DEF Restart, Orphans, Active
<1>4. ASSUME NEW j \in Jobs, Age(j)
      PROVE  (\A a \in Accounts : Owned(a)' = Owned(a)) /\ Counted' \subseteq Counted
  BY <1>4 DEF Age, rows
<1>5. ASSUME UNCHANGED <<status, request, aged>>
      PROVE  (\A a \in Accounts : Owned(a)' = Owned(a)) /\ Counted' \subseteq Counted
  BY <1>5
<1>6. ASSUME NEW j \in Jobs,
             \/ Admit(j) \/ Refuse(j) \/ Submit(j) \/ Link(j) \/ CancelRead(j) \/ Cancel(j)
             \/ Start(j) \/ Read(j) \/ Number(j) \/ Collide(j) \/ Work(j) \/ Persist(j)
      PROVE  UNCHANGED <<status, request, aged>>
  BY <1>6 DEF Admit, Refuse, Submit, Link, CancelRead, Cancel, CancelNumber, CancelCommit,
              Start, Read, Number, Collide, Work, Persist, rows
<1>7. CASE Crash
  BY <1>7, <1>5 DEF Crash, rows
<1>8. CASE UNCHANGED vars
  BY <1>8, <1>5 DEF vars
<1>9. QED
  BY <1>1, <1>2, <1>3, <1>4, <1>5, <1>6, <1>7, <1>8 DEF Next, Handle, Run

\* An insert adds one row, and that of the request the lock admitted.
LEMMA InsertStep ==
  ASSUME TypeOK, RowInv, NEW j \in Jobs, Insert(j)
  PROVE  /\ j = admission /\ request[j].account \in Accounts
         /\ \A a \in Accounts :
              Owned(a)' = IF a = request[j].account THEN Owned(a) \cup {j} ELSE Owned(a)
         /\ Counted' \subseteq Counted \cup {j}
<1>1. handler[j] = "inserting" /\ j = admission /\ UNCHANGED <<request, aged>>
  BY DEF Insert, RowInv
<1>2. status[j] = "none"
  BY <1>1 DEF RowInv
<1>3. status' = [status EXCEPT ![j] = "queued"]
  BY DEF Insert
<1>4. request[j].account \in Accounts
  BY <1>1, OwnerKnown
<1>5. \A a \in Accounts :
        Owned(a)' = IF a = request[j].account THEN Owned(a) \cup {j} ELSE Owned(a)
  BY <1>1, <1>2, <1>3 DEF Owned, TypeOK
<1>6. Counted' \subseteq Counted \cup {j}
  BY <1>1, <1>2, <1>3 DEF Counted, TypeOK
<1>7. QED
  BY <1>1, <1>4, <1>5, <1>6

LEMMA AdmissionStep ==
  ASSUME TypeOK, RowInv, ThreadInv, AdmissionInv, [Next]_vars
  PROVE  AdmissionInv'
<1>1. CASE \E j \in Jobs : Insert(j)
  BY <1>1 DEF Insert, AdmissionInv
<1>2. CASE \E j \in Jobs : Admit(j)
  <2>1. PICK j \in Jobs : Admit(j)
    BY <1>2
  <2>2. /\ admission' = j /\ Admissible(request[j].account)
        /\ UNCHANGED <<status, request, aged>>
    BY <2>1 DEF Admit, rows
  <2>3. Admissible(request[j].account)'
    BY <2>2 DEF Admissible, Owned, Counted
  <2>4. QED
    BY <2>2, <2>3 DEF AdmissionInv
<1>3. CASE \A j \in Jobs : ~Insert(j) /\ ~Admit(j)
  <2>1. admission' = admission \/ admission' = NoJob
    BY <1>3 DEF Next, Handle, Cancel, Run, Ask, Refuse, Submit, Link, Age, CancelRead,
                CancelNumber, CancelCommit, Start, Read, Number, CommitProgress,
                CommitOutcome, Collide, Work, Persist, Crash, Restart, vars, memory
  <2>2. SUFFICES ASSUME admission' = admission, admission # NoJob
                 PROVE  Admissible(request[admission].account)'
    BY <2>1 DEF AdmissionInv
  <2>3. admission \in Jobs /\ handler[admission] = "inserting"
    BY <2>2 DEF TypeOK, RowInv
  <2>4. request'[admission] = request[admission]
    BY <1>3, <2>3 DEF Next, Handle, Cancel, Run, Ask, Refuse, Submit, Link, Age, CancelRead,
                CancelNumber, CancelCommit, Start, Read, Number, CommitProgress,
                CommitOutcome, Collide, Work, Persist, Crash, Restart, vars, TypeOK
  <2>5. PICK a \in Accounts : a = request[admission].account
    BY <2>3, OwnerKnown
  <2>6. Owned(a)' = Owned(a) /\ Counted' \subseteq Counted
    BY <1>3, CountsStep
  <2>7. /\ Cardinality(Counted') <= Cardinality(Counted)
        /\ Cardinality(Counted' \cap Owned(a)) <= Cardinality(Counted \cap Owned(a))
        /\ Cardinality(Counted') \in Nat
        /\ Cardinality(Counted' \cap Owned(a)) \in Nat
    <3>1. Counted' \in SUBSET Counted
          /\ Counted' \cap Owned(a) \in SUBSET (Counted \cap Owned(a))
      BY <2>6
    <3>2. QED
      BY <3>1, CountsFinite, FewerCount
  <2>8. Admissible(a)
    BY <2>2, <2>5 DEF AdmissionInv
  <2>9. Admissible(a)'
    <3>1. Cardinality(Owned(a)') < RunsPerMonth[a]
      BY <2>6, <2>8 DEF Admissible
    <3>2. Cardinality(Counted') < Slots
      BY <2>7, <2>8, CountsFinite, ConstantsAssumption DEF Admissible
    <3>3. ASSUME a \notin Admins
          PROVE  Cardinality(Counted' \cap Owned(a)') < SlotsPerAccount
      <4>1. Cardinality(Counted \cap Owned(a)) < SlotsPerAccount
        BY <2>8, <3>3 DEF Admissible
      <4>2. Cardinality(Counted \cap Owned(a)) \in Nat /\ SlotsPerAccount \in Nat
        BY CountsFinite, ConstantsAssumption
      <4>3. Cardinality(Counted' \cap Owned(a)) < SlotsPerAccount
        BY <2>7, <4>1, <4>2
      <4>4. QED
        BY <2>6, <4>3
    <3>4. QED
      BY <3>1, <3>2, <3>3 DEF Admissible
  <2>10. a = request'[admission'].account
    BY <2>2, <2>4, <2>5
  <2>11. QED
    BY <2>9, <2>10 DEF Admissible
<1>4. QED
  BY <1>1, <1>2, <1>3

LEMMA QuotaStep ==
  ASSUME TypeOK, RowInv, ThreadInv, AdmissionInv, QuotaHeld, [Next]_vars
  PROVE  QuotaHeld'
<1>1. CASE \A j \in Jobs : ~Insert(j)
  BY <1>1, CountsStep DEF QuotaHeld
<1>2. ASSUME NEW j \in Jobs, Insert(j), NEW a \in Accounts
      PROVE  Cardinality(Owned(a)') <= RunsPerMonth[a]
  <2>1. CASE a = request[j].account
    <3>1. Owned(a)' = Owned(a) \cup {j}
      BY <1>2, <2>1, InsertStep
    <3>2. Cardinality(Owned(a)) < RunsPerMonth[a]
      <4>1. j = admission /\ admission # NoJob
        BY <1>2, InsertStep, ConstantsAssumption
      <4>2. QED
        BY <4>1, <2>1 DEF AdmissionInv, Admissible
    <3>3. /\ Cardinality(Owned(a)') <= Cardinality(Owned(a)) + 1
          /\ Cardinality(Owned(a)') \in Nat
      BY <3>1, CountsFinite, OneMoreCount
    <3>4. QED
      BY <3>2, <3>3, CountsFinite, ConstantsAssumption
  <2>2. CASE a # request[j].account
    BY <1>2, <2>2, InsertStep DEF QuotaHeld
  <2>3. QED
    BY <2>1, <2>2
<1>3. QED
  BY <1>1, <1>2 DEF QuotaHeld

LEMMA SlotsStep ==
  ASSUME TypeOK, RowInv, ThreadInv, AdmissionInv, SlotsHeld, [Next]_vars
  PROVE  SlotsHeld'
<1> USE ConstantsAssumption
<1> DEFINE Mine(a) == Counted \cap Owned(a)
<1>1. \A a \in Accounts : IsFiniteSet(Mine(a))
  BY CountsFinite
<1>2. ASSUME \A j \in Jobs : ~Insert(j) PROVE SlotsHeld'
  <2>1. /\ Counted' \in SUBSET Counted
        /\ \A a \in Accounts : Counted' \cap Owned(a)' \in SUBSET Mine(a)
    BY <1>2, CountsStep
  <2>2. Cardinality(Counted') <= Slots
    <3>1. Cardinality(Counted') <= Cardinality(Counted) /\ Cardinality(Counted') \in Nat
      BY <2>1, CountsFinite, FewerCount
    <3>2. QED
      BY <3>1, CountsFinite DEF SlotsHeld
  <2>3. ASSUME NEW a \in Accounts \ Admins
        PROVE  Cardinality(Counted' \cap Owned(a)') <= SlotsPerAccount
    <3>1. /\ Cardinality(Counted' \cap Owned(a)') <= Cardinality(Mine(a))
          /\ Cardinality(Counted' \cap Owned(a)') \in Nat /\ Cardinality(Mine(a)) \in Nat
      BY <1>1, <2>1, FewerCount
    <3>2. Cardinality(Mine(a)) <= SlotsPerAccount
      BY DEF SlotsHeld
    <3>3. QED
      BY <3>1, <3>2
  <2>4. QED
    BY <2>2, <2>3 DEF SlotsHeld
<1>3. ASSUME NEW j \in Jobs, Insert(j) PROVE SlotsHeld'
  <2>1. PICK b \in Accounts : b = request[j].account
    BY <1>3, InsertStep
  <2>2. Admissible(b) /\ Counted' \in SUBSET (Counted \cup {j})
    <3>1. j = admission /\ admission # NoJob
      BY <1>3, InsertStep
    <3>2. QED
      BY <1>3, <2>1, <3>1, InsertStep DEF AdmissionInv
  <2>3. Cardinality(Counted') <= Slots
    <3>1. Cardinality(Counted') <= Cardinality(Counted) + 1 /\ Cardinality(Counted') \in Nat
      BY <2>2, CountsFinite, OneMoreCount
    <3>2. QED
      BY <2>2, <3>1, CountsFinite DEF Admissible
  <2>4. ASSUME NEW a \in Accounts \ Admins
        PROVE  Cardinality(Counted' \cap Owned(a)') <= SlotsPerAccount
    <3>1. CASE a = b
      <4>1. Counted' \cap Owned(a)' \in SUBSET (Mine(a) \cup {j})
        BY <1>3, <2>1, <2>2, <3>1, InsertStep
      <4>2. /\ Cardinality(Counted' \cap Owned(a)') <= Cardinality(Mine(a)) + 1
            /\ Cardinality(Counted' \cap Owned(a)') \in Nat /\ Cardinality(Mine(a)) \in Nat
        BY <1>1, <4>1, OneMoreCount
      <4>3. Cardinality(Mine(a)) < SlotsPerAccount
        BY <2>2, <3>1 DEF Admissible
      <4>4. QED
        BY <4>2, <4>3
    <3>2. CASE a # b
      <4>1. Owned(a)' = Owned(a) /\ j \notin Owned(a)
        BY <1>3, <2>1, <3>2, InsertStep DEF Owned
      <4>2. Counted' \cap Owned(a)' \in SUBSET Mine(a)
        BY <2>2, <4>1
      <4>3. /\ Cardinality(Counted' \cap Owned(a)') <= Cardinality(Mine(a))
            /\ Cardinality(Counted' \cap Owned(a)') \in Nat /\ Cardinality(Mine(a)) \in Nat
        BY <1>1, <4>2, FewerCount
      <4>4. Cardinality(Mine(a)) <= SlotsPerAccount
        BY DEF SlotsHeld
      <4>5. QED
        BY <4>3, <4>4
    <3>3. QED
      BY <3>1, <3>2
  <2>5. QED
    BY <2>3, <2>4 DEF SlotsHeld
<1>4. QED
  BY <1>2, <1>3

-----------------------------------------------------------------------------
(* Runs                                                                    *)

LEMMA RunStep ==
  ASSUME TypeOK, RowInv, ThreadInv, RunInv, [Next]_vars
  PROVE  RunInv'
<1> USE DEF RunInv
<1>0. \A i \in 1..Len(queue) : queue[i] \in Jobs
  BY DEF TypeOK
<1>1. ASSUME NEW j \in Jobs, NEW r \in Requests, Ask(j, r) PROVE RunInv'
  <2>1. status[j] = "none" /\ worker[j].at = "off" /\ resultRun[j] = FALSE
    BY <1>1 DEF Ask, RowInv, ThreadInv, Active, TypeOK
  <2>2. /\ UNCHANGED <<runs, status, worker, resultRun, queue>>
        /\ \A k \in Jobs \ {j} : request'[k] = request[k]
        /\ \A k \in Jobs : handler'[k] = "submitting" => handler[k] = "submitting"
    BY <1>1 DEF Ask, rows, TypeOK
  <2>3. QED
    BY <2>1, <2>2
<1>2. ASSUME NEW j \in Jobs, Insert(j) PROVE RunInv'
  <2>1. status[j] = "none" /\ worker[j].at = "off"
    BY <1>2 DEF Insert, RowInv, ThreadInv, Active, TypeOK
  <2>2. QED
    BY <1>2, <2>1 DEF Insert, TypeOK
<1>3. ASSUME NEW j \in Jobs, Submit(j) PROVE RunInv'
  <2>1. /\ UNCHANGED <<runs, status, worker, resultRun, request>>
        /\ \A k \in Jobs : handler'[k] = "submitting" => handler[k] = "submitting"
    BY <1>3 DEF Submit, rows, TypeOK
  <2>2. \A i \in 1..Len(queue') : runs[queue'[i]] = 0
    BY <1>3 DEF Submit, TypeOK
  <2>3. QED
    BY <2>1, <2>2
<1>4. ASSUME NEW j \in Jobs, Start(j) PROVE RunInv'
  <2>1. runs[j] = 0 /\ Tail(queue) \in Seq(Jobs)
        /\ \A i \in 1..Len(Tail(queue)) : runs[Tail(queue)[i]] = 0
    BY <1>4 DEF Start, TypeOK
  <2>2. At("catalog", "read").at = "catalog"
    BY DEF At
  <2>3. QED
    BY <1>4, <2>1, <2>2 DEF Start, TypeOK, rows
<1>5. ASSUME NEW j \in Jobs, Read(j) \/ Number(j) \/ Collide(j) PROVE RunInv'
  <2>1. /\ UNCHANGED <<runs, status, resultRun, request, handler, queue>>
        /\ \A k \in Jobs \ {j} : worker'[k] = worker[k]
    BY <1>5 DEF Read, Number, Collide, rows, TypeOK
  <2>2. worker'[j].at \in {worker[j].at, "cancelled", "failed", "off"}
    <3>1. CASE Read(j) /\ StopsOnRequest(j) /\ cancelRequested[j]
      BY <3>1 DEF Read, At, TypeOK
    <3>2. CASE Read(j) /\ ~(StopsOnRequest(j) /\ cancelRequested[j])
      BY <3>2, KeepsStep
    <3>3. CASE Number(j)
      BY <3>3, NumberedType DEF Number, TypeOK
    <3>4. CASE Collide(j)
      BY <3>4, IdleType DEF Collide, At, TypeOK
    <3>5. QED
      BY <1>5, <3>1, <3>2, <3>3, <3>4
  <2>3. QED
    BY <2>1, <2>2 DEF Progress
<1>6. ASSUME NEW j \in Jobs, CommitProgress(j) PROVE RunInv'
  <2>1. /\ worker[j].at \in Progress /\ runs[j] = 0 /\ status[j] \in Active
        /\ AfterProgress(j).at \in Progress \cup {"succeeded"}
        /\ AfterProgress(j).at = "ontology" => request[j].persist
        /\ AfterProgress(j).at = "succeeded" => ~request[j].persist
    BY <1>6 DEF CommitProgress, ThreadInv, Progress, AfterProgress, At
  <2>2. handler[j] # "submitting" /\ resultRun[j] = FALSE
    BY <2>1 DEF ThreadInv, Progress, Active, TypeOK
  <2>3. QED
    BY <1>6, <2>1, <2>2 DEF CommitProgress, TypeOK, Progress
<1>7. ASSUME NEW j \in Jobs, CommitOutcome(j) PROVE RunInv'
  <2>1. worker[j].at \in Outcome /\ status[j] \in Active /\ handler[j] # "submitting"
    BY <1>7 DEF CommitOutcome, ThreadInv, Outcome
  <2>2. resultRun[j] = FALSE
    BY <2>1 DEF Active, TypeOK
  <2>3. QED
    BY <1>7, <2>1, <2>2, IdleType DEF CommitOutcome, TypeOK, Outcome, Progress
<1>8. ASSUME NEW j \in Jobs, Work(j) PROVE RunInv'
  <2>1. runs[j] = 0 /\ worker'[j].at \in {"loaded", "screening", "failed"}
    BY <1>8 DEF Work, AfterWork, At, Progress, TypeOK
  <2>2. /\ UNCHANGED <<runs, status, resultRun, request, handler, queue>>
        /\ \A k \in Jobs \ {j} : worker'[k] = worker[k]
    BY <1>8 DEF Work, rows, TypeOK
  <2>3. QED
    BY <2>1, <2>2
<1>9. ASSUME NEW j \in Jobs, Persist(j) PROVE RunInv'
  <2>1. /\ runs[j] = 0 /\ request[j].persist /\ status[j] \in Active
        /\ handler[j] # "submitting" /\ \A i \in 1..Len(queue) : queue[i] # j
    BY <1>9 DEF Persist, Progress, ThreadInv
  <2>2. /\ UNCHANGED <<status, resultRun, request, handler, queue>>
        /\ \A k \in Jobs \ {j} : worker'[k] = worker[k] /\ runs'[k] = runs[k]
    BY <1>9 DEF Persist, rows, TypeOK
  <2>3. \/ worker'[j].at = "succeeded" /\ runs'[j] = 1
        \/ worker'[j].at = "failed" /\ runs'[j] \in {0, 1}
    BY <1>9, <2>1 DEF Persist, AfterWork, At, TypeOK
  <2>4. QED
    BY <1>0, <2>1, <2>2, <2>3 DEF Progress, Active
<1>10. ASSUME NEW j \in Jobs,
              Admit(j) \/ Refuse(j) \/ Link(j) \/ Age(j) \/ CancelRead(j) \/ Cancel(j)
       PROVE  RunInv'
  <2>1. /\ UNCHANGED <<runs, status, worker, resultRun, request, queue>>
        /\ \A k \in Jobs : handler'[k] = "submitting" => handler[k] = "submitting"
    BY <1>10 DEF Admit, Refuse, Link, Age, CancelRead, Cancel, CancelNumber, CancelCommit,
                 rows, memory, TypeOK
  <2>2. QED
    BY <2>1
<1>11. CASE Crash
  BY <1>11, IdleType DEF Crash, rows, Progress
<1>12. CASE Restart
  <2>1. /\ status' = [j \in Jobs |-> IF status[j] \in Active THEN "failed" ELSE status[j]]
        /\ UNCHANGED <<runs, worker, resultRun, request, handler, queue>>
    BY <1>12 DEF Restart, Orphans, memory
  <2>2. QED
    BY <2>1 DEF Active
<1>13. CASE UNCHANGED vars
  BY <1>13 DEF vars
<1>14. QED
  BY <1>1, <1>2, <1>3, <1>4, <1>5, <1>6, <1>7, <1>8, <1>9, <1>10, <1>11, <1>12, <1>13
  DEF Next, Handle, Run

-----------------------------------------------------------------------------
(* Command executions                                                      *)

LEMMA ExecutionStep ==
  ASSUME TypeOK, RowInv, ThreadInv, ExecutionInv, [Next]_vars
  PROVE  ExecutionInv'
<1> USE DEF ExecutionInv
<1>1. ASSUME NEW j \in Jobs, NEW r \in Requests, Ask(j, r) PROVE ExecutionInv'
  <2>1. ~linked[j] /\ \A k \in Jobs \ {j} : execution'[k] = execution[k] /\ handler'[k] = handler[k]
    BY <1>1 DEF Ask, TypeOK
  <2>2. QED
    BY <1>1, <2>1 DEF Ask, rows
<1>2. ASSUME NEW j \in Jobs, Refuse(j) PROVE ExecutionInv'
  <2>1. ~linked[j] /\ \A k \in Jobs \ {j} : execution'[k] = execution[k] /\ handler'[k] = handler[k]
    BY <1>2 DEF Refuse, TypeOK
  <2>2. QED
    BY <1>2, <2>1 DEF Refuse, rows
<1>3. ASSUME NEW j \in Jobs, Insert(j) PROVE ExecutionInv'
  <2>1. ~linked[j] /\ \A k \in Jobs \ {j} : status'[k] = status[k] /\ handler'[k] = handler[k]
    BY <1>3 DEF Insert, TypeOK
  <2>2. QED
    BY <1>3, <2>1 DEF Insert, commands
<1>4. ASSUME NEW j \in Jobs, Admit(j) \/ Submit(j) PROVE ExecutionInv'
  <2>1. ~linked[j] /\ \A k \in Jobs \ {j} : handler'[k] = handler[k]
    BY <1>4 DEF Admit, Submit, TypeOK
  <2>2. UNCHANGED <<status, execution, linked>>
    BY <1>4 DEF Admit, Submit, rows, commands
  <2>3. QED
    BY <2>1, <2>2
<1>5. ASSUME NEW j \in Jobs, Link(j) PROVE ExecutionInv'
  BY <1>5 DEF Link, rows, TypeOK, Outcome
<1>6. ASSUME NEW j \in Jobs, CommitProgress(j) PROVE ExecutionInv'
  <2>1. status[j] \in Active
    BY <1>6 DEF CommitProgress, ThreadInv, Progress
  <2>2. QED
    BY <1>6, <2>1 DEF CommitProgress, commands, TypeOK, Active, Outcome
<1>7. ASSUME NEW j \in Jobs, CommitOutcome(j) PROVE ExecutionInv'
  <2>1. status[j] \in Active /\ status'[j] \notin Active /\ status'[j] = worker[j].at
    BY <1>7 DEF CommitOutcome, ThreadInv, Outcome, Active, TypeOK
  <2>2. linked[j] => execution'[j] \in {"queued", status'[j]}
    BY <1>7, <2>1 DEF CommitOutcome, TypeOK
  <2>3. /\ \A k \in Jobs \ {j} : execution'[k] = execution[k] /\ status'[k] = status[k]
        /\ UNCHANGED <<handler, linked>>
    BY <1>7 DEF CommitOutcome, TypeOK
  <2>4. QED
    BY <2>1, <2>2, <2>3 DEF Outcome
<1>8. ASSUME NEW j \in Jobs,
             \/ Age(j) \/ CancelRead(j) \/ Cancel(j) \/ Start(j) \/ Read(j) \/ Number(j)
             \/ Collide(j) \/ Work(j) \/ Persist(j)
      PROVE  ExecutionInv'
  <2>1. UNCHANGED <<handler, status, execution, linked>>
    BY <1>8 DEF Age, CancelRead, Cancel, CancelNumber, CancelCommit, Start, Read, Number,
                Collide, Work, Persist, rows, memory, commands
  <2>2. QED
    BY <2>1
<1>9. CASE Crash
  BY <1>9 DEF Crash, rows, commands
<1>10. CASE Restart
  <2>1. /\ status' = [j \in Jobs |-> IF j \in Orphans THEN "failed" ELSE status[j]]
        /\ execution' = [j \in Jobs |->
                           IF j \in Orphans /\ linked[j] THEN "failed" ELSE execution[j]]
        /\ UNCHANGED <<handler, linked>>
    BY <1>10 DEF Restart, OrphanCommands, memory, commands
  <2>2. QED
    BY <2>1 DEF Active
<1>11. CASE UNCHANGED vars
  BY <1>11 DEF vars
<1>12. QED
  BY <1>1, <1>2, <1>3, <1>4, <1>5, <1>6, <1>7, <1>8, <1>9, <1>10, <1>11
  DEF Next, Handle, Run

-----------------------------------------------------------------------------
(* The event log                                                           *)

\* A log that is open and gets an event that does not close it stays open;
\* one that closes it has that event as its only closing one.
LEMMA LogAppend ==
  ASSUME NEW log \in Seq(Events), NEW e \in Events
  PROVE  /\ DOMAIN Append(log, e) = DOMAIN log \cup {Len(log) + 1}
         /\ Len(log) + 1 \notin DOMAIN log /\ \A i \in DOMAIN log : i < Len(log) + 1
         /\ Append(log, e)[Len(log) + 1] = e
         /\ \A i \in DOMAIN log : Append(log, e)[i] = log[i]
  OBVIOUS

\* One job's part of LogClosesOnce, for any status and log.
LogOf(state, log) ==
  LET closing == {i \in DOMAIN log : log[i] \in Outcome}
  IN /\ state \notin Outcome => closing = {}
     /\ state \in Outcome =>
          \E i \in DOMAIN log : /\ closing = {i}
                                /\ log[i] = state
                                /\ \A k \in DOMAIN log : k > i => log[k] = "cancel-requested"

LEMMA LogOpen ==
  ASSUME NEW state, NEW next, NEW log \in Seq(Events), NEW e \in Events \ Outcome,
         LogOf(state, log), state \notin Outcome, next \notin Outcome
  PROVE  LogOf(next, Append(log, e))
  BY LogAppend DEF LogOf

LEMMA LogCloses ==
  ASSUME NEW state, NEW log \in Seq(Events), NEW e \in Outcome,
         LogOf(state, log), state \notin Outcome
  PROVE  LogOf(e, Append(log, e))
<1>1. e \in Events
  BY DEF Events
<1>2. \A i \in DOMAIN log : log[i] \notin Outcome
  BY DEF LogOf
<1>3. {i \in DOMAIN Append(log, e) : Append(log, e)[i] \in Outcome} = {Len(log) + 1}
  BY <1>1, <1>2, LogAppend
<1>4. \A k \in DOMAIN Append(log, e) : ~(k > Len(log) + 1)
  BY <1>1, LogAppend
<1>5. QED
  BY <1>1, <1>3, <1>4, LogAppend DEF LogOf

LEMMA LogLate ==
  ASSUME NEW state, NEW log \in Seq(Events), LogOf(state, log)
  PROVE  LogOf(state, Append(log, "cancel-requested"))
<1>1. "cancel-requested" \in Events \ Outcome
  BY DEF Events, Outcome
<1>2. CASE state \notin Outcome
  BY <1>1, <1>2, LogOpen
<1>3. CASE state \in Outcome
  <2>1. PICK i \in DOMAIN log : /\ {k \in DOMAIN log : log[k] \in Outcome} = {i}
                                /\ log[i] = state
                                /\ \A k \in DOMAIN log : k > i => log[k] = "cancel-requested"
    BY <1>3 DEF LogOf
  <2> DEFINE longer == Append(log, "cancel-requested")
  <2>2. {k \in DOMAIN longer : longer[k] \in Outcome} = {i}
    BY <1>1, <2>1, LogAppend
  <2>3. longer[i] = state /\ i \in DOMAIN longer
    BY <1>1, <2>1, LogAppend
  <2>4. \A k \in DOMAIN longer : k > i => longer[k] = "cancel-requested"
    BY <1>1, <2>1, LogAppend
  <2>5. QED
    BY <1>3, <2>2, <2>3, <2>4 DEF LogOf
<1>4. QED
  BY <1>2, <1>3

LEMMA LogIs == LogClosesOnce <=> \A j \in Jobs : LogOf(status[j], events[j])
  BY DEF LogClosesOnce, LogOf, Closing

LEMMA LogStep ==
  ASSUME TypeOK, RowInv, ThreadInv, LogClosesOnce, [Next]_vars
  PROVE  LogClosesOnce'
<1> DEFINE Kept(k) == LogOf(status'[k], events'[k])
<1> SUFFICES ASSUME NEW k \in Jobs PROVE Kept(k)
  BY DEF LogClosesOnce, LogOf, Closing
<1>1. LogOf(status[k], events[k]) /\ events[k] \in Seq(Events)
  BY LogIs DEF TypeOK
<1> HIDE DEF Kept
<1>2. CASE status'[k] = status[k] /\ events'[k] = events[k]
  BY <1>1, <1>2 DEF Kept
<1>3. ASSUME NEW j \in Jobs, Insert(j) PROVE Kept(k)
  <2>1. CASE k = j
    <3>1. status'[k] = "queued" /\ events'[k] = <<"queued">>
      BY <1>3, <2>1 DEF Insert, TypeOK
    <3>2. LogOf("queued", <<"queued">>)
      BY DEF LogOf, Outcome
    <3>3. QED
      BY <3>1, <3>2 DEF Kept
  <2>2. CASE k # j
    BY <1>2, <1>3, <2>2 DEF Insert, TypeOK
  <2>3. QED
    BY <2>1, <2>2
<1>4. ASSUME NEW j \in Jobs, CancelCommit(j) PROVE Kept(k)
  <2>1. /\ status' = status
        /\ \/ events' = events
           \/ events' = [events EXCEPT ![j] = Append(events[j], "cancel-requested")]
    BY <1>4 DEF CancelCommit
  <2>2. events'[k] \in {events[k], Append(events[k], "cancel-requested")}
    BY <2>1 DEF TypeOK
  <2>3. QED
    BY <1>1, <1>2, <2>1, <2>2, LogLate DEF Kept
<1>5. ASSUME NEW j \in Jobs, CommitProgress(j) PROVE Kept(k)
  <2>1. CASE k = j
    <3>1. /\ status'[k] = "running" /\ events'[k] = Append(events[k], worker[k].at)
          /\ worker[k].at \in Progress
      BY <1>5, <2>1 DEF CommitProgress, TypeOK
    <3>2. status[k] \notin Outcome
      BY <3>1 DEF ThreadInv, Progress, Active, Outcome
    <3>3. worker[k].at \in Events \ Outcome /\ "running" \notin Outcome
      BY <3>1 DEF Events, Progress, Outcome
    <3>4. QED
      BY <1>1, <3>1, <3>2, <3>3, LogOpen DEF Kept
  <2>2. CASE k # j
    BY <1>2, <1>5, <2>2 DEF CommitProgress, TypeOK
  <2>3. QED
    BY <2>1, <2>2
<1>6. ASSUME NEW j \in Jobs, CommitOutcome(j) PROVE Kept(k)
  <2>1. CASE k = j
    <3>1. /\ status'[k] = worker[k].at /\ events'[k] = Append(events[k], worker[k].at)
          /\ worker[k].at \in Outcome
      BY <1>6, <2>1 DEF CommitOutcome, TypeOK
    <3>2. status[k] \notin Outcome
      BY <3>1 DEF ThreadInv, Active, Outcome
    <3>3. QED
      BY <1>1, <3>1, <3>2, LogCloses DEF Kept
  <2>2. CASE k # j
    BY <1>2, <1>6, <2>2 DEF CommitOutcome, TypeOK
  <2>3. QED
    BY <2>1, <2>2
<1>7. CASE Restart
  <2>1. CASE k \in Orphans
    <3>1. status'[k] = "failed" /\ events'[k] = Append(events[k], "failed")
      BY <1>7, <2>1 DEF Restart
    <3>2. status[k] \notin Outcome /\ "failed" \in Outcome
      BY <2>1 DEF Orphans, Active, Outcome
    <3>3. QED
      BY <1>1, <3>1, <3>2, LogCloses DEF Kept
  <2>2. CASE k \notin Orphans
    BY <1>2, <1>7, <2>2 DEF Restart
  <2>3. QED
    BY <2>1, <2>2
<1>8. ASSUME NEW j \in Jobs,
             \/ Admit(j) \/ Refuse(j) \/ Submit(j) \/ Link(j) \/ Age(j) \/ CancelRead(j)
             \/ CancelNumber(j) \/ Start(j) \/ Read(j) \/ Number(j) \/ Collide(j) \/ Work(j)
             \/ Persist(j) \/ \E r \in Requests : Ask(j, r)
      PROVE  Kept(k)
  <2>1. UNCHANGED <<status, events>>
    BY <1>8 DEF Ask, Admit, Refuse, Submit, Link, Age, CancelRead, CancelNumber, Start, Read,
                Number, Collide, Work, Persist, rows
  <2>2. QED
    BY <1>2, <2>1
<1>9. CASE Crash
  BY <1>2, <1>9 DEF Crash, rows
<1>10. CASE UNCHANGED vars
  BY <1>2, <1>10 DEF vars
<1>11. QED
  BY <1>3, <1>4, <1>5, <1>6, <1>7, <1>8, <1>9, <1>10 DEF Next, Handle, Cancel, Run

-----------------------------------------------------------------------------
(* Cancellation: a thread that is past its read when the request commits   *)
(* still has its one step to record; any later read sees the request.      *)

Step == Progress \cup {"succeeded"}

\* The same of any log, request mark and recording thread.
AfterIn(log) ==
  {i \in DOMAIN log : log[i] \in Step /\ \E k \in 1..(i - 1) : log[k] = "cancel-requested"}

CancelOf(log, asked, recording) ==
  /\ (\E k \in DOMAIN log : log[k] = "cancel-requested") => asked
  /\ recording => AfterIn(log) = {}
  /\ Cardinality(AfterIn(log)) <= 1

LEMMA AfterAppend ==
  ASSUME NEW log \in Seq(Events), NEW e \in Events
  PROVE  /\ AfterIn(Append(log, e)) \subseteq AfterIn(log) \cup {Len(log) + 1}
         /\ e \notin Step => AfterIn(Append(log, e)) = AfterIn(log)
         /\ (\E k \in DOMAIN Append(log, e) : Append(log, e)[k] = "cancel-requested")
              => e = "cancel-requested" \/ \E k \in DOMAIN log : log[k] = "cancel-requested"
<1> DEFINE longer == Append(log, e)
           Hit(s, i) == s[i] \in Step /\ \E k \in 1..(i - 1) : s[k] = "cancel-requested"
<1>1. \A i \in DOMAIN log : i \in Nat /\ \A k \in 1..(i - 1) : k \in DOMAIN log
  OBVIOUS
<1>2. \A i \in DOMAIN log : longer[i] = log[i]
  BY LogAppend
<1>3. \A i \in DOMAIN log : Hit(longer, i) <=> Hit(log, i)
  BY <1>1, <1>2
<1>4. DOMAIN longer = DOMAIN log \cup {Len(log) + 1} /\ longer[Len(log) + 1] = e
  BY LogAppend
<1>5. AfterIn(longer) = {i \in DOMAIN longer : Hit(longer, i)}
      /\ AfterIn(log) = {i \in DOMAIN log : Hit(log, i)}
  BY DEF AfterIn
<1>6. AfterIn(longer) \subseteq AfterIn(log) \cup {Len(log) + 1}
  BY <1>3, <1>4, <1>5
<1>7. ASSUME e \notin Step PROVE AfterIn(longer) = AfterIn(log)
  <2>1. ~Hit(longer, Len(log) + 1)
    BY <1>4, <1>7
  <2>2. QED
    BY <1>3, <1>4, <1>5, <2>1
<1>8. QED
  BY <1>2, <1>4, <1>6, <1>7

\* An event that is no step of the run, nor a cancellation.
LEMMA CancelOther ==
  ASSUME NEW log \in Seq(Events), NEW asked, NEW recording, CancelOf(log, asked, recording),
         NEW e \in Events, e \notin Step, e # "cancel-requested"
  PROVE  CancelOf(Append(log, e), asked, FALSE)
  BY AfterAppend DEF CancelOf

\* A cancellation that commits under a thread at any point.
LEMMA CancelLands ==
  ASSUME NEW log \in Seq(Events), NEW asked, NEW recording, CancelOf(log, asked, recording)
  PROVE  CancelOf(Append(log, "cancel-requested"), TRUE, recording)
<1>1. "cancel-requested" \in Events /\ "cancel-requested" \notin Step
  BY DEF Events, Step, Progress
<1>2. QED
  BY <1>1, AfterAppend DEF CancelOf

\* The one step a recording thread may still put in the log.
LEMMA CancelRecorded ==
  ASSUME NEW log \in Seq(Events), NEW asked, CancelOf(log, asked, TRUE), NEW e \in Events \cap Step
  PROVE  CancelOf(Append(log, e), asked, FALSE)
<1>1. AfterIn(log) = {}
  BY DEF CancelOf
<1>2. AfterIn(Append(log, e)) \in SUBSET ({} \cup {Len(log) + 1})
  BY <1>1, AfterAppend
<1>3. Cardinality(AfterIn(Append(log, e))) <= 1
  <2>1. IsFiniteSet({}) /\ Cardinality({}) = 0
    BY FS_EmptySet
  <2>2. Cardinality(AfterIn(Append(log, e))) <= Cardinality({}) + 1
    BY <1>2, <2>1, OneMoreCount
  <2>3. QED
    BY <2>1, <2>2
<1>4. e # "cancel-requested"
  BY DEF Step, Progress
<1>5. QED
  BY <1>3, <1>4, AfterAppend DEF CancelOf

\* A thread that reads a row without a request finds no cancellation in the log.
LEMMA CancelUnseen ==
  ASSUME NEW log \in Seq(Events), NEW recording, CancelOf(log, FALSE, recording)
  PROVE  CancelOf(log, FALSE, TRUE)
<1>1. \A i \in DOMAIN log : \A k \in 1..(i - 1) : k \in DOMAIN log
  OBVIOUS
<1>2. AfterIn(log) = {}
  BY <1>1 DEF AfterIn, CancelOf
<1>3. QED
  BY <1>2, FS_EmptySet DEF CancelOf

LEMMA CancelIs == CancelInv <=> \A j \in Jobs : CancelOf(events[j], cancelRequested[j], Recording(j))
  BY DEF CancelInv, CancelOf, StepsAfterCancel, AfterIn, Step

LEMMA CancelStep ==
  ASSUME TypeOK, ThreadInv, CancelInv, [Next]_vars
  PROVE  CancelInv'
<1> DEFINE Kept(k) == CancelOf(events'[k], cancelRequested'[k], Recording(k)')
<1> SUFFICES ASSUME NEW k \in Jobs PROVE Kept(k)
  BY DEF CancelInv, CancelOf, StepsAfterCancel, AfterIn, Step
<1>1. CancelOf(events[k], cancelRequested[k], Recording(k)) /\ events[k] \in Seq(Events)
  BY CancelIs DEF TypeOK
<1>q. CancelOf(events[k], cancelRequested[k], FALSE)
  BY <1>1 DEF CancelOf
<1> HIDE DEF Kept
<1>2. CASE /\ events'[k] = events[k] /\ cancelRequested'[k] = cancelRequested[k]
           /\ ~Recording(k)' \/ worker'[k] = worker[k]
  <2>1. Recording(k)' = FALSE \/ Recording(k)' = Recording(k)
    BY <1>2 DEF Recording
  <2>2. QED
    BY <1>1, <1>2, <1>q, <2>1 DEF Kept
<1>3. ASSUME NEW j \in Jobs, Insert(j) PROVE Kept(k)
  <2>1. CASE k = j
    <3>1. /\ events'[k] = <<"queued">> /\ cancelRequested'[k] = cancelRequested[k]
          /\ Recording(k)' = Recording(k)
      BY <1>3, <2>1 DEF Insert, TypeOK, Recording
    <3>2. AfterIn(<<"queued">>) = {}
      BY DEF AfterIn, Step, Progress
    <3>3. QED
      BY <3>1, <3>2, FS_EmptySet DEF Kept, CancelOf
  <2>2. CASE k # j
    BY <1>2, <1>3, <2>2 DEF Insert, TypeOK
  <2>3. QED
    BY <2>1, <2>2
<1>4. ASSUME NEW j \in Jobs, CancelCommit(j) PROVE Kept(k)
  <2>1. worker' = worker /\ Recording(k)' = Recording(k)
    BY <1>4 DEF CancelCommit, Recording
  <2>2. CASE k = j /\ Unique(j, canceller[j])
    <3>1. events'[k] = Append(events[k], "cancel-requested") /\ cancelRequested'[k] = TRUE
      BY <1>4, <2>2 DEF CancelCommit, TypeOK
    <3>2. QED
      BY <1>1, <2>1, <3>1, CancelLands DEF Kept
  <2>3. CASE ~(k = j /\ Unique(j, canceller[j]))
    <3>1. events'[k] = events[k] /\ cancelRequested'[k] = cancelRequested[k]
      BY <1>4, <2>3 DEF CancelCommit, TypeOK
    <3>2. QED
      BY <1>2, <2>1, <3>1
  <2>4. QED
    BY <2>2, <2>3
<1>5. ASSUME NEW j \in Jobs, CommitProgress(j) PROVE Kept(k)
  <2>1. CASE k = j
    <3>1. /\ events'[k] = Append(events[k], worker[k].at)
          /\ cancelRequested' = cancelRequested
          /\ worker'[k] = AfterProgress(k)
          /\ Recording(k) /\ worker[k].at \in Progress
      BY <1>5, <2>1 DEF CommitProgress, TypeOK, Recording
    <3>2. AfterProgress(k).phase \in {"work", "read"}
      BY <3>1 DEF AfterProgress, At, Progress
    <3>3. Recording(k)' = FALSE
      BY <3>1, <3>2 DEF Recording
    <3>4. worker[k].at \in Events \cap Step
      BY <3>1 DEF Events, Step
    <3>5. CancelOf(events[k], cancelRequested[k], TRUE)
      BY <1>1, <3>1 DEF CancelOf
    <3>6. QED
      BY <1>1, <3>1, <3>3, <3>4, <3>5, CancelRecorded DEF Kept
  <2>2. CASE k # j
    BY <1>2, <1>5, <2>2 DEF CommitProgress, TypeOK
  <2>3. QED
    BY <2>1, <2>2
<1>6. ASSUME NEW j \in Jobs, CommitOutcome(j) PROVE Kept(k)
  <2>1. CASE k = j
    <3>1. /\ events'[k] = Append(events[k], worker[k].at)
          /\ cancelRequested' = cancelRequested
          /\ worker'[k] = Idle
          /\ worker[k].at \in Outcome /\ worker[k].phase = "commit"
      BY <1>6, <2>1 DEF CommitOutcome, TypeOK
    <3>2. Recording(k)' = FALSE
      BY <3>1, IdleType DEF Recording
    <3>3. CASE worker[k].at = "succeeded"
      <4>1. worker[k].at \in Events \cap Step
        BY <3>1, <3>3 DEF Events, Step
      <4>2. CancelOf(events[k], cancelRequested[k], TRUE)
        BY <1>1, <3>1, <3>3 DEF CancelOf, Recording
      <4>3. QED
        BY <1>1, <3>1, <3>2, <4>1, <4>2, CancelRecorded DEF Kept
    <3>4. CASE worker[k].at # "succeeded"
      <4>1. /\ worker[k].at \in Events /\ worker[k].at \notin Step
            /\ worker[k].at # "cancel-requested"
        BY <3>1, <3>4 DEF Events, Step, Outcome, Progress
      <4>2. QED
        BY <1>1, <3>1, <3>2, <4>1, CancelOther DEF Kept
    <3>5. QED
      BY <3>3, <3>4
  <2>2. CASE k # j
    BY <1>2, <1>6, <2>2 DEF CommitOutcome, TypeOK
  <2>3. QED
    BY <2>1, <2>2
<1>7. ASSUME NEW j \in Jobs, Read(j) PROVE Kept(k)
  <2>1. UNCHANGED <<events, cancelRequested>>
    BY <1>7 DEF Read, rows
  <2>2. CASE k # j
    <3>1. worker'[k] = worker[k]
      BY <1>7, <2>2 DEF Read, TypeOK
    <3>2. QED
      BY <1>2, <2>1, <3>1
  <2>3. CASE k = j /\ StopsOnRequest(j) /\ cancelRequested[j]
    <3>1. worker'[k] = At("cancelled", "read")
      BY <1>7, <2>3 DEF Read, TypeOK
    <3>2. ~Recording(k)'
      BY <3>1 DEF Recording, At
    <3>3. QED
      BY <1>2, <2>1, <3>2
  <2>4. CASE k = j /\ ~StopsOnRequest(j)
    <3>1. worker'[k].at = worker[k].at
      BY <1>7, <2>4, KeepsStep
    <3>2. ~Recording(k)'
      BY <2>4, <3>1 DEF Recording, StopsOnRequest
    <3>3. QED
      BY <1>2, <2>1, <3>2
  <2>5. CASE k = j /\ ~cancelRequested[j]
    <3>1. cancelRequested[k] = FALSE
      BY <2>5 DEF TypeOK
    <3>2. CancelOf(events[k], FALSE, TRUE)
      BY <1>1, <3>1, CancelUnseen
    <3>3. CancelOf(events[k], FALSE, Recording(k)')
      BY <3>2 DEF CancelOf
    <3>4. QED
      BY <2>1, <3>1, <3>3 DEF Kept
  <2>6. QED
    BY <2>2, <2>3, <2>4, <2>5
<1>8. ASSUME NEW j \in Jobs, Number(j) PROVE Kept(k)
  <2>1. UNCHANGED <<events, cancelRequested>>
    BY <1>8 DEF Number, rows
  <2>2. CASE k = j
    <3>1. worker'[k] = Numbered(k, worker[k]) /\ worker[k].phase = "number"
      BY <1>8, <2>2 DEF Number, TypeOK
    <3>2. Numbered(k, worker[k]).at = worker[k].at
      BY NumberedType DEF TypeOK
    <3>3. Recording(k)' => Recording(k)
      BY <3>1, <3>2 DEF Recording
    <3>4. QED
      BY <1>1, <2>1, <3>3 DEF Kept, CancelOf
  <2>3. CASE k # j
    BY <1>2, <1>8, <2>1, <2>3 DEF Number, TypeOK
  <2>4. QED
    BY <2>2, <2>3
<1>9. ASSUME NEW j \in Jobs, Start(j) \/ Collide(j) \/ Work(j) \/ Persist(j) PROVE Kept(k)
  <2>1. UNCHANGED <<events, cancelRequested>>
    BY <1>9 DEF Start, Collide, Work, Persist, rows
  <2>2. CASE k = j
    <3>1. worker'[k] = Idle \/ \E step : worker'[k] = At(step, "read")
      BY <1>9, <2>2 DEF Start, Collide, Work, Persist, TypeOK
    <3>2. worker'[k].phase = "read"
      <4>1. CASE worker'[k] = Idle
        BY <4>1, IdleType
      <4>2. CASE \E step : worker'[k] = At(step, "read")
        BY <4>2 DEF At
      <4>3. QED
        BY <3>1, <4>1, <4>2
    <3>3. ~Recording(k)'
      BY <3>2 DEF Recording
    <3>4. QED
      BY <1>2, <2>1, <3>3
  <2>3. CASE k # j
    <3>1. worker'[k] = worker[k]
      BY <1>9, <2>3 DEF Start, Collide, Work, Persist, TypeOK
    <3>2. QED
      BY <1>2, <2>1, <3>1
  <2>4. QED
    BY <2>2, <2>3
<1>10. ASSUME NEW j \in Jobs,
              \/ Admit(j) \/ Refuse(j) \/ Submit(j) \/ Link(j) \/ Age(j) \/ CancelRead(j)
              \/ CancelNumber(j) \/ \E r \in Requests : Ask(j, r)
       PROVE  Kept(k)
  <2>1. UNCHANGED <<events, cancelRequested, worker>>
    BY <1>10 DEF Ask, Admit, Refuse, Submit, Link, Age, CancelRead, CancelNumber, rows, memory
  <2>2. QED
    BY <1>2, <2>1
<1>11. CASE Crash
  <2>1. /\ UNCHANGED <<events, cancelRequested>>
        /\ worker'[k] = Idle
    BY <1>11 DEF Crash, rows
  <2>2. ~Recording(k)'
    BY <2>1, IdleType DEF Recording
  <2>3. QED
    BY <1>2, <2>1, <2>2
<1>12. CASE Restart
  <2>1. worker'[k] = Idle /\ cancelRequested' = cancelRequested
    BY <1>12 DEF Restart, memory, ThreadInv
  <2>2. Recording(k)' = FALSE
    BY <2>1, IdleType DEF Recording
  <2>3. CASE k \in Orphans
    <3>1. events'[k] = Append(events[k], "failed")
      BY <1>12, <2>3 DEF Restart
    <3>2. "failed" \in Events /\ "failed" \notin Step
      BY DEF Events, Step, Outcome, Progress
    <3>3. QED
      BY <1>1, <2>1, <2>2, <3>1, <3>2, CancelOther DEF Kept
  <2>4. CASE k \notin Orphans
    <3>1. events'[k] = events[k]
      BY <1>12, <2>4 DEF Restart
    <3>2. QED
      BY <1>2, <2>1, <2>2, <3>1
  <2>5. QED
    BY <2>3, <2>4
<1>13. CASE UNCHANGED vars
  BY <1>2, <1>13 DEF vars
<1>14. QED
  BY <1>3, <1>4, <1>5, <1>6, <1>7, <1>8, <1>9, <1>10, <1>11, <1>12, <1>13
  DEF Next, Handle, Cancel, Run

-----------------------------------------------------------------------------
(* The invariant, and what follows from it                                 *)

LEMMA Initially == Init => IInv
<1> SUFFICES ASSUME Init PROVE IInv
  OBVIOUS
<1>1. TypeOK
  BY TypeInit
<1>2. RowInv /\ AdmissionInv
  BY ConstantsAssumption DEF Init, RowInv, AdmissionInv
<1>3. ThreadInv
  BY IdleType DEF Init, ThreadInv
<1>4. (\A a \in Accounts : Owned(a) = {}) /\ Counted = {}
  BY DEF Init, Owned, Counted, Active
<1>5. QuotaHeld /\ SlotsHeld
  BY <1>4, FS_EmptySet, ConstantsAssumption DEF QuotaHeld, SlotsHeld
<1>6. RunInv
  BY IdleType DEF Init, RunInv, Progress
<1>7. ExecutionInv
  BY DEF Init, ExecutionInv
<1>8. LogClosesOnce
  BY DEF Init, LogClosesOnce, Closing, Outcome
<1>9. \A j \in Jobs : events[j] = <<>> /\ StepsAfterCancel(j) = {}
  BY DEF Init, StepsAfterCancel
<1>10. CancelInv
  <2>1. Cardinality({}) <= 1
    BY FS_EmptySet
  <2>2. \A j \in Jobs : DOMAIN events[j] = {}
    BY <1>9
  <2>3. QED
    BY <1>9, <2>1, <2>2 DEF CancelInv
<1>11. QED
  BY <1>1, <1>2, <1>3, <1>5, <1>6, <1>7, <1>8, <1>10 DEF IInv

LEMMA Inductive == IInv /\ [Next]_vars => IInv'
  BY TypeStep, RowStep, ThreadStep, AdmissionStep, QuotaStep, SlotsStep, RunStep,
     ExecutionStep, LogStep, CancelStep DEF IInv

\* Everything the invariant says holds in every state of every run of the
\* manager, the pool, the admission checks and the startup sweep.
THEOREM Invariant == Spec => []IInv
  BY Initially, Inductive, PTL DEF Spec

\* No interleaving of requests gets an account more runs than its plan allows.
THEOREM Quota == Spec => []QuotaHeld
<1>1. IInv => QuotaHeld
  BY DEF IInv
<1>2. QED
  BY <1>1, Invariant, PTL

\* Nor more active jobs than its slots, or the instance more than its own.
THEOREM SlotsAreKept == Spec => []SlotsHeld
<1>1. IInv => SlotsHeld
  BY DEF IInv
<1>2. QED
  BY <1>1, Invariant, PTL

\* A job that succeeded reports the one run it persisted.
THEOREM Results == Spec => []ResultIsTheRun
<1>1. IInv => ResultIsTheRun
  BY DEF IInv, RunInv, ResultIsTheRun
<1>2. QED
  BY <1>1, Invariant, PTL

\* A settled command execution agrees with the job it names.
THEOREM Executions == Spec => []ExecutionAgrees
<1>1. IInv => ExecutionAgrees
  BY DEF IInv, ExecutionInv, ExecutionAgrees
<1>2. QED
  BY <1>1, Invariant, PTL

\* The log of a job closes once, with the outcome its row has.
THEOREM LogsClose == Spec => []LogClosesOnce
<1>1. IInv => LogClosesOnce
  BY DEF IInv
<1>2. QED
  BY <1>1, Invariant, PTL

\* A run that somebody cancelled records at most the step it was in.
THEOREM CancellationWorks == Spec => []CancelStopsTheRun
<1>1. IInv => CancelStopsTheRun
  BY DEF IInv, CancelInv, CancelStopsTheRun
<1>2. QED
  BY <1>1, Invariant, PTL

-----------------------------------------------------------------------------
(* The manager implements the life a job is promised                       *)

LEMMA LifecycleStep == IInv /\ [Next]_vars => [Lifecycle!Next]_(Lifecycle!vars)
<1> SUFFICES ASSUME IInv, [Next]_vars PROVE [Lifecycle!Next]_(Lifecycle!vars)
  OBVIOUS
<1>t. TypeOK /\ RowInv /\ ThreadInv
  BY DEF IInv
<1> USE DEF Lifecycle!Next, Lifecycle!vars
<1>1. CASE UNCHANGED <<status, cancelRequested>>
  BY <1>1
<1>2. ASSUME NEW j \in Jobs, Insert(j) PROVE Lifecycle!Queue(j)
  BY <1>2, <1>t DEF Insert, RowInv, Lifecycle!Queue
<1>3. ASSUME NEW j \in Jobs, CancelCommit(j), cancelRequested' # cancelRequested
      PROVE  Lifecycle!AskCancel(j)
  <2>1. canceller[j] # Idle
    BY <1>3, IdleType DEF CancelCommit
  <2>2. status[j] # "none"
    BY <1>t, <2>1 DEF ThreadInv
  <2>3. QED
    BY <1>3, <2>2 DEF CancelCommit, Lifecycle!AskCancel
<1>4. ASSUME NEW j \in Jobs, CommitProgress(j) PROVE Lifecycle!Run(j)
  <2>1. status[j] \in Active
    BY <1>4, <1>t DEF CommitProgress, ThreadInv, Progress
  <2>2. QED
    BY <1>4, <2>1 DEF CommitProgress, Lifecycle!Run, Lifecycle!Active, Active
<1>5. ASSUME NEW j \in Jobs, CommitOutcome(j) PROVE Lifecycle!Finish(j, worker[j].at)
  <2>1. status[j] \in Active /\ (worker[j].at = "cancelled" => cancelRequested[j])
    BY <1>5, <1>t DEF CommitOutcome, ThreadInv, Outcome
  <2>2. QED
    BY <1>5, <2>1 DEF CommitOutcome, Lifecycle!Finish, Lifecycle!Active, Active
<1>6. CASE Restart
  BY <1>6 DEF Restart, Orphans, Active, Lifecycle!Interrupt, Lifecycle!Active
<1>7. ASSUME NEW j \in Jobs,
             \/ Admit(j) \/ Refuse(j) \/ Submit(j) \/ Link(j) \/ Age(j) \/ CancelRead(j)
             \/ CancelNumber(j) \/ Start(j) \/ Read(j) \/ Number(j) \/ Collide(j) \/ Work(j)
             \/ Persist(j) \/ \E r \in Requests : Ask(j, r)
      PROVE  UNCHANGED <<status, cancelRequested>>
  BY <1>7 DEF Ask, Admit, Refuse, Submit, Link, Age, CancelRead, CancelNumber, Start, Read,
              Number, Collide, Work, Persist, rows
<1>8. CASE Crash
  BY <1>1, <1>8 DEF Crash, rows
<1>9. CASE UNCHANGED vars
  BY <1>1, <1>9 DEF vars
<1>10. ASSUME NEW j \in Jobs, CancelCommit(j), cancelRequested' = cancelRequested
       PROVE  UNCHANGED <<status, cancelRequested>>
  BY <1>10 DEF CancelCommit
<1>11. \A j \in Jobs : CommitOutcome(j) => worker[j].at \in Lifecycle!Outcome
  BY DEF CommitOutcome, Outcome, Lifecycle!Outcome
<1>12. QED
  BY <1>1, <1>2, <1>3, <1>4, <1>5, <1>6, <1>7, <1>8, <1>9, <1>10, <1>11
  DEF Next, Handle, Cancel, Run

\* Every job lives as JobLifecycle says: it ends once, for good, and is only
\* cancelled if somebody asked for that.
THEOREM JobsKeepTheLifecycle == Spec => ImplementsLifecycle
<1>1. Init => Lifecycle!Init
  BY DEF Init, Lifecycle!Init
<1>2. QED
  BY <1>1, Invariant, LifecycleStep, PTL DEF Spec, ImplementsLifecycle, Lifecycle!Spec

-----------------------------------------------------------------------------
(* The progress stream                                                     *)

StreamTypeOK ==
  /\ stream \in [Watched -> {"none", "reading", "checking", "finished", "cut"}]
  /\ batch \in [Watched -> Seq(Events)]
  /\ delivered \in [Watched -> Seq(Events)]

\* What was sent, and the batch that is to be sent after it, begin the log.
Begins(sent, next, log) ==
  /\ Len(sent) + Len(next) <= Len(log)
  /\ \A i \in 1..Len(sent) : sent[i] = log[i]
  /\ \A i \in 1..Len(next) : next[i] = log[Len(sent) + i]

\* A batch is only held between the two reads of a round, and nobody follows
\* a job that is not there yet: its log may still be anything.
Faithful(j) ==
  /\ Begins(delivered[j], batch[j], events[j])
  /\ stream[j] # "checking" => batch[j] = <<>>
  /\ status[j] = "none" =>
       delivered[j] = <<>> /\ batch[j] = <<>> /\ stream[j] \notin Polling

StreamInv == IInv /\ StreamTypeOK /\ \A j \in Watched : Faithful(j)

\* One log continues another.
Extends(old, log) == Begins(old, <<>>, log)

LEMMA ExtendsAppend ==
  ASSUME NEW log \in Seq(Events), NEW e \in Events
  PROVE  Extends(log, log) /\ Extends(log, Append(log, e))
BY DEF Extends, Begins

LEMMA BeginsExtends ==
  ASSUME NEW s \in Seq(Events), NEW n \in Seq(Events), NEW log \in Seq(Events),
         NEW new \in Seq(Events), Begins(s, n, log), Extends(log, new)
  PROVE  Begins(s, n, new)
BY DEF Extends, Begins

\* What was sent is the beginning of the log that it is long.
LEMMA BeginsAt ==
  ASSUME NEW s \in Seq(Events), NEW n \in Seq(Events), NEW log \in Seq(Events), Begins(s, n, log)
  PROVE  /\ Begins(s, <<>>, log)
         /\ Len(s) <= Len(log) /\ s = SubSeq(log, 1, Len(s))
<1>1. /\ Len(s) \in Nat /\ Len(n) \in Nat /\ Len(s) <= Len(log)
      /\ \A i \in 1..Len(s) : s[i] = log[i]
  BY DEF Begins
<1>2. SubSeq(log, 1, Len(s)) \in Seq(Events) /\ Len(SubSeq(log, 1, Len(s))) = Len(s)
      /\ \A i \in 1..Len(s) : SubSeq(log, 1, Len(s))[i] = log[i]
  BY <1>1
<1>3. s = SubSeq(log, 1, Len(s))
  BY <1>1, <1>2
<1> QED BY <1>1, <1>3 DEF Begins

\* What a round reads goes on where the client is.
LEMMA BeginsRead ==
  ASSUME NEW s \in Seq(Events), NEW log \in Seq(Events), Begins(s, <<>>, log)
  PROVE  Begins(s, SubSeq(log, Len(s) + 1, Len(log)), log)
<1>1. Len(s) \in Nat /\ Len(log) \in Nat /\ Len(s) <= Len(log)
      /\ \A i \in 1..Len(s) : s[i] = log[i]
  BY DEF Begins
<1> DEFINE n == SubSeq(log, Len(s) + 1, Len(log))
<1>2. Len(n) = Len(log) - Len(s)
  BY <1>1
<1>3. \A i \in 1..Len(n) : n[i] = log[Len(s) + i]
  BY <1>1, <1>2
<1> HIDE DEF n
<1>4. Begins(s, n, log)
  BY <1>1, <1>2, <1>3 DEF Begins
<1> QED BY <1>4 DEF n

\* Sending the batch leaves one beginning of the log.
LEMMA BeginsSent ==
  ASSUME NEW s \in Seq(Events), NEW n \in Seq(Events), NEW log \in Seq(Events), Begins(s, n, log)
  PROVE  Begins(s \o n, <<>>, log)
<1>1. /\ s \o n \in Seq(Events) /\ Len(s \o n) = Len(s) + Len(n)
      /\ \A i \in 1..(Len(s) + Len(n)) :
           (s \o n)[i] = IF i <= Len(s) THEN s[i] ELSE n[i - Len(s)]
  OBVIOUS
<1>2. ASSUME NEW i \in 1..(Len(s) + Len(n)), i > Len(s) PROVE n[i - Len(s)] = log[i]
  <2>1. i - Len(s) \in 1..Len(n) /\ Len(s) + (i - Len(s)) = i
    BY <1>2
  <2> QED BY <2>1 DEF Begins
<1>3. \A i \in 1..(Len(s) + Len(n)) : (s \o n)[i] = log[i]
  BY <1>1, <1>2 DEF Begins
<1> QED BY <1>1, <1>3 DEF Begins

\* Whatever the jobs do, a log is only added to, and no row goes away.
LEMMA LogsExtend ==
  ASSUME IInv, [Next]_vars, NEW j \in Jobs
  PROVE  /\ status'[j] = "none" => status[j] = "none"
         /\ status[j] # "none" => Extends(events[j], events'[j])
<1>t. TypeOK /\ RowInv /\ ThreadInv /\ ConstantsAssumption
  BY ConstantsAssumption DEF IInv
<1>0. events \in [Jobs -> Seq(Events)] /\ status \in [Jobs -> {"none"} \cup Active \cup Outcome]
  BY <1>t DEF TypeOK
<1> DEFINE Goal == /\ status'[j] = "none" => status[j] = "none"
                   /\ status[j] # "none" => Extends(events[j], events'[j])
<1> SUFFICES Goal
  BY DEF Goal
<1>k. ASSUME events'[j] = events[j], status'[j] = status[j] PROVE Goal
  BY <1>k, <1>0, ExtendsAppend DEF Events
<1>a. ASSUME NEW e \in Events, events'[j] = Append(events[j], e),
             status'[j] # "none" \/ status'[j] = status[j]
      PROVE  Goal
  BY <1>a, <1>0, ExtendsAppend
<1> HIDE DEF Goal
<1>1. ASSUME NEW i \in Jobs, Insert(i) PROVE Goal
  <2>1. handler[i] = "inserting" /\ status[i] = "none"
    BY <1>1, <1>t DEF Insert, RowInv
  <2>2. CASE i = j
    <3>1. status'[j] = "queued" /\ status[j] = "none"
      BY <1>0, <1>1, <2>1, <2>2 DEF Insert
    <3> QED BY <3>1 DEF Goal
  <2>3. CASE i # j
    BY <1>0, <1>1, <2>3, <1>k DEF Insert
  <2> QED BY <2>2, <2>3
<1>2. ASSUME NEW i \in Jobs, CancelCommit(i) PROVE Goal
  <2>1. status' = status
    BY <1>2 DEF CancelCommit
  <2>2. "cancel-requested" \in Events
    BY DEF Events
  <2>3. \/ events' = events
        \/ events' = [events EXCEPT ![i] = Append(events[i], "cancel-requested")]
    BY <1>2 DEF CancelCommit
  <2>4. CASE i = j /\ events' # events
    BY <1>0, <2>1, <2>2, <2>3, <2>4, <1>a
  <2>5. CASE i # j \/ events' = events
    BY <1>0, <2>1, <2>3, <2>5, <1>k
  <2> QED BY <2>4, <2>5
<1>3. ASSUME NEW i \in Jobs, CommitProgress(i) PROVE Goal
  <2>1. /\ status' = [status EXCEPT ![i] = "running"]
        /\ events' = [events EXCEPT ![i] = Append(events[i], worker[i].at)]
        /\ worker[i].at \in Events
    BY <1>3 DEF CommitProgress, Events
  <2>2. CASE i = j
    BY <1>0, <2>1, <2>2, <1>a
  <2>3. CASE i # j
    BY <1>0, <2>1, <2>3, <1>k
  <2> QED BY <2>2, <2>3
<1>4. ASSUME NEW i \in Jobs, CommitOutcome(i) PROVE Goal
  <2>1. /\ status' = [status EXCEPT ![i] = worker[i].at]
        /\ events' = [events EXCEPT ![i] = Append(events[i], worker[i].at)]
        /\ worker[i].at \in Events /\ worker[i].at # "none"
    BY <1>4 DEF CommitOutcome, Events, Outcome
  <2>2. CASE i = j
    BY <1>0, <2>1, <2>2, <1>a
  <2>3. CASE i # j
    BY <1>0, <2>1, <2>3, <1>k
  <2> QED BY <2>2, <2>3
<1>5. CASE Restart
  <2>1. "failed" \in Events
    BY DEF Events, Outcome
  <2>2. CASE j \in Orphans
    <3>1. events'[j] = Append(events[j], "failed") /\ status'[j] = "failed"
      BY <1>5, <2>2 DEF Restart
    <3> QED BY <2>1, <3>1, <1>a
  <2>3. CASE j \notin Orphans
    <3>1. events'[j] = events[j] /\ status'[j] = status[j]
      BY <1>5, <2>3 DEF Restart
    <3> QED BY <3>1, <1>k
  <2> QED BY <2>2, <2>3
<1>6. ASSUME NEW i \in Jobs,
             \/ Admit(i) \/ Refuse(i) \/ Submit(i) \/ Link(i) \/ Age(i) \/ CancelRead(i)
             \/ CancelNumber(i) \/ Start(i) \/ Read(i) \/ Number(i) \/ Collide(i) \/ Work(i)
             \/ Persist(i) \/ \E r \in Requests : Ask(i, r)
      PROVE  Goal
  <2>1. UNCHANGED <<status, events>>
    BY <1>6 DEF Ask, Admit, Refuse, Submit, Link, Age, CancelRead, CancelNumber, Start, Read,
                Number, Collide, Work, Persist, rows
  <2> QED BY <2>1, <1>k
<1>7. CASE Crash \/ UNCHANGED vars
  <2>1. UNCHANGED <<status, events>>
    BY <1>7 DEF Crash, rows, vars
  <2> QED BY <2>1, <1>k
<1> QED BY <1>1, <1>2, <1>3, <1>4, <1>5, <1>6, <1>7 DEF Next, Handle, Cancel, Run

LEMMA JobSteps == StreamNext => [Next]_vars
BY DEF StreamNext, JobStep, Open, Follow, ReadEvents, ReadStatus, Cut, CrashStreams, Next

\* A step of the jobs keeps what a stream has sent and holds.
LEMMA UnderJobs ==
  ASSUME StreamInv, [Next]_vars, NEW j \in Watched,
         delivered'[j] = delivered[j], batch'[j] = batch[j],
         stream'[j] = stream[j]
  PROVE  Faithful(j)'
<1>1. /\ j \in Jobs /\ IInv /\ Faithful(j) /\ TypeOK /\ TypeOK'
      /\ delivered[j] \in Seq(Events) /\ batch[j] \in Seq(Events)
  BY WatchedAssumption, TypeStep DEF StreamInv, StreamTypeOK, IInv
<1>2. events[j] \in Seq(Events) /\ events'[j] \in Seq(Events)
  BY <1>1 DEF TypeOK
<1>3. /\ status'[j] = "none" => status[j] = "none"
      /\ status[j] # "none" => Extends(events[j], events'[j])
  BY <1>1, LogsExtend
<1>4. Begins(delivered[j], batch[j], events'[j])
  <2>1. CASE status[j] = "none"
    <3>1. delivered[j] = <<>> /\ batch[j] = <<>>
      BY <1>1, <2>1 DEF Faithful
    <3> QED BY <1>2, <3>1 DEF Begins
  <2>2. CASE status[j] # "none"
    BY <1>1, <1>2, <1>3, <2>2, BeginsExtends DEF Faithful
  <2> QED BY <2>1, <2>2
<1> QED BY <1>1, <1>3, <1>4 DEF Faithful

LEMMA StreamTypeStep == StreamInv /\ [StreamNext]_allVars => StreamTypeOK'
<1> SUFFICES ASSUME StreamInv, [StreamNext]_allVars PROVE StreamTypeOK'
  OBVIOUS
<1>0. StreamTypeOK /\ TypeOK /\ <<>> \in Seq(Events) /\ WatchedAssumption
  BY WatchedAssumption DEF StreamInv, IInv
<1>1. ASSUME NEW j \in Watched, Open(j) PROVE StreamTypeOK'
  BY <1>0, <1>1 DEF Open, StreamTypeOK
<1>2. ASSUME NEW j \in Watched, ReadEvents(j) PROVE StreamTypeOK'
  <2>1. events[j] \in Seq(Events) /\ delivered[j] \in Seq(Events)
    BY <1>0, WatchedAssumption DEF TypeOK, StreamTypeOK
  <2>2. NewEvents(j) \in Seq(Events)
    BY <2>1 DEF NewEvents
  <2> QED BY <1>0, <1>2, <2>2 DEF ReadEvents, StreamTypeOK
<1>3. ASSUME NEW j \in Watched, ReadStatus(j) PROVE StreamTypeOK'
  <2>1. delivered[j] \o batch[j] \in Seq(Events)
    BY <1>0 DEF StreamTypeOK
  <2>2. delivered' = [delivered EXCEPT ![j] = delivered[j] \o batch[j]]
    BY <1>3 DEF ReadStatus
  <2> QED BY <1>0, <1>3, <2>1, <2>2 DEF ReadStatus, StreamTypeOK
<1>4. ASSUME NEW j \in Watched, Cut(j) PROVE StreamTypeOK'
  BY <1>0, <1>4 DEF Cut, StreamTypeOK
<1>5. CASE CrashStreams
  BY <1>0, <1>5 DEF CrashStreams, StreamTypeOK
<1>6. CASE JobStep \/ UNCHANGED allVars
  BY <1>0, <1>6 DEF JobStep, allVars, streams, StreamTypeOK
<1> QED BY <1>1, <1>2, <1>3, <1>4, <1>5, <1>6 DEF StreamNext, Follow

LEMMA StreamStep == StreamInv /\ [StreamNext]_allVars => \A j \in Watched : Faithful(j)'
<1> SUFFICES ASSUME StreamInv, [StreamNext]_allVars, NEW j \in Watched PROVE Faithful(j)'
  OBVIOUS
<1>0. /\ [Next]_vars /\ IInv /\ StreamTypeOK /\ Faithful(j) /\ j \in Jobs
      /\ delivered[j] \in Seq(Events) /\ batch[j] \in Seq(Events) /\ events[j] \in Seq(Events)
  BY JobSteps, WatchedAssumption DEF StreamInv, allVars, StreamTypeOK, IInv, TypeOK
<1>k. ASSUME delivered'[j] = delivered[j], batch'[j] = batch[j], stream'[j] = stream[j]
      PROVE  Faithful(j)'
  BY <1>k, <1>0, UnderJobs
<1>1. ASSUME NEW i \in Watched, Open(i) PROVE Faithful(j)'
  <2>1. CASE i = j
    <3>1. /\ delivered'[j] = <<>> /\ batch'[j] = batch[j] /\ UNCHANGED vars
          /\ status[j] # "none" /\ stream[j] # "checking"
      BY <1>0, <1>1, <2>1 DEF Open, StreamTypeOK, Polling
    <3>2. batch'[j] = <<>> /\ status'[j] # "none" /\ events'[j] = events[j]
      BY <1>0, <3>1 DEF Faithful, vars
    <3> QED BY <1>0, <3>1, <3>2 DEF Faithful, Begins
  <2>2. CASE i # j
    BY <1>0, <1>1, <2>2, <1>k DEF Open, StreamTypeOK
  <2> QED BY <2>1, <2>2
<1>2. ASSUME NEW i \in Watched, ReadEvents(i) PROVE Faithful(j)'
  <2>1. CASE i = j
    <3>1. /\ delivered'[j] = delivered[j] /\ events'[j] = events[j] /\ status'[j] = status[j]
          /\ batch'[j] = NewEvents(j) /\ stream'[j] = "checking" /\ stream[j] = "reading"
      BY <1>0, <1>2, <2>1 DEF ReadEvents, StreamTypeOK, vars
    <3>2. Begins(delivered[j], <<>>, events[j])
      BY <1>0, <3>1, BeginsAt DEF Faithful
    <3>3. Begins(delivered[j], NewEvents(j), events[j])
      BY <1>0, <3>2, BeginsRead DEF NewEvents
    <3>4. status[j] # "none"
      BY <1>0, <3>1 DEF Faithful, Polling
    <3> QED BY <1>0, <3>1, <3>3, <3>4 DEF Faithful
  <2>2. CASE i # j
    BY <1>0, <1>2, <2>2, <1>k DEF ReadEvents, StreamTypeOK
  <2> QED BY <2>1, <2>2
<1>3. ASSUME NEW i \in Watched, ReadStatus(i) PROVE Faithful(j)'
  <2>1. CASE i = j
    <3>1. /\ delivered' = [delivered EXCEPT ![j] = delivered[j] \o batch[j]]
          /\ batch'[j] = <<>> /\ events'[j] = events[j] /\ status'[j] = status[j]
          /\ stream'[j] # "checking" /\ stream[j] = "checking"
      BY <1>0, <1>3, <2>1 DEF ReadStatus, StreamTypeOK, vars
    <3>2. delivered'[j] = delivered[j] \o batch[j]
      BY <1>0, <3>1 DEF StreamTypeOK
    <3>3. Begins(delivered[j], batch[j], events[j]) /\ status[j] # "none"
      BY <1>0, <3>1 DEF Faithful, Polling
    <3>4. Begins(delivered[j] \o batch[j], <<>>, events[j])
      BY <1>0, <3>3, BeginsSent
    <3> QED BY <1>0, <3>1, <3>2, <3>3, <3>4 DEF Faithful
  <2>2. CASE i # j
    BY <1>0, <1>3, <2>2, <1>k DEF ReadStatus, StreamTypeOK
  <2> QED BY <2>1, <2>2
<1>4. ASSUME NEW i \in Watched, Cut(i) PROVE Faithful(j)'
  <2>1. CASE i = j
    <3>1. /\ UNCHANGED <<delivered, batch, vars>>
          /\ stream[j] = "reading" /\ stream'[j] = "cut"
      BY <1>0, <1>4, <2>1 DEF Cut, StreamTypeOK
    <3>2. status'[j] = status[j] /\ events'[j] = events[j]
      BY <3>1 DEF vars
    <3> QED BY <1>0, <3>1, <3>2 DEF Faithful, Polling
  <2>2. CASE i # j
    BY <1>0, <1>4, <2>2, <1>k DEF Cut, StreamTypeOK
  <2> QED BY <2>1, <2>2
<1>5. CASE CrashStreams
  <2>1. /\ delivered'[j] = delivered[j] /\ batch'[j] = <<>>
        /\ stream'[j] \notin Polling
        /\ events'[j] = events[j] /\ status'[j] = status[j]
    BY <1>5 DEF CrashStreams, Crash, rows, Polling
  <2>2. Begins(delivered[j], <<>>, events[j])
    BY <1>0, BeginsAt DEF Faithful
  <2> QED BY <1>0, <2>1, <2>2 DEF Faithful, Polling
<1>6. CASE JobStep \/ UNCHANGED allVars
  BY <1>0, <1>6, <1>k DEF JobStep, allVars, streams
<1> QED BY <1>1, <1>2, <1>3, <1>4, <1>5, <1>6 DEF StreamNext, Follow

LEMMA StreamInitially == StreamInit => StreamInv
<1> SUFFICES ASSUME StreamInit PROVE StreamInv
  OBVIOUS
<1>1. IInv
  BY Initially DEF StreamInit
<1>2. StreamTypeOK
  BY DEF StreamInit, StreamTypeOK
<1>3. ASSUME NEW j \in Watched PROVE Faithful(j)
  <2>1. delivered[j] = <<>> /\ batch[j] = <<>> /\ stream[j] = "none" /\ events[j] = <<>>
    BY <1>3, WatchedAssumption DEF StreamInit, Init
  <2> QED BY <2>1 DEF Faithful, Begins, Polling
<1> QED BY <1>1, <1>2, <1>3 DEF StreamInv

LEMMA StreamInductive == StreamInv /\ [StreamNext]_allVars => StreamInv'
<1> SUFFICES ASSUME StreamInv, [StreamNext]_allVars PROVE StreamInv'
  OBVIOUS
<1>1. [Next]_vars
  BY JobSteps DEF allVars
<1>2. IInv'
  BY <1>1, Inductive DEF StreamInv
<1> QED BY <1>2, StreamTypeStep, StreamStep DEF StreamInv

LEMMA BegunIsFaithful == StreamInv => StreamFaithful
<1> SUFFICES ASSUME StreamInv, NEW j \in Watched
             PROVE  /\ Len(delivered[j]) <= Len(events[j])
                    /\ delivered[j] = SubSeq(events[j], 1, Len(delivered[j]))
  BY DEF StreamFaithful
<1>1. /\ delivered[j] \in Seq(Events) /\ batch[j] \in Seq(Events) /\ events[j] \in Seq(Events)
      /\ Begins(delivered[j], batch[j], events[j])
  BY WatchedAssumption DEF StreamInv, StreamTypeOK, IInv, TypeOK, Faithful
<1> QED BY <1>1, BeginsAt

\* Whatever is appended to the log while streams poll it, and however often
\* they are cut and opened again, a client has the log from its start on.
THEOREM StreamsAreFaithful == StreamSpec => []StreamFaithful
<1>1. StreamSpec => []StreamInv
  BY StreamInitially, StreamInductive, PTL DEF StreamSpec
<1> QED BY <1>1, BegunIsFaithful, PTL
=============================================================================
