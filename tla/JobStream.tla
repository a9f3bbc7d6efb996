------------------------------ MODULE JobStream -----------------------------
(***************************************************************************)
(* The progress stream of a screening job, GET /screening-jobs/{id}/events *)
(* of api/app.py, beside the jobs it follows.  A stream polls: each round  *)
(* reads the events after the last one it sent, then the job's status, in  *)
(* two statements that share no snapshot, then sends the events or, when   *)
(* there were none and the job has ended, closes.                          *)
(***************************************************************************)
EXTENDS ScreeningJobs

CONSTANT Watched  \* the jobs somebody may follow

ASSUME WatchedAssumption == Watched \subseteq Jobs

VARIABLES stream,     \* where the stream of each watched job is in its round
          batch,      \* the events the round read
          delivered   \* what the client of the current stream has been sent

streams == <<stream, batch, delivered>>
allVars == <<vars, streams>>

Polling == {"reading", "checking"}

\* The caller's slot is taken and the stream starts at the first event.
Open(j) ==
  /\ up /\ status[j] # "none" /\ stream[j] \notin Polling
  /\ stream' = [stream EXCEPT ![j] = "reading"]
  /\ delivered' = [delivered EXCEPT ![j] = <<>>]
  /\ UNCHANGED <<vars, batch>>

\* Mutant: the last event sent is read again.
NewEventsFromLast(j) ==
  SubSeq(events[j], IF delivered[j] = <<>> THEN 1 ELSE Len(delivered[j]), Len(events[j]))

\* The rows with a sequence above the last one sent.
NewEvents(j) == SubSeq(events[j], Len(delivered[j]) + 1, Len(events[j]))

ReadEvents(j) ==
  /\ up /\ stream[j] = "reading"
  /\ batch' = [batch EXCEPT ![j] = NewEvents(j)]
  /\ stream' = [stream EXCEPT ![j] = "checking"]
  /\ UNCHANGED <<vars, delivered>>

\* Mutant: only a success is terminal.
EndedWell(j) == status[j] = "succeeded" /\ batch[j] = <<>>

Ended(j) == status[j] \in Outcome /\ batch[j] = <<>>

ReadStatus(j) ==
  /\ up /\ stream[j] = "checking"
  /\ stream' = [stream EXCEPT ![j] = IF Ended(j) THEN "finished" ELSE "reading"]
  /\ delivered' = [delivered EXCEPT ![j] = @ \o batch[j]]
  /\ batch' = [batch EXCEPT ![j] = <<>>]
  /\ UNCHANGED vars

\* The client went away, or the stream reached MAX_STREAM_SECONDS.
Cut(j) ==
  /\ up /\ stream[j] = "reading"
  /\ stream' = [stream EXCEPT ![j] = "cut"]
  /\ UNCHANGED <<vars, batch, delivered>>

CrashStreams ==
  /\ Crash
  /\ stream' = [j \in Watched |-> IF stream[j] \in Polling THEN "cut" ELSE stream[j]]
  /\ batch' = [j \in Watched |-> <<>>]
  /\ UNCHANGED delivered

JobStep ==
  /\ \/ \E j \in Jobs : \E r \in Requests : Ask(j, r)
     \/ \E j \in Jobs : Handle(j) \/ Age(j) \/ CancelRead(j) \/ Cancel(j) \/ Start(j) \/ Run(j)
     \/ Restart
  /\ UNCHANGED streams

StreamInit ==
  /\ Init
  /\ stream = [j \in Watched |-> "none"]
  /\ batch = [j \in Watched |-> <<>>]
  /\ delivered = [j \in Watched |-> <<>>]

Follow(j) == ReadEvents(j) \/ ReadStatus(j)

StreamNext ==
  \/ JobStep
  \/ \E j \in Watched : Open(j) \/ Follow(j) \/ Cut(j)
  \/ CrashStreams

\* The event loop keeps every open stream going; no client has to open one
\* or leave.
StreamSpec ==
  /\ StreamInit /\ [][StreamNext]_allVars
  /\ Fairness
  /\ \A j \in Watched : WF_allVars(Follow(j))

-----------------------------------------------------------------------------
(* Properties                                                              *)

\* Whatever is appended to the log while a stream polls it, the client has
\* been sent the log's events in order, none twice and none left out.
StreamFaithful ==
  \A j \in Watched :
    /\ Len(delivered[j]) <= Len(events[j])
    /\ delivered[j] = SubSeq(events[j], 1, Len(delivered[j]))

\* A stream never outlives its job for ever: once the job has ended the stream
\* closes by itself, so it does not hold its slot.
StreamCloses ==
  \A j \in Watched :
    (stream[j] \in Polling /\ status[j] \in Outcome) ~> stream[j] \notin Polling

\* A stream that closes by itself has told the client how the job ended; the
\* console waits for that event before it reloads the job.
FinishedStreamToldOutcome ==
  \A j \in Watched :
    stream[j] = "finished" => \E i \in DOMAIN delivered[j] : delivered[j][i] \in Outcome
=============================================================================
