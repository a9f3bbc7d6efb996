------------------------------ MODULE RateLimit -----------------------------
(***************************************************************************)
(* The limiters whose callers are pool threads: command_limiter            *)
(* (_enforce_command_rate) and waitlist_limiter (join_waitlist) of         *)
(* api/app.py.  A thread reads the clock, takes the lock and is granted or *)
(* refused; a refused one reads the clock and takes the lock again to say  *)
(* when to come back.                                                      *)
(***************************************************************************)
EXTENDS SlidingWindow

CONSTANTS Threads,
          PoolKeys, \* the keys of these two limiters: accounts and addresses
          Horizon   \* bound on the clock

ASSUME RateLimitAssumption == PoolKeys \subseteq Keys /\ Horizon \in Nat

Stages == {"idle", "checking", "refused", "asking"}

VARIABLES
  thread,   \* the call each thread is in
  promise   \* history: the last answer given

rateVars == <<now, hits, granted, thread, promise>>

Call    == [stage : Stages, key : PoolKeys, moment : Nat]
Promise == [key : PoolKeys, due : Nat, units : Nat]

RateInit ==
  /\ LimiterInit
  /\ \E k \in PoolKeys :
       /\ thread = [t \in Threads |-> [stage |-> "idle", key |-> k, moment |-> 0]]
       /\ promise = [key |-> k, due |-> Horizon + 1, units |-> 0]

ReadClock(t, k) ==
  /\ thread[t].stage = "idle"
  /\ thread' = [thread EXCEPT ![t] = [stage |-> "checking", key |-> k, moment |-> now]]
  /\ UNCHANGED <<now, hits, granted, promise>>

Admit(t) ==
  /\ thread[t].stage = "checking"
  /\ Grant(thread[t].key, 1, thread[t].moment)
  /\ thread' = [thread EXCEPT ![t].stage = "idle"]
  /\ UNCHANGED <<now, promise>>

Refuse(t) ==
  /\ thread[t].stage = "checking"
  /\ Deny(thread[t].key, 1, thread[t].moment)
  /\ thread' = [thread EXCEPT ![t].stage = "refused"]
  /\ UNCHANGED <<now, promise>>

ReadClockAgain(t) ==
  /\ thread[t].stage = "refused"
  /\ thread' = [thread EXCEPT ![t].stage = "asking", ![t].moment = now]
  /\ UNCHANGED <<now, hits, granted, promise>>

Answer(t) ==
  LET k == thread[t].key IN
  /\ thread[t].stage = "asking"
  /\ promise' = [key |-> k, due |-> now + RetryAfter(k, thread[t].moment),
                 units |-> Len(granted[k])]
  /\ thread' = [thread EXCEPT ![t].stage = "idle"]
  /\ UNCHANGED <<now, hits, granted>>

\* A thread that has read the clock does not wait longer than MaxWait.
RateTick ==
  /\ now < Horizon
  /\ \A t \in Threads :
       thread[t].stage \in {"checking", "asking"} => now - thread[t].moment < MaxWait
  /\ now' = now + 1
  /\ UNCHANGED <<hits, granted, thread, promise>>

RateNext ==
  \/ RateTick
  \/ \E t \in Threads :
       \/ \E k \in PoolKeys : ReadClock(t, k)
       \/ Admit(t) \/ Refuse(t) \/ ReadClockAgain(t) \/ Answer(t)

RateSpec == RateInit /\ [][RateNext]_rateVars

-----------------------------------------------------------------------------
(* Properties.                                                             *)

RateTypeOK ==
  /\ now \in 0..Horizon
  /\ hits \in [Keys -> Seq(Nat)]
  /\ granted \in [Keys -> Seq(Nat)]
  /\ thread \in [Threads -> Call]
  /\ promise \in Promise

\* A caller who waits for as long as it was told to is not refused again,
\* unless others used the room in the meantime (the Retry-After header of
\* _enforce_command_rate and join_waitlist).
RetryAfterIsEnough ==
  [][ \A t \in Threads :
        /\ thread[t].stage = "checking" /\ thread'[t].stage = "refused"
        /\ thread[t].key = promise.key /\ thread[t].moment >= promise.due
        => Len(granted[promise.key]) > promise.units ]_rateVars
=============================================================================
