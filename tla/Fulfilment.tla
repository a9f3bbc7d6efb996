------------------------------ MODULE Fulfilment ------------------------------
(***************************************************************************)
(* What billing events do to entitlements: billing/fulfilment.py with      *)
(* entitlements.py and seats.py, and the two endpoints of api/app.py that  *)
(* call them, /billing/checkout and /billing/webhook.                      *)
(*                                                                         *)
(* The provider keeps payments and subscriptions, and sends an event for   *)
(* each thing that happens to one.  Events are delivered at least once, in *)
(* any order.  A delivery is one transaction: the webhook is asynchronous  *)
(* and awaits nothing after the body, so deliveries never overlap.  A      *)
(* checkout runs on another thread.  What keeps the two apart is the       *)
(* advisory lock on PostgreSQL, which only some of the steps take.         *)
(***************************************************************************)
EXTENDS Integers, FiniteSets

CONSTANTS Accounts,
          Purchases,   \* attempts to buy a founding seat, and their payments
          Subs,        \* subscriptions
          Buyer,       \* the account of each purchase and subscription
          Seats,       \* FOUNDING_SEATS
          MaxEvents,   \* bound: after so many events only the code acts
          MaxPeriods,  \* bound: periods a subscription is paid for
          Nobody

Refs     == Purchases \cup Subs
Payments == (Purchases \X {0}) \cup (Subs \X (1..MaxPeriods))

ASSUME BillingAssumption ==
  /\ IsFiniteSet(Purchases) /\ IsFiniteSet(Subs)
  /\ Purchases \cap Subs = {}
  /\ \A r \in Refs : Buyer[r] \in Accounts
  /\ Seats \in Nat
  /\ MaxEvents \in Nat /\ MaxPeriods \in Nat
  /\ Nobody \notin Accounts \cup Refs

VARIABLES
  \* the provider
  clock,       \* orders events: each is later than the ones before
  sent,        \* events that have happened
  sub,         \* each subscription
  refunded,    \* payments refunded in full
  dispute,     \* of each payment
  \* requests in progress
  checkout,    \* stage of each founding checkout, and the hold it took
  seatLock,    \* the checkout that has the advisory lock
  \* the database
  hold,        \* the seat reserved by each checkout, unless released
  grant,       \* entitlements, by external_ref
  ledger       \* billing_events

provider == <<clock, sent, sub, refunded, dispute>>
requests == <<checkout, seatLock>>
vars == <<clock, sent, sub, refunded, dispute, checkout, seatLock, hold, grant, ledger>>

Granting  == {"subscription.active"}     \* and subscription.renewed
Ending    == {"subscription.on_hold", "subscription.expired"}
Reversal  == {"refund.succeeded", "dispute.opened", "dispute.lost"}
Restoring == {"dispute.won"}             \* and dispute.cancelled, dispute.expired
Kinds     == Granting \cup Ending \cup Reversal \cup Restoring
               \cup {"payment.succeeded", "subscription.cancelled"}

\* nth is the period the event is about.  A subscription.cancelled with nth
\* zero does not say when the period ends.  subject: the event carries the
\* account (a checkout puts it in the metadata).
Event == [kind : Kinds, of : Refs, nth : 0..MaxPeriods, at : Nat,
          subject : BOOLEAN, partial : BOOLEAN]

Outcomes ==
  {"granted", "granted-lifetime", "granted-lifetime-replaced-subscription",
   "extended-while-disputed", "recorded", "refunded-over-cap", "cancel-noted",
   "ends-at-period-end", "revoked", "revoked-and-cancelled", "already-ended",
   "partial-refund-kept", "restored", "ignored-stale", "ignored-refunded",
   "cancel-no-match", "revoke-no-match", "restore-no-match"}

\* Mutant: the kind of the event is stored for the status.
StatusIsTheKind == [e \in Ending \cup Reversal |-> e]

StatusOf == [e \in Ending \cup Reversal |->
  CASE e = "subscription.on_hold" -> "on_hold"
    [] e = "subscription.expired" -> "expired"
    [] e = "refund.succeeded"     -> "refunded"
    [] OTHER                      -> "disputed"]

Statuses == {"none", "active", "on_hold", "expired", "refunded", "disputed", "replaced"}

\* until is the period a subscription's grant lasts for; last is last_event_at.
Grant   == [status : Statuses, until : 0..MaxPeriods, last : Nat]
NoGrant == [status |-> "none", until |-> 0, last |-> 0]

Stages == {"none", "asked", "looked", "calling", "open", "closed", "paid"}

-----------------------------------------------------------------------------
(* Founding seats: seats.py, and count_lifetime_grants.                    *)

Lifetimes   == {p \in Purchases : grant[p].status = "active"}
LiveHolds   == {p \in Purchases : hold[p] = "live"}
HoldsOf(a)  == {p \in Purchases : hold[p] # "none" /\ Buyer[p] = a}

\* seats_remaining, before max(0, _).
Remaining(excluding) ==
  Seats - Cardinality(Lifetimes)
        - Cardinality({p \in LiveHolds : Buyer[p] # excluding})

\* Mutant: a reserved seat is free until it is paid for.
RemainingUnreserved(excluding) == Seats - Cardinality(Lifetimes)

ActiveHold(a) == \E p \in LiveHolds : Buyer[p] = a

\* The checkout refuses an account that has Pro for life.  This is read
\* before the lock is taken.
Ask(p) ==
  /\ checkout[p].stage = "none"
  /\ ~ \E q \in Lifetimes : Buyer[q] = Buyer[p]
  /\ checkout' = [checkout EXCEPT ![p].stage = "asked"]
  /\ UNCHANGED <<provider, seatLock, hold, grant, ledger>>

\* Mutant: seats.lock does nothing, as on SQLite.
NoSeatLock == TRUE

LockFree == seatLock = Nobody

SeatFor(p) == ActiveHold(Buyer[p]) \/ Remaining(Nobody) > 0

Look(p) ==
  /\ checkout[p].stage = "asked" /\ LockFree
  /\ SeatFor(p)
  /\ seatLock' = p
  /\ checkout' = [checkout EXCEPT ![p].stage = "looked"]
  /\ UNCHANGED <<provider, hold, grant, ledger>>

Refuse(p) ==
  /\ checkout[p].stage = "asked" /\ LockFree
  /\ ~SeatFor(p)
  /\ checkout' = [checkout EXCEPT ![p].stage = "closed"]
  /\ UNCHANGED <<provider, seatLock, hold, grant, ledger>>

\* reserve renews the account's active hold, or adds one; then the commit.
Reserve(p) ==
  /\ checkout[p].stage = "looked"
  /\ \E h \in IF ActiveHold(Buyer[p]) THEN LiveHolds \cap HoldsOf(Buyer[p]) ELSE {p} :
       /\ hold' = [hold EXCEPT ![h] = "live"]
       /\ checkout' = [checkout EXCEPT ![p] = [stage |-> "calling", hold |-> h]]
  /\ seatLock' = Nobody
  /\ UNCHANGED <<provider, grant, ledger>>

Opened(p) ==
  /\ checkout[p].stage = "calling"
  /\ checkout' = [checkout EXCEPT ![p] = [stage |-> "open", hold |-> Nobody]]
  /\ UNCHANGED <<provider, seatLock, hold, grant, ledger>>

\* The provider did not answer: the hold is released, whoever renewed it.
Unavailable(p) ==
  /\ checkout[p].stage = "calling"
  /\ hold' = [hold EXCEPT ![checkout[p].hold] = "none"]
  /\ checkout' = [checkout EXCEPT ![p] = [stage |-> "closed", hold |-> Nobody]]
  /\ UNCHANGED <<provider, seatLock, grant, ledger>>

Lapse(p) ==
  /\ hold[p] = "live"
  /\ hold' = [hold EXCEPT ![p] = "lapsed"]
  /\ UNCHANGED <<provider, requests, grant, ledger>>

\* A restart ends the checkouts in progress and their transactions; what they
\* committed stays.
Busy == {p \in Purchases : checkout[p].stage \in {"asked", "looked", "calling"}}
Restart ==
  /\ Busy # {}
  /\ checkout' = [p \in Purchases |->
       IF p \in Busy THEN [stage |-> "closed", hold |-> Nobody] ELSE checkout[p]]
  /\ seatLock' = Nobody
  /\ UNCHANGED <<provider, hold, grant, ledger>>

-----------------------------------------------------------------------------
(* The provider: what happens to payments and subscriptions.               *)

Happening(kind, r, nth) ==
  [kind |-> kind, of |-> r, nth |-> nth, at |-> clock + 1,
   subject |-> FALSE, partial |-> FALSE]

Send(E) ==
  /\ clock' = clock + 1
  /\ sent' = sent \cup E

Outside ==
  /\ clock < MaxEvents
  /\ UNCHANGED <<seatLock, hold, grant, ledger>>

\* A founding seat is paid for in its checkout, or through a payment link.
Pay(p) ==
  /\ checkout[p].stage \in {"none", "open"}
  /\ checkout' = [checkout EXCEPT ![p].stage = "paid"]
  /\ Send({[Happening("payment.succeeded", p, 0)
              EXCEPT !.subject = checkout[p].stage = "open"]})
  /\ Outside /\ UNCHANGED <<sub, refunded, dispute>>

\* The first period is paid for, or the next.
Charge(s) ==
  LET n == sub[s].period + 1 IN
  /\ sub[s].state = IF n = 1 THEN "none" ELSE "active"
  /\ n <= MaxPeriods
  /\ sub' = [sub EXCEPT ![s] = [state |-> "active", period |-> n]]
  /\ Send({Happening("payment.succeeded", s, n), Happening("subscription.active", s, n)})
  /\ Outside /\ UNCHANGED <<refunded, dispute, checkout>>

Becomes(s, from, to, kind, nth) ==
  /\ sub[s].state \in from
  /\ sub' = [sub EXCEPT ![s].state = to]
  /\ Send({Happening(kind, s, nth)})
  /\ Outside /\ UNCHANGED <<refunded, dispute, checkout>>

Pause(s)   == Becomes(s, {"active"}, "on_hold", "subscription.on_hold", 0)
Resume(s)  == Becomes(s, {"on_hold"}, "active", "subscription.active", sub[s].period)
Expire(s)  == Becomes(s, {"on_hold", "cancelled"}, "expired", "subscription.expired", 0)
Stop(s)    == \E n \in {0, sub[s].period} :
                Becomes(s, {"active"}, "cancelled", "subscription.cancelled", n)

Paid(y) == IF y[1] \in Purchases THEN checkout[y[1]].stage = "paid"
                                 ELSE y[2] <= sub[y[1]].period

Reverses(y, kind, partial) ==
  /\ Paid(y)
  /\ Send({[Happening(kind, y[1], y[2]) EXCEPT !.partial = partial]})
  /\ Outside /\ UNCHANGED <<sub, checkout>>

Refund(y) == \E partial \in BOOLEAN :
  /\ y \notin refunded
  /\ refunded' = IF partial THEN refunded ELSE refunded \cup {y}
  /\ UNCHANGED dispute
  /\ Reverses(y, "refund.succeeded", partial)

Dispute(y) ==
  /\ dispute[y] = "none"
  /\ dispute' = [dispute EXCEPT ![y] = "open"]
  /\ UNCHANGED refunded
  /\ Reverses(y, "dispute.opened", FALSE)

Settle(y) == \E kind \in {"dispute.won", "dispute.lost"} :
  /\ dispute[y] = "open"
  /\ dispute' = [dispute EXCEPT ![y] = "closed"]
  /\ UNCHANGED refunded
  /\ Reverses(y, kind, FALSE)

\* What the provider does when asked, and the events that follow.
Running(S) == {s \in S : sub[s].state \in {"active", "on_hold"}}

Cancels(S) ==
  /\ sub' = [s \in Subs |-> IF s \in Running(S) THEN [sub[s] EXCEPT !.state = "cancelled"]
                                                ELSE sub[s]]
  /\ IF Running(S) = {} THEN UNCHANGED <<clock, sent>>
     ELSE Send({Happening("subscription.cancelled", s, sub[s].period) : s \in Running(S)})
  /\ UNCHANGED <<refunded, dispute>>

Refunds(p) ==
  /\ refunded' = refunded \cup {<<p, 0>>}
  /\ IF <<p, 0>> \in refunded THEN UNCHANGED <<clock, sent>>
     ELSE Send({Happening("refund.succeeded", p, 0)})
  /\ UNCHANGED <<sub, dispute>>

-----------------------------------------------------------------------------
(* The webhook: apply_event, one disjunct for each way it ends.            *)

New(e) == e \in sent /\ \A l \in ledger : l.event # e

Record(e, outcome) ==
  /\ ledger' = ledger \cup {[event |-> e, outcome |-> outcome]}
  /\ UNCHANGED requests

\* Mutant: an event that happened at another time is never stale.
NeverStale(e) == FALSE

IsStale(e) == e.at < grant[e.of].last

Stamped(g, e) == [g EXCEPT !.last = IF e.at > @ THEN e.at ELSE @]

Write(e, g) == grant' = [grant EXCEPT ![e.of] = g]

Exists(e) == grant[e.of].status # "none"

\* _reversed_ref finds the subscription of a payment in the ledger, or else
\* takes the payment for a founding purchase; then there may be no grant.
Matches(e) ==
  /\ Exists(e)
  /\ \/ e.of \in Purchases
     \/ \E l \in ledger : /\ l.event.kind = "payment.succeeded"
                          /\ l.event.of = e.of /\ l.event.nth = e.nth

Ignore(e, outcome) ==
  Record(e, outcome) /\ UNCHANGED <<provider, hold, grant>>

Stale(e) ==
  /\ e.kind \in Granting \cup Ending \cup {"subscription.cancelled"}
       \/ (e.kind \in Reversal \cup Restoring /\ Matches(e))
  /\ IsStale(e)
  /\ Ignore(e, "ignored-stale")

\* Mutant: a renewal hands access back in the middle of a dispute.
NeverSuspended(g) == FALSE

Suspended(g) == g.status = "disputed"

\* FINAL_STATUSES
Final(g) == g.status = "refunded"

GrantPeriod(e) ==
  LET g == grant[e.of] IN
  /\ e.kind \in Granting /\ ~IsStale(e)
  /\ UNCHANGED <<provider, hold>>
  /\ \/ Final(g) /\ Record(e, "ignored-refunded") /\ UNCHANGED grant
     \/ /\ Suspended(g)
        /\ Record(e, "extended-while-disputed")
        /\ Write(e, Stamped([g EXCEPT !.until = e.nth], e))
     \/ /\ ~Final(g) /\ ~Suspended(g)
        /\ Record(e, "granted")
        /\ Write(e, Stamped([g EXCEPT !.status = "active", !.until = e.nth], e))

RecordPayment(e) ==
  /\ e.kind = "payment.succeeded" /\ e.of \in Subs
  /\ Ignore(e, "recorded")

Owner(e) == IF e.subject THEN Buyer[e.of] ELSE Nobody

\* Mutant: a purchase without a hold raises, and is delivered for ever.
ReleaseTheHold(a) == \E h \in HoldsOf(a) : hold' = [hold EXCEPT ![h] = "none"]

\* held_for: any unreleased hold of the account, lapsed or not.
ReleaseOne(a) ==
  IF HoldsOf(a) = {} THEN UNCHANGED hold
  ELSE \E h \in HoldsOf(a) : hold' = [hold EXCEPT ![h] = "none"]

OverCap(e) ==
  /\ ~ActiveHold(Owner(e)) /\ ~Exists(e)
  /\ Remaining(Owner(e)) <= 0

Replaced(e) == {s \in Subs : Buyer[s] = Buyer[e.of] /\ grant[s].status = "active"}

RefundOverCap(e) ==
  /\ e.kind = "payment.succeeded" /\ e.of \in Purchases /\ LockFree
  /\ OverCap(e)
  /\ Refunds(e.of)
  /\ ReleaseOne(Owner(e))
  /\ Record(e, "refunded-over-cap") /\ UNCHANGED grant

GrantLifetime(e) ==
  /\ e.kind = "payment.succeeded" /\ e.of \in Purchases /\ LockFree
  /\ ~OverCap(e)
  /\ Cancels(Replaced(e))
  /\ ReleaseOne(Owner(e))
  /\ grant' = [r \in Refs |->
       IF r = e.of THEN [grant[r] EXCEPT !.status = "active"]
       ELSE IF r \in Replaced(e) THEN [grant[r] EXCEPT !.status = "replaced"] ELSE grant[r]]
  /\ Record(e, IF Replaced(e) = {} THEN "granted-lifetime"
               ELSE "granted-lifetime-replaced-subscription")

EndAtPeriod(e) ==
  LET g == grant[e.of] IN
  /\ e.kind = "subscription.cancelled" /\ ~IsStale(e)
  /\ UNCHANGED <<provider, hold>>
  /\ \/ ~Exists(e) /\ UNCHANGED grant
        /\ Record(e, IF e.nth = 0 THEN "cancel-noted" ELSE "cancel-no-match")
     \/ Exists(e) /\ e.nth = 0 /\ Write(e, Stamped(g, e)) /\ Record(e, "cancel-noted")
     \/ /\ Exists(e) /\ e.nth # 0
        /\ Write(e, Stamped([g EXCEPT !.until = IF e.nth < @ THEN e.nth ELSE @], e))
        /\ Record(e, "ends-at-period-end")

End(e) ==
  LET g == grant[e.of] IN
  /\ e.kind \in Ending /\ ~IsStale(e)
  /\ UNCHANGED <<provider, hold>>
  /\ \/ ~Exists(e) /\ UNCHANGED grant /\ Record(e, "revoke-no-match")
     \/ Final(g) /\ Write(e, Stamped(g, e)) /\ Record(e, "already-ended")
     \/ /\ Exists(e) /\ ~Final(g)
        /\ Write(e, Stamped([g EXCEPT !.status = StatusOf[e.kind]], e))
        /\ Record(e, "revoked")

\* Mutant: only a lost dispute cancels the subscription.
EndsRelationIfLost(e) == e.of \in Subs /\ e.kind = "dispute.lost"

\* A full refund or a lost dispute also cancels the subscription.
EndsRelation(e) == e.of \in Subs /\ e.kind \in {"refund.succeeded", "dispute.lost"}

Withdraw(e) ==
  LET g == grant[e.of] IN
  /\ e.kind \in Reversal
  /\ UNCHANGED hold
  /\ \/ ~Matches(e) /\ UNCHANGED <<provider, grant>> /\ Record(e, "revoke-no-match")
     \/ /\ Matches(e) /\ ~IsStale(e) /\ e.partial
        /\ Write(e, Stamped(g, e)) /\ Record(e, "partial-refund-kept")
        /\ UNCHANGED provider
     \/ /\ Matches(e) /\ ~IsStale(e) /\ ~e.partial
        /\ Write(e, Stamped([g EXCEPT !.status = StatusOf[e.kind]], e))
        /\ Cancels(IF EndsRelation(e) THEN {e.of} ELSE {})
        /\ Record(e, IF EndsRelation(e) THEN "revoked-and-cancelled" ELSE "revoked")

Restore(e) ==
  LET g == grant[e.of] IN
  /\ e.kind \in Restoring
  /\ UNCHANGED <<provider, hold>>
  /\ \/ ~Matches(e) /\ UNCHANGED grant /\ Record(e, "restore-no-match")
     \/ /\ Matches(e) /\ ~IsStale(e) /\ g.status = "disputed"
        /\ Write(e, Stamped([g EXCEPT !.status = "active"], e)) /\ Record(e, "restored")
     \/ /\ Matches(e) /\ ~IsStale(e) /\ g.status # "disputed"
        /\ Write(e, Stamped(g, e)) /\ Record(e, "restore-no-match")

\* A call to the provider did not answer.  The transaction is rolled back and
\* the event will be delivered again, but the provider may have acted.
NoAnswer(e) ==
  /\ UNCHANGED <<requests, hold, grant, ledger>>
  /\ \/ /\ e.kind = "payment.succeeded" /\ e.of \in Purchases /\ LockFree
        /\ OverCap(e) /\ Refunds(e.of)
     \/ /\ e.kind = "payment.succeeded" /\ e.of \in Purchases /\ LockFree
        /\ ~OverCap(e) /\ \E S \in SUBSET Replaced(e) : Cancels(S)
     \/ /\ e.kind \in Reversal /\ ~e.partial /\ EndsRelation(e)
        /\ Matches(e) /\ ~IsStale(e) /\ Cancels({e.of})

Apply(e) ==
  \/ Stale(e) \/ GrantPeriod(e) \/ RecordPayment(e)
  \/ RefundOverCap(e) \/ GrantLifetime(e)
  \/ EndAtPeriod(e) \/ End(e) \/ Withdraw(e) \/ Restore(e)

Deliver(e) == New(e) /\ Apply(e)
Retry(e)   == New(e) /\ NoAnswer(e)

-----------------------------------------------------------------------------
Init ==
  /\ clock = 0 /\ sent = {} /\ refunded = {} /\ ledger = {}
  /\ sub = [s \in Subs |-> [state |-> "none", period |-> 0]]
  /\ dispute = [y \in Payments |-> "none"]
  /\ checkout = [p \in Purchases |-> [stage |-> "none", hold |-> Nobody]]
  /\ seatLock = Nobody
  /\ hold = [p \in Purchases |-> "none"]
  /\ grant = [r \in Refs |-> NoGrant]

Seat(p) == Look(p) \/ Refuse(p) \/ Reserve(p) \/ Opened(p) \/ Unavailable(p)

Next ==
  \/ \E p \in Purchases : Ask(p) \/ Seat(p) \/ Lapse(p) \/ Pay(p)
  \/ \E s \in Subs : Charge(s) \/ Pause(s) \/ Resume(s) \/ Expire(s) \/ Stop(s)
  \/ \E y \in Payments : Refund(y) \/ Dispute(y) \/ Settle(y)
  \/ \E e \in sent : Deliver(e) \/ Retry(e)
  \/ Restart

Spec == Init /\ [][Next]_vars

\* A checkout's thread runs on, and the provider redelivers until it is
\* answered.  A call that fails does not fail for ever.
FairSpec ==
  /\ Spec
  /\ \A p \in Purchases : WF_vars(Seat(p))
  /\ WF_vars(\E e \in sent : Deliver(e))

-----------------------------------------------------------------------------
TypeOK ==
  /\ clock \in Nat
  /\ sent \subseteq Event
  /\ sub \in [Subs -> [state : {"none", "active", "on_hold", "cancelled", "expired"},
                       period : 0..MaxPeriods]]
  /\ refunded \subseteq Payments
  /\ dispute \in [Payments -> {"none", "open", "closed"}]
  /\ checkout \in [Purchases -> [stage : Stages, hold : Purchases \cup {Nobody}]]
  /\ seatLock \in Purchases \cup {Nobody}
  /\ hold \in [Purchases -> {"none", "live", "lapsed"}]
  /\ grant \in [Refs -> Grant]
  /\ ledger \subseteq [event : sent, outcome : Outcomes]

Applied(r, outcomes) ==
  {l.event : l \in {k \in ledger : k.event.of = r /\ k.outcome \in outcomes}}

TakenBy(r) == Applied(r, {"revoked", "revoked-and-cancelled"})
GivenBy(r) == Applied(r, {"granted", "restored"})

\* The accounts that have a founding seat, paid for or reserved, are never more
\* than the seats, whatever checkouts, payments, lapses and failures come
\* together (seats.py 1-12).  The exception is a seat that a settled dispute
\* gave back: restore does not ask whether it was sold again.
Seated == {Buyer[p] : p \in {q \in Lifetimes : Applied(q, {"restored"}) = {}}}
SeatsNeverOversold ==
  Cardinality(Seated \cup {Buyer[p] : p \in LiveHolds}) <= Seats

\* A grant that an event took away stands again only because of an event that
\* happened later, in whatever order the two were delivered (fulfilment.py
\* 20-22).
OnlyANewerEventGivesBack ==
  \A r \in Refs : grant[r].status = "active" =>
    \A e \in TakenBy(r) : \E f \in GivenBy(r) : f.at > e.at

\* Whoever lost a subscription to a refund, a lost dispute or a founding seat is
\* no longer charged for it, however often the call failed (fulfilment.py
\* 16-18, 27-29).
WithdrawnIsCancelled ==
  \A s \in Subs :
    (\/ grant[s].status \in {"refunded", "replaced"}
     \/ \E e \in TakenBy(s) : e.kind \in {"refund.succeeded", "dispute.lost"})
    => sub[s].state \in {"cancelled", "expired"}

\* Nothing but a settled dispute ends a suspension with access: not a renewal
\* that is paid meanwhile (fulfilment.py 194-199).
OnlyASettledDisputeRestores ==
  [][\A r \in Refs : grant[r].status = "disputed" /\ grant'[r].status = "active" =>
       \E l \in ledger' \ ledger : l.event.of = r /\ l.event.kind \in Restoring]_vars

\* A payment for a founding seat ends in a seat or in a refund, although the
\* webhook may find the lock taken and the provider may fail to answer.
EveryPaymentIsSettled ==
  \A p \in Purchases : checkout[p].stage = "paid" ~>
    (grant[p].status # "none" \/ <<p, 0>> \in refunded)

\* "A refunded grant is final" (fulfilment.py 22-23; entitlements.py 197-198).
\* Violated: a dispute opened after the refund overwrites it, and is then won.
RefundIsFinal ==
  \A r \in Refs : (\E e \in TakenBy(r) : e.kind = "refund.succeeded")
                  => grant[r].status # "active"

\* "Cancelling ends renewal, not the period already paid for" (fulfilment.py
\* 12): once every event is delivered, a cancelled subscription lasts for what
\* was paid.  Violated: a cancellation that overtakes the last renewal makes
\* it stale.
PaidPeriodKept ==
  \A s \in Subs :
    grant[s].status = "active" /\ sub[s].state = "cancelled" /\ (\A e \in sent : ~New(e))
    => grant[s].until = sub[s].period
=============================================================================
