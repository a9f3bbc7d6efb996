--------------------------- MODULE FulfilmentProofs ---------------------------
(***************************************************************************)
(* Founding seats are never oversold, whatever the number of accounts,     *)
(* purchases, subscriptions and events.                                    *)
(***************************************************************************)
EXTENDS Fulfilment, FiniteSetTheorems, TLAPS

Taken == Seated \cup {Buyer[p] : p \in LiveHolds}

\* The checkout that has counted seats is the one that has the lock.
LockInv ==
  \A p \in Purchases :
    /\ checkout[p].stage = "looked" <=> seatLock = p
    /\ checkout[p].stage = "calling" => checkout[p].hold \in Purchases

PaymentOf(e, p) == e.kind = "payment.succeeded" /\ e.of = p

\* A seat is granted for the one payment of its purchase, which the ledger
\* then holds: a new payment event is for a purchase without a grant.
PaymentInv ==
  /\ \A e \in sent :
       e.kind \in Granting \cup Ending \cup {"subscription.cancelled"} => e.of \in Subs
  /\ \A p \in Purchases :
       /\ \A e \in sent : PaymentOf(e, p) => checkout[p].stage = "paid"
       /\ \A e, f \in sent : PaymentOf(e, p) /\ PaymentOf(f, p) => e = f
       /\ grant[p].status # "none" => \E l \in ledger : PaymentOf(l.event, p)

\* While a checkout that has counted seats keeps the lock, its seat is as good
\* as taken.  Its account may lose a hold meanwhile; nobody else can gain one.
SeatInv ==
  /\ Cardinality(Taken) <= Seats
  /\ seatLock # Nobody => Cardinality(Taken \cup {Buyer[seatLock]}) <= Seats

IInv == TypeOK /\ LockInv /\ PaymentInv /\ SeatInv

-----------------------------------------------------------------------------
(* Counting.                                                               *)

LEMMA Images ==
  ASSUME NEW S \in SUBSET Purchases
  PROVE  /\ IsFiniteSet(S) /\ Cardinality(S) \in Nat
         /\ IsFiniteSet({Buyer[p] : p \in S})
         /\ Cardinality({Buyer[p] : p \in S}) \in Nat
         /\ Cardinality({Buyer[p] : p \in S}) <= Cardinality(S)
<1> DEFINE T == {Buyer[p] : p \in S}
           f == [p \in S |-> Buyer[p]]
<1>1. IsFiniteSet(S)
  BY BillingAssumption, FS_Subset DEF BillingAssumption
<1>2. f \in Surjection(S, T)
  BY DEF Surjection
<1>3. IsFiniteSet(T) /\ Cardinality(T) <= Cardinality(S)
  <2> HIDE DEF f, T
  <2> QED BY <1>1, <1>2, FS_Surjection
<1> QED BY <1>1, <1>3, FS_CardinalityType

LEMMA TakenIsSmall ==
  /\ Taken \subseteq {Buyer[p] : p \in Purchases}
  /\ IsFiniteSet({Buyer[p] : p \in Purchases})
BY Images DEF Taken, Seated, Lifetimes, LiveHolds

LEMMA Fewer ==
  ASSUME NEW S, NEW T, IsFiniteSet(T), S \subseteq T
  PROVE  /\ IsFiniteSet(S) /\ IsFiniteSet(T)
         /\ Cardinality(S) \in Nat /\ Cardinality(T) \in Nat
         /\ Cardinality(S) <= Cardinality(T)
BY FS_Subset, FS_CardinalityType

\* A step that takes nothing, and does not take the lock, keeps the seats.
LEMMA Calm ==
  ASSUME SeatInv, Taken' \subseteq Taken, seatLock' \in {seatLock, Nobody}
  PROVE  SeatInv'
<1>1. IsFiniteSet(Taken)
  BY TakenIsSmall, FS_Subset
<1>2. IsFiniteSet(Taken \cup {Buyer[seatLock]})
  BY <1>1, FS_AddElement
<1>3. Cardinality(Taken') <= Seats
  BY <1>1, Fewer, BillingAssumption DEF SeatInv, BillingAssumption
<1>4. ASSUME seatLock' # Nobody
      PROVE  Cardinality(Taken' \cup {Buyer[seatLock']}) <= Seats
  <2>1. seatLock' = seatLock /\ seatLock # Nobody
    BY <1>4
  <2>2. Taken' \cup {Buyer[seatLock']} \subseteq Taken \cup {Buyer[seatLock]}
    BY <2>1
  <2> QED BY <1>2, <2>1, <2>2, Fewer, BillingAssumption DEF SeatInv, BillingAssumption
<1> QED BY <1>3, <1>4 DEF SeatInv

\* No hold becomes live, and a grant becomes active only by a restore.
LEMMA TakenShrinks ==
  ASSUME \A p \in Purchases : hold'[p] = "live" => hold[p] = "live",
         ledger \subseteq ledger',
         \A p \in Purchases : grant'[p].status = "active" =>
           \/ grant[p].status = "active"
           \/ \E l \in ledger' : l.event.of = p /\ l.outcome = "restored"
  PROVE  Taken' \subseteq Taken
BY DEF Taken, Seated, Lifetimes, LiveHolds, Applied

\* Whoever takes one of the seats that are left is within the cap.
LEMMA OneMore ==
  ASSUME NEW a, NEW excluding,
         Remaining(excluding) > 0,
         excluding = a \/ excluding = Nobody
  PROVE  Cardinality(Taken \cup {a}) <= Seats
<1> DEFINE L == Lifetimes
           H == {p \in LiveHolds : Buyer[p] # excluding}
           LB == {Buyer[p] : p \in L}
           HB == {Buyer[p] : p \in H}
<1>1. L \subseteq Purchases /\ H \subseteq Purchases
  BY DEF Lifetimes, LiveHolds
<1>2. /\ IsFiniteSet(LB) /\ Cardinality(LB) \in Nat
      /\ Cardinality(L) \in Nat /\ Cardinality(LB) <= Cardinality(L)
  BY <1>1, Images
<1>3. /\ IsFiniteSet(HB) /\ Cardinality(HB) \in Nat
      /\ Cardinality(H) \in Nat /\ Cardinality(HB) <= Cardinality(H)
  BY <1>1, Images
<1>4. Seats - Cardinality(L) - Cardinality(H) > 0
  BY DEF Remaining
<1>5. Taken \cup {a} \subseteq (LB \cup HB) \cup {a}
  <2>1. \A p \in LiveHolds : Buyer[p] \in HB \cup {a}
    BY BillingAssumption DEF BillingAssumption, LiveHolds, Refs
  <2> QED BY <2>1 DEF Taken, Seated
<1> HIDE DEF L, H, LB, HB
<1>6. /\ IsFiniteSet(LB \cup HB) /\ Cardinality(LB \cup HB) \in Nat
      /\ Cardinality(LB \cup HB) <= Cardinality(LB) + Cardinality(HB)
  <2>1. IsFiniteSet(LB \cap HB) /\ Cardinality(LB \cap HB) \in Nat
    BY <1>2, FS_Intersection, FS_CardinalityType
  <2>2. IsFiniteSet(LB \cup HB) /\ Cardinality(LB \cup HB) \in Nat
    BY <1>2, <1>3, FS_Union, FS_CardinalityType
  <2>3. Cardinality(LB \cup HB) = Cardinality(LB) + Cardinality(HB) - Cardinality(LB \cap HB)
    BY <1>2, <1>3, FS_Union
  <2> QED BY <1>2, <1>3, <2>1, <2>2, <2>3
<1>7. /\ IsFiniteSet((LB \cup HB) \cup {a})
      /\ Cardinality((LB \cup HB) \cup {a}) <= Cardinality(LB \cup HB) + 1
  BY <1>6, FS_AddElement
<1>8. /\ Cardinality(Taken \cup {a}) \in Nat
      /\ Cardinality(Taken \cup {a}) <= Cardinality((LB \cup HB) \cup {a})
      /\ Cardinality((LB \cup HB) \cup {a}) \in Nat
  BY <1>5, <1>7, Fewer
<1> QED BY <1>2, <1>3, <1>4, <1>6, <1>7, <1>8, BillingAssumption DEF BillingAssumption

-----------------------------------------------------------------------------
(* Type correctness.                                                       *)

LEMMA Typed ==
  /\ \A r \in Refs : Buyer[r] \in Accounts /\ r # Nobody
  /\ Purchases \subseteq Refs /\ Subs \subseteq Refs
  /\ Refs = Purchases \cup Subs
  /\ \A p \in Purchases : p \notin Subs
  /\ MaxPeriods \in Nat /\ Seats \in Nat /\ MaxEvents \in Nat
  /\ \A y \in Payments : y[1] \in Refs /\ y[2] \in 0..MaxPeriods
BY BillingAssumption DEF BillingAssumption, Refs, Payments

LEMMA HappeningType ==
  ASSUME clock \in Nat, NEW kind \in Kinds, NEW r \in Refs, NEW nth \in 0..MaxPeriods
  PROVE  /\ Happening(kind, r, nth) \in Event
         /\ Happening(kind, r, nth).kind = kind /\ Happening(kind, r, nth).of = r
         /\ \A x \in BOOLEAN : [Happening(kind, r, nth) EXCEPT !.subject = x] \in Event
         /\ \A x \in BOOLEAN : [Happening(kind, r, nth) EXCEPT !.partial = x] \in Event
<1> DEFINE h == Happening(kind, r, nth)
<1>1. h \in Event /\ h.kind = kind /\ h.of = r
  BY DEF Happening, Event
<1>2. ASSUME NEW x \in BOOLEAN
      PROVE  [h EXCEPT !.subject = x] \in Event /\ [h EXCEPT !.partial = x] \in Event
  <2> HIDE DEF h
  <2> QED BY <1>1, <1>2 DEF Event
<1> QED BY <1>1, <1>2

LEMMA StatusOfType ==
  ASSUME NEW k \in Ending \cup Reversal
  PROVE  StatusOf[k] \in Statuses \ {"none", "active"}
BY DEF StatusOf, Ending, Reversal, Statuses

LEMMA WriteType ==
  ASSUME TypeOK, NEW e \in sent, NEW g \in Grant
  PROVE  /\ Stamped(g, e) \in Grant
         /\ Stamped(g, e).status = g.status
         /\ e \in Event
         /\ Write(e, g) => grant' \in [Refs -> Grant]
BY DEF TypeOK, Stamped, Grant, Event, Write

\* The part of the state the provider keeps.
ProviderOK ==
  /\ clock \in Nat
  /\ sent \subseteq Event
  /\ sub \in [Subs -> [state : {"none", "active", "on_hold", "cancelled", "expired"},
                       period : 0..MaxPeriods]]
  /\ refunded \subseteq Payments
  /\ dispute \in [Payments -> {"none", "open", "closed"}]

AboutSubs == Granting \cup Ending \cup {"subscription.cancelled", "payment.succeeded"}

\* Events are only added, and none is the payment of a purchase.
Harmless ==
  /\ sent \subseteq sent'
  /\ \A e \in sent' \ sent : e.kind \in AboutSubs => e.of \in Subs

LEMMA SendType ==
  ASSUME clock \in Nat, sent \subseteq Event, NEW E \in SUBSET Event, Send(E),
         \A e \in E : e.kind \in AboutSubs => e.of \in Subs
  PROVE  clock' \in Nat /\ sent' \subseteq Event /\ Harmless
BY DEF Send, Harmless

LEMMA CancelsType ==
  ASSUME TypeOK, NEW S \in SUBSET Subs, Cancels(S)
  PROVE  ProviderOK' /\ Harmless
<1>1. ASSUME NEW s \in Subs
      PROVE  /\ Happening("subscription.cancelled", s, sub[s].period) \in Event
             /\ Happening("subscription.cancelled", s, sub[s].period).of = s
  <2>1. "subscription.cancelled" \in Kinds /\ s \in Refs /\ sub[s].period \in 0..MaxPeriods
    BY Typed DEF TypeOK, Kinds
  <2> QED BY <2>1, HappeningType DEF TypeOK
<1>2. Running(S) \subseteq Subs
  BY DEF Running
<1>3. clock' \in Nat /\ sent' \subseteq Event /\ Harmless
  <2>1. CASE Running(S) = {}
    BY <2>1 DEF Cancels, TypeOK, Harmless
  <2>2. CASE Running(S) # {}
    <3> DEFINE E == {Happening("subscription.cancelled", s, sub[s].period) : s \in Running(S)}
    <3>1. E \in SUBSET Event /\ \A e \in E : e.of \in Subs
      BY <1>1, <1>2
    <3>2. Send(E)
      BY <2>2 DEF Cancels
    <3> HIDE DEF E
    <3> QED BY <3>1, <3>2, SendType DEF TypeOK
  <2> QED BY <2>1, <2>2
<1>4. sub' \in [Subs -> [state : {"none", "active", "on_hold", "cancelled", "expired"},
                         period : 0..MaxPeriods]]
  BY DEF Cancels, TypeOK, Running
<1> QED BY <1>3, <1>4 DEF Cancels, TypeOK, ProviderOK

LEMMA RefundsType ==
  ASSUME TypeOK, NEW p \in Purchases, Refunds(p)
  PROVE  ProviderOK' /\ Harmless
<1>1. /\ Happening("refund.succeeded", p, 0) \in Event
      /\ Happening("refund.succeeded", p, 0).kind = "refund.succeeded"
  <2>1. "refund.succeeded" \in Kinds /\ p \in Refs /\ 0 \in 0..MaxPeriods
    BY Typed DEF Kinds, Reversal
  <2> QED BY <2>1, HappeningType DEF TypeOK
<1>2. clock' \in Nat /\ sent' \subseteq Event /\ Harmless
  <2>1. CASE <<p, 0>> \in refunded
    BY <2>1 DEF Refunds, TypeOK, Harmless
  <2>2. CASE <<p, 0>> \notin refunded
    BY <1>1, <2>2, SendType DEF Refunds, TypeOK, AboutSubs, Granting, Ending
  <2> QED BY <2>1, <2>2
<1> QED BY <1>2 DEF Refunds, TypeOK, ProviderOK, Payments

LEMMA RecordType ==
  ASSUME TypeOK, NEW e \in sent, NEW o \in Outcomes, Record(e, o), sent \subseteq sent'
  PROVE  /\ ledger' \subseteq [event : sent', outcome : Outcomes]
         /\ ledger \subseteq ledger'
         /\ \A l \in ledger' : l \in ledger \/ (l.event = e /\ l.outcome = o)
BY DEF TypeOK, Record

LEMMA PayStep ==
  ASSUME TypeOK, NEW p \in Purchases, Pay(p)
  PROVE  /\ ProviderOK' /\ checkout' \in [Purchases -> [stage : Stages, hold : Purchases \cup {Nobody}]]
         /\ sent \subseteq sent'
         /\ \A e \in sent' \ sent : PaymentOf(e, p)
         /\ \A e, f \in sent' \ sent : e = f
         /\ checkout' = [checkout EXCEPT ![p].stage = "paid"]
<1> DEFINE x == checkout[p].stage = "open"
           h == Happening("payment.succeeded", p, 0)
           e == [h EXCEPT !.subject = x]
<1>1. h \in Event /\ h.kind = "payment.succeeded" /\ h.of = p /\ e \in Event
  <2>1. "payment.succeeded" \in Kinds /\ p \in Refs /\ 0 \in 0..MaxPeriods /\ x \in BOOLEAN
    BY Typed DEF Kinds
  <2> HIDE DEF x
  <2> QED BY <2>1, HappeningType DEF TypeOK
<1>2. Send({e})
  BY DEF Pay
<1>3. PaymentOf(e, p)
  <2> HIDE DEF h, x
  <2> QED BY <1>1 DEF PaymentOf, Event
<1>4. UNCHANGED <<sub, refunded, dispute>>
  BY DEF Pay
<1> HIDE DEF e
<1>5. clock' \in Nat /\ sent' = sent \cup {e} /\ sent' \subseteq Event
  BY <1>1, <1>2 DEF Send, TypeOK
<1> QED BY <1>3, <1>4, <1>5 DEF Pay, TypeOK, ProviderOK, Stages

\* What the other steps outside the code have in common.
OutsideStep ==
  /\ ProviderOK' /\ Harmless
  /\ UNCHANGED <<checkout, seatLock, hold, grant, ledger>>

LEMMA ChargeStep ==
  ASSUME TypeOK, NEW s \in Subs, Charge(s)
  PROVE  OutsideStep
<1> DEFINE n == sub[s].period + 1
           e == Happening("payment.succeeded", s, n)
           f == Happening("subscription.active", s, n)
<1>1. n \in 0..MaxPeriods
  BY Typed DEF Charge, TypeOK
<1>2. /\ e \in Event /\ e.of = s /\ f \in Event /\ f.of = s
  <2>1. "payment.succeeded" \in Kinds /\ "subscription.active" \in Kinds /\ s \in Refs
    BY Typed DEF Kinds, Granting
  <2> HIDE DEF n
  <2> QED BY <1>1, <2>1, HappeningType DEF TypeOK
<1>3. /\ Send({e, f})
      /\ sub' = [sub EXCEPT ![s] = [state |-> "active", period |-> n]]
      /\ UNCHANGED <<refunded, dispute, checkout, seatLock, hold, grant, ledger>>
  BY DEF Charge, Outside
<1> HIDE DEF n, e, f
<1>4. clock' \in Nat /\ sent' \subseteq Event /\ Harmless
  BY <1>2, <1>3, SendType DEF TypeOK
<1> QED BY <1>1, <1>3, <1>4 DEF TypeOK, OutsideStep, ProviderOK

LEMMA BecomesStep ==
  ASSUME TypeOK, NEW s \in Subs, NEW from, NEW nth \in 0..MaxPeriods,
         NEW to \in {"active", "on_hold", "cancelled", "expired"},
         NEW kind \in Kinds, Becomes(s, from, to, kind, nth)
  PROVE  OutsideStep
<1> DEFINE e == Happening(kind, s, nth)
<1>1. e \in Event /\ e.of = s
  BY Typed, HappeningType DEF TypeOK
<1>2. /\ Send({e})
      /\ sub' = [sub EXCEPT ![s].state = to]
      /\ UNCHANGED <<refunded, dispute, checkout, seatLock, hold, grant, ledger>>
  BY DEF Becomes, Outside
<1> HIDE DEF e
<1>3. clock' \in Nat /\ sent' \subseteq Event /\ Harmless
  BY <1>1, <1>2, SendType DEF TypeOK
<1> QED BY <1>2, <1>3 DEF TypeOK, OutsideStep, ProviderOK

LEMMA SubscriptionStep ==
  ASSUME TypeOK, NEW s \in Subs,
         Charge(s) \/ Pause(s) \/ Resume(s) \/ Expire(s) \/ Stop(s)
  PROVE  OutsideStep
<1>1. sub[s].period \in 0..MaxPeriods /\ 0 \in 0..MaxPeriods
  BY Typed DEF TypeOK
<1> USE <1>1, BecomesStep DEF Kinds, Granting, Ending
<1>2. CASE Charge(s)
  BY <1>2, ChargeStep
<1>3. CASE Pause(s)
  BY <1>3 DEF Pause
<1>4. CASE Resume(s)
  BY <1>4 DEF Resume
<1>5. CASE Expire(s)
  BY <1>5 DEF Expire
<1>6. CASE Stop(s)
  BY <1>6 DEF Stop
<1> QED BY <1>2, <1>3, <1>4, <1>5, <1>6

LEMMA ReversalStep ==
  ASSUME TypeOK, NEW y \in Payments, Refund(y) \/ Dispute(y) \/ Settle(y)
  PROVE  OutsideStep
<1>1. ASSUME NEW kind \in Reversal \cup Restoring, NEW x \in BOOLEAN, Reverses(y, kind, x)
      PROVE  /\ clock' \in Nat /\ sent' \subseteq Event /\ Harmless
             /\ UNCHANGED <<sub, checkout, seatLock, hold, grant, ledger>>
  <2> DEFINE h == Happening(kind, y[1], y[2])
             e == [h EXCEPT !.partial = x]
  <2>1. h \in Event /\ h.kind = kind /\ e \in Event
    BY Typed, HappeningType, SMTT(30) DEF TypeOK, Kinds
  <2>2. Send({e}) /\ UNCHANGED <<sub, checkout, seatLock, hold, grant, ledger>>
    BY <1>1 DEF Reverses, Outside
  <2>3. e.kind \notin AboutSubs
    <3> HIDE DEF h
    <3>1. e.kind = kind
      BY <2>1 DEF Event
    <3> QED BY <3>1 DEF AboutSubs, Granting, Ending, Reversal, Restoring
  <2> HIDE DEF e
  <2> QED BY <2>1, <2>2, <2>3, SendType DEF TypeOK
<1>2. CASE Refund(y)
  <2>1. PICK x \in BOOLEAN : Reverses(y, "refund.succeeded", x)
    BY <1>2 DEF Refund
  <2>2. refunded' \subseteq Payments /\ dispute' = dispute
    BY <1>2 DEF Refund, TypeOK
  <2> QED BY <1>1, <2>1, <2>2 DEF Reversal, OutsideStep, ProviderOK, TypeOK
<1>3. CASE Dispute(y)
  BY <1>1, <1>3 DEF Dispute, Reversal, OutsideStep, ProviderOK, TypeOK
<1>4. CASE Settle(y)
  BY <1>1, <1>4 DEF Settle, Reversal, Restoring, OutsideStep, ProviderOK, TypeOK
<1> QED BY <1>2, <1>3, <1>4

-----------------------------------------------------------------------------
(* Deliveries.                                                             *)

\* What every delivery has in common ...
ApplyStep ==
  /\ ProviderOK' /\ Harmless
  /\ UNCHANGED <<checkout, seatLock>>
  /\ hold' \in [Purchases -> {"none", "live", "lapsed"}]
  /\ grant' \in [Refs -> Grant]
  /\ ledger' \subseteq [event : sent', outcome : Outcomes] /\ ledger \subseteq ledger'
  /\ \A p \in Purchases : hold'[p] = "live" => hold[p] = "live"
  /\ \A p \in Purchases : grant'[p].status # "none" =>
       grant[p].status # "none" \/ \E l \in ledger' : PaymentOf(l.event, p)

\* ... and all but the grant of a founding seat.
NoNewSeat ==
  \A p \in Purchases : grant'[p].status = "active" =>
    \/ grant[p].status = "active"
    \/ \E l \in ledger' : l.event.of = p /\ l.outcome = "restored"

LEMMA ProviderIdle ==
  ASSUME TypeOK, UNCHANGED provider
  PROVE  ProviderOK' /\ Harmless
BY DEF TypeOK, ProviderOK, Harmless, provider

LEMMA IgnoreStep ==
  ASSUME TypeOK, NEW e \in sent, NEW o \in Outcomes, Record(e, o),
         ProviderOK', Harmless, UNCHANGED <<hold, grant>>
  PROVE  ApplyStep /\ NoNewSeat
<1>1. ledger' \subseteq [event : sent', outcome : Outcomes] /\ ledger \subseteq ledger'
  BY RecordType DEF Harmless
<1> QED BY <1>1 DEF ApplyStep, NoNewSeat, TypeOK, Record, requests

LEMMA WriteStep ==
  ASSUME TypeOK, NEW e \in sent, NEW o \in Outcomes, Record(e, o),
         ProviderOK', Harmless, UNCHANGED hold,
         NEW g \in Grant, Write(e, Stamped(g, e)),
         g.status # "none" => Exists(e) \/ e.of \in Subs,
         g.status = "active" =>
           e.of \in Subs \/ grant[e.of].status = "active" \/ o = "restored"
  PROVE  ApplyStep /\ NoNewSeat
<1>1. ledger' \subseteq [event : sent', outcome : Outcomes] /\ ledger \subseteq ledger'
  BY RecordType DEF Harmless
<1>2. [event |-> e, outcome |-> o] \in ledger'
  BY DEF Record
<1>3. Stamped(g, e) \in Grant /\ Stamped(g, e).status = g.status /\ e.of \in Refs
  BY WriteType DEF Event
<1>4. grant' \in [Refs -> Grant]
  BY <1>3 DEF Write, TypeOK
<1>5. \A r \in Refs : r # e.of => grant'[r] = grant[r]
  BY <1>3 DEF Write, TypeOK
<1>6. grant'[e.of].status = g.status
  BY <1>3 DEF Write, TypeOK
<1>7. ASSUME NEW p \in Purchases
      PROVE  /\ grant'[p].status # "none" => grant[p].status # "none"
             /\ grant'[p].status = "active" =>
                  \/ grant[p].status = "active"
                  \/ \E l \in ledger' : l.event.of = p /\ l.outcome = "restored"
  <2>1. p \in Refs /\ p \notin Subs
    BY Typed
  <2>2. CASE p # e.of
    BY <1>5, <2>1, <2>2
  <2>3. CASE p = e.of
    BY <1>2, <1>6, <2>1, <2>3 DEF Exists
  <2> QED BY <2>2, <2>3
<1> QED BY <1>1, <1>4, <1>7 DEF ApplyStep, NoNewSeat, TypeOK, Record, requests

LEMMA ReleaseStep ==
  ASSUME TypeOK, NEW a, ReleaseOne(a)
  PROVE  /\ hold' \in [Purchases -> {"none", "live", "lapsed"}]
         /\ \A p \in Purchases : hold'[p] = "live" => hold[p] = "live"
BY DEF ReleaseOne, TypeOK

LEMMA GrantAt ==
  ASSUME TypeOK, NEW e \in sent
  PROVE  /\ e \in Event /\ e.of \in Refs /\ e.nth \in 0..MaxPeriods /\ e.kind \in Kinds
         /\ grant[e.of] \in Grant
         /\ \A st \in Statuses : [grant[e.of] EXCEPT !.status = st] \in Grant
         /\ \A st \in Statuses : [grant[e.of] EXCEPT !.status = st].status = st
         /\ \A n \in 0..MaxPeriods : [grant[e.of] EXCEPT !.until = n] \in Grant
         /\ \A n \in 0..MaxPeriods : [grant[e.of] EXCEPT !.until = n].status = grant[e.of].status
         /\ \A n \in 0..MaxPeriods : \A st \in Statuses :
              /\ [grant[e.of] EXCEPT !.status = st, !.until = n] \in Grant
              /\ [grant[e.of] EXCEPT !.status = st, !.until = n].status = st
BY ZenonT(60) DEF TypeOK, Event, Grant

LEMMA StaleStep ==
  ASSUME TypeOK, NEW e \in sent, Stale(e) \/ RecordPayment(e)
  PROVE  ApplyStep /\ NoNewSeat
BY IgnoreStep, ProviderIdle DEF Stale, RecordPayment, Ignore, Outcomes

LEMMA GrantPeriodStep ==
  ASSUME TypeOK, PaymentInv, NEW e \in sent, GrantPeriod(e)
  PROVE  ApplyStep /\ NoNewSeat
<1> DEFINE g == grant[e.of]
<1>1. e.of \in Subs
  BY DEF PaymentInv, GrantPeriod
<1>2. ProviderOK' /\ Harmless /\ UNCHANGED hold
  BY ProviderIdle DEF GrantPeriod
<1>3. CASE Record(e, "ignored-refunded") /\ UNCHANGED grant
  BY <1>2, <1>3, IgnoreStep DEF Outcomes
<1>4. CASE /\ Record(e, "extended-while-disputed")
           /\ Write(e, Stamped([g EXCEPT !.until = e.nth], e))
  <2>1. [g EXCEPT !.until = e.nth] \in Grant
    BY GrantAt
  <2> HIDE DEF g
  <2> QED BY <1>1, <1>2, <1>4, <2>1, WriteStep DEF Outcomes
<1>5. CASE /\ Record(e, "granted")
           /\ Write(e, Stamped([g EXCEPT !.status = "active", !.until = e.nth], e))
  <2>1. [g EXCEPT !.status = "active", !.until = e.nth] \in Grant
    BY GrantAt, ZenonT(60) DEF Statuses
  <2> HIDE DEF g
  <2> QED BY <1>1, <1>2, <1>5, <2>1, WriteStep DEF Outcomes
<1> QED BY <1>3, <1>4, <1>5 DEF GrantPeriod

LEMMA EndAtPeriodStep ==
  ASSUME TypeOK, PaymentInv, NEW e \in sent, EndAtPeriod(e)
  PROVE  ApplyStep /\ NoNewSeat
<1> DEFINE g == grant[e.of]
           u == IF e.nth < g.until THEN e.nth ELSE g.until
<1>1. e.of \in Subs
  BY DEF PaymentInv, EndAtPeriod
<1>2. ProviderOK' /\ Harmless /\ UNCHANGED hold
  BY ProviderIdle DEF EndAtPeriod
<1>3. g \in Grant
  BY GrantAt
<1>4. [g EXCEPT !.until = u] \in Grant
  <2>1. u \in 0..MaxPeriods
    BY GrantAt, <1>3 DEF Grant
  <2> QED BY <2>1, GrantAt
<1>5. ASSUME NEW o \in Outcomes, UNCHANGED grant, Record(e, o)
      PROVE  ApplyStep /\ NoNewSeat
  BY <1>2, <1>5, IgnoreStep
<1>6. ASSUME NEW h \in Grant, NEW o \in Outcomes, Write(e, Stamped(h, e)), Record(e, o)
      PROVE  ApplyStep /\ NoNewSeat
  BY <1>1, <1>2, <1>6, WriteStep
<1>7. \/ \E o \in Outcomes : UNCHANGED grant /\ Record(e, o)
      \/ \E h \in Grant : \E o \in Outcomes : Write(e, Stamped(h, e)) /\ Record(e, o)
  <2>1. CASE /\ ~Exists(e) /\ UNCHANGED grant
             /\ Record(e, IF e.nth = 0 THEN "cancel-noted" ELSE "cancel-no-match")
    BY <2>1 DEF Outcomes
  <2>2. CASE Exists(e) /\ e.nth = 0 /\ Write(e, Stamped(g, e)) /\ Record(e, "cancel-noted")
    <3> HIDE DEF g
    <3> QED BY <1>3, <2>2 DEF Outcomes
  <2>3. CASE /\ Exists(e) /\ e.nth # 0
             /\ Write(e, Stamped([g EXCEPT !.until = u], e))
             /\ Record(e, "ends-at-period-end")
    <3> HIDE DEF g, u
    <3> QED BY <1>4, <2>3 DEF Outcomes
  <2> QED BY <2>1, <2>2, <2>3 DEF EndAtPeriod
<1> QED BY <1>5, <1>6, <1>7

LEMMA EndStep ==
  ASSUME TypeOK, PaymentInv, NEW e \in sent, End(e)
  PROVE  ApplyStep /\ NoNewSeat
<1> DEFINE g == grant[e.of]
           h == [g EXCEPT !.status = StatusOf[e.kind]]
<1>1. e.of \in Subs /\ e.kind \in Ending
  BY DEF PaymentInv, End
<1>2. ProviderOK' /\ Harmless /\ UNCHANGED hold
  BY ProviderIdle DEF End
<1>3. g \in Grant /\ h \in Grant
  BY <1>1, GrantAt, StatusOfType
<1>4. CASE UNCHANGED grant /\ Record(e, "revoke-no-match")
  BY <1>2, <1>4, IgnoreStep DEF Outcomes
<1>5. CASE Write(e, Stamped(g, e)) /\ Record(e, "already-ended")
  <2> HIDE DEF g, h
  <2> QED BY <1>1, <1>2, <1>3, <1>5, WriteStep DEF Outcomes
<1>6. CASE Write(e, Stamped(h, e)) /\ Record(e, "revoked")
  <2> HIDE DEF g, h
  <2> QED BY <1>1, <1>2, <1>3, <1>6, WriteStep DEF Outcomes
<1> QED BY <1>4, <1>5, <1>6 DEF End

LEMMA WithdrawStep ==
  ASSUME TypeOK, NEW e \in sent, Withdraw(e)
  PROVE  ApplyStep /\ NoNewSeat
<1> DEFINE g == grant[e.of]
           h == [g EXCEPT !.status = StatusOf[e.kind]]
<1>1. e.kind \in Reversal /\ UNCHANGED hold
  BY DEF Withdraw
<1>2. /\ g \in Grant /\ h \in Grant
      /\ h.status # "active" /\ g.status = grant[e.of].status
  BY <1>1, GrantAt, StatusOfType, ZenonT(60)
<1>3. CASE UNCHANGED <<provider, grant>> /\ Record(e, "revoke-no-match")
  BY <1>1, <1>3, IgnoreStep, ProviderIdle DEF Outcomes
<1>4. CASE /\ Matches(e) /\ UNCHANGED provider
           /\ Write(e, Stamped(g, e)) /\ Record(e, "partial-refund-kept")
  <2>1. Exists(e) /\ ProviderOK' /\ Harmless
    BY <1>4, ProviderIdle DEF Matches
  <2> HIDE DEF g, h
  <2> QED BY <1>1, <1>2, <1>4, <2>1, WriteStep DEF Outcomes
<1>5. CASE /\ Matches(e)
           /\ Write(e, Stamped(h, e))
           /\ Cancels(IF EndsRelation(e) THEN {e.of} ELSE {})
           /\ Record(e, IF EndsRelation(e) THEN "revoked-and-cancelled" ELSE "revoked")
  <2>1. Exists(e) /\ ProviderOK' /\ Harmless
    <3>1. (IF EndsRelation(e) THEN {e.of} ELSE {}) \in SUBSET Subs
      BY DEF EndsRelation
    <3> QED BY <1>5, <3>1, CancelsType DEF Matches
  <2>2. PICK o \in Outcomes : Record(e, o)
    BY <1>5 DEF Outcomes
  <2> HIDE DEF g, h
  <2> QED BY <1>1, <1>2, <1>5, <2>1, <2>2, WriteStep
<1> QED BY <1>3, <1>4, <1>5 DEF Withdraw

LEMMA RestoreStep ==
  ASSUME TypeOK, NEW e \in sent, Restore(e)
  PROVE  ApplyStep /\ NoNewSeat
<1> DEFINE g == grant[e.of]
           h == [g EXCEPT !.status = "active"]
<1>1. ProviderOK' /\ Harmless /\ UNCHANGED hold
  BY ProviderIdle DEF Restore
<1>2. g \in Grant /\ h \in Grant /\ g.status = grant[e.of].status
  BY GrantAt DEF Statuses
<1>3. CASE UNCHANGED grant /\ Record(e, "restore-no-match")
  BY <1>1, <1>3, IgnoreStep DEF Outcomes
<1>4. CASE Matches(e) /\ Write(e, Stamped(h, e)) /\ Record(e, "restored")
  <2>1. Exists(e)
    BY <1>4 DEF Matches
  <2> HIDE DEF g, h
  <2> QED BY <1>1, <1>2, <1>4, <2>1, WriteStep DEF Outcomes
<1>5. CASE Matches(e) /\ Write(e, Stamped(g, e)) /\ Record(e, "restore-no-match")
  <2>1. Exists(e)
    BY <1>5 DEF Matches
  <2> HIDE DEF g, h
  <2> QED BY <1>1, <1>2, <1>5, <2>1, WriteStep DEF Outcomes
<1> QED BY <1>3, <1>4, <1>5 DEF Restore

LEMMA RefundOverCapStep ==
  ASSUME TypeOK, NEW e \in sent, RefundOverCap(e)
  PROVE  ApplyStep /\ NoNewSeat
<1>1. ProviderOK' /\ Harmless
  BY RefundsType DEF RefundOverCap
<1>2. /\ hold' \in [Purchases -> {"none", "live", "lapsed"}]
      /\ \A p \in Purchases : hold'[p] = "live" => hold[p] = "live"
  BY ReleaseStep DEF RefundOverCap
<1>3. Record(e, "refunded-over-cap") /\ UNCHANGED grant
  BY DEF RefundOverCap
<1>4. ledger' \subseteq [event : sent', outcome : Outcomes] /\ ledger \subseteq ledger'
  BY <1>1, <1>3, RecordType DEF Outcomes, Harmless
<1> QED BY <1>1, <1>2, <1>3, <1>4 DEF ApplyStep, NoNewSeat, TypeOK, Record, requests

LEMMA GrantLifetimeStep ==
  ASSUME TypeOK, NEW e \in sent, GrantLifetime(e)
  PROVE  /\ ApplyStep
         /\ \A p \in Purchases \ {e.of} : grant'[p] = grant[p]
<1>1. ProviderOK' /\ Harmless
  <2>1. Replaced(e) \in SUBSET Subs
    BY DEF Replaced
  <2> QED BY <2>1, CancelsType DEF GrantLifetime
<1>2. /\ hold' \in [Purchases -> {"none", "live", "lapsed"}]
      /\ \A p \in Purchases : hold'[p] = "live" => hold[p] = "live"
  BY ReleaseStep DEF GrantLifetime
<1>3. PICK o \in Outcomes : Record(e, o)
  BY DEF GrantLifetime, Outcomes
<1>4. ledger' \subseteq [event : sent', outcome : Outcomes] /\ ledger \subseteq ledger'
  BY <1>1, <1>3, RecordType DEF Harmless
<1>5. grant' \in [Refs -> Grant]
  BY DEF GrantLifetime, TypeOK, Grant, Statuses
<1>6. ASSUME NEW p \in Purchases, p # e.of
      PROVE  grant'[p] = grant[p]
  BY <1>6, Typed DEF GrantLifetime, Replaced
<1>7. \E l \in ledger' : PaymentOf(l.event, e.of)
  <2>1. [event |-> e, outcome |-> o] \in ledger'
    BY <1>3 DEF Record
  <2> QED BY <2>1 DEF GrantLifetime, PaymentOf
<1> QED BY <1>1, <1>2, <1>3, <1>4, <1>5, <1>6, <1>7 DEF ApplyStep, Record, requests

LEMMA NoAnswerStep ==
  ASSUME TypeOK, NEW e \in sent, NoAnswer(e)
  PROVE  OutsideStep
<1>1. UNCHANGED <<checkout, seatLock, hold, grant, ledger>>
  BY DEF NoAnswer, requests
<1>2. e.of \in Refs
  BY GrantAt
<1>3. \/ e.of \in Purchases /\ Refunds(e.of)
      \/ \E S \in SUBSET Replaced(e) : Cancels(S)
      \/ e.of \in Subs /\ Cancels({e.of})
  BY DEF NoAnswer, EndsRelation
<1>4. Replaced(e) \subseteq Subs
  BY DEF Replaced
<1> QED BY <1>1, <1>3, <1>4, CancelsType, RefundsType DEF OutsideStep

-----------------------------------------------------------------------------
(* The invariant, part by part.                                            *)

\* The steps of a checkout, on the lock, the holds and the stages alone.
CheckoutStep ==
  /\ UNCHANGED <<provider, grant, ledger>>
  /\ checkout' \in [Purchases -> [stage : Stages, hold : Purchases \cup {Nobody}]]
  /\ seatLock' \in Purchases \cup {Nobody}
  /\ hold' \in [Purchases -> {"none", "live", "lapsed"}]
  /\ \A p \in Purchases : checkout'[p].stage = "paid" <=> checkout[p].stage = "paid"

LEMMA CheckoutSteps ==
  ASSUME TypeOK, NEW p \in Purchases, Ask(p) \/ Seat(p) \/ Lapse(p) \/ Restart
  PROVE  CheckoutStep
<1> USE DEF TypeOK, CheckoutStep, Stages
<1>1. CASE Ask(p)
  BY <1>1 DEF Ask
<1>2. CASE Look(p)
  BY <1>2 DEF Look
<1>3. CASE Refuse(p)
  BY <1>3 DEF Refuse
<1>4. CASE Reserve(p)
  <2>1. PICK h \in Purchases :
          /\ hold' = [hold EXCEPT ![h] = "live"]
          /\ checkout' = [checkout EXCEPT ![p] = [stage |-> "calling", hold |-> h]]
    BY <1>4 DEF Reserve, LiveHolds, HoldsOf
  <2> QED BY <1>4, <2>1 DEF Reserve
<1>5. CASE Opened(p)
  BY <1>5 DEF Opened
<1>6. CASE Unavailable(p)
  BY <1>6 DEF Unavailable
<1>7. CASE Lapse(p)
  BY <1>7 DEF Lapse, requests
<1>8. CASE Restart
  BY <1>8 DEF Restart, Busy
<1> QED BY <1>1, <1>2, <1>3, <1>4, <1>5, <1>6, <1>7, <1>8 DEF Seat

\* Next, by what its steps have in common.
LEMMA NextSteps ==
  ASSUME TypeOK, PaymentInv, Next
  PROVE  \/ CheckoutStep
         \/ OutsideStep
         \/ \E p \in Purchases : Pay(p)
         \/ ApplyStep /\ NoNewSeat
         \/ \E e \in sent : New(e) /\ GrantLifetime(e)
<1>1. ASSUME NEW p \in Purchases, Ask(p) \/ Seat(p) \/ Lapse(p) \/ Restart
      PROVE  CheckoutStep
  BY <1>1, CheckoutSteps
<1>2. CASE Restart
  <2>1. \E p \in Purchases : TRUE
    BY <1>2 DEF Restart, Busy
  <2> QED BY <1>1, <1>2, <2>1
<1>3. ASSUME NEW s \in Subs, Charge(s) \/ Pause(s) \/ Resume(s) \/ Expire(s) \/ Stop(s)
      PROVE  OutsideStep
  BY <1>3, SubscriptionStep
<1>4. ASSUME NEW y \in Payments, Refund(y) \/ Dispute(y) \/ Settle(y)
      PROVE  OutsideStep
  BY <1>4, ReversalStep
<1>5. ASSUME NEW e \in sent, Retry(e)
      PROVE  OutsideStep
  BY <1>5, NoAnswerStep DEF Retry
<1>6. ASSUME NEW e \in sent, Deliver(e)
      PROVE  (ApplyStep /\ NoNewSeat) \/ (New(e) /\ GrantLifetime(e))
  BY <1>6, StaleStep, GrantPeriodStep, RefundOverCapStep, EndAtPeriodStep, EndStep,
     WithdrawStep, RestoreStep DEF Deliver, Apply
<1> QED BY <1>1, <1>2, <1>3, <1>4, <1>5, <1>6 DEF Next

LEMMA TypeStep ==
  ASSUME TypeOK, PaymentInv, [Next]_vars
  PROVE  TypeOK'
<1>1. CASE CheckoutStep
  BY <1>1 DEF CheckoutStep, TypeOK, provider
<1>2. CASE OutsideStep
  BY <1>2 DEF OutsideStep, ProviderOK, Harmless, TypeOK
<1>3. ASSUME NEW p \in Purchases, Pay(p)
      PROVE  TypeOK'
  <2>1. UNCHANGED <<seatLock, hold, grant, ledger>>
    BY <1>3 DEF Pay, Outside
  <2> QED BY <1>3, <2>1, PayStep DEF ProviderOK, TypeOK
<1>4. CASE ApplyStep
  BY <1>4 DEF ApplyStep, ProviderOK, TypeOK
<1>5. CASE UNCHANGED vars
  BY <1>5 DEF vars, TypeOK
<1> QED BY <1>1, <1>2, <1>3, <1>4, <1>5, NextSteps, GrantLifetimeStep

LEMMA LockStep ==
  ASSUME TypeOK, LockInv, [Next]_vars
  PROVE  LockInv'
<1> USE DEF TypeOK, LockInv
<1> Nobody \notin Purchases
  BY Typed
<1>1. CASE UNCHANGED requests
  BY <1>1 DEF requests
<1>2. ASSUME NEW p \in Purchases, Ask(p) \/ Seat(p) \/ Lapse(p) \/ Pay(p)
      PROVE  LockInv'
  <2>1. CASE Ask(p)
    BY <2>1 DEF Ask
  <2>2. CASE Look(p)
    BY <2>2 DEF Look, LockFree
  <2>3. CASE Refuse(p)
    BY <2>3 DEF Refuse
  <2>4. CASE Reserve(p)
    <3>1. PICK h \in Purchases :
            checkout' = [checkout EXCEPT ![p] = [stage |-> "calling", hold |-> h]]
      BY <2>4 DEF Reserve, LiveHolds, HoldsOf
    <3> QED BY <2>4, <3>1 DEF Reserve
  <2>5. CASE Opened(p)
    BY <2>5 DEF Opened
  <2>6. CASE Unavailable(p)
    BY <2>6 DEF Unavailable
  <2>7. CASE Lapse(p)
    BY <1>1, <2>7 DEF Lapse
  <2>8. CASE Pay(p)
    BY <2>8 DEF Pay, Outside
  <2> QED BY <1>2, <2>1, <2>2, <2>3, <2>4, <2>5, <2>6, <2>7, <2>8 DEF Seat
<1>3. CASE Restart
  BY <1>3 DEF Restart, Busy
<1>4. ASSUME \/ \E s \in Subs : Charge(s) \/ Pause(s) \/ Resume(s) \/ Expire(s) \/ Stop(s)
             \/ \E y \in Payments : Refund(y) \/ Dispute(y) \/ Settle(y)
             \/ \E e \in sent : Deliver(e) \/ Retry(e)
      PROVE  UNCHANGED requests
  BY <1>4, ZenonT(60) DEF Charge, Pause, Resume, Expire, Stop, Becomes, Outside, Refund, Dispute, Settle,
     Reverses, Deliver, Retry, NoAnswer, Apply, Stale, GrantPeriod, RecordPayment, Ignore,
     RefundOverCap, GrantLifetime, EndAtPeriod, End, Withdraw, Restore, Record, requests
<1>5. CASE UNCHANGED vars
  BY <1>1, <1>5 DEF vars, requests
<1> QED BY <1>1, <1>2, <1>3, <1>4, <1>5 DEF Next

LEMMA PaymentStep ==
  ASSUME TypeOK, PaymentInv, [Next]_vars
  PROVE  PaymentInv'
<1>1. ASSUME Harmless, ledger \subseteq ledger',
             \A p \in Purchases : checkout[p].stage = "paid" => checkout'[p].stage = "paid",
             \A p \in Purchases : grant'[p].status # "none" =>
               grant[p].status # "none" \/ \E l \in ledger' : PaymentOf(l.event, p)
      PROVE  PaymentInv'
  <2>1. \A p \in Purchases : \A e \in sent' : PaymentOf(e, p) => e \in sent
    BY <1>1, Typed DEF Harmless, AboutSubs, PaymentOf
  <2>2. \A e \in sent' :
          e.kind \in Granting \cup Ending \cup {"subscription.cancelled"} => e.of \in Subs
    BY <1>1 DEF Harmless, AboutSubs, PaymentInv
  <2>3. ASSUME NEW p \in Purchases
        PROVE  /\ \A e \in sent' : PaymentOf(e, p) => checkout'[p].stage = "paid"
               /\ \A e, f \in sent' : PaymentOf(e, p) /\ PaymentOf(f, p) => e = f
               /\ grant'[p].status # "none" => \E l \in ledger' : PaymentOf(l.event, p)
    BY <1>1, <2>1 DEF PaymentInv
  <2> QED BY <2>2, <2>3 DEF PaymentInv, PaymentOf
<1>2. CASE CheckoutStep
  BY <1>1, <1>2 DEF CheckoutStep, provider, Harmless
<1>3. CASE OutsideStep
  BY <1>1, <1>3 DEF OutsideStep
<1>4. CASE ApplyStep
  BY <1>1, <1>4 DEF ApplyStep
<1>5. ASSUME NEW p \in Purchases, Pay(p)
      PROVE  PaymentInv'
  <2>1. UNCHANGED <<grant, ledger>> /\ checkout[p].stage # "paid"
    BY <1>5 DEF Pay, Outside
  <2>2. /\ sent \subseteq sent'
        /\ \A e \in sent' \ sent : PaymentOf(e, p)
        /\ \A e, f \in sent' \ sent : e = f
        /\ checkout' = [checkout EXCEPT ![p].stage = "paid"]
    BY <1>5, PayStep
  <2>3. \A e \in sent : ~PaymentOf(e, p)
    BY <2>1 DEF PaymentInv
  <2>4. \A e \in sent' :
          e.kind \in Granting \cup Ending \cup {"subscription.cancelled"} => e.of \in Subs
    BY <2>2 DEF PaymentInv, PaymentOf, Granting, Ending
  <2>5. ASSUME NEW q \in Purchases
        PROVE  /\ \A e \in sent' : PaymentOf(e, q) => checkout'[q].stage = "paid"
               /\ \A e, f \in sent' : PaymentOf(e, q) /\ PaymentOf(f, q) => e = f
    <3>1. CASE q = p
      BY <2>2, <2>3, <3>1 DEF TypeOK
    <3>2. CASE q # p
      <4>1. \A e \in sent' : PaymentOf(e, q) => e \in sent
        BY <2>2, <3>2 DEF PaymentOf
      <4> QED BY <2>2, <3>2, <4>1 DEF PaymentInv, TypeOK
    <3> QED BY <3>1, <3>2
  <2> QED BY <2>1, <2>4, <2>5 DEF PaymentInv, PaymentOf
<1>6. CASE UNCHANGED vars
  BY <1>6 DEF vars, PaymentInv, PaymentOf
<1> QED BY <1>2, <1>3, <1>4, <1>5, <1>6, NextSteps, GrantLifetimeStep

LEMMA CheckoutSeats ==
  ASSUME TypeOK, LockInv, SeatInv, NEW p \in Purchases, Ask(p) \/ Seat(p) \/ Lapse(p) \/ Restart
  PROVE  SeatInv'
<1>1. ASSUME UNCHANGED <<grant, ledger>>, seatLock' \in {seatLock, Nobody},
             \A q \in Purchases : hold'[q] = "live" => hold[q] = "live"
      PROVE  SeatInv'
  BY <1>1, TakenShrinks, Calm
<1>2. CASE Ask(p) \/ Refuse(p) \/ Opened(p) \/ Unavailable(p) \/ Lapse(p) \/ Restart
  <2>1. UNCHANGED <<grant, ledger>> /\ seatLock' \in {seatLock, Nobody}
    BY <1>2 DEF Ask, Refuse, Opened, Unavailable, Lapse, Restart, requests
  <2>2. \A q \in Purchases : hold'[q] = "live" => hold[q] = "live"
    BY <1>2 DEF Ask, Refuse, Opened, Unavailable, Lapse, Restart, TypeOK
  <2> QED BY <1>1, <2>1, <2>2
<1>3. CASE Look(p)
  <2>1. UNCHANGED <<hold, grant, ledger>> /\ seatLock' = p /\ SeatFor(p)
    BY <1>3 DEF Look
  <2>2. Cardinality(Taken \cup {Buyer[p]}) <= Seats
    <3>1. CASE ActiveHold(Buyer[p])
      <4>1. Taken \cup {Buyer[p]} = Taken
        BY <3>1 DEF ActiveHold, Taken
      <4> QED BY <4>1 DEF SeatInv
    <3>2. CASE Remaining(Nobody) > 0
      BY <3>2, OneMore
    <3> QED BY <2>1, <3>1, <3>2 DEF SeatFor
  <2>3. Taken' = Taken
    BY <2>1 DEF Taken, Seated, Lifetimes, LiveHolds, Applied
  <2> QED BY <2>1, <2>2, <2>3 DEF SeatInv
<1>4. CASE Reserve(p)
  <2>1. PICK h \in Purchases : hold' = [hold EXCEPT ![h] = "live"] /\ Buyer[h] = Buyer[p]
    BY <1>4 DEF Reserve, LiveHolds, HoldsOf
  <2>2. UNCHANGED <<grant, ledger>> /\ seatLock = p /\ seatLock' = Nobody
    BY <1>4 DEF Reserve, LockInv
  <2>3. Taken' \subseteq Taken \cup {Buyer[p]}
    <3>1. LiveHolds' \subseteq LiveHolds \cup {h}
      BY <2>1 DEF LiveHolds, TypeOK
    <3>2. Seated' = Seated
      BY <2>2 DEF Seated, Lifetimes, Applied
    <3> QED BY <2>1, <3>1, <3>2 DEF Taken
  <2>4. IsFiniteSet(Taken \cup {Buyer[p]})
    BY TakenIsSmall, FS_Subset, FS_AddElement
  <2>5. Cardinality(Taken \cup {Buyer[p]}) <= Seats
    BY <2>2, Typed DEF SeatInv
  <2> QED BY <2>2, <2>3, <2>4, <2>5, Fewer, Typed DEF SeatInv
<1> QED BY <1>2, <1>3, <1>4 DEF Seat

LEMMA LifetimeSeats ==
  ASSUME TypeOK, PaymentInv, SeatInv, NEW e \in sent, New(e), GrantLifetime(e)
  PROVE  SeatInv'
<1> DEFINE p == e.of
           a == Buyer[e.of]
<1>1. p \in Purchases /\ ~OverCap(e) /\ seatLock = Nobody
  BY DEF GrantLifetime, LockFree
<1>2. ApplyStep /\ \A q \in Purchases \ {p} : grant'[q] = grant[q]
  BY GrantLifetimeStep
<1>3. ~Exists(e)
  <2>1. PaymentOf(e, p)
    BY DEF GrantLifetime, PaymentOf
  <2>2. \A l \in ledger : l.event \in sent /\ l.event # e
    BY DEF TypeOK, New
  <2> QED BY <1>1, <2>1, <2>2 DEF Exists, PaymentInv
<1>4. a # Nobody /\ \A q \in LiveHolds : Buyer[q] # Nobody
  BY <1>1, BillingAssumption DEF BillingAssumption, LiveHolds, Refs
<1>5. Cardinality(Taken \cup {a}) <= Seats
  <2>1. CASE ActiveHold(Owner(e))
    <3>1. a \in Taken
      BY <1>4, <2>1 DEF ActiveHold, Owner, Taken
    <3>2. Taken \cup {a} = Taken
      BY <3>1
    <3> QED BY <3>2 DEF SeatInv
  <2>2. CASE ~ActiveHold(Owner(e))
    <3>1. ~(Remaining(Owner(e)) <= 0)
      BY <1>1, <1>3, <2>2 DEF OverCap
    <3>2. Remaining(Owner(e)) \in Int
      <4>1. Lifetimes \subseteq Purchases
        BY DEF Lifetimes
      <4> DEFINE H == {q \in LiveHolds : Buyer[q] # Owner(e)}
      <4>2. H \subseteq Purchases
        BY DEF LiveHolds
      <4>3. Remaining(Owner(e)) = Seats - Cardinality(Lifetimes) - Cardinality(H)
        BY DEF Remaining
      <4> HIDE DEF H
      <4>4. Cardinality(Lifetimes) \in Nat /\ Cardinality(H) \in Nat /\ Seats \in Nat
        BY <4>1, <4>2, Images, Typed
      <4> QED BY <4>3, <4>4
    <3>3. Remaining(Owner(e)) > 0
      BY <3>1, <3>2
    <3>4. Owner(e) = a \/ Owner(e) = Nobody
      BY DEF Owner
    <3> HIDE DEF a
    <3> QED BY <3>3, <3>4, OneMore
  <2> QED BY <2>1, <2>2
<1>6. Taken' \subseteq Taken \cup {a}
  BY <1>1, <1>2, SMTT(30) DEF Taken, Seated, Lifetimes, LiveHolds, Applied, ApplyStep
<1>7. IsFiniteSet(Taken \cup {a})
  BY TakenIsSmall, FS_Subset, FS_AddElement
<1>8. seatLock' = Nobody
  BY <1>1, <1>2 DEF ApplyStep
<1> HIDE DEF a
<1> QED BY <1>5, <1>6, <1>7, <1>8, Fewer, Typed DEF SeatInv

LEMMA SeatStep ==
  ASSUME TypeOK, LockInv, PaymentInv, SeatInv, [Next]_vars
  PROVE  SeatInv'
<1>1. ASSUME NEW p \in Purchases, Ask(p) \/ Seat(p) \/ Lapse(p) \/ Restart
      PROVE  SeatInv'
  BY <1>1, CheckoutSeats
<1>2. CASE Restart
  <2>1. \E p \in Purchases : TRUE
    BY <1>2 DEF Restart, Busy
  <2> QED BY <1>1, <1>2, <2>1
<1>3. ASSUME UNCHANGED <<seatLock, hold, grant, ledger>>
      PROVE  SeatInv'
  <2>1. Taken' = Taken
    BY <1>3 DEF Taken, Seated, Lifetimes, LiveHolds, Applied
  <2> QED BY <1>3, <2>1 DEF SeatInv
<1>4. ASSUME NEW p \in Purchases, Pay(p)
      PROVE  SeatInv'
  BY <1>3, <1>4 DEF Pay, Outside
<1>5. ASSUME NEW s \in Subs, Charge(s) \/ Pause(s) \/ Resume(s) \/ Expire(s) \/ Stop(s)
      PROVE  SeatInv'
  BY <1>3, <1>5, SubscriptionStep DEF OutsideStep
<1>6. ASSUME NEW y \in Payments, Refund(y) \/ Dispute(y) \/ Settle(y)
      PROVE  SeatInv'
  BY <1>3, <1>6, ReversalStep DEF OutsideStep
<1>7. ASSUME NEW e \in sent, Retry(e)
      PROVE  SeatInv'
  BY <1>3, <1>7, NoAnswerStep DEF Retry, OutsideStep
<1>8. ASSUME ApplyStep, NoNewSeat
      PROVE  SeatInv'
  BY <1>8, TakenShrinks, Calm DEF ApplyStep, NoNewSeat
<1>9. ASSUME NEW e \in sent, Deliver(e)
      PROVE  SeatInv'
  <2>1. CASE GrantLifetime(e)
    BY <1>9, <2>1, LifetimeSeats DEF Deliver
  <2>2. CASE ~GrantLifetime(e)
    BY <1>8, <1>9, <2>2, StaleStep, GrantPeriodStep, RefundOverCapStep, EndAtPeriodStep,
       EndStep, WithdrawStep, RestoreStep DEF Deliver, Apply
  <2> QED BY <2>1, <2>2
<1>10. CASE UNCHANGED vars
  BY <1>3, <1>10 DEF vars
<1> QED BY <1>1, <1>2, <1>4, <1>5, <1>6, <1>7, <1>9, <1>10 DEF Next

-----------------------------------------------------------------------------
(* The order of events, and what the provider does to subscriptions.       *)

Over == {"cancelled", "expired"}

\* Events of one purchase or subscription happen at different times, but for a
\* charge and its payment; a subscription has events once it has begun.
EventInv ==
  /\ \A e \in sent : e.at <= clock
  /\ \A e, f \in sent :
       e.of = f.of /\ e.at = f.at => e = f \/ "payment.succeeded" \in {e.kind, f.kind}
  /\ \A e \in sent : e.of \in Subs => sub[e.of].state # "none"
  /\ \A s \in Subs : sub[s].state = "none" => sub[s].period = 0

\* What has ended stays so, and events are sent now.
SentNow(E) ==
  /\ \A e \in E : e.at = clock + 1 /\ (e.of \in Subs => sub'[e.of].state # "none")
  /\ \A e, f \in E : e.of = f.of => e = f \/ "payment.succeeded" \in {e.kind, f.kind}

Onward ==
  /\ \/ UNCHANGED <<clock, sent>>
     \/ \E E : Send(E) /\ SentNow(E)
  /\ \A s \in Subs :
       /\ sub'[s].state = "none" => sub'[s] = sub[s]
       /\ sub[s].state \in Over => sub'[s].state \in Over

LEMMA HappeningNow ==
  ASSUME NEW kind, NEW r, NEW nth
  PROVE  LET h == Happening(kind, r, nth) IN
         /\ h.at = clock + 1 /\ h.of = r /\ h.kind = kind
         /\ \A x : LET e == [h EXCEPT !.subject = x] IN
              e.at = clock + 1 /\ e.of = r /\ e.kind = kind
         /\ \A x : LET e == [h EXCEPT !.partial = x] IN
              e.at = clock + 1 /\ e.of = r /\ e.kind = kind
BY DEF Happening

LEMMA CancelsOnward ==
  ASSUME TypeOK, NEW S \in SUBSET Subs, Cancels(S)
  PROVE  /\ Onward
         /\ \A s \in S : sub[s].state # "none" => sub'[s].state \in Over
<1>1. /\ Running(S) \subseteq S
      /\ \A s \in Running(S) : sub[s].state \in {"active", "on_hold"}
      /\ \A s \in S \ Running(S) : sub[s].state \notin {"active", "on_hold"}
  BY DEF Running
<1>2. \A s \in Subs : /\ s \in Running(S) => sub'[s] = [sub[s] EXCEPT !.state = "cancelled"]
                      /\ s \notin Running(S) => sub'[s] = sub[s]
  BY DEF Cancels
<1>3. \A s \in Running(S) : sub'[s].state = "cancelled"
  BY <1>1, <1>2 DEF TypeOK
<1>4. CASE Running(S) = {}
  BY <1>1, <1>2, <1>4 DEF Cancels, Onward, Over, TypeOK
<1>5. CASE Running(S) # {}
  <2> DEFINE E == {Happening("subscription.cancelled", s, sub[s].period) : s \in Running(S)}
  <2>1. Send(E)
    BY <1>5 DEF Cancels
  <2>2. \A e \in E : \E s \in Running(S) :
          /\ e = Happening("subscription.cancelled", s, sub[s].period)
          /\ e.at = clock + 1 /\ e.of = s
    BY HappeningNow
  <2> HIDE DEF E
  <2>3. SentNow(E)
    BY <1>3, <2>2 DEF SentNow
  <2>4. \A s \in Subs : /\ sub'[s].state = "none" => sub'[s] = sub[s]
                        /\ sub[s].state \in Over => sub'[s].state \in Over
    BY <1>1, <1>2, <1>3 DEF Over
  <2>5. \A s \in S : sub[s].state # "none" => sub'[s].state \in Over
    <3>1. \A s \in Subs :
            sub[s].state \in {"none", "active", "on_hold", "cancelled", "expired"}
      BY DEF TypeOK
    <3> QED BY <1>1, <1>2, <1>3, <3>1 DEF Over
  <2> QED BY <2>1, <2>3, <2>4, <2>5 DEF Onward
<1> QED BY <1>4, <1>5

LEMMA RefundsOnward ==
  ASSUME TypeOK, NEW p \in Purchases, Refunds(p)
  PROVE  Onward
<1> DEFINE e == Happening("refund.succeeded", p, 0)
<1>1. e.at = clock + 1 /\ e.of = p /\ p \notin Subs
  BY HappeningNow, Typed
<1>2. UNCHANGED <<clock, sent>> \/ Send({e})
  BY DEF Refunds
<1> HIDE DEF e
<1>3. SentNow({e})
  BY <1>1 DEF SentNow
<1> QED BY <1>2, <1>3 DEF Refunds, Onward

LEMMA PayOnward ==
  ASSUME TypeOK, NEW p \in Purchases, Pay(p)
  PROVE  Onward
<1> DEFINE h == Happening("payment.succeeded", p, 0)
           e == [h EXCEPT !.subject = checkout[p].stage = "open"]
<1>1. e.at = clock + 1 /\ e.of = p /\ p \notin Subs
  BY HappeningNow, Typed
<1>2. Send({e}) /\ UNCHANGED sub
  BY DEF Pay
<1> HIDE DEF e
<1>3. SentNow({e})
  BY <1>1 DEF SentNow
<1> QED BY <1>2, <1>3 DEF Onward

LEMMA ReversesOnward ==
  ASSUME TypeOK, EventInv, NEW y \in Payments, NEW kind, NEW x, Reverses(y, kind, x)
  PROVE  Onward
<1> DEFINE h == Happening(kind, y[1], y[2])
           e == [h EXCEPT !.partial = x]
<1>1. e.at = clock + 1 /\ e.of = y[1]
  BY HappeningNow
<1>2. Send({e}) /\ UNCHANGED sub /\ Paid(y)
  BY DEF Reverses
<1>3. y[1] \in Subs => sub[y[1]].state # "none"
  <2> SUFFICES ASSUME y[1] \in Subs PROVE sub[y[1]].state # "none"
    OBVIOUS
  <2>1. y[1] \notin Purchases
    BY Typed
  <2>2. y[2] \in 1..MaxPeriods
    BY <2>1 DEF Payments
  <2>3. y[2] <= sub[y[1]].period /\ sub[y[1]].period \in 0..MaxPeriods
    BY <1>2, <2>1 DEF Paid, TypeOK
  <2> QED BY <2>2, <2>3, Typed DEF EventInv
<1> HIDE DEF e
<1>4. SentNow({e})
  BY <1>1, <1>2, <1>3 DEF SentNow
<1> QED BY <1>2, <1>4 DEF Onward

LEMMA SubscriptionOnward ==
  ASSUME TypeOK, EventInv, NEW s \in Subs,
         Charge(s) \/ Pause(s) \/ Resume(s) \/ Expire(s) \/ Stop(s)
  PROVE  Onward
<1>1. CASE Charge(s)
  <2> DEFINE n == sub[s].period + 1
             e == Happening("payment.succeeded", s, n)
             f == Happening("subscription.active", s, n)
  <2>1. /\ e.at = clock + 1 /\ e.of = s /\ e.kind = "payment.succeeded"
        /\ f.at = clock + 1 /\ f.of = s
    BY HappeningNow
  <2>2. /\ Send({e, f}) /\ sub[s].state \in {"none", "active"}
        /\ sub' = [sub EXCEPT ![s] = [state |-> "active", period |-> n]]
    BY <1>1 DEF Charge
  <2> HIDE DEF e, f
  <2>3. SentNow({e, f})
    BY <2>1, <2>2 DEF SentNow, TypeOK
  <2>4. \A t \in Subs : t # s => sub'[t] = sub[t]
    BY <2>2 DEF TypeOK
  <2>5. sub'[s].state = "active"
    BY <2>2 DEF TypeOK
  <2> QED BY <2>2, <2>3, <2>4, <2>5 DEF Onward, Over
<1>2. ASSUME NEW from \in SUBSET {"active", "on_hold", "cancelled"},
             NEW to \in {"active", "on_hold", "cancelled", "expired"}, NEW kind, NEW nth,
             "cancelled" \in from => to = "expired", Becomes(s, from, to, kind, nth)
      PROVE  Onward
  <2> DEFINE e == Happening(kind, s, nth)
  <2>1. e.at = clock + 1 /\ e.of = s
    BY HappeningNow
  <2>2. Send({e}) /\ sub[s].state \in from /\ sub' = [sub EXCEPT ![s].state = to]
    BY <1>2 DEF Becomes
  <2> HIDE DEF e
  <2>3. sub'[s].state = to /\ \A t \in Subs : t # s => sub'[t] = sub[t]
    BY <2>2 DEF TypeOK
  <2>4. SentNow({e})
    BY <2>1, <2>3 DEF SentNow
  <2>5. sub[s].state \in Over => to \in Over
    BY <1>2, <2>2 DEF Over
  <2> QED BY <2>2, <2>3, <2>4, <2>5 DEF Onward
<1>3. CASE Pause(s)
  BY <1>2, <1>3 DEF Pause
<1>4. CASE Resume(s)
  BY <1>2, <1>4 DEF Resume
<1>5. CASE Expire(s)
  BY <1>2, <1>5 DEF Expire
<1>6. CASE Stop(s)
  BY <1>2, <1>6 DEF Stop
<1> QED BY <1>1, <1>3, <1>4, <1>5, <1>6

LEMMA EventsStay ==
  ASSUME TypeOK, EventInv, Onward
  PROVE  EventInv'
<1>1. \A e \in sent : e \in Event /\ e.at \in Nat /\ clock \in Nat
  BY DEF TypeOK, Event
<1>2. \A s \in Subs : sub[s].state # "none" => sub'[s].state # "none"
  BY DEF Onward
<1>3. \A s \in Subs : sub'[s].state = "none" => sub'[s].period = 0
  BY DEF Onward, EventInv
<1>4. CASE UNCHANGED <<clock, sent>>
  BY <1>2, <1>3, <1>4 DEF EventInv
<1>5. ASSUME NEW E, Send(E), SentNow(E)
      PROVE  EventInv'
  <2>1. clock' = clock + 1 /\ sent' = sent \cup E
    BY <1>5 DEF Send
  <2>2. \A e \in sent : e.at <= clock /\ e.at # clock + 1 /\ e.at <= clock + 1
    BY <1>1 DEF EventInv
  <2>3. \A e \in E : e.at = clock + 1 /\ clock + 1 <= clock + 1
    BY <1>1, <1>5 DEF SentNow, TypeOK
  <2>4. \A e \in sent' : e.at <= clock'
    BY <2>1, <2>2, <2>3
  <2>5. ASSUME NEW e \in sent', NEW f \in sent', e.of = f.of, e.at = f.at
        PROVE  e = f \/ "payment.succeeded" \in {e.kind, f.kind}
    <3>1. CASE e \in sent /\ f \in sent
      BY <2>5, <3>1 DEF EventInv
    <3>2. CASE e \in E /\ f \in E
      BY <1>5, <2>5, <3>2 DEF SentNow
    <3> QED BY <2>1, <2>2, <2>3, <2>5, <3>1, <3>2
  <2>6. \A e \in sent' : e.of \in Subs => sub'[e.of].state # "none"
    BY <1>2, <1>5, <2>1 DEF EventInv, SentNow
  <2> QED BY <1>3, <2>4, <2>5, <2>6 DEF EventInv
<1> QED BY <1>4, <1>5 DEF Onward

-----------------------------------------------------------------------------
(* What a delivery does to the grants.                                     *)

Taking == {"revoked", "revoked-and-cancelled"}
Giving == {"granted", "restored"}

Keeps(e, o) ==
  /\ o \notin Taking
  /\ grant'[e.of].status = grant[e.of].status /\ grant'[e.of].last >= grant[e.of].last

Takes(e, o) ==
  /\ o \in Taking /\ e.kind \in Ending \cup Reversal
  /\ grant[e.of].status # "none" /\ grant'[e.of].status = StatusOf[e.kind]
  /\ grant'[e.of].last >= grant[e.of].last /\ grant'[e.of].last >= e.at
  /\ e.of \in Subs /\ e.kind \in {"refund.succeeded", "dispute.lost"} =>
       (sub[e.of].state # "none" => sub'[e.of].state \in Over)

Gives(e, o) ==
  /\ o \in Giving /\ e.kind \in Granting \cup Restoring
  /\ e.at >= grant[e.of].last
  /\ grant[e.of].status = "disputed" => e.kind \in Restoring
  /\ grant'[e.of].status = "active" /\ grant'[e.of].last >= grant[e.of].last

Sells(e, o) ==
  /\ o \notin Taking /\ e.of \in Purchases
  /\ grant[e.of].status = "none"
  /\ grant'[e.of].status = "active" /\ grant'[e.of].last = grant[e.of].last

\* A founding seat replaces its account's subscriptions.
LeavesOthers(e) ==
  \A r \in Refs \ {e.of} :
    /\ grant'[r].last = grant[r].last
    /\ \/ grant'[r].status = grant[r].status
       \/ /\ r \in Subs /\ grant[r].status # "none" /\ grant'[r].status = "replaced"
          /\ sub[r].state # "none" => sub'[r].state \in Over

Effect(e, o) ==
  /\ ledger' = ledger \cup {[event |-> e, outcome |-> o]}
  /\ Onward /\ LeavesOthers(e)
  /\ Keeps(e, o) \/ Takes(e, o) \/ Gives(e, o) \/ Sells(e, o)

LEMMA ProviderRests ==
  ASSUME UNCHANGED provider
  PROVE  Onward
BY DEF provider, Onward

LEMMA StampedLater ==
  ASSUME TypeOK, NEW e \in sent, NEW g \in Grant
  PROVE  Stamped(g, e).last >= g.last /\ Stamped(g, e).last >= e.at
<1>1. e.at \in Nat /\ g.last \in Nat
  BY DEF TypeOK, Event, Grant
<1>2. Stamped(g, e).last = IF e.at > g.last THEN e.at ELSE g.last
  BY DEF Stamped, Grant
<1> QED BY <1>1, <1>2

\* A delivery that writes one grant, or none.
LEMMA WriteEffect ==
  ASSUME TypeOK, NEW e \in sent, NEW g \in Grant, Write(e, Stamped(g, e))
  PROVE  /\ LeavesOthers(e)
         /\ grant'[e.of].status = g.status
         /\ grant'[e.of].last >= g.last /\ grant'[e.of].last >= e.at
<1>1. Stamped(g, e) \in Grant /\ Stamped(g, e).status = g.status /\ e.of \in Refs
  BY WriteType DEF Event
<1>2. grant' = [grant EXCEPT ![e.of] = Stamped(g, e)] /\ grant \in [Refs -> Grant]
  BY DEF Write, TypeOK
<1>3. grant'[e.of] = Stamped(g, e) /\ \A r \in Refs \ {e.of} : grant'[r] = grant[r]
  BY <1>1, <1>2
<1> QED BY <1>1, <1>3, StampedLater DEF LeavesOthers

LEMMA NoWriteEffect ==
  ASSUME TypeOK, NEW e \in sent, UNCHANGED grant, NEW o \in Outcomes \ Taking
  PROVE  LeavesOthers(e) /\ Keeps(e, o)
<1>1. grant[e.of].last \in Nat
  BY GrantAt DEF Grant
<1> QED BY <1>1 DEF LeavesOthers, Keeps

LEMMA IgnoredEffect ==
  ASSUME TypeOK, NEW e \in sent, Stale(e) \/ RecordPayment(e)
  PROVE  \E o \in Outcomes : Effect(e, o)
<1>1. PICK o \in {"ignored-stale", "recorded"} : Ignore(e, o)
  BY DEF Stale, RecordPayment
<1>2. o \in Outcomes \ Taking
  BY DEF Outcomes, Taking
<1> QED BY <1>1, <1>2, NoWriteEffect, ProviderRests DEF Ignore, Record, Effect

LEMMA GrantPeriodEffect ==
  ASSUME TypeOK, NEW e \in sent, GrantPeriod(e)
  PROVE  \E o \in Outcomes : Effect(e, o)
<1> DEFINE g == grant[e.of]
<1>1. Onward /\ e.kind \in Granting /\ ~IsStale(e)
  BY ProviderRests DEF GrantPeriod
<1>2. e.at \in Nat /\ g.last \in Nat /\ e.at >= g.last
  <2>1. e \in Event /\ g \in Grant
    BY GrantAt DEF TypeOK
  <2> QED BY <1>1, <2>1 DEF IsStale, Event, Grant
<1>3. CASE Record(e, "ignored-refunded") /\ UNCHANGED grant
  <2>1. "ignored-refunded" \in Outcomes \ Taking
    BY DEF Outcomes, Taking
  <2> QED BY <1>1, <1>3, <2>1, NoWriteEffect DEF Effect, Record
<1>4. CASE /\ Record(e, "extended-while-disputed")
           /\ Write(e, Stamped([g EXCEPT !.until = e.nth], e))
  <2> DEFINE h == [g EXCEPT !.until = e.nth]
  <2>1. h \in Grant /\ h.status = g.status /\ h.last = g.last
    BY GrantAt DEF Grant
  <2>2. "extended-while-disputed" \in Outcomes \ Taking
    BY DEF Outcomes, Taking
  <2> HIDE DEF h
  <2>3. LeavesOthers(e) /\ Keeps(e, "extended-while-disputed")
    BY <1>4, <2>1, <2>2, WriteEffect DEF Keeps, h
  <2> QED BY <1>1, <1>4, <2>2, <2>3 DEF Effect, Record
<1>5. CASE /\ ~Suspended(g) /\ Record(e, "granted")
           /\ Write(e, Stamped([g EXCEPT !.status = "active", !.until = e.nth], e))
  <2> DEFINE h == [g EXCEPT !.status = "active", !.until = e.nth]
  <2>1. h \in Grant /\ h.status = "active" /\ h.last = g.last
    <3>1. g \in Grant /\ e.nth \in 0..MaxPeriods
      BY GrantAt
    <3> HIDE DEF g
    <3> QED BY <3>1 DEF Grant, Statuses
  <2>2. "granted" \in Outcomes /\ "granted" \in Giving
    BY DEF Outcomes, Giving
  <2> HIDE DEF h
  <2>3. LeavesOthers(e) /\ Gives(e, "granted")
    BY <1>1, <1>2, <1>5, <2>1, <2>2, WriteEffect DEF Gives, Suspended, h
  <2> QED BY <1>1, <1>5, <2>2, <2>3 DEF Effect, Record
<1> QED BY <1>3, <1>4, <1>5 DEF GrantPeriod

\* A delivery that writes a grant and leaves its status be.
LEMMA KeepEffect ==
  ASSUME TypeOK, NEW e \in sent, NEW g \in Grant, NEW o \in Outcomes \ Taking, Onward,
         Record(e, o), Write(e, Stamped(g, e)),
         g.status = grant[e.of].status, g.last = grant[e.of].last
  PROVE  Effect(e, o)
<1>1. LeavesOthers(e) /\ Keeps(e, o)
  BY WriteEffect DEF Keeps
<1> QED BY <1>1 DEF Effect, Record

LEMMA EndAtPeriodEffect ==
  ASSUME TypeOK, NEW e \in sent, EndAtPeriod(e)
  PROVE  \E o \in Outcomes : Effect(e, o)
<1> DEFINE g == grant[e.of]
           u == IF e.nth < g.until THEN e.nth ELSE g.until
           h == [g EXCEPT !.until = u]
<1>1. Onward
  BY ProviderRests DEF EndAtPeriod
<1>2. g \in Grant
  BY GrantAt
<1>3. h \in Grant /\ h.status = g.status /\ h.last = g.last
  <2>1. u \in 0..MaxPeriods
    BY GrantAt DEF Grant
  <2> HIDE DEF u
  <2> QED BY <1>2, <2>1 DEF Grant
<1>4. ASSUME NEW o \in {"cancel-noted", "cancel-no-match", "ends-at-period-end"}
      PROVE  o \in Outcomes \ Taking
  BY DEF Outcomes, Taking
<1>5. CASE UNCHANGED grant
           /\ Record(e, IF e.nth = 0 THEN "cancel-noted" ELSE "cancel-no-match")
  <2>1. PICK o \in {"cancel-noted", "cancel-no-match"} : Record(e, o)
    BY <1>5
  <2> QED BY <1>1, <1>4, <1>5, <2>1, NoWriteEffect DEF Effect, Record
<1>6. CASE Write(e, Stamped(g, e)) /\ Record(e, "cancel-noted")
  <2> HIDE DEF g, h
  <2> QED BY <1>1, <1>2, <1>4, <1>6, KeepEffect DEF g
<1>7. CASE Write(e, Stamped(h, e)) /\ Record(e, "ends-at-period-end")
  <2> HIDE DEF g, h
  <2> QED BY <1>1, <1>3, <1>4, <1>7, KeepEffect DEF g
<1> QED BY <1>5, <1>6, <1>7 DEF EndAtPeriod

\* A delivery that ends a grant.
LEMMA TakeEffect ==
  ASSUME TypeOK, NEW e \in sent, Onward, NEW o \in Outcomes, o \in Taking, Record(e, o),
         e.kind \in Ending \cup Reversal, Exists(e),
         Write(e, Stamped([grant[e.of] EXCEPT !.status = StatusOf[e.kind]], e)),
         e.of \in Subs /\ e.kind \in {"refund.succeeded", "dispute.lost"} =>
           (sub[e.of].state # "none" => sub'[e.of].state \in Over)
  PROVE  Effect(e, o)
<1> DEFINE h == [grant[e.of] EXCEPT !.status = StatusOf[e.kind]]
<1>1. StatusOf[e.kind] \in Statuses
  BY StatusOfType
<1>2. h \in Grant /\ h.status = StatusOf[e.kind] /\ h.last = grant[e.of].last
  BY <1>1, GrantAt DEF Grant
<1> HIDE DEF h
<1>3. LeavesOthers(e) /\ Takes(e, o)
  BY <1>2, WriteEffect DEF Takes, Exists, h
<1> QED BY <1>3 DEF Effect, Record

LEMMA EndEffect ==
  ASSUME TypeOK, NEW e \in sent, End(e)
  PROVE  \E o \in Outcomes : Effect(e, o)
<1> DEFINE g == grant[e.of]
<1>1. Onward /\ e.kind \in Ending
  BY ProviderRests DEF End
<1>2. g \in Grant
  BY GrantAt
<1>3. CASE UNCHANGED grant /\ Record(e, "revoke-no-match")
  <2>1. "revoke-no-match" \in Outcomes \ Taking
    BY DEF Outcomes, Taking
  <2> QED BY <1>1, <1>3, <2>1, NoWriteEffect DEF Effect, Record
<1>4. CASE Write(e, Stamped(g, e)) /\ Record(e, "already-ended")
  <2>1. "already-ended" \in Outcomes \ Taking
    BY DEF Outcomes, Taking
  <2> HIDE DEF g
  <2> QED BY <1>1, <1>2, <1>4, <2>1, KeepEffect DEF g
<1>5. CASE /\ Exists(e) /\ Record(e, "revoked")
           /\ Write(e, Stamped([g EXCEPT !.status = StatusOf[e.kind]], e))
  <2>1. "revoked" \in Outcomes /\ "revoked" \in Taking
    BY DEF Outcomes, Taking
  <2>2. e.kind \notin {"refund.succeeded", "dispute.lost"}
    BY <1>1 DEF Ending
  <2> QED BY <1>1, <1>5, <2>1, <2>2, TakeEffect
<1> QED BY <1>3, <1>4, <1>5 DEF End

LEMMA WithdrawEffect ==
  ASSUME TypeOK, NEW e \in sent, Withdraw(e)
  PROVE  \E o \in Outcomes : Effect(e, o)
<1> DEFINE g == grant[e.of]
<1>1. e.kind \in Reversal
  BY DEF Withdraw
<1>2. g \in Grant
  BY GrantAt
<1>3. CASE UNCHANGED <<provider, grant>> /\ Record(e, "revoke-no-match")
  <2>1. "revoke-no-match" \in Outcomes \ Taking
    BY DEF Outcomes, Taking
  <2> QED BY <1>3, <2>1, NoWriteEffect, ProviderRests DEF Effect, Record
<1>4. CASE UNCHANGED provider /\ Write(e, Stamped(g, e)) /\ Record(e, "partial-refund-kept")
  <2>1. "partial-refund-kept" \in Outcomes \ Taking
    BY DEF Outcomes, Taking
  <2> HIDE DEF g
  <2> QED BY <1>2, <1>4, <2>1, KeepEffect, ProviderRests DEF g
<1>5. CASE /\ Matches(e)
           /\ Write(e, Stamped([g EXCEPT !.status = StatusOf[e.kind]], e))
           /\ Cancels(IF EndsRelation(e) THEN {e.of} ELSE {})
           /\ Record(e, IF EndsRelation(e) THEN "revoked-and-cancelled" ELSE "revoked")
  <2> DEFINE S == IF EndsRelation(e) THEN {e.of} ELSE {}
  <2>1. S \in SUBSET Subs
    BY DEF EndsRelation
  <2>2. Onward /\ \A s \in S : sub[s].state # "none" => sub'[s].state \in Over
    BY <1>5, <2>1, CancelsOnward
  <2>3. e.of \in Subs /\ e.kind \in {"refund.succeeded", "dispute.lost"} => e.of \in S
    BY DEF EndsRelation
  <2>4. PICK o \in Taking : Record(e, o)
    BY <1>5 DEF Taking
  <2>5. o \in Outcomes
    BY DEF Taking, Outcomes
  <2> HIDE DEF S
  <2> QED BY <1>1, <1>5, <2>2, <2>3, <2>4, <2>5, TakeEffect DEF Matches
<1> QED BY <1>3, <1>4, <1>5 DEF Withdraw

LEMMA RestoreEffect ==
  ASSUME TypeOK, NEW e \in sent, Restore(e)
  PROVE  \E o \in Outcomes : Effect(e, o)
<1> DEFINE g == grant[e.of]
           h == [g EXCEPT !.status = "active"]
<1>1. Onward /\ e.kind \in Restoring
  BY ProviderRests DEF Restore
<1>2. g \in Grant /\ h \in Grant /\ h.status = "active" /\ h.last = g.last
  <2>1. g \in Grant
    BY GrantAt
  <2> HIDE DEF g
  <2> QED BY <2>1 DEF Grant, Statuses
<1>3. "restore-no-match" \in Outcomes \ Taking
  BY DEF Outcomes, Taking
<1>4. CASE UNCHANGED grant /\ Record(e, "restore-no-match")
  BY <1>1, <1>3, <1>4, NoWriteEffect DEF Effect, Record
<1>5. CASE ~IsStale(e) /\ Write(e, Stamped(h, e)) /\ Record(e, "restored")
  <2>1. e.at >= g.last
    <3>1. e \in Event /\ g \in Grant
      BY GrantAt DEF TypeOK
    <3> QED BY <1>5, <3>1 DEF IsStale, Event, Grant
  <2>2. "restored" \in Outcomes /\ "restored" \in Giving
    BY DEF Outcomes, Giving
  <2> HIDE DEF h
  <2>3. LeavesOthers(e) /\ Gives(e, "restored")
    BY <1>1, <1>2, <1>5, <2>1, <2>2, WriteEffect DEF Gives
  <2> QED BY <1>1, <1>5, <2>2, <2>3 DEF Effect, Record
<1>6. CASE Write(e, Stamped(g, e)) /\ Record(e, "restore-no-match")
  <2> HIDE DEF g, h
  <2> QED BY <1>1, <1>2, <1>3, <1>6, KeepEffect DEF g
<1> QED BY <1>4, <1>5, <1>6 DEF Restore

LEMMA RefundOverCapEffect ==
  ASSUME TypeOK, NEW e \in sent, RefundOverCap(e)
  PROVE  \E o \in Outcomes : Effect(e, o)
<1>1. "refunded-over-cap" \in Outcomes \ Taking
  BY DEF Outcomes, Taking
<1>2. Onward /\ Record(e, "refunded-over-cap") /\ UNCHANGED grant
  BY RefundsOnward DEF RefundOverCap
<1> QED BY <1>1, <1>2, NoWriteEffect DEF Effect, Record

LEMMA GrantLifetimeEffect ==
  ASSUME TypeOK, PaymentInv, NEW e \in sent, New(e), GrantLifetime(e)
  PROVE  \E o \in Outcomes : Effect(e, o)
<1>1. e.of \in Purchases /\ e.of \notin Subs /\ e.of \in Refs
  BY Typed DEF GrantLifetime
<1>2. grant[e.of].status = "none"
  <2>1. PaymentOf(e, e.of)
    BY DEF GrantLifetime, PaymentOf
  <2>2. \A l \in ledger : l.event \in sent /\ l.event # e
    BY DEF TypeOK, New
  <2> QED BY <1>1, <2>1, <2>2 DEF PaymentInv
<1>3. Replaced(e) \in SUBSET Subs /\ \A s \in Replaced(e) : grant[s].status = "active"
  BY DEF Replaced
<1>4. Onward /\ \A s \in Replaced(e) : sub[s].state # "none" => sub'[s].state \in Over
  BY <1>3, CancelsOnward DEF GrantLifetime
<1>5. PICK o \in {"granted-lifetime", "granted-lifetime-replaced-subscription"} : Record(e, o)
  BY DEF GrantLifetime
<1>6. o \in Outcomes \ Taking
  BY DEF Outcomes, Taking
<1>7. ASSUME NEW r \in Refs
      PROVE  /\ r = e.of => grant'[r] = [grant[r] EXCEPT !.status = "active"]
             /\ r # e.of /\ r \in Replaced(e) => grant'[r] = [grant[r] EXCEPT !.status = "replaced"]
             /\ r # e.of /\ r \notin Replaced(e) => grant'[r] = grant[r]
  BY DEF GrantLifetime
<1>8. \A r \in Refs : grant[r] \in Grant
  BY DEF TypeOK
<1>9. Sells(e, o)
  <2>1. grant'[e.of].status = "active" /\ grant'[e.of].last = grant[e.of].last
    BY <1>1, <1>7, <1>8 DEF Grant
  <2> QED BY <1>1, <1>2, <1>6, <2>1 DEF Sells
<1>10. LeavesOthers(e)
  <2> SUFFICES ASSUME NEW r \in Refs \ {e.of}
               PROVE  /\ grant'[r].last = grant[r].last
                      /\ \/ grant'[r].status = grant[r].status
                         \/ /\ r \in Subs /\ grant[r].status # "none" /\ grant'[r].status = "replaced"
                            /\ sub[r].state # "none" => sub'[r].state \in Over
    BY DEF LeavesOthers
  <2>1. CASE r \in Replaced(e)
    <3>1. grant'[r].status = "replaced" /\ grant'[r].last = grant[r].last
      BY <1>7, <1>8, <2>1 DEF Grant
    <3> QED BY <1>3, <1>4, <2>1, <3>1
  <2>2. CASE r \notin Replaced(e)
    BY <1>7, <2>2
  <2> QED BY <2>1, <2>2
<1> QED BY <1>4, <1>5, <1>6, <1>9, <1>10 DEF Effect, Record

LEMMA DeliveryEffect ==
  ASSUME TypeOK, PaymentInv, NEW e \in sent, Deliver(e)
  PROVE  \E o \in Outcomes : Effect(e, o)
BY IgnoredEffect, GrantPeriodEffect, RefundOverCapEffect, GrantLifetimeEffect, EndAtPeriodEffect,
   EndEffect, WithdrawEffect, RestoreEffect DEF Deliver, Apply

-----------------------------------------------------------------------------
(* What was taken away, and what stands.                                   *)

\* An event that took a grant away is no later than the grant's last event, and
\* what gave the grant back since is later.
TakeInv ==
  /\ \A r \in Refs : \A e \in TakenBy(r) :
       /\ e.kind \in Ending \cup Reversal
       /\ e.at <= grant[r].last /\ grant[r].status # "none"
       /\ r \in Subs /\ e.kind \in {"refund.succeeded", "dispute.lost"} => sub[r].state \in Over
  /\ OnlyANewerEventGivesBack
  /\ \A s \in Subs :
       /\ grant[s].status # "none" => sub[s].state # "none"
       /\ grant[s].status \in {"refunded", "replaced"} => sub[s].state \in Over

OrderInv == EventInv /\ TakeInv

LEMMA AppliedAre ==
  ASSUME NEW r, NEW S
  PROVE  \A e : e \in Applied(r, S) <=>
           \E l \in ledger : l.event = e /\ e.of = r /\ l.outcome \in S
BY DEF Applied

LEMMA AppliedNow ==
  ASSUME NEW e, NEW o, ledger' = ledger \cup {[event |-> e, outcome |-> o]}, NEW r, NEW S
  PROVE  /\ Applied(r, S) \subseteq Applied(r, S)'
         /\ \A f \in Applied(r, S)' : f \in Applied(r, S) \/ (f = e /\ e.of = r /\ o \in S)
         /\ e.of = r /\ o \in S => e \in Applied(r, S)'
<1> DEFINE l == [event |-> e, outcome |-> o]
<1>1. l.event = e /\ l.outcome = o /\ l \in ledger' /\ ledger \subseteq ledger'
  OBVIOUS
<1>2. \A k \in ledger' : k \in ledger \/ k = l
  OBVIOUS
<1> HIDE DEF l
<1> QED BY <1>1, <1>2 DEF Applied

LEMMA TakenType ==
  ASSUME TypeOK, NEW r
  PROVE  \A e \in TakenBy(r) \cup GivenBy(r) : e \in sent /\ e \in Event /\ e.of = r /\ e.at \in Nat
<1>1. \A l \in ledger : l.event \in sent
  BY DEF TypeOK
<1>2. \A e \in sent : e \in Event /\ e.at \in Nat
  BY DEF TypeOK, Event
<1> QED BY <1>1, <1>2 DEF TakenBy, GivenBy, Applied

LEMMA TakeQuiet ==
  ASSUME TypeOK, TakeInv, Onward, UNCHANGED <<grant, ledger>>
  PROVE  TakeInv'
<1>1. \A r : TakenBy(r)' = TakenBy(r) /\ GivenBy(r)' = GivenBy(r)
  BY DEF TakenBy, GivenBy, Applied
<1>2. \A s \in Subs : /\ sub[s].state \in Over => sub'[s].state \in Over
                      /\ sub[s].state # "none" => sub'[s].state # "none"
  BY DEF Onward
<1>3. OnlyANewerEventGivesBack'
  BY <1>1 DEF TakeInv, OnlyANewerEventGivesBack
<1> QED BY <1>1, <1>2, <1>3 DEF TakeInv

LEMMA TakeDelivered ==
  ASSUME TypeOK, TypeOK', EventInv, EventInv', TakeInv, NEW e \in sent, New(e),
         NEW o \in Outcomes, Effect(e, o)
  PROVE  TakeInv'
<1> DEFINE q == e.of
<1>1. /\ q \in Refs /\ e.at \in Nat /\ grant[q].last \in Nat /\ grant'[q].last \in Nat
      /\ q \in Subs => sub[q].state # "none"
  BY GrantAt DEF Event, Grant, TypeOK, EventInv
<1>2. \A s \in Subs : /\ sub[s].state \in Over => sub'[s].state \in Over
                      /\ sub[s].state # "none" => sub'[s].state # "none"
  BY DEF Effect, Onward
<1>3. ASSUME NEW r
      PROVE  /\ TakenBy(r) \subseteq TakenBy(r)' /\ GivenBy(r) \subseteq GivenBy(r)'
             /\ \A f \in TakenBy(r)' : f \in TakenBy(r) \/ (f = e /\ q = r /\ o \in Taking)
             /\ q = r /\ o \in Giving => e \in GivenBy(r)'
  BY AppliedNow DEF Effect, TakenBy, GivenBy, Taking, Giving
<1>4. /\ \A r \in Refs \ {q} :
           /\ grant'[r].last = grant[r].last
           /\ \/ grant'[r].status = grant[r].status
              \/ /\ r \in Subs /\ grant[r].status # "none" /\ grant'[r].status = "replaced"
                 /\ sub[r].state # "none" => sub'[r].state \in Over
      /\ Keeps(e, o) \/ Takes(e, o) \/ Gives(e, o) \/ Sells(e, o)
  BY DEF Effect, LeavesOthers
<1>5. grant'[q].last >= grant[q].last
  BY <1>1, <1>4 DEF Keeps, Takes, Gives, Sells
<1>6. Giving \cap Taking = {}
  BY DEF Giving, Taking
<1> HIDE DEF q
<1>7. ASSUME NEW r \in Refs, NEW f \in TakenBy(r)'
      PROVE  /\ f.kind \in Ending \cup Reversal
             /\ f.at <= grant'[r].last /\ grant'[r].status # "none"
             /\ r \in Subs /\ f.kind \in {"refund.succeeded", "dispute.lost"} => sub'[r].state \in Over
  <2>1. CASE f \in TakenBy(r)
    <3>1. f.at \in Nat /\ f.at <= grant[r].last /\ grant[r].status # "none"
      BY <2>1, TakenType DEF TakeInv
    <3>2. grant'[r].status # "none"
      <4>1. CASE r # q
        BY <1>4, <3>1, <4>1
      <4>2. CASE r = q
        BY <1>4, <3>1, <4>2, StatusOfType DEF q, Keeps, Takes, Gives, Sells
      <4> QED BY <4>1, <4>2
    <3>3. f.at <= grant'[r].last
      <4>1. CASE r # q
        BY <1>4, <3>1, <4>1
      <4>2. CASE r = q
        BY <1>1, <1>5, <3>1, <4>2
      <4> QED BY <4>1, <4>2
    <3> QED BY <1>2, <2>1, <3>2, <3>3 DEF TakeInv
  <2>2. CASE f = e /\ r = q /\ o \in Taking
    <3>1. Takes(e, o)
      BY <1>4, <1>6, <2>2 DEF Keeps, Gives, Sells
    <3> QED BY <1>1, <2>2, <3>1, StatusOfType DEF Takes, q
  <2> QED BY <1>3, <2>1, <2>2
<1>8. ASSUME NEW r \in Refs, grant'[r].status = "active", NEW f \in TakenBy(r)'
      PROVE  \E h \in GivenBy(r)' : h.at > f.at
  <2>1. CASE grant[r].status = "active" /\ f \in TakenBy(r)
    BY <1>3, <2>1 DEF TakeInv, OnlyANewerEventGivesBack
  <2>2. CASE r = q /\ Gives(e, o) /\ f \in TakenBy(r)
    <3>1. e \in GivenBy(r)'
      BY <1>3, <2>2 DEF Gives
    <3>2. f.at <= grant[r].last /\ grant[r].last <= e.at /\ f.at \in Nat
      BY <1>1, <2>2, TakenType DEF TakeInv, Gives, q
    <3>3. f.at # e.at
      <4>1. f \in sent /\ f.of = e.of /\ f.kind \in Ending \cup Reversal
        BY <2>2, TakenType DEF TakeInv, q
      <4>2. f # e
        <5>1. \E l \in ledger : l.event = f
          BY <2>2 DEF TakenBy, Applied
        <5> QED BY <5>1 DEF New
      <4>3. "payment.succeeded" \notin {e.kind, f.kind}
        BY <2>2, <4>1 DEF Gives, Granting, Restoring, Ending, Reversal
      <4> QED BY <4>1, <4>2, <4>3 DEF EventInv
    <3>4. e.at > f.at
      BY <1>1, <2>2, <3>2, <3>3
    <3> QED BY <3>1, <3>4
  <2>3. CASE r = q /\ f = e /\ o \in Taking
    <3>1. Takes(e, o)
      BY <1>4, <1>6, <2>3 DEF Keeps, Gives, Sells
    <3> QED BY <1>8, <2>3, <3>1, StatusOfType DEF Takes, q
  <2>4. CASE f \in TakenBy(r) /\ grant[r].status # "active"
    <3>1. r = q
      BY <1>4, <1>8, <2>4
    <3>2. ~Keeps(e, o)
      BY <1>8, <2>4, <3>1 DEF Keeps, q
    <3>3. ~Takes(e, o)
      BY <1>8, <3>1, StatusOfType DEF Takes, q
    <3>4. ~Sells(e, o)
      BY <2>4, <3>1 DEF Sells, TakeInv, q
    <3> QED BY <1>4, <2>2, <2>4, <3>1, <3>2, <3>3, <3>4
  <2> QED BY <1>3, <2>1, <2>2, <2>3, <2>4
<1>9. ASSUME NEW s \in Subs
      PROVE  /\ grant'[s].status # "none" => sub'[s].state # "none"
             /\ grant'[s].status \in {"refunded", "replaced"} => sub'[s].state \in Over
  <2>1. s \in Refs /\ s \notin Purchases
    BY Typed
  <2>2. CASE s # q
    <3>1. /\ grant[s].status # "none" => sub[s].state # "none"
          /\ grant[s].status \in {"refunded", "replaced"} => sub[s].state \in Over
      BY DEF TakeInv
    <3>2. CASE grant'[s].status = grant[s].status
      BY <1>2, <3>1, <3>2
    <3>3. CASE sub'[s].state \in Over
      BY <3>3 DEF Over
    <3> QED BY <1>4, <2>1, <2>2, <3>1, <3>2, <3>3
  <2>3. CASE s = q
    <3>1. sub'[s].state # "none"
      BY <1>1, <1>2, <2>3
    <3>2. CASE Keeps(e, o)
      BY <1>2, <2>3, <3>1, <3>2 DEF Keeps, TakeInv, q
    <3>3. CASE Takes(e, o)
      <4>1. StatusOf[e.kind] # "replaced"
        BY <3>3 DEF Takes, StatusOf, Ending, Reversal
      <4>2. StatusOf[e.kind] = "refunded" => e.kind = "refund.succeeded"
        BY <3>3 DEF Takes, StatusOf, Ending, Reversal
      <4> QED BY <1>1, <2>3, <3>1, <3>3, <4>1, <4>2 DEF Takes, q
    <3>4. CASE Gives(e, o)
      BY <2>3, <3>1, <3>4 DEF Gives, q
    <3>5. CASE Sells(e, o)
      BY <2>1, <2>3, <3>5 DEF Sells, q
    <3> QED BY <1>4, <3>2, <3>3, <3>4, <3>5
  <2> QED BY <2>2, <2>3
<1>10. OnlyANewerEventGivesBack'
  BY <1>8 DEF OnlyANewerEventGivesBack
<1> QED BY <1>7, <1>9, <1>10 DEF TakeInv

LEMMA OrderStep ==
  ASSUME TypeOK, TypeOK', PaymentInv, OrderInv, [Next]_vars
  PROVE  OrderInv'
<1>1. ASSUME Onward, UNCHANGED <<grant, ledger>>
      PROVE  OrderInv'
  BY <1>1, EventsStay, TakeQuiet DEF OrderInv
<1>2. ASSUME NEW p \in Purchases, Ask(p) \/ Seat(p) \/ Lapse(p) \/ Restart
      PROVE  OrderInv'
  BY <1>1, <1>2, CheckoutSteps, ProviderRests DEF CheckoutStep
<1>3. CASE Restart
  <2>1. \E p \in Purchases : TRUE
    BY <1>3 DEF Restart, Busy
  <2> QED BY <1>2, <1>3, <2>1
<1>4. ASSUME NEW p \in Purchases, Pay(p)
      PROVE  OrderInv'
  BY <1>1, <1>4, PayOnward DEF Pay, Outside
<1>5. ASSUME NEW s \in Subs, Charge(s) \/ Pause(s) \/ Resume(s) \/ Expire(s) \/ Stop(s)
      PROVE  OrderInv'
  BY <1>1, <1>5, SubscriptionStep, SubscriptionOnward DEF OutsideStep, OrderInv
<1>6. ASSUME NEW y \in Payments, Refund(y) \/ Dispute(y) \/ Settle(y)
      PROVE  OrderInv'
  <2>1. \E kind, x : Reverses(y, kind, x)
    BY <1>6 DEF Refund, Dispute, Settle
  <2> QED BY <1>1, <1>6, <2>1, ReversalStep, ReversesOnward DEF OutsideStep, OrderInv
<1>7. ASSUME NEW e \in sent, Retry(e)
      PROVE  OrderInv'
  <2>1. /\ Replaced(e) \subseteq Subs
        /\ \/ e.of \in Purchases /\ Refunds(e.of)
           \/ \E S \in SUBSET Replaced(e) : Cancels(S)
           \/ e.of \in Subs /\ Cancels({e.of})
    BY <1>7 DEF Retry, NoAnswer, EndsRelation, Replaced
  <2>2. Onward
    BY <2>1, RefundsOnward, CancelsOnward
  <2> QED BY <1>1, <1>7, <2>2 DEF Retry, NoAnswer
<1>8. ASSUME NEW e \in sent, Deliver(e)
      PROVE  OrderInv'
  <2>1. PICK o \in Outcomes : Effect(e, o)
    BY <1>8, DeliveryEffect
  <2>2. EventInv'
    BY <2>1, EventsStay DEF Effect, OrderInv
  <2> QED BY <1>8, <2>1, <2>2, TakeDelivered DEF OrderInv, Deliver
<1>9. CASE UNCHANGED vars
  <2>1. Onward
    BY <1>9 DEF vars, Onward
  <2> QED BY <1>1, <1>9, <2>1 DEF vars
<1> QED BY <1>2, <1>3, <1>4, <1>5, <1>6, <1>7, <1>8, <1>9 DEF Next

-----------------------------------------------------------------------------
LEMMA InitInv ==
  ASSUME Init
  PROVE  IInv
<1>1. TypeOK
  BY Typed DEF Init, TypeOK, Stages, Grant, NoGrant, Statuses
<1>2. LockInv /\ PaymentInv
  BY Typed DEF Init, LockInv, PaymentInv, NoGrant
<1>3. Taken = {}
  BY Typed DEF Init, Taken, Seated, Lifetimes, LiveHolds, NoGrant
<1>4. SeatInv
  BY <1>3, FS_EmptySet, Typed DEF SeatInv, Init
<1> QED BY <1>1, <1>2, <1>4 DEF IInv

\* The inductive invariant: whatever happens at the provider, in checkouts and
\* in deliveries, the lock, the ledger and the seats stay consistent.
THEOREM BillingInvariant == Spec => []IInv
<1>1. Init => IInv
  BY InitInv
<1>2. IInv /\ [Next]_vars => IInv'
  BY TypeStep, LockStep, PaymentStep, SeatStep DEF IInv
<1> QED BY <1>1, <1>2, PTL DEF Spec

\* Every variable of the billing model keeps its type.
THEOREM BillingTypes == Spec => []TypeOK
<1>1. IInv => TypeOK
  BY DEF IInv
<1> QED BY <1>1, BillingInvariant, PTL

\* The accounts with a founding seat, paid for or reserved, never outnumber the
\* seats (but for a seat a settled dispute gave back).
THEOREM SeatsAreNeverOversold == Spec => []SeatsNeverOversold
<1>1. IInv => SeatsNeverOversold
  BY DEF IInv, SeatInv, SeatsNeverOversold, Taken
<1> QED BY <1>1, BillingInvariant, PTL

\* With the order of events, and what was taken away: also inductive.
LEMMA OrderIsKept == Spec => [](IInv /\ OrderInv)
<1>1. Init => IInv /\ OrderInv
  <2> SUFFICES ASSUME Init PROVE IInv /\ OrderInv
    OBVIOUS
  <2>1. EventInv
    BY DEF Init, EventInv
  <2>2. \A r \in Refs : TakenBy(r) = {} /\ grant[r].status = "none"
    BY DEF Init, TakenBy, Applied, NoGrant
  <2>3. TakeInv
    BY <2>2, Typed DEF TakeInv, OnlyANewerEventGivesBack
  <2> QED BY <2>1, <2>3, InitInv DEF OrderInv
<1>2. IInv /\ OrderInv /\ [Next]_vars => (IInv /\ OrderInv)'
  <2>1. IInv /\ [Next]_vars => IInv'
    BY TypeStep, LockStep, PaymentStep, SeatStep DEF IInv
  <2> QED BY <2>1, OrderStep DEF IInv
<1> QED BY <1>1, <1>2, PTL DEF Spec

\* A grant that an event took away stands again only because of a later event,
\* in whatever order the two were delivered (apply_event, _is_stale).
THEOREM OnlyNewerEventsGiveBack == Spec => []OnlyANewerEventGivesBack
<1>1. OrderInv => OnlyANewerEventGivesBack
  BY DEF OrderInv, TakeInv
<1> QED BY <1>1, OrderIsKept, PTL

\* Whoever lost a subscription to a refund, a lost dispute or a founding seat is
\* no longer charged for it (_end_billing_relationship, _grant_lifetime).
THEOREM WithdrawnIsNoLongerCharged == Spec => []WithdrawnIsCancelled
<1>1. OrderInv => WithdrawnIsCancelled
  <2>1. Subs \subseteq Refs
    BY Typed
  <2> QED BY <2>1 DEF OrderInv, TakeInv, WithdrawnIsCancelled, Over
<1> QED BY <1>1, OrderIsKept, PTL

\* No step but the delivery of a settled dispute turns a suspended grant into an
\* active one (_apply_grant, restore).
THEOREM SuspensionsLast == Spec => OnlyASettledDisputeRestores
<1> DEFINE A == \A r \in Refs : grant[r].status = "disputed" /\ grant'[r].status = "active" =>
                  \E l \in ledger' \ ledger : l.event.of = r /\ l.event.kind \in Restoring
<1>1. IInv /\ [Next]_vars => [A]_vars
  <2> SUFFICES ASSUME IInv, Next,
                      NEW r \in Refs, grant[r].status = "disputed", grant'[r].status = "active"
               PROVE  \E l \in ledger' \ ledger : l.event.of = r /\ l.event.kind \in Restoring
    OBVIOUS
  <2> USE DEF IInv
  <2>1. ASSUME NEW e \in sent, Deliver(e)
        PROVE  \E l \in ledger' \ ledger : l.event.of = r /\ l.event.kind \in Restoring
    <3>1. PICK o \in Outcomes : Effect(e, o)
      BY <2>1, DeliveryEffect
    <3>2. r = e.of
      BY <3>1 DEF Effect, LeavesOthers
    <3>3. ~Keeps(e, o) /\ ~Takes(e, o) /\ ~Sells(e, o)
      BY <3>2, StatusOfType DEF Keeps, Takes, Sells
    <3>4. e.kind \in Restoring
      BY <3>1, <3>2, <3>3 DEF Effect, Gives
    <3> DEFINE l == [event |-> e, outcome |-> o]
    <3>5. l.event = e /\ l \in ledger'
      BY <3>1 DEF Effect
    <3>6. l \notin ledger
      BY <2>1, <3>5 DEF Deliver, New
    <3> QED BY <3>2, <3>4, <3>5, <3>6
  <2>2. ASSUME UNCHANGED grant
        PROVE  FALSE
    BY <2>2
  <2>3. ASSUME NEW p \in Purchases, Ask(p) \/ Seat(p) \/ Lapse(p) \/ Restart
        PROVE  FALSE
    BY <2>2, <2>3, CheckoutSteps DEF CheckoutStep
  <2>4. CASE Restart
    BY <2>2, <2>4 DEF Restart
  <2>5. ASSUME NEW p \in Purchases, Pay(p)
        PROVE  FALSE
    BY <2>2, <2>5 DEF Pay, Outside
  <2>6. ASSUME NEW s \in Subs, Charge(s) \/ Pause(s) \/ Resume(s) \/ Expire(s) \/ Stop(s)
        PROVE  FALSE
    BY <2>2, <2>6, SubscriptionStep DEF OutsideStep
  <2>7. ASSUME NEW y \in Payments, Refund(y) \/ Dispute(y) \/ Settle(y)
        PROVE  FALSE
    BY <2>2, <2>7, ReversalStep DEF OutsideStep
  <2>8. ASSUME NEW e \in sent, Retry(e)
        PROVE  FALSE
    BY <2>2, <2>8 DEF Retry, NoAnswer
  <2> QED BY <2>1, <2>3, <2>4, <2>5, <2>6, <2>7, <2>8 DEF Next
<1> QED BY <1>1, BillingInvariant, PTL DEF Spec, OnlyASettledDisputeRestores
=============================================================================
