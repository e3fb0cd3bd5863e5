---------------------------- MODULE Records_proofs ----------------------------
(***************************************************************************)
(* Theorems about what the tables keep, whatever overlaps, fails or        *)
(* crashes: a booking row is final, a payment under manual review is       *)
(* before a human, what a row says the ledgers bear out, and what a caller *)
(* was told is so.                                                         *)
(***************************************************************************)
EXTENDS TravelBridge_proofs

\* The four statements that write travel_bookings.
LEMMA BookingWriters ==
    ASSUME Next
    PROVE  \/ UNCHANGED bookings
           \/ \E c \in ConfirmCalls : RecordBooking(c)
           \/ \E c \in CancelCalls : CancelWrites(c)
           \/ \E a \in RefundCalls : RefundRecorded(a)
           \/ \E k \in Keys : RefundDenied(k)
<1> USE DEF vars, dataVars, tables, stripe
<1>1. CASE PaymentStep
  BY <1>1
  DEF PaymentStep, CheckoutNext, StripeNext, WebhookNext, OpenSession,
      StoreCheckout, CheckoutFails, CustomerPays, CustomerCommits, MoneyArrives,
      MoneyFails, SessionExpires, WebhookReads, WebhookApplies, WebhookFails
<1>2. CASE ConfirmStep
  BY <1>2
  DEF ConfirmStep, ConfirmNext, ConfirmProceeds, ConfirmRejects, ConfirmStarts,
      PaymentRefused, OfferMismatch, PaymentVerified, BookingExists, NoBookingYet,
      Tier1Books, Tier1Fails, Tier1TimesOut, Tier1BadReply, Tier2Books, Tier2Fails,
      Tier2TimesOut, Tier2BadReply, Tier3Refunds, Tier3Fails, Tier3TimesOut,
      RecordRefund, Escalate, ConfirmDbError, ConfirmCrashes
<1>3. CASE CancelStep
  BY <1>3
  DEF CancelStep, CancelNext, CancelNotFound, AlreadyCancelled, CancelStarts,
      OrderDeleted, DeleteFails, DeleteTimesOut, CancelRefunds, CancelRefundFails,
      CancelRefundTimesOut, NotEligible, CancelDies
<1>4. CASE AdminStep
  BY <1>4
  DEF AdminStep, RefundNext, DeskNext, RefundChecked, RefundRefused,
      RefundIssued,
      RefundFails, RefundTimesOut, RefundDies, SupportRequested, TicketResolved
<1>5. CASE Finished
  BY <1>5 DEF Finished
<1> QED
  BY <1>1, <1>2, <1>3, <1>4, <1>5 DEF Next

LEMMA BookingStaysInStep == TypeInv /\ [Next]_vars => BookingStays
<1> SUFFICES ASSUME TypeInv, [Next]_vars PROVE BookingStays
  OBVIOUS
<1>1. bookings \in [Keys -> BookingRow]
  BY DEF TypeInv, TypeOK, DataTypeOK
<1>2. CASE UNCHANGED bookings
  BY <1>2 DEF BookingStays, HasBooking
<1>3. ASSUME NEW c \in ConfirmCalls, RecordBooking(c) PROVE BookingStays
  BY <1>1, <1>3 DEF RecordBooking, AfterInsert, BookingStays, HasBooking,
                    BookingRow
<1>4. ASSUME NEW c \in CancelCalls, CancelWrites(c) PROVE BookingStays
  BY <1>1, <1>4 DEF CancelWrites, AfterCancel, BookingStays, HasBooking,
                    BookingRow
<1>5. ASSUME NEW a \in RefundCalls, RefundRecorded(a) PROVE BookingStays
  BY <1>1, <1>5 DEF RefundRecorded, AfterRefund, BookingStays, HasBooking,
                    BookingRow
<1>6. ASSUME NEW k \in Keys, RefundDenied(k) PROVE BookingStays
  BY <1>1, <1>6 DEF RefundDenied, BookingStays, HasBooking, BookingRow
<1> QED
  BY <1>2, <1>3, <1>4, <1>5, <1>6, BookingWriters
  DEF vars, dataVars, tables

\* A booking row keeps its order, stays, and stays cancelled once it is:
\* ON CONFLICT DO NOTHING, and no statement takes "booked -> cancelled" back.
THEOREM BookingsAreFinal == Spec => BookingIsFinal
<1>1. TypeInv /\ [Next]_vars => [BookingStays]_vars
  BY BookingStaysInStep
<1> QED
  BY <1>1, TypeCorrect, PTL DEF Spec, BookingIsFinal

-----------------------------------------------------------------------------
\* A ticket is never deleted: escalated once, escalated for good.
LEMMA EscalatedStays ==
    ASSUME TypeInv, [Next]_vars, NEW k \in Keys, Escalated(k)
    PROVE  Escalated(k)'
<1> USE DEF dataVars, tables, stripe
<1>1. tickets \in [TicketIds -> TicketRow]
  BY DEF TypeInv, TypeOK, DataTypeOK
<1>2. PICK t \in ConfirmCalls : KeyOf[t] = k /\ tickets[t].status # "absent"
  BY DEF Escalated
<1>3. t \in TicketIds
  BY DEF TicketIds
<1>4. ASSUME NEW j, CloseTickets(j) PROVE tickets'[t].status # "absent"
  BY <1>1, <1>2, <1>3, <1>4 DEF CloseTickets, TicketRow
<1>5. CASE PaymentStep \/ CancelStep \/ UNCHANGED vars
  BY <1>2, <1>5
  DEF PaymentStep, CheckoutNext, StripeNext, WebhookNext, OpenSession,
      StoreCheckout, CheckoutFails, CustomerPays, CustomerCommits, MoneyArrives,
      MoneyFails, SessionExpires, WebhookReads, WebhookApplies, WebhookFails,
      CancelStep, CancelNext, CancelNotFound, AlreadyCancelled, CancelStarts,
      OrderDeleted, DeleteFails, DeleteTimesOut, CancelRefunds, CancelRefundFails,
      CancelRefundTimesOut, NotEligible, CancelWrites, CancelDies, vars, Escalated
<1>6. CASE ConfirmStep
  BY <1>1, <1>2, <1>3, <1>6
  DEF ConfirmStep, ConfirmNext, ConfirmProceeds, ConfirmRejects, ConfirmStarts,
      PaymentRefused, OfferMismatch, PaymentVerified, BookingExists, NoBookingYet,
      Tier1Books, Tier1Fails, Tier1TimesOut, Tier1BadReply, Tier2Books, Tier2Fails,
      Tier2TimesOut, Tier2BadReply, Tier3Refunds, Tier3Fails, Tier3TimesOut,
      RecordRefund, Escalate, RecordBooking, ConfirmDbError, ConfirmCrashes,
      TicketRow, Escalated
<1>7. CASE AdminStep
  BY <1>1, <1>2, <1>3, <1>4, <1>7
  DEF AdminStep, RefundNext, DeskNext, RefundChecked, RefundRefused,
      RefundIssued,
      RefundFails, RefundTimesOut, RefundRecorded, RefundDies, SupportRequested,
      TicketResolved, RefundDenied, TicketRow, Escalated
<1> QED
  BY <1>5, <1>6, <1>7 DEF Next, Finished

\* Only Tier 4 writes 'failed_needs_manual_review'.
LEMMA ReviewWriter ==
    ASSUME TypeInv, [Next]_vars, NEW k \in Keys,
           payments'[k].status = "failed_needs_manual_review",
           payments[k].status # "failed_needs_manual_review"
    PROVE  \E c \in ConfirmCalls : KeyOf[c] = k /\ Escalate(c)
<1> USE DEF dataVars, tables, stripe
<1>1. payments \in [Keys -> PaymentRow]
  BY DEF TypeInv, TypeOK, DataTypeOK
<1>2. ~PaymentStep
  <2>1. ASSUME NEW j \in Keys, StoreCheckout(j) PROVE FALSE
    BY <1>1, <2>1 DEF StoreCheckout, PaymentRow
  <2>2. ASSUME NEW d \in Deliveries, WebhookApplies(d) PROVE FALSE
    <3>1. PICK j \in Keys, type \in EventTypes : delivery[d] = <<j, type>>
      BY <2>2 DEF TypeInv, TypeOK, PaymentTypeOK, WebhookApplies, Events
    <3>2. StatusAfter(type) # "failed_needs_manual_review"
      BY <3>1 DEF StatusAfter, EventTypes
    <3>3. payments' = [payments EXCEPT ![j] = AfterEvent(@, type)]
      BY <2>2, <3>1 DEF WebhookApplies
    <3> QED
      BY <1>1, <3>2, <3>3 DEF AfterEvent, PaymentRow
  <2> QED
    BY <2>1, <2>2
    DEF PaymentStep, CheckoutNext, StripeNext, WebhookNext, OpenSession,
        CheckoutFails, CustomerPays, CustomerCommits, MoneyArrives, MoneyFails,
        SessionExpires, WebhookReads, WebhookFails
<1>3. ~CancelStep
  BY DEF CancelStep, CancelNext, CancelNotFound, AlreadyCancelled, CancelStarts,
         OrderDeleted, DeleteFails, DeleteTimesOut, CancelRefunds, CancelRefundFails,
         CancelRefundTimesOut, NotEligible, CancelWrites, CancelDies
<1>4. ~AdminStep
  <2>1. ASSUME NEW a \in RefundCalls, RefundRecorded(a) PROVE FALSE
    BY <1>1, <2>1 DEF RefundRecorded, PaymentRow
  <2> QED
    BY <2>1
    DEF AdminStep, RefundNext, DeskNext, RefundChecked, RefundRefused,
        RefundIssued,
        RefundFails, RefundTimesOut, RefundDies, SupportRequested, TicketResolved,
        RefundDenied
<1>5. ASSUME ConfirmStep PROVE \E c \in ConfirmCalls : KeyOf[c] = k /\ Escalate(c)
  <2>1. ASSUME NEW c \in ConfirmCalls, RecordRefund(c) PROVE FALSE
    BY <1>1, <2>1 DEF RecordRefund, PaymentRow
  <2>2. ASSUME NEW c \in ConfirmCalls, Escalate(c) PROVE KeyOf[c] = k
    BY <1>1, <2>2 DEF Escalate, PaymentRow
  <2> QED
    BY <1>5, <2>1, <2>2
    DEF ConfirmStep, ConfirmNext, ConfirmProceeds, ConfirmRejects,
        ConfirmStarts,
        PaymentRefused, OfferMismatch, PaymentVerified, BookingExists, NoBookingYet,
        Tier1Books, Tier1Fails, Tier1TimesOut, Tier1BadReply, Tier2Books, Tier2Fails,
        Tier2TimesOut, Tier2BadReply, Tier3Refunds, Tier3Fails, Tier3TimesOut,
        RecordBooking, ConfirmDbError, ConfirmCrashes
<1> QED
  BY <1>2, <1>3, <1>4, <1>5 DEF Next, Finished, vars

\* A payment waiting for manual review has its urgent ticket, in every state.
THEOREM ReviewsHaveTickets == Spec => []ReviewHasTicket
<1>1. Init => ReviewHasTicket
  BY DEF Init, DataInit, ReviewHasTicket
<1>2. TypeInv /\ ReviewHasTicket /\ [Next]_vars => ReviewHasTicket'
  <2> SUFFICES ASSUME TypeInv, ReviewHasTicket, [Next]_vars, NEW k \in Keys,
                      payments'[k].status = "failed_needs_manual_review"
               PROVE  Escalated(k)'
    BY DEF ReviewHasTicket
  <2>1. CASE payments[k].status = "failed_needs_manual_review"
    BY <2>1, EscalatedStays DEF ReviewHasTicket
  <2>2. CASE payments[k].status # "failed_needs_manual_review"
    <3>1. PICK c \in ConfirmCalls : KeyOf[c] = k /\ Escalate(c)
      BY <2>2, ReviewWriter
    <3>2. tickets'[c].status = "open"
      BY <3>1 DEF Escalate, TypeInv, TypeOK, DataTypeOK, TicketIds, TicketRow
    <3> QED
      BY <3>1, <3>2 DEF Escalated
  <2> QED
    BY <2>1, <2>2
<1> QED
  BY <1>1, <1>2, TypeCorrect, PTL DEF Spec
-----------------------------------------------------------------------------
(* What happens to one order, one refund ledger, one row.                  *)

FirstPlaced(c, i) ==
    /\ pc[c] = "tier1"
    /\ i = Attempt(c)
    /\ tries'[c] = tries[c] + 1
    /\ orders'[i] = [state |-> "live", offer |-> offer[c]]

Rebooked(c, i) ==
    /\ pc[c] = "tier2"
    /\ pc'[c] \in {"record_booking", "tier3", "done"}
    /\ i = <<c, Rebook>>
    /\ \E alt \in Alternatives(c) :
           orders'[i] = [state |-> "live", offer |-> alt]

Deleted(c, i) ==
    /\ cancelPc[c] = "amadeus"
    /\ i = OrderOf(c)
    /\ orders[i].state = "live"
    /\ orders'[i] = [orders[i] EXCEPT !.state = "cancelled"]

LEMMA PlacedIsLive ==
    ASSUME NEW i \in OrderIds, NEW c \in ConfirmCalls,
           FirstPlaced(c, i) \/ Rebooked(c, i)
    PROVE  orders'[i].state = "live"
<1>1. CASE FirstPlaced(c, i)
  BY <1>1 DEF FirstPlaced
<1>2. CASE Rebooked(c, i)
  <2>1. PICK alt \in Alternatives(c) : orders'[i] = [state |-> "live", offer |-> alt]
    BY <1>2 DEF Rebooked
  <2> QED
    BY <2>1
<1> QED
  BY <1>1, <1>2

LEMMA OrderChanges ==
    ASSUME TypeInv, [Next]_vars, NEW i \in OrderIds
    PROVE  \/ orders'[i] = orders[i]
           \/ \E c \in ConfirmCalls : FirstPlaced(c, i) \/ Rebooked(c, i)
           \/ \E c \in CancelCalls : Deleted(c, i)
<1>1. orders \in [OrderIds -> Order]
  BY DEF TypeInv, TypeOK, DataTypeOK
<1>2. CASE UNCHANGED orders
  BY <1>2
<1>3. ASSUME NEW c \in ConfirmCalls, Places(c), ~UNCHANGED orders
      PROVE  orders'[i] = orders[i] \/ FirstPlaced(c, i) \/ Rebooked(c, i)
  <2>1. CASE Tier1Books(c) \/ Tier1TimesOut(c) \/ Tier1BadReply(c)
    <3>1. pc[c] = "tier1" /\ AmadeusPlaces(Attempt(c), offer[c])
      BY <2>1 DEF Tier1Books, Tier1TimesOut, Tier1BadReply
    <3>2. tries'[c] = tries[c] + 1
      BY <2>1
      DEF Tier1Books, Tier1TimesOut, Tier1BadReply, CountTry, TypeInv, TypeOK,
          EngineTypeOK
    <3> QED
      BY <1>1, <3>1, <3>2 DEF AmadeusPlaces, FirstPlaced
  <2>2. CASE Tier2Books(c) \/ Tier2TimesOut(c) \/ Tier2BadReply(c)
    <3>1. PICK alt \in Alternatives(c) : AmadeusPlaces(<<c, Rebook>>, alt)
      BY <1>3, <2>2 DEF Tier2Books, Tier2TimesOut, Tier2BadReply
    <3>2. pc[c] = "tier2" /\ pc'[c] \in {"record_booking", "tier3", "done"}
      BY <2>2
      DEF Tier2Books, Tier2TimesOut, Tier2BadReply, Goto, Return, TypeInv,
          TypeOK, EngineTypeOK
    <3> QED
      BY <1>1, <3>1, <3>2 DEF AmadeusPlaces, Rebooked
  <2> QED
    BY <1>3, <2>1, <2>2 DEF Places
<1>4. ASSUME NEW c \in CancelCalls, OrderDeleted(c) \/ DeleteTimesOut(c)
      PROVE  orders'[i] = orders[i] \/ Deleted(c, i)
  BY <1>1, <1>4 DEF OrderDeleted, DeleteTimesOut, AmadeusCancels, Deleted
<1> QED
  BY <1>2, <1>3, <1>4, OrderWriters

\* An order stays placed, for the same offer, and cancelled once it is.
LEMMA OrderStays ==
    ASSUME TypeInv, UnusedOrders, [Next]_vars, NEW i \in OrderIds, Placed(i)
    PROVE  /\ Placed(i)'
           /\ orders'[i].offer = orders[i].offer
           /\ orders[i].state = "cancelled" => orders'[i].state = "cancelled"
<1>1. ASSUME NEW c \in ConfirmCalls, FirstPlaced(c, i) PROVE FALSE
  <2>1. i[1] = c /\ i[2] = tries[c] + 1
    BY <1>1 DEF FirstPlaced, Attempt
  <2>2. tries[c] \in Nat
    BY DataAssumption DEF TypeInv, TypeOK, EngineTypeOK
  <2>3. i[2] > tries[i[1]]
    BY <2>1, <2>2
  <2> QED
    BY <2>3 DEF UnusedOrders
<1>2. ASSUME NEW c \in ConfirmCalls, Rebooked(c, i) PROVE FALSE
  <2>1. i[1] = c /\ i[2] = Rebook /\ pc[c] = "tier2"
    BY <1>2 DEF Rebooked
  <2> QED
    BY <2>1 DEF UnusedOrders
<1>3. orders[i] \in Order
  BY DEF TypeInv, TypeOK, DataTypeOK
<1>4. CASE orders'[i] = orders[i]
  BY <1>4 DEF Placed
<1>5. ASSUME NEW c \in CancelCalls, Deleted(c, i)
      PROVE  orders'[i] = [orders[i] EXCEPT !.state = "cancelled"]
  BY <1>5 DEF Deleted
<1>6. CASE orders'[i] = [orders[i] EXCEPT !.state = "cancelled"]
  BY <1>3, <1>6 DEF Placed, Order
<1> QED
  BY <1>1, <1>2, <1>4, <1>5, <1>6, OrderChanges

LEMMA RefundsGrow ==
    ASSUME TypeInv, [Next]_vars, NEW k \in Keys
    PROVE  refunds[k] \subseteq refunds'[k] /\ refunded[k] =< refunded'[k]
<1>1. refunds \in [Keys -> SUBSET Nat] /\ refunded \in [Keys -> Nat]
  BY DEF TypeInv, TypeOK, DataTypeOK
<1>2. ASSUME NEW j \in Keys, NEW amount \in Nat, Refunds(j, amount)
      PROVE  refunds[k] \subseteq refunds'[k] /\ refunded[k] =< refunded'[k]
  BY <1>1, <1>2 DEF Refunds, StripeRefunds
<1>3. CASE UNCHANGED <<refunds, refunded>>
  BY <1>1, <1>3
<1> QED
  BY <1>2, <1>3, RefundWriters

LEMMA PaymentChanges ==
    ASSUME TypeInv, [Next]_vars, NEW k \in Keys
    PROVE  \/ payments'[k] = payments[k]
           \/ /\ payments'[k].refund = payments[k].refund
              /\ payments'[k].status # "refunded"
           \/ \E c \in ConfirmCalls :
                /\ RecordRefund(c) /\ KeyOf[c] = k
                /\ payments'[k].status = "refunded"
                /\ payments'[k].refund = AmountTotal(k)
           \/ \E a \in RefundCalls :
                /\ RefundRecorded(a) /\ KeyOf[a] = k
                /\ payments'[k].status = "refunded"
                /\ payments'[k].refund = asked[a]
<1>1. payments \in [Keys -> PaymentRow]
  BY DEF TypeInv, TypeOK, DataTypeOK
<1>2. ASSUME NEW j \in Keys, StoreCheckout(j)
      PROVE  \/ payments'[k] = payments[k]
             \/ /\ payments'[k].refund = payments[k].refund
                /\ payments'[k].status # "refunded"
  BY <1>1, <1>2 DEF StoreCheckout, PaymentRow
<1>3. ASSUME NEW d \in Deliveries, WebhookApplies(d)
      PROVE  \/ payments'[k] = payments[k]
             \/ /\ payments'[k].refund = payments[k].refund
                /\ payments'[k].status # "refunded"
  <2>1. PICK j \in Keys, type \in EventTypes : delivery[d] = <<j, type>>
    BY <1>3 DEF TypeInv, TypeOK, PaymentTypeOK, WebhookApplies, Events
  <2>2. StatusAfter(type) # "refunded"
    BY <2>1 DEF StatusAfter, EventTypes
  <2>3. payments' = [payments EXCEPT ![j] = AfterEvent(@, type)]
    BY <1>3, <2>1 DEF WebhookApplies
  <2>4. AfterEvent(payments[j], type).refund = payments[j].refund
    BY <1>1 DEF AfterEvent, PaymentRow
  <2>5. \/ AfterEvent(payments[j], type) = payments[j]
        \/ AfterEvent(payments[j], type).status # "refunded"
    BY <1>1, <2>2 DEF AfterEvent, PaymentRow
  <2> QED
    BY <1>1, <2>3, <2>4, <2>5
<1>4. ASSUME NEW c \in ConfirmCalls, Escalate(c)
      PROVE  \/ payments'[k] = payments[k]
             \/ /\ payments'[k].refund = payments[k].refund
                /\ payments'[k].status # "refunded"
  BY <1>1, <1>4 DEF Escalate, PaymentRow
<1>5. ASSUME NEW c \in ConfirmCalls, RecordRefund(c)
      PROVE  \/ payments'[k] = payments[k]
             \/ /\ KeyOf[c] = k
                /\ payments'[k].status = "refunded"
                /\ payments'[k].refund = AmountTotal(k)
  BY <1>1, <1>5 DEF RecordRefund, PaymentRow
<1>6. ASSUME NEW a \in RefundCalls, RefundRecorded(a)
      PROVE  \/ payments'[k] = payments[k]
             \/ /\ KeyOf[a] = k
                /\ payments'[k].status = "refunded"
                /\ payments'[k].refund = asked[a]
  BY <1>1, <1>6 DEF RefundRecorded, PaymentRow
<1> QED
  BY <1>2, <1>3, <1>4, <1>5, <1>6, PaymentWriters

LEMMA BookingChanges ==
    ASSUME TypeInv, [Next]_vars, NEW k \in Keys
    PROVE  \/ bookings'[k] = bookings[k]
           \/ \E c \in ConfirmCalls :
                /\ RecordBooking(c) /\ KeyOf[c] = k
                /\ bookings'[k] = AfterInsert(bookings[k], held[c])
           \/ \E c \in CancelCalls :
                /\ CancelWrites(c) /\ KeyOf[c] = k
                /\ bookings'[k] = AfterCancel(bookings[k], c)
           \/ \E a \in RefundCalls :
                /\ RefundRecorded(a) /\ KeyOf[a] = k
                /\ bookings'[k] = AfterRefund(bookings[k], asked[a])
           \/ bookings'[k] = [bookings[k] EXCEPT !.refundStatus = "denied"]
<1>1. bookings \in [Keys -> BookingRow]
  BY DEF TypeInv, TypeOK, DataTypeOK
<1>2. CASE UNCHANGED bookings
  BY <1>2
<1>3. ASSUME NEW c \in ConfirmCalls, RecordBooking(c)
      PROVE  \/ bookings'[k] = bookings[k]
             \/ KeyOf[c] = k /\ bookings'[k] = AfterInsert(bookings[k], held[c])
  BY <1>1, <1>3 DEF RecordBooking
<1>4. ASSUME NEW c \in CancelCalls, CancelWrites(c)
      PROVE  \/ bookings'[k] = bookings[k]
             \/ KeyOf[c] = k /\ bookings'[k] = AfterCancel(bookings[k], c)
  BY <1>1, <1>4 DEF CancelWrites
<1>5. ASSUME NEW a \in RefundCalls, RefundRecorded(a)
      PROVE  \/ bookings'[k] = bookings[k]
             \/ KeyOf[a] = k /\ bookings'[k] = AfterRefund(bookings[k], asked[a])
  BY <1>1, <1>5 DEF RefundRecorded
<1>6. ASSUME NEW j \in Keys, RefundDenied(j)
      PROVE  \/ bookings'[k] = bookings[k]
             \/ bookings'[k] = [bookings[k] EXCEPT !.refundStatus = "denied"]
  BY <1>1, <1>6 DEF RefundDenied
<1> QED
  BY <1>2, <1>3, <1>4, <1>5, <1>6, BookingWriters DEF vars, dataVars, tables
-----------------------------------------------------------------------------
(* RecordTrail is inductive, conjunct by conjunct.                         *)

LEMMA InitRecords == Init => RecordTrail
<1> SUFFICES ASSUME Init PROVE RecordTrail
  OBVIOUS
<1>1. \A i \in OrderIds : ~Placed(i)
  BY DEF Init, DataInit, Placed
<1>2. \A k \in Keys : refunds[k] = {} /\ ~HasBooking(k)
  BY DEF Init, DataInit, HasBooking
<1>3. UnusedOrders /\ OrderIsPaidFor /\ BookingIsBacked /\ RefundsAreCounted
  BY <1>1, <1>2
  DEF UnusedOrders, OrderIsPaidFor, BookingIsBacked, RefundsAreCounted, Placed
<1>4. RefundsOnFileAreReal /\ CancelledIsDecided
  BY DEF Init, DataInit, RefundsOnFileAreReal, CancelledIsDecided
<1>5. ConfirmKnows
  BY DEF Init, EngineInit, ConfirmKnows, PastPayment, Running
<1>6. CancelKnows
  BY DEF Init, CancelInit, CancelKnows
<1>7. RefundKnows
  BY DEF Init, AdminInit, RefundKnows
<1> QED
  BY <1>3, <1>4, <1>5, <1>6, <1>7 DEF RecordTrail

BeforeRebook == {"idle", "payment", "existing", "tier1", "tier2"}

\* A call counts its attempts up, and does not come back from Tier 2.
LEMMA CallAdvances ==
    ASSUME TypeInv, [Next]_vars, NEW c \in ConfirmCalls
    PROVE  /\ tries'[c] \in Nat /\ tries[c] \in Nat /\ tries[c] =< tries'[c]
           /\ pc'[c] \in BeforeRebook => pc[c] \in BeforeRebook
<1>1. tries \in [ConfirmCalls -> Nat] /\ pc \in [ConfirmCalls -> Steps]
  BY DataAssumption DEF TypeInv, TypeOK, EngineTypeOK
<1>2. CASE CallRests(c)
  BY <1>1, <1>2 DEF CallRests
<1>3. CASE CallActs(c)
  <2>1. tries'[c] = tries[c] \/ tries'[c] = tries[c] + 1
    BY <1>1, <1>3
    DEF CallActs, ConfirmProceeds, ConfirmRejects, ConfirmStarts,
        PaymentRefused, OfferMismatch, PaymentVerified, BookingExists,
        NoBookingYet, Tier1Books, Tier1Fails, Tier1TimesOut, Tier1BadReply,
        Tier2Books, Tier2Fails, Tier2TimesOut, Tier2BadReply, Tier3Refunds,
        Tier3Fails, Tier3TimesOut, RecordRefund, Escalate, RecordBooking,
        ConfirmDbError, ConfirmCrashes, CountTry
  <2>2. pc'[c] \in BeforeRebook => pc[c] \in BeforeRebook
    BY <1>1, <1>3
    DEF CallActs, ConfirmProceeds, ConfirmRejects, ConfirmStarts, MayStart,
        PaymentRefused, OfferMismatch, PaymentVerified, BookingExists,
        NoBookingYet, Tier1Books, Tier1Fails, Tier1TimesOut, Tier1BadReply,
        Tier2Books, Tier2Fails, Tier2TimesOut, Tier2BadReply, Tier3Refunds,
        Tier3Fails, Tier3TimesOut, RecordRefund, Escalate, RecordBooking,
        ConfirmDbError, ConfirmCrashes, Goto, Return, Answered, BeforeRebook
  <2> QED
    BY <1>1, <2>1, <2>2
<1> QED
  BY <1>2, <1>3, CallMoves

LEMMA UnusedOrdersStep ==
    ASSUME TypeInv, RecordTrail, [Next]_vars PROVE UnusedOrders'
<1> SUFFICES ASSUME NEW i \in OrderIds,
                    \/ i[2] > tries'[i[1]]
                    \/ i[2] = Rebook /\ pc'[i[1]] \in BeforeRebook
             PROVE  ~Placed(i)'
  BY DEF UnusedOrders, BeforeRebook
<1>1. i[1] \in ConfirmCalls /\ i[2] \in Nat
  BY DataAssumption DEF OrderIds
<1>2. ~Placed(i)
  BY <1>1, CallAdvances DEF RecordTrail, UnusedOrders, BeforeRebook
<1>3. ASSUME NEW c \in ConfirmCalls, FirstPlaced(c, i) PROVE FALSE
  <2>1. i[1] = c /\ i[2] = tries[c] + 1 /\ tries'[c] = tries[c] + 1
    BY <1>3 DEF FirstPlaced, Attempt
  <2>2. tries[c] \in Nat
    BY CallAdvances
  <2> QED
    BY <2>1, <2>2 DEF Rebook
<1>4. ASSUME NEW c \in ConfirmCalls, Rebooked(c, i) PROVE FALSE
  <2>1. i[1] = c /\ i[2] = 0 /\ pc'[c] \notin BeforeRebook
    BY <1>4 DEF Rebooked, Rebook, BeforeRebook
  <2>2. tries'[c] \in Nat
    BY CallAdvances
  <2> QED
    BY <2>1, <2>2
<1>5. ASSUME NEW c \in CancelCalls, Deleted(c, i) PROVE FALSE
  BY <1>2, <1>5 DEF Deleted, Placed
<1> QED
  BY <1>2, <1>3, <1>4, <1>5, OrderChanges DEF Placed

\* _within_rebook_threshold, as OrderIsPaidFor reads it.
LEMMA WithinIsWithin ==
    ASSUME NEW paid \in Nat, NEW alt \in Nat, WithinThreshold(paid, alt)
    PROVE  100 * (alt - paid) =< ThresholdPercent * paid
<1>1. alt * 100 =< paid * (100 + ThresholdPercent)
  BY DEF WithinThreshold
<1>2. ThresholdPercent \in Nat
  BY DataAssumption
<1>3. paid * (100 + ThresholdPercent) = paid * 100 + ThresholdPercent * paid
  BY <1>2
<1> QED
  BY <1>1, <1>2, <1>3

LEMMA OrderIsPaidForStep ==
    ASSUME TypeInv, RecordTrail, [Next]_vars PROVE OrderIsPaidFor'
<1> DEFINE IsPaidFor(i, o) ==
        LET paid == Fare[OfferOf[OrderKey(i)]]
            got == Fare[o]
        IN  IF i[2] = Rebook
            THEN /\ got.currency = paid.currency
                 /\ got.party = Listed[i[1]]
                 /\ paid.party \in {0, got.party}
                 /\ 100 * (got.price - paid.price) =< ThresholdPercent * paid.price
            ELSE o = OfferOf[OrderKey(i)]
<1> SUFFICES ASSUME NEW i \in OrderIds, Placed(i)' PROVE IsPaidFor(i, orders'[i].offer)
  BY DEF OrderIsPaidFor, OrderKey
<1>1. ASSUME Placed(i) PROVE IsPaidFor(i, orders'[i].offer)
  <2>1. IsPaidFor(i, orders[i].offer)
    BY <1>1 DEF RecordTrail, OrderIsPaidFor
  <2> QED
    BY <1>1, <2>1, OrderStays DEF RecordTrail
<1>2. ASSUME NEW c \in ConfirmCalls, FirstPlaced(c, i)
      PROVE  IsPaidFor(i, orders'[i].offer)
  <2>1. i[1] = c /\ i[2] = tries[c] + 1 /\ orders'[i].offer = offer[c]
    BY <1>2 DEF FirstPlaced, Attempt
  <2>2. offer[c] = OfferOf[KeyOf[c]]
    BY <1>2 DEF FirstPlaced, RecordTrail, ConfirmKnows, PastPayment
  <2>3. i[2] # Rebook
    BY <2>1, CallAdvances DEF Rebook
  <2> QED
    BY <2>1, <2>2, <2>3 DEF OrderKey
<1>3. ASSUME NEW c \in ConfirmCalls, Rebooked(c, i)
      PROVE  IsPaidFor(i, orders'[i].offer)
  <2>1. PICK alt \in Alternatives(c) : orders'[i].offer = alt
    BY <1>3 DEF Rebooked
  <2>2. i[1] = c /\ i[2] = Rebook
    BY <1>3 DEF Rebooked
  <2>3. offer[c] = OfferOf[OrderKey(i)]
    BY <1>3, <2>2 DEF Rebooked, RecordTrail, ConfirmKnows, PastPayment, OrderKey
  <2>4. Comparable(c, alt) /\ Fare[offer[c]].party \in {0, Listed[c]}
    BY <1>3 DEF Alternatives, Rebooked, RecordTrail, ConfirmKnows, Running
  <2>5. Fare[alt].price \in Nat /\ Fare[offer[c]].price \in Nat
    <3>1. alt \in Offers /\ offer[c] \in Offers
      BY AlternativesAreOffers DEF TypeInv, TypeOK, EngineTypeOK
    <3> QED
      BY <3>1, DataAssumption
  <2>6. 100 * (Fare[alt].price - Fare[offer[c]].price)
            =< ThresholdPercent * Fare[offer[c]].price
    BY <2>4, <2>5, WithinIsWithin DEF Comparable
  <2> QED
    BY <2>1, <2>2, <2>3, <2>4, <2>6 DEF Comparable
<1>4. ASSUME NEW c \in CancelCalls, Deleted(c, i) PROVE Placed(i)
  BY <1>4 DEF Deleted, Placed
<1>5. orders'[i] = orders[i] => Placed(i)
  BY DEF Placed
<1> HIDE DEF IsPaidFor
<1> QED
  BY <1>1, <1>2, <1>3, <1>4, <1>5, OrderChanges

\* The order that a cancellation deletes is the one on file for its key.
LEMMA DeletedIsOnFile ==
    ASSUME TypeInv, RecordTrail, NEW i \in OrderIds, NEW c \in CancelCalls,
           Deleted(c, i)
    PROVE  HasBooking(OrderKey(i)) /\ bookings[OrderKey(i)].order = i
<1>1. KeyOf[c] \in Keys /\ HasBooking(KeyOf[c]) /\ bookings[KeyOf[c]].order = i
  BY KeysOfCalls DEF Deleted, OrderOf, RecordTrail, CancelKnows
<1>2. OrderKey(i) = KeyOf[c]
  BY <1>1, UnknownIdAssumption
  DEF RecordTrail, BookingIsBacked, NamedIsBacked, UnnamedIsBacked
<1> QED
  BY <1>1, <1>2

\* The row of a key names an order as before, or stands for one that no step
\* takes away.
LEMMA RowStaysBacked ==
    ASSUME TypeInv, RecordTrail, [Next]_vars, NEW k \in Keys, HasBooking(k),
           bookings'[k].order = bookings[k].order,
           bookings'[k].status = bookings[k].status
    PROVE  NamedIsBacked(k)' \/ UnnamedIsBacked(k)'
<1>1. UnusedOrders /\ BookingIsBacked
  BY DEF RecordTrail
<1>2. CASE NamedIsBacked(k)
  BY <1>1, <1>2, OrderStays DEF NamedIsBacked, Placed, OrderKey
<1>3. CASE UnnamedIsBacked(k)
  <2>1. PICK i \in OrderIds : OrderKey(i) = k /\ orders[i].state = "live"
    BY <1>3 DEF UnnamedIsBacked
  <2>2. ASSUME NEW c \in CancelCalls, Deleted(c, i) PROVE FALSE
    BY <1>3, <2>1, <2>2, DeletedIsOnFile, UnknownIdAssumption DEF UnnamedIsBacked
  <2>3. ASSUME NEW c \in ConfirmCalls, FirstPlaced(c, i) \/ Rebooked(c, i)
        PROVE  orders'[i].state = "live"
    BY <2>3, PlacedIsLive
  <2>4. orders'[i].state = "live"
    BY <2>1, <2>2, <2>3, OrderChanges
  <2> QED
    BY <1>3, <2>1, <2>4 DEF UnnamedIsBacked, OrderKey
<1> QED
  BY <1>1, <1>2, <1>3 DEF BookingIsBacked

\* The row that a confirmation inserts stands for an order of its own: it is
\* live, since no order is cancelled before it is on file.
LEMMA InsertIsBacked ==
    ASSUME TypeInv, RecordTrail, [Next]_vars, NEW c \in ConfirmCalls,
           RecordBooking(c), ~HasBooking(KeyOf[c]),
           bookings'[KeyOf[c]].order = held[c],
           bookings'[KeyOf[c]].status = "booked"
    PROVE  NamedIsBacked(KeyOf[c])' \/ UnnamedIsBacked(KeyOf[c])'
<1>1. PICK i \in OrderIds : i[1] = c /\ Placed(i) /\ held[c] \in {i, UnknownId}
  BY DEF RecordBooking, RecordTrail, ConfirmKnows, PlacedBy
<1>2. OrderKey(i) = KeyOf[c] /\ orders' = orders
  BY <1>1 DEF OrderKey, RecordBooking
<1>3. orders[i].state = "live"
  <2>1. orders[i].state \in {"live", "cancelled"}
    BY <1>1 DEF Placed, TypeInv, TypeOK, DataTypeOK, Order
  <2> QED
    BY <1>2, <2>1 DEF RecordTrail, BookingIsBacked
<1> QED
  BY <1>1, <1>2, <1>3 DEF NamedIsBacked, UnnamedIsBacked, Placed, OrderKey

LEMMA BookingIsBackedStep ==
    ASSUME TypeInv, RecordTrail, [Next]_vars PROVE BookingIsBacked'
<1>1. BookingStays /\ UnusedOrders /\ BookingIsBacked
  BY BookingStaysInStep DEF RecordTrail
<1>2. ASSUME NEW k \in Keys, HasBooking(k)'
      PROVE  NamedIsBacked(k)' \/ UnnamedIsBacked(k)'
  <2> DEFINE Same == /\ bookings'[k].order = bookings[k].order
                     /\ bookings'[k].status = bookings[k].status
  <2>1. bookings[k] \in BookingRow
    BY DEF TypeInv, TypeOK, DataTypeOK
  <2>2. CASE Same
    <3>1. HasBooking(k)
      BY <1>2, <2>2 DEF HasBooking
    <3> QED
      BY <2>2, <3>1, RowStaysBacked
  <2>3. ASSUME NEW c \in ConfirmCalls, RecordBooking(c), KeyOf[c] = k,
               bookings'[k] = AfterInsert(bookings[k], held[c])
        PROVE  NamedIsBacked(k)' \/ UnnamedIsBacked(k)'
    <3>1. CASE HasBooking(k)
      BY <2>2, <2>3, <3>1 DEF AfterInsert, HasBooking
    <3>2. CASE ~HasBooking(k)
      <4>1. bookings'[k].order = held[c] /\ bookings'[k].status = "booked"
        BY <2>1, <2>3, <3>2 DEF AfterInsert, HasBooking, BookingRow
      <4> QED
        BY <2>3, <3>2, <4>1, InsertIsBacked
    <3> QED
      BY <3>1, <3>2
  <2>4. ASSUME NEW c \in CancelCalls, CancelWrites(c), KeyOf[c] = k,
               bookings'[k] = AfterCancel(bookings[k], c)
        PROVE  NamedIsBacked(k)'
    <3>1. bookings'[k].order = bookings[k].order
      BY <2>1, <2>4 DEF AfterCancel, BookingRow
    <3>2. /\ HasBooking(k) /\ bookings[k].order # UnknownId
          /\ orders[bookings[k].order].state = "cancelled"
      BY <2>4 DEF CancelWrites, RecordTrail, CancelKnows, OrderOf
    <3>3. NamedIsBacked(k) /\ orders' = orders
      BY <1>1, <2>4, <3>2 DEF BookingIsBacked, UnnamedIsBacked, CancelWrites
    <3> QED
      BY <3>1, <3>2, <3>3 DEF NamedIsBacked, Placed, OrderKey
  <2>5. ASSUME NEW a \in RefundCalls, bookings'[k] = AfterRefund(bookings[k], asked[a])
        PROVE  Same
    BY <2>1, <2>5 DEF AfterRefund, BookingRow
  <2>6. ASSUME bookings'[k] = [bookings[k] EXCEPT !.refundStatus = "denied"]
        PROVE  Same
    BY <2>1, <2>6 DEF BookingRow
  <2>7. bookings'[k] = bookings[k] => Same
    OBVIOUS
  <2> HIDE DEF Same
  <2> QED
    BY <2>2, <2>3, <2>4, <2>5, <2>6, <2>7, BookingChanges
<1>3. ASSUME NEW i \in OrderIds, orders'[i].state = "cancelled"
      PROVE  HasBooking(OrderKey(i))' /\ bookings'[OrderKey(i)].order = i
  <2>1. OrderKey(i) \in Keys
    BY KeysOfCalls DEF OrderIds, OrderKey
  <2>2. ASSUME NEW c \in ConfirmCalls, FirstPlaced(c, i) \/ Rebooked(c, i)
        PROVE  FALSE
    BY <1>3, <2>2, PlacedIsLive
  <2>3. orders[i].state = "cancelled" \/ \E c \in CancelCalls : Deleted(c, i)
    BY <1>3, <2>2, OrderChanges
  <2>4. HasBooking(OrderKey(i)) /\ bookings[OrderKey(i)].order = i
    BY <1>1, <2>3, DeletedIsOnFile DEF BookingIsBacked
  <2> QED
    BY <1>1, <2>1, <2>4 DEF BookingStays, HasBooking, OrderKey
<1> QED
  BY <1>2, <1>3 DEF BookingIsBacked, OrderKey

LEMMA RefundsAreCountedStep ==
    ASSUME TypeInv, RecordTrail, [Next]_vars PROVE RefundsAreCounted'
<1>1. refunds \in [Keys -> SUBSET Nat] /\ refunded \in [Keys -> Nat]
  BY DEF TypeInv, TypeOK, DataTypeOK
<1>2. RefundsAreCounted
  BY DEF RecordTrail
<1>3. CASE UNCHANGED <<refunds, refunded>>
  BY <1>2, <1>3 DEF RefundsAreCounted
<1>4. ASSUME NEW k \in Keys, NEW amount \in Nat, Refunds(k, amount)
      PROVE  RefundsAreCounted'
  <2>1. amount > 0
    <3>1. ASSUME NEW a \in RefundCalls, RefundIssued(a) \/ RefundTimesOut(a)
          PROVE  asked[a] > 0
      BY <3>1 DEF RefundIssued, RefundTimesOut, RecordTrail, RefundKnows
    <3> QED
      BY <1>4, <3>1, PriceIsPositive DEF Refunds
  <2>2. \A j \in Keys \ {k} :
            refunds'[j] = refunds[j] /\ refunded'[j] = refunded[j]
    BY <1>1, <1>4 DEF Refunds, StripeRefunds
  <2>3. refunds'[k] = refunds[k] \cup {amount}
    BY <1>1, <1>4 DEF Refunds, StripeRefunds
  <2>4. CASE amount \in refunds[k]
    <3>1. refunds'[k] = refunds[k] /\ refunded'[k] = refunded[k]
      BY <1>1, <1>4, <2>3, <2>4 DEF Refunds, StripeRefunds
    <3> QED
      BY <1>2, <2>2, <3>1 DEF RefundsAreCounted
  <2>5. CASE amount \notin refunds[k]
    <3>1. refunded'[k] = refunded[k] + amount
      BY <1>1, <1>4, <2>5 DEF Refunds, StripeRefunds
    <3>2. \A other \in refunds[k] : other \in Nat /\ 0 < other /\ other =< refunded[k]
      BY <1>1, <1>2 DEF RefundsAreCounted
    <3>3. \A other \in refunds'[k] : 0 < other /\ other =< refunded'[k]
      BY <1>1, <2>1, <2>3, <3>1, <3>2
    <3> QED
      BY <1>2, <2>2, <3>3 DEF RefundsAreCounted
  <2> QED
    BY <2>4, <2>5
<1> QED
  BY <1>3, <1>4, RefundWriters

LEMMA RefundsOnFileStep ==
    ASSUME TypeInv, RecordTrail, [Next]_vars PROVE RefundsOnFileAreReal'
<1> USE DEF RecordTrail, RefundsOnFileAreReal
<1> SUFFICES ASSUME NEW k \in Keys
             PROVE  /\ payments'[k].refund # 0 => payments'[k].refund \in refunds'[k]
                    /\ bookings'[k].refund # 0 => bookings'[k].refund \in refunds'[k]
                    /\ payments'[k].status = "refunded" => payments'[k].refund # 0
  OBVIOUS
<1>1. /\ payments'[k].refund # 0 => payments'[k].refund \in refunds'[k]
      /\ payments'[k].status = "refunded" => payments'[k].refund # 0
  <2>1. \A c \in ConfirmCalls : RecordRefund(c) => AmountTotal(KeyOf[c]) \in refunds[KeyOf[c]]
    BY DEF RecordRefund, ConfirmKnows
  <2>2. \A a \in RefundCalls :
            RefundRecorded(a) => asked[a] \in refunds[KeyOf[a]] /\ asked[a] > 0
    BY DEF RefundRecorded, RefundKnows
  <2>3. AmountTotal(k) # 0
    BY PriceIsPositive
  <2>4. \A a \in RefundCalls : asked[a] > 0 => asked[a] # 0
    BY DEF TypeInv, TypeOK, AdminTypeOK
  <2> QED
    BY <2>1, <2>2, <2>3, <2>4, RefundsGrow, PaymentChanges
<1>2. bookings'[k].refund # 0 => bookings'[k].refund \in refunds'[k]
  <2>1. bookings[k] \in BookingRow
    BY DEF TypeInv, TypeOK, DataTypeOK
  <2>2. bookings[k].refund # 0 => bookings[k].refund \in refunds'[k]
    BY RefundsGrow
  <2>3. ASSUME NEW c \in ConfirmCalls, bookings'[k] = AfterInsert(bookings[k], held[c])
        PROVE  bookings'[k].refund = bookings[k].refund
    BY <2>1, <2>3 DEF AfterInsert, BookingRow
  <2>4. ASSUME NEW c \in CancelCalls, CancelWrites(c), KeyOf[c] = k,
               bookings'[k] = AfterCancel(bookings[k], c), bookings'[k].refund # 0
        PROVE  bookings'[k].refund \in refunds'[k]
    <3>1. decision[c] = "full_auto" => AmountTotal(k) \in refunds'[k]
      BY <2>4, RefundsGrow DEF CancelWrites, CancelKnows
    <3>2. bookings'[k].refund = IF decision[c] = "full_auto" THEN AmountTotal(k) ELSE 0
      BY <2>1, <2>4 DEF AfterCancel, BookingRow
    <3> QED
      BY <2>4, <3>1, <3>2
  <2>5. ASSUME NEW a \in RefundCalls, RefundRecorded(a), KeyOf[a] = k,
               bookings'[k] = AfterRefund(bookings[k], asked[a])
        PROVE  \/ bookings'[k].refund = bookings[k].refund
               \/ bookings'[k].refund \in refunds'[k]
    <3>1. asked[a] \in refunds'[k]
      BY <2>5, RefundsGrow DEF RefundRecorded, RefundKnows
    <3> QED
      BY <2>1, <2>5, <3>1 DEF AfterRefund, BookingRow
  <2>6. ASSUME bookings'[k] = [bookings[k] EXCEPT !.refundStatus = "denied"]
        PROVE  bookings'[k].refund = bookings[k].refund
    BY <2>1, <2>6 DEF BookingRow
  <2> QED
    BY <2>2, <2>3, <2>4, <2>5, <2>6, BookingChanges
<1> QED
  BY <1>1, <1>2

LEMMA CancelledIsDecidedStep ==
    ASSUME TypeInv, RecordTrail, [Next]_vars PROVE CancelledIsDecided'
<1> DEFINE Decided(k, row) ==
        /\ row.status = "cancelled" => row.refundStatus # "none"
        /\ row.refundStatus = "full_auto" => AmountTotal(k) \in refunds'[k]
        /\ row.refundStatus = "manual" => refunded'[k] > 0
<1> SUFFICES ASSUME NEW k \in Keys PROVE Decided(k, bookings'[k])
  BY DEF CancelledIsDecided, AmountTotal
<1>1. bookings[k] \in BookingRow
  BY DEF TypeInv, TypeOK, DataTypeOK
<1>2. refunded[k] \in Nat /\ refunded'[k] \in Nat
  BY TypeNext DEF TypeInv, TypeOK, DataTypeOK
<1>3. Decided(k, bookings[k])
  BY <1>2, RefundsGrow DEF RecordTrail, CancelledIsDecided
<1>4. ASSUME NEW c \in ConfirmCalls, bookings'[k] = AfterInsert(bookings[k], held[c])
      PROVE  Decided(k, bookings'[k])
  BY <1>1, <1>3, <1>4 DEF AfterInsert, BookingRow
<1>5. ASSUME NEW c \in CancelCalls, CancelWrites(c), KeyOf[c] = k,
             bookings'[k] = AfterCancel(bookings[k], c)
      PROVE  Decided(k, bookings'[k])
  <2>1. /\ decision[c] \notin {"none", "manual"}
        /\ decision[c] = "full_auto" => AmountTotal(k) \in refunds'[k]
    BY <1>5, RefundsGrow DEF CancelWrites, RecordTrail, CancelKnows
  <2>2. bookings'[k].refundStatus = decision[c]
    BY <1>1, <1>5 DEF AfterCancel, BookingRow
  <2> QED
    BY <2>1, <2>2
<1>6. ASSUME NEW a \in RefundCalls, RefundRecorded(a), KeyOf[a] = k,
             bookings'[k] = AfterRefund(bookings[k], asked[a])
      PROVE  Decided(k, bookings'[k])
  <2>1. CASE bookings'[k] = bookings[k]
    BY <1>3, <2>1
  <2>2. CASE bookings'[k] # bookings[k]
    <3>1. bookings'[k].refundStatus = "manual"
      BY <1>1, <1>6, <2>2 DEF AfterRefund, BookingRow
    <3>2. asked[a] > 0 /\ asked[a] =< refunded[k] /\ asked[a] \in Nat
      BY <1>6
      DEF RefundRecorded, RecordTrail, RefundKnows, RefundsAreCounted, TypeInv,
          TypeOK, AdminTypeOK
    <3>3. refunded'[k] > 0
      BY <1>2, <3>2, RefundsGrow
    <3> QED
      BY <3>1, <3>3
  <2> QED
    BY <2>1, <2>2
<1>7. ASSUME bookings'[k] = [bookings[k] EXCEPT !.refundStatus = "denied"]
      PROVE  Decided(k, bookings'[k])
  BY <1>1, <1>7 DEF BookingRow
<1> HIDE DEF Decided
<1> QED
  BY <1>3, <1>4, <1>5, <1>6, <1>7, BookingChanges

\* What a confirmation knows it learns in its own step, and keeps.
LEMMA ConfirmKnowsStep ==
    ASSUME TypeInv, RecordTrail, [Next]_vars PROVE ConfirmKnows'
<1> SUFFICES ASSUME NEW c \in ConfirmCalls
             PROVE  /\ Running(c)' => Fare[offer'[c]].party \in {0, Listed[c]}
                    /\ pc'[c] \in PastPayment => offer'[c] = OfferOf[KeyOf[c]]
                    /\ pc'[c] = "record_booking" => PlacedBy(c)'
                    /\ pc'[c] = "record_refund" =>
                           AmountTotal(KeyOf[c]) \in refunds'[KeyOf[c]]
  BY DEF ConfirmKnows, PastPayment, AmountTotal
<1>1. /\ offer \in [ConfirmCalls -> Offers]
      /\ held \in [ConfirmCalls -> OrderIds \cup {UnknownId}]
      /\ pc \in [ConfirmCalls -> Steps]
      /\ orders \in [OrderIds -> Order]
      /\ KeyOf[c] \in Keys
  BY KeysOfCalls DEF TypeInv, TypeOK, EngineTypeOK, DataTypeOK
<1>2. ConfirmKnows /\ UnusedOrders
  BY DEF RecordTrail
<1>3. CASE CallRests(c)
  <2>1. PlacedBy(c) => PlacedBy(c)'
    BY <1>2, <1>3, OrderStays DEF CallRests, PlacedBy, Placed
  <2> QED
    BY <1>1, <1>2, <1>3, <2>1, RefundsGrow DEF CallRests, ConfirmKnows, Running
<1>4. CASE CallActs(c)
  <2>0. Running(c)' => Fare[offer'[c]].party \in {0, Listed[c]}
    BY <1>1, <1>2, <1>4
    DEF ConfirmKnows, CallActs, ConfirmProceeds, ConfirmRejects, ConfirmStarts,
        PaymentRefused, OfferMismatch, PaymentVerified, BookingExists,
        NoBookingYet, Tier1Books, Tier1Fails, Tier1TimesOut, Tier1BadReply,
        Tier2Books, Tier2Fails, Tier2TimesOut, Tier2BadReply, Tier3Refunds,
        Tier3Fails, Tier3TimesOut, RecordRefund, Escalate, RecordBooking,
        ConfirmDbError, ConfirmCrashes, Goto, Return, Answered, Running
  <2>1. pc'[c] \in PastPayment => offer'[c] = OfferOf[KeyOf[c]]
    BY <1>1, <1>2, <1>4
    DEF ConfirmKnows, CallActs, ConfirmProceeds, ConfirmRejects, ConfirmStarts,
        PaymentRefused, OfferMismatch, PaymentVerified, BookingExists,
        NoBookingYet, Tier1Books, Tier1Fails, Tier1TimesOut, Tier1BadReply,
        Tier2Books, Tier2Fails, Tier2TimesOut, Tier2BadReply, Tier3Refunds,
        Tier3Fails, Tier3TimesOut, RecordRefund, Escalate, RecordBooking,
        ConfirmDbError, ConfirmCrashes, Goto, Return, Answered, PastPayment
  <2>2. pc'[c] = "record_booking" => Tier1Books(c) \/ Tier2Books(c)
    BY <1>1, <1>4
    DEF CallActs, ConfirmProceeds, ConfirmRejects, ConfirmStarts,
        PaymentRefused, OfferMismatch, PaymentVerified, BookingExists,
        NoBookingYet, Tier1Books, Tier1Fails, Tier1TimesOut, Tier1BadReply,
        Tier2Books, Tier2Fails, Tier2TimesOut, Tier2BadReply, Tier3Refunds,
        Tier3Fails, Tier3TimesOut, RecordRefund, Escalate, RecordBooking,
        ConfirmDbError, ConfirmCrashes, Goto, Return, Answered, AfterFailure
  <2>3. pc'[c] = "record_refund" => Tier3Refunds(c)
    BY <1>1, <1>4
    DEF CallActs, ConfirmProceeds, ConfirmRejects, ConfirmStarts,
        PaymentRefused, OfferMismatch, PaymentVerified, BookingExists,
        NoBookingYet, Tier1Books, Tier1Fails, Tier1TimesOut, Tier1BadReply,
        Tier2Books, Tier2Fails, Tier2TimesOut, Tier2BadReply, Tier3Refunds,
        Tier3Fails, Tier3TimesOut, RecordRefund, Escalate, RecordBooking,
        ConfirmDbError, ConfirmCrashes, Goto, Return, Answered, AfterFailure
  <2>4. ASSUME Tier1Books(c) \/ Tier2Books(c)
        PROVE  PlacedBy(c)'
    <3>1. PICK i \in OrderIds, o \in Offers :
              i[1] = c /\ held'[c] \in {i, UnknownId} /\ AmadeusPlaces(i, o)
      <4>1. CASE Tier1Books(c)
        <5>1. Attempt(c) \in OrderIds /\ Attempt(c)[1] = c /\ offer[c] \in Offers
          BY <4>1, AttemptIsOrder
          DEF Tier1Books, Attempt, TypeInv, TypeOK, EngineTypeOK
        <5> QED
          BY <1>1, <4>1, <5>1 DEF Tier1Books, NamedAs
      <4>2. CASE Tier2Books(c)
        BY <1>1, <4>2, RebookIsOrder, AlternativesAreOffers DEF Tier2Books, NamedAs
      <4> QED
        BY <2>4, <4>1, <4>2
    <3> QED
      BY <1>1, <3>1 DEF AmadeusPlaces, Placed, PlacedBy
  <2>5. ASSUME Tier3Refunds(c)
        PROVE  AmountTotal(KeyOf[c]) \in refunds'[KeyOf[c]]
    BY <1>1, <2>5 DEF Tier3Refunds, StripeRefunds, TypeInv, TypeOK, DataTypeOK
  <2> QED
    BY <2>0, <2>1, <2>2, <2>3, <2>4, <2>5
<1> QED
  BY <1>3, <1>4, CallMoves

LEMMA CancelKnowsStep ==
    ASSUME TypeInv, RecordTrail, [Next]_vars PROVE CancelKnows'
<1> SUFFICES ASSUME NEW c \in CancelCalls
             PROVE  /\ cancelPc'[c] \in {"amadeus", "refund", "write"} => HasBooking(KeyOf[c])'
                    /\ cancelPc'[c] \in {"refund", "write"} =>
                           /\ bookings'[KeyOf[c]].order # UnknownId
                           /\ orders'[bookings'[KeyOf[c]].order].state = "cancelled"
                    /\ cancelPc'[c] = "write" =>
                           /\ decision'[c] \notin {"none", "manual"}
                           /\ decision'[c] = "full_auto" =>
                                  AmountTotal(KeyOf[c]) \in refunds'[KeyOf[c]]
  BY DEF CancelKnows, OrderOf, AmountTotal
<1>1. KeyOf[c] \in Keys /\ BookingStays
  BY KeysOfCalls, BookingStaysInStep
<1>2. CancelKnows /\ UnusedOrders /\ BookingIsBacked
  BY DEF RecordTrail
<1>3. ASSUME HasBooking(KeyOf[c])
      PROVE  /\ HasBooking(KeyOf[c])'
             /\ bookings'[KeyOf[c]].order = OrderOf(c)
             /\ OrderOf(c) # UnknownId /\ orders[OrderOf(c)].state = "cancelled" =>
                    orders'[OrderOf(c)].state = "cancelled"
  <2>1. OrderOf(c) # UnknownId => OrderOf(c) \in OrderIds /\ Placed(OrderOf(c))
    BY <1>1, <1>2, <1>3 DEF BookingIsBacked, NamedIsBacked, UnnamedIsBacked, OrderOf
  <2> QED
    BY <1>1, <1>2, <1>3, <2>1, OrderStays DEF BookingStays, HasBooking, OrderOf
<1>4. CASE CancelRests(c)
  BY <1>1, <1>2, <1>3, <1>4, RefundsGrow DEF CancelRests, CancelKnows
<1>5. CASE CancelActs(c)
  <2>1. cancelPc[c] \in CancelSteps /\ cancelPc \in [CancelCalls -> CancelSteps]
        /\ decision \in [CancelCalls -> RefundStatus]
        /\ orders \in [OrderIds -> Order]
    BY DEF TypeInv, TypeOK, CancelTypeOK, DataTypeOK
  <2>2. cancelPc'[c] \in {"amadeus", "refund", "write"} => HasBooking(KeyOf[c])
    BY <1>2, <1>5, <2>1
    DEF CancelKnows, CancelActs, CancelNotFound, AlreadyCancelled, CancelStarts,
        OrderDeleted, DeleteFails, DeleteTimesOut, CancelRefunds,
        CancelRefundFails, CancelRefundTimesOut, NotEligible, CancelWrites,
        CancelDies, CancelGoto, CancelReturn, Decide, HasBooking
  <2>3. cancelPc'[c] \in {"refund", "write"} =>
            \/ OrderOf(c) # UnknownId /\ orders[OrderOf(c)].state = "cancelled"
            \/ OrderDeleted(c)
    BY <1>2, <1>5, <2>1
    DEF CancelKnows, CancelActs, CancelNotFound, AlreadyCancelled, CancelStarts,
        DeleteFails, DeleteTimesOut, CancelRefunds, CancelRefundFails,
        CancelRefundTimesOut, NotEligible, CancelWrites, CancelDies, CancelGoto,
        CancelReturn, Decide
  <2>4. ASSUME OrderDeleted(c), HasBooking(KeyOf[c])
        PROVE  OrderOf(c) # UnknownId /\ orders'[OrderOf(c)].state = "cancelled"
    <3>1. OrderOf(c) \in OrderIds /\ OrderOf(c) # UnknownId
      BY <1>1, <1>2, <2>4
      DEF OrderDeleted, AmadeusCancels, BookingIsBacked, NamedIsBacked,
          UnnamedIsBacked, OrderOf
    <3> QED
      BY <2>1, <2>4, <3>1 DEF OrderDeleted, AmadeusCancels, Order
  <2>5. cancelPc'[c] = "write" =>
            /\ decision'[c] \notin {"none", "manual"}
            /\ decision'[c] = "full_auto" => AmountTotal(KeyOf[c]) \in refunds'[KeyOf[c]]
    <3>1. CASE CancelRefunds(c)
      BY <1>1, <2>1, <3>1
      DEF CancelRefunds, StripeRefunds, Decide, TypeInv, TypeOK, DataTypeOK
    <3>2. CASE ~CancelRefunds(c)
      BY <1>5, <2>1, <3>2
      DEF CancelActs, CancelNotFound, AlreadyCancelled, CancelStarts,
          OrderDeleted, DeleteFails, DeleteTimesOut, CancelRefundFails,
          CancelRefundTimesOut, NotEligible, CancelWrites, CancelDies,
          CancelGoto, CancelReturn, Decide
    <3> QED
      BY <3>1, <3>2
  <2> QED
    BY <1>3, <2>2, <2>3, <2>4, <2>5
<1> QED
  BY <1>4, <1>5, CancelMoves

LEMMA RefundKnowsStep ==
    ASSUME TypeInv, RecordTrail, [Next]_vars PROVE RefundKnows'
<1> SUFFICES ASSUME NEW a \in RefundCalls
             PROVE  /\ refundPc'[a] \in {"stripe", "write"} => asked'[a] > 0
                    /\ refundPc'[a] = "write" => asked'[a] \in refunds'[KeyOf[a]]
  BY DEF RefundKnows
<1>1. /\ refundPc \in [RefundCalls -> RefundSteps]
      /\ asked \in [RefundCalls -> Nat]
      /\ refunds \in [Keys -> SUBSET Nat]
      /\ KeyOf[a] \in Keys
  BY KeysOfCalls DEF TypeInv, TypeOK, AdminTypeOK, DataTypeOK
<1>2. RefundKnows
  BY DEF RecordTrail
<1>3. CASE RefundRests(a)
  BY <1>1, <1>2, <1>3, RefundsGrow DEF RefundRests, RefundKnows
<1>4. CASE RefundActs(a)
  <2>1. CASE RefundChecked(a)
    <3>1. PICK amount \in BodyAmounts(KeyOf[a]) :
              /\ Refundable(KeyOf[a], amount)
              /\ asked' = [asked EXCEPT ![a] = amount]
      BY <2>1 DEF RefundChecked
    <3>2. asked'[a] = amount /\ refundPc'[a] = "stripe"
      BY <1>1, <2>1, <3>1 DEF RefundChecked
    <3>3. amount > 0
      BY <3>1, <1>1, PriceIsPositive DEF Refundable
    <3> QED
      BY <3>2, <3>3
  <2>2. CASE RefundIssued(a)
    BY <1>1, <1>2, <2>2 DEF RefundIssued, RefundKnows, StripeRefunds
  <2>3. CASE ~RefundChecked(a) /\ ~RefundIssued(a)
    BY <1>1, <1>2, <1>4, <2>3
    DEF RefundActs, RefundRefused, RefundFails, RefundTimesOut, RefundRecorded,
        RefundDies, Reply
  <2> QED
    BY <2>1, <2>2, <2>3
<1> QED
  BY <1>3, <1>4, RefundMoves

-----------------------------------------------------------------------------
LEMMA RecordTrailStep == TypeInv /\ RecordTrail /\ [Next]_vars => RecordTrail'
BY UnusedOrdersStep, OrderIsPaidForStep, BookingIsBackedStep,
   RefundsAreCountedStep, RefundsOnFileStep, CancelledIsDecidedStep,
   ConfirmKnowsStep, CancelKnowsStep, RefundKnowsStep
DEF RecordTrail

\* What the tables say of the ledgers, and what every call at work knows of
\* them, is so in every state, whatever overlaps, fails or crashes.
THEOREM RecordTrailHolds == Spec => []RecordTrail
<1>1. Init => RecordTrail
  BY InitRecords
<1>2. TypeInv /\ RecordTrail /\ [Next]_vars => RecordTrail'
  BY RecordTrailStep
<1> QED
  BY <1>1, <1>2, TypeCorrect, PTL DEF Spec

\* A booking names an order that Amadeus made for its key, or is one whose order
\* the reply did not name ('UNKNOWN_ID') while that order is live; it reads
\* 'cancelled' only once Amadeus has cancelled the order it names.
THEOREM BookingsAreBacked == Spec => []BookingIsBacked
<1>1. RecordTrail => BookingIsBacked
  BY DEF RecordTrail
<1> QED
  BY <1>1, RecordTrailHolds, PTL

\* What is ordered is what was paid for or, rebooked, within the threshold.
THEOREM OrdersArePaidFor == Spec => []OrderIsPaidFor
<1>1. RecordTrail => OrderIsPaidFor
  BY DEF RecordTrail
<1> QED
  BY <1>1, RecordTrailHolds, PTL

\* A refund in payments or travel_bookings is one that Stripe made.
THEOREM RefundsOnFileHold == Spec => []RefundsOnFileAreReal
<1>1. RecordTrail => RefundsOnFileAreReal
  BY DEF RecordTrail
<1> QED
  BY <1>1, RecordTrailHolds, PTL

\* A cancelled booking carries a refund decision, and a decision that says
\* money went back is borne out by Stripe.
THEOREM CancelledAreDecided == Spec => []CancelledIsDecided
<1>1. RecordTrail => CancelledIsDecided
  BY DEF RecordTrail
<1> QED
  BY <1>1, RecordTrailHolds, PTL
-----------------------------------------------------------------------------
(* Answers: true when given, by what the call knows, and true ever after,  *)
(* for bookings, refunds and tickets stay.                                 *)

LEMMA ConfirmAnswers ==
    ASSUME TypeInv, RecordTrail, AnswersAreTrue, [Next]_vars, NEW c \in ConfirmCalls
    PROVE  /\ answer'[c] \in {"confirmed", "duplicate"} => HasBooking(KeyOf[c])'
           /\ answer'[c] = "refunded" => AmountTotal(KeyOf[c]) \in refunds'[KeyOf[c]]
           /\ answer'[c] = "escalated" => Escalated(KeyOf[c])'
<1>1. /\ KeyOf[c] \in Keys /\ BookingStays
      /\ answer \in [ConfirmCalls -> Answers]
      /\ bookings \in [Keys -> BookingRow]
      /\ tickets \in [TicketIds -> TicketRow]
  BY KeysOfCalls, BookingStaysInStep
  DEF TypeInv, TypeOK, EngineTypeOK, DataTypeOK
<1>2. HasBooking(KeyOf[c]) => HasBooking(KeyOf[c])'
  BY <1>1 DEF BookingStays, HasBooking
<1>3. Escalated(KeyOf[c]) => Escalated(KeyOf[c])'
  BY <1>1, EscalatedStays
<1>4. CASE answer'[c] = answer[c]
  BY <1>1, <1>2, <1>3, <1>4, RefundsGrow DEF AnswersAreTrue
<1>5. CASE answer'[c] # answer[c]
  <2>1. CallActs(c)
    BY <1>5, CallMoves DEF CallRests
  <2>2. /\ answer'[c] = "confirmed" => RecordBooking(c)
        /\ answer'[c] = "duplicate" => BookingExists(c)
        /\ answer'[c] = "refunded" => RecordRefund(c)
        /\ answer'[c] = "escalated" => Escalate(c)
    BY <1>1, <1>5, <2>1
    DEF CallActs, ConfirmProceeds, ConfirmRejects, ConfirmStarts,
        PaymentRefused, OfferMismatch, PaymentVerified, BookingExists,
        NoBookingYet, Tier1Books, Tier1Fails, Tier1TimesOut, Tier1BadReply,
        Tier2Books, Tier2Fails, Tier2TimesOut, Tier2BadReply, Tier3Refunds,
        Tier3Fails, Tier3TimesOut, RecordRefund, Escalate, RecordBooking,
        ConfirmDbError, ConfirmCrashes, Goto, Return, Answered
  <2>3. RecordBooking(c) => HasBooking(KeyOf[c])'
    BY <1>1 DEF RecordBooking, AfterInsert, HasBooking, BookingRow
  <2>4. BookingExists(c) => HasBooking(KeyOf[c])'
    BY <1>2 DEF BookingExists
  <2>5. RecordRefund(c) => AmountTotal(KeyOf[c]) \in refunds'[KeyOf[c]]
    BY <1>1, RefundsGrow DEF RecordRefund, RecordTrail, ConfirmKnows
  <2>6. Escalate(c) => Escalated(KeyOf[c])'
    BY <1>1 DEF Escalate, Escalated, TicketIds, TicketRow
  <2> QED
    BY <2>2, <2>3, <2>4, <2>5, <2>6
<1> QED
  BY <1>4, <1>5

LEMMA CancelAnswersStep ==
    ASSUME TypeInv, AnswersAreTrue, [Next]_vars, NEW c \in CancelCalls,
           cancelAnswer'[c] \in {"cancelled", "already_cancelled"}
    PROVE  bookings'[KeyOf[c]].status = "cancelled"
<1>1. /\ KeyOf[c] \in Keys /\ BookingStays
      /\ cancelAnswer \in [CancelCalls -> CancelAnswers]
      /\ bookings \in [Keys -> BookingRow]
  BY KeysOfCalls, BookingStaysInStep
  DEF TypeInv, TypeOK, CancelTypeOK, DataTypeOK
<1>2. CASE cancelAnswer'[c] = cancelAnswer[c]
  BY <1>1, <1>2 DEF AnswersAreTrue, BookingStays
<1>3. CASE cancelAnswer'[c] # cancelAnswer[c]
  <2>1. CancelActs(c)
    BY <1>3, CancelMoves DEF CancelRests
  <2>2. AlreadyCancelled(c) \/ CancelWrites(c)
    BY <1>1, <1>3, <2>1
    DEF CancelActs, CancelNotFound, CancelStarts, OrderDeleted, DeleteFails,
        DeleteTimesOut, CancelRefunds, CancelRefundFails, CancelRefundTimesOut,
        NotEligible, CancelDies, CancelGoto, CancelReturn, Decide
  <2>3. CASE AlreadyCancelled(c)
    BY <1>1, <2>3 DEF AlreadyCancelled, BookingStays
  <2>4. CASE CancelWrites(c)
    BY <1>1, <2>4 DEF CancelWrites, AfterCancel, BookingRow
  <2> QED
    BY <2>2, <2>3, <2>4
<1> QED
  BY <1>2, <1>3

\* An admin's request that was answered is over.
RepliesEnd == \A a \in RefundCalls : refundReply[a] # "none" => refundPc[a] = "done"

LEMMA RepliesEndStep ==
    ASSUME TypeInv, RepliesEnd, [Next]_vars PROVE RepliesEnd'
<1> SUFFICES ASSUME NEW a \in RefundCalls, refundReply'[a] # "none"
             PROVE  refundPc'[a] = "done"
  BY DEF RepliesEnd
<1>1. CASE RefundRests(a)
  BY <1>1 DEF RefundRests, RepliesEnd
<1>2. CASE RefundActs(a)
  BY <1>2
  DEF TypeInv, TypeOK, AdminTypeOK, RepliesEnd, RefundActs, RefundChecked,
      RefundRefused, RefundIssued, RefundFails, RefundTimesOut, RefundRecorded,
      RefundDies, Reply
<1> QED
  BY <1>1, <1>2, RefundMoves

LEMMA RefundAnswers ==
    ASSUME TypeInv, RecordTrail, AnswersAreTrue, RepliesEnd, [Next]_vars,
           NEW a \in RefundCalls, refundReply'[a] = "ok"
    PROVE  asked'[a] \in refunds'[KeyOf[a]]
<1>1. /\ KeyOf[a] \in Keys
      /\ refundReply \in [RefundCalls -> Replies]
      /\ refundPc \in [RefundCalls -> RefundSteps]
  BY KeysOfCalls DEF TypeInv, TypeOK, AdminTypeOK
<1>2. CASE RefundRests(a)
  BY <1>1, <1>2, RefundsGrow DEF RefundRests, AnswersAreTrue
<1>3. CASE RefundActs(a) /\ ~RefundChecked(a)
  <2>1. refundReply[a] = "ok" \/ RefundRecorded(a)
    BY <1>1, <1>3
    DEF RefundActs, RefundRefused, RefundIssued, RefundFails, RefundTimesOut,
        RefundDies, Reply
  <2>2. asked'[a] = asked[a]
    BY <1>3
    DEF RefundActs, RefundRefused, RefundIssued, RefundFails, RefundTimesOut,
        RefundRecorded, RefundDies
  <2>3. asked[a] \in refunds[KeyOf[a]]
    BY <2>1 DEF AnswersAreTrue, RefundRecorded, RecordTrail, RefundKnows
  <2> QED
    BY <1>1, <2>2, <2>3, RefundsGrow
<1>4. CASE RefundChecked(a)
  BY <1>4 DEF RefundChecked, RepliesEnd
<1> QED
  BY <1>2, <1>3, <1>4, RefundMoves

\* What a call told its caller is, and stays, so: booked, refunded, before a
\* human, cancelled.
THEOREM AnswersHold == Spec => []AnswersAreTrue
<1>1. Init => AnswersAreTrue /\ RepliesEnd
  BY DEF Init, EngineInit, CancelInit, AdminInit, AnswersAreTrue, RepliesEnd
<1>2. ASSUME TypeInv, RecordTrail, AnswersAreTrue, RepliesEnd, [Next]_vars
      PROVE  AnswersAreTrue' /\ RepliesEnd'
  <2>1. \A c \in ConfirmCalls :
            /\ answer'[c] \in {"confirmed", "duplicate"} => HasBooking(KeyOf[c])'
            /\ answer'[c] = "refunded" => AmountTotal(KeyOf[c]) \in refunds'[KeyOf[c]]
            /\ answer'[c] = "escalated" => Escalated(KeyOf[c])'
    BY <1>2, ConfirmAnswers
  <2>2. \A c \in CancelCalls :
            cancelAnswer'[c] \in {"cancelled", "already_cancelled"} =>
                bookings'[KeyOf[c]].status = "cancelled"
    BY <1>2, CancelAnswersStep
  <2>3. \A a \in RefundCalls :
            refundReply'[a] = "ok" => asked'[a] \in refunds'[KeyOf[a]]
    BY <1>2, RefundAnswers
  <2> QED
    BY <1>2, <2>1, <2>2, <2>3, RepliesEndStep DEF AnswersAreTrue, AmountTotal
<1> QED
  BY <1>1, <1>2, TypeCorrect, RecordTrailHolds, PTL DEF Spec
-----------------------------------------------------------------------------
(* One cancellation of a key gets past Amadeus, and its decision stands.   *)

\* A cancellation past the DELETE was there before, or has just deleted the
\* order on file, which until then was live.
LEMMA PastDelete ==
    ASSUME TypeInv, RecordTrail, [Next]_vars, NEW c \in CancelCalls,
           cancelPc'[c] \in {"refund", "write"}
    PROVE  \/ cancelPc[c] \in {"refund", "write"} /\ ~CancelWrites(c)
           \/ /\ OrderDeleted(c)
              /\ bookings[KeyOf[c]].status = "booked"
              /\ \A d \in CancelCalls :
                     cancelPc[d] \in {"refund", "write"} => KeyOf[d] # KeyOf[c]
<1>1. /\ KeyOf[c] \in Keys
      /\ cancelPc \in [CancelCalls -> CancelSteps]
      /\ bookings[KeyOf[c]] \in BookingRow
  BY KeysOfCalls DEF TypeInv, TypeOK, CancelTypeOK, DataTypeOK
<1>2. ~CancelWrites(c)
  BY <1>1 DEF CancelWrites, CancelReturn
<1>3. cancelPc[c] \in {"refund", "write"} \/ OrderDeleted(c)
  <2>1. CASE CancelRests(c)
    BY <2>1 DEF CancelRests
  <2>2. CASE CancelActs(c)
    BY <1>1, <1>2, <2>2
    DEF CancelActs, CancelNotFound, AlreadyCancelled, CancelStarts, DeleteFails,
        DeleteTimesOut, CancelRefunds, CancelRefundFails, CancelRefundTimesOut,
        NotEligible, CancelDies, CancelGoto, CancelReturn, Decide
  <2> QED
    BY <2>1, <2>2, CancelMoves
<1>4. ASSUME OrderDeleted(c)
      PROVE  bookings[KeyOf[c]].status = "booked"
  <2>1. HasBooking(KeyOf[c]) /\ orders[OrderOf(c)].state = "live"
    BY <1>4 DEF OrderDeleted, AmadeusCancels, RecordTrail, CancelKnows
  <2> QED
    BY <1>1, <2>1
    DEF RecordTrail, BookingIsBacked, NamedIsBacked, UnnamedIsBacked, HasBooking,
        OrderOf, BookingRow
<1>5. ASSUME OrderDeleted(c), NEW d \in CancelCalls,
             cancelPc[d] \in {"refund", "write"}, KeyOf[d] = KeyOf[c]
      PROVE  FALSE
  BY <1>5 DEF OrderDeleted, AmadeusCancels, RecordTrail, CancelKnows, OrderOf
<1> QED
  BY <1>2, <1>3, <1>4, <1>5

\* While a cancellation is past the DELETE no other one writes the row.
LEMMA BookedUntilWritten ==
    ASSUME TypeInv, RecordTrail, OneCancels, [Next]_vars, NEW c \in CancelCalls,
           cancelPc'[c] \in {"refund", "write"}
    PROVE  bookings'[KeyOf[c]].status = "booked"
<1>1. KeyOf[c] \in Keys /\ bookings[KeyOf[c]] \in BookingRow
  BY KeysOfCalls DEF TypeInv, TypeOK, DataTypeOK
<1>2. CASE OrderDeleted(c)
  <2>1. bookings[KeyOf[c]].status = "booked"
    BY <1>2, PastDelete DEF OneCancels
  <2> QED
    BY <1>2, <2>1 DEF OrderDeleted, tables
<1>3. CASE cancelPc[c] \in {"refund", "write"} /\ ~CancelWrites(c)
  <2>1. bookings[KeyOf[c]].status = "booked"
    BY <1>3 DEF OneCancels
  <2>2. ASSUME NEW d \in CancelCalls, CancelWrites(d), KeyOf[d] = KeyOf[c]
        PROVE  FALSE
    <3>1. cancelPc[d] = "write"
      BY <2>2 DEF CancelWrites
    <3> QED
      BY <1>3, <2>2, <3>1 DEF OneCancels
  <2>3. ASSUME NEW d \in ConfirmCalls,
               bookings'[KeyOf[c]] = AfterInsert(bookings[KeyOf[c]], held[d])
        PROVE  bookings'[KeyOf[c]].status = "booked"
    BY <1>1, <2>1, <2>3 DEF AfterInsert, BookingRow
  <2>4. ASSUME NEW a \in RefundCalls,
               bookings'[KeyOf[c]] = AfterRefund(bookings[KeyOf[c]], asked[a])
        PROVE  bookings'[KeyOf[c]].status = "booked"
    BY <1>1, <2>1, <2>4 DEF AfterRefund, BookingRow
  <2>5. CASE bookings'[KeyOf[c]] =
                 [bookings[KeyOf[c]] EXCEPT !.refundStatus = "denied"]
    BY <1>1, <2>1, <2>5 DEF BookingRow
  <2> QED
    BY <1>1, <2>1, <2>2, <2>3, <2>4, <2>5, BookingChanges
<1> QED
  BY <1>2, <1>3, PastDelete

LEMMA OneCancelsStep ==
    ASSUME TypeInv, RecordTrail, OneCancels, [Next]_vars PROVE OneCancels'
<1>1. ASSUME NEW c \in CancelCalls, NEW d \in CancelCalls, KeyOf[c] = KeyOf[d],
             cancelPc'[c] \in {"refund", "write"}, cancelPc'[d] \in {"refund", "write"}
      PROVE  c = d
  <2>1. CASE OrderDeleted(c) /\ OrderDeleted(d)
    BY <1>1, <2>1
    DEF OrderDeleted, CancelGoto, TypeInv, TypeOK, CancelTypeOK
  <2>2. CASE cancelPc[c] \in {"refund", "write"} /\ cancelPc[d] \in {"refund", "write"}
    BY <1>1, <2>2 DEF OneCancels
  <2> QED
    BY <1>1, <2>1, <2>2, PastDelete
<1> QED
  BY <1>1, BookedUntilWritten DEF OneCancels

LEMMA DecisionStaysInStep ==
    ASSUME TypeInv, OneCancels, [Next]_vars PROVE DecisionStays
<1> SUFFICES ASSUME NEW k \in Keys, bookings[k].status = "cancelled"
             PROVE  \/ bookings'[k].refundStatus = bookings[k].refundStatus
                    \/ bookings'[k].refundStatus \in {"manual", "denied"}
  BY DEF DecisionStays
<1>1. bookings[k] \in BookingRow
  BY DEF TypeInv, TypeOK, DataTypeOK
<1>2. ASSUME NEW c \in ConfirmCalls, bookings'[k] = AfterInsert(bookings[k], held[c])
      PROVE  bookings'[k].refundStatus = bookings[k].refundStatus
  BY <1>2 DEF AfterInsert
<1>3. ASSUME NEW c \in CancelCalls, CancelWrites(c), KeyOf[c] = k PROVE FALSE
  BY <1>3 DEF CancelWrites, OneCancels
<1>4. ASSUME NEW a \in RefundCalls, bookings'[k] = AfterRefund(bookings[k], asked[a])
      PROVE  bookings'[k].refundStatus = "manual"
  BY <1>1, <1>4 DEF AfterRefund, BookingRow
<1>5. CASE bookings'[k] = [bookings[k] EXCEPT !.refundStatus = "denied"]
  BY <1>1, <1>5 DEF BookingRow
<1> QED
  BY <1>2, <1>3, <1>4, <1>5, BookingChanges

\* Of the cancellations of a key one gets past the DELETE, and its row reads
\* 'booked' until it has written it, whatever else fails or interleaves.
THEOREM OneCancellationCounts == Spec => []OneCancels
<1>1. Init => OneCancels
  BY DEF Init, CancelInit, OneCancels
<1>2. TypeInv /\ RecordTrail /\ OneCancels /\ [Next]_vars => OneCancels'
  BY OneCancelsStep
<1> QED
  BY <1>1, <1>2, TypeCorrect, RecordTrailHolds, PTL DEF Spec

\* No cancellation writes its decision over another's.
THEOREM DecisionsAreFinal == Spec => DecisionIsFinal
<1>1. TypeInv /\ OneCancels /\ [Next]_vars => [DecisionStays]_vars
  BY DecisionStaysInStep
<1> QED
  BY <1>1, TypeCorrect, OneCancellationCounts, PTL DEF Spec, DecisionIsFinal
=============================================================================
