--------------------------- MODULE MoneyTrail_proofs ---------------------------
(***************************************************************************)
(* Theorems: no order without its payment, and no money without its row,   *)
(* whatever overlaps, fails or crashes, for every value of the constants.  *)
(* MoneyTrail is the inductive invariant: NoOrderWithoutPayment alone is   *)
(* not, for a call about to place an order knows of its payment only by    *)
(* its pc, that by the status, and that by an event of the webhook.        *)
(***************************************************************************)
EXTENDS TravelBridge_proofs

LEMMA InitTrail == Init => MoneyTrail
<1> SUFFICES ASSUME Init PROVE MoneyTrail
  OBVIOUS
<1>1. CheckoutTrail
  BY DEF Init, PaymentInit, DataInit, CheckoutTrail
<1>2. EventTrail
  BY DEF Init, PaymentInit, EventTrail
<1>3. PaidIsCaptured
  BY DEF Init, DataInit, PaidIsCaptured
<1>4. CallTrail
  BY DEF Init, EngineInit, CallTrail, PastPayment
<1>5. NoOrderWithoutPayment
  BY DEF Init, DataInit, NoOrderWithoutPayment, Placed
<1> QED
  BY <1>1, <1>2, <1>3, <1>4, <1>5 DEF MoneyTrail

-----------------------------------------------------------------------------
(* Checkout, Stripe and the webhook move the money.  What rests on Paid    *)
(* stays, because a capture is never taken back.                           *)

PaymentTrail == CheckoutTrail /\ EventTrail /\ PaidIsCaptured

LEMMA StoreCheckoutTrail ==
    ASSUME TypeInv, MoneyTrail, NEW k \in Keys, StoreCheckout(k)
    PROVE  PaymentTrail'
<1> USE DEF TypeInv, TypeOK, DataTypeOK, PaymentTypeOK, MoneyTrail,
            StoreCheckout, stripe
<1>1. CheckoutTrail'
  BY DEF CheckoutTrail, HasPayment, PaymentRow, AmountTotal
<1>2. EventTrail'
  BY DEF EventTrail, Paid, AmountTotal
<1>3. PaidIsCaptured'
  BY DEF PaidIsCaptured, PaymentRow, AmountTotal
<1> QED
  BY <1>1, <1>2, <1>3 DEF PaymentTrail

\* A payment, at once or after a delay: the session is the customer's to act
\* on, so it has a row.
LEMMA CaptureTrail ==
    ASSUME TypeInv, MoneyTrail, NEW k \in Keys, CustomerPays(k) \/ MoneyArrives(k)
    PROVE  PaymentTrail'
<1> USE DEF TypeInv, TypeOK, DataTypeOK, PaymentTypeOK, MoneyTrail,
            CustomerPays,
            MoneyArrives, Capture, Issue, tables
<1>1. HasPayment(k)
  BY DEF CheckoutTrail, LinkSent
<1>2. CheckoutTrail'
  BY <1>1 DEF CheckoutTrail, HasPayment, AmountTotal
<1>3. EventTrail'
  BY DEF EventTrail, Paid, AmountTotal
<1>4. PaidIsCaptured'
  BY DEF PaidIsCaptured, AmountTotal
<1> QED
  BY <1>2, <1>3, <1>4 DEF PaymentTrail

\* The event applied is one that was issued, so 'paid' speaks of a capture.
LEMMA WebhookAppliesTrail ==
    ASSUME TypeInv, MoneyTrail, NEW d \in Deliveries, WebhookApplies(d)
    PROVE  PaymentTrail'
<1>1. PICK k \in Keys, type \in EventTypes : delivery[d] = <<k, type>>
  BY DEF TypeInv, TypeOK, PaymentTypeOK, WebhookApplies, Events
<1>2. <<k, type>> \in issued
  BY <1>1 DEF MoneyTrail, EventTrail, WebhookApplies
<1>3. StatusAfter(type) = "paid" => type \in {"completed_paid", "async_succeeded"}
  BY <1>1 DEF StatusAfter, EventTypes
<1>4. StatusAfter(type) # "absent"
  BY <1>1 DEF StatusAfter, EventTypes
<1>5. payments' = [payments EXCEPT ![k] = AfterEvent(@, type)]
  BY <1>1 DEF WebhookApplies
<1>6. payments[k] \in PaymentRow
  BY DEF TypeInv, TypeOK, DataTypeOK
<1>7. AfterEvent(payments[k], type).status = "paid" => Paid(k)
  BY <1>2, <1>3, <1>6
  DEF AfterEvent, PaymentRow, MoneyTrail, EventTrail
<1>8. HasPayment(k) => AfterEvent(payments[k], type).status # "absent"
  BY <1>4, <1>6 DEF AfterEvent, PaymentRow, HasPayment
<1>9. \A j \in Keys : HasPayment(j) => HasPayment(j)'
  BY <1>5, <1>8 DEF HasPayment, TypeInv, TypeOK, DataTypeOK
<1>10. captured' = captured /\ checkout' = checkout /\ session' = session /\ issued' = issued
  BY DEF WebhookApplies, stripe
<1>11. CheckoutTrail'
  BY <1>9, <1>10 DEF MoneyTrail, CheckoutTrail, AmountTotal
<1>12. EventTrail'
  BY <1>10 DEF MoneyTrail, EventTrail, Paid, AmountTotal, WebhookApplies,
               TypeInv, TypeOK, PaymentTypeOK
<1>13. PaidIsCaptured'
  BY <1>5, <1>7, <1>10
  DEF MoneyTrail, PaidIsCaptured, Paid, AmountTotal, TypeInv, TypeOK, DataTypeOK
<1> QED
  BY <1>11, <1>12, <1>13 DEF PaymentTrail

LEMMA PaymentStepTrail == TypeInv /\ MoneyTrail /\ PaymentStep => MoneyTrail'
<1> SUFFICES ASSUME TypeInv, MoneyTrail, PaymentStep PROVE MoneyTrail'
  OBVIOUS
<1> USE DEF dataVars, tables, stripe
<1>1. ASSUME NEW k \in Keys, OpenSession(k) PROVE PaymentTrail'
  BY <1>1
  DEF TypeInv, TypeOK, DataTypeOK, PaymentTypeOK, MoneyTrail, CheckoutTrail,
      EventTrail,
      PaidIsCaptured, PaymentTrail, OpenSession, HasPayment, Paid, AmountTotal
<1>2. ASSUME NEW k \in Keys, StoreCheckout(k) PROVE PaymentTrail'
  BY <1>2, StoreCheckoutTrail
<1>3. ASSUME NEW k \in Keys, CheckoutFails(k) PROVE PaymentTrail'
  BY <1>3
  DEF TypeInv, TypeOK, DataTypeOK, PaymentTypeOK, MoneyTrail, CheckoutTrail,
      EventTrail,
      PaidIsCaptured, PaymentTrail, CheckoutFails, HasPayment, Paid, AmountTotal
<1>4. ASSUME NEW k \in Keys, CustomerPays(k) \/ MoneyArrives(k) PROVE PaymentTrail'
  BY <1>4, CaptureTrail
<1>5. ASSUME NEW k \in Keys, CustomerCommits(k) PROVE PaymentTrail'
  BY <1>5
  DEF TypeInv, TypeOK, DataTypeOK, PaymentTypeOK, MoneyTrail, CheckoutTrail,
      EventTrail,
      PaidIsCaptured, PaymentTrail, CustomerCommits, LinkSent, Issue, HasPayment,
      Paid, AmountTotal
<1>6. ASSUME NEW k \in Keys, MoneyFails(k) PROVE PaymentTrail'
  BY <1>6
  DEF TypeInv, TypeOK, DataTypeOK, PaymentTypeOK, MoneyTrail, CheckoutTrail,
      EventTrail,
      PaidIsCaptured, PaymentTrail, MoneyFails, Issue, HasPayment, Paid, AmountTotal
<1>7. ASSUME NEW k \in Keys, SessionExpires(k) PROVE PaymentTrail'
  BY <1>7
  DEF TypeInv, TypeOK, DataTypeOK, PaymentTypeOK, MoneyTrail, CheckoutTrail,
      EventTrail,
      PaidIsCaptured, PaymentTrail, SessionExpires, Issue, HasPayment, Paid, AmountTotal
<1>8. ASSUME NEW d \in Deliveries, WebhookReads(d) PROVE PaymentTrail'
  BY <1>8
  DEF TypeInv, TypeOK, DataTypeOK, PaymentTypeOK, MoneyTrail, CheckoutTrail,
      EventTrail,
      PaidIsCaptured, PaymentTrail, WebhookReads, HasPayment, Paid, AmountTotal
<1>9. ASSUME NEW d \in Deliveries, WebhookApplies(d) PROVE PaymentTrail'
  BY <1>9, WebhookAppliesTrail
<1>10. ASSUME NEW d \in Deliveries, WebhookFails(d) PROVE PaymentTrail'
  BY <1>10
  DEF TypeInv, TypeOK, DataTypeOK, PaymentTypeOK, MoneyTrail, CheckoutTrail,
      EventTrail,
      PaidIsCaptured, PaymentTrail, WebhookFails, HasPayment, Paid, AmountTotal
<1>11. PaymentTrail'
  BY <1>1, <1>2, <1>3, <1>4, <1>5, <1>6, <1>7, <1>8, <1>9, <1>10
  DEF PaymentStep, CheckoutNext, StripeNext, WebhookNext
<1>12. \A k \in Keys : Paid(k) => Paid(k)'
  BY DEF TypeInv, TypeOK, DataTypeOK, PaymentStep, CheckoutNext, StripeNext,
         WebhookNext,
         OpenSession, StoreCheckout, CheckoutFails, CustomerPays, CustomerCommits,
         MoneyArrives, MoneyFails, SessionExpires, WebhookReads, WebhookApplies,
         WebhookFails, Capture, Paid, AmountTotal
<1>13. orders' = orders /\ pc' = pc
  BY DEF PaymentStep, CheckoutNext, StripeNext, WebhookNext, engineVars,
         OpenSession, StoreCheckout, CheckoutFails, CustomerPays, CustomerCommits,
         MoneyArrives, MoneyFails, SessionExpires, WebhookReads, WebhookApplies,
         WebhookFails
<1>14. CallTrail'
  BY <1>12, <1>13, KeysOfCalls DEF MoneyTrail, CallTrail
<1>15. NoOrderWithoutPayment'
  <2>1. \A i \in OrderIds : OrderKey(i) \in Keys
    BY KeysOfCalls DEF OrderIds, OrderKey
  <2> QED
    BY <1>12, <1>13, <2>1
    DEF MoneyTrail, NoOrderWithoutPayment, Placed, Paid, OrderKey
<1> QED
  BY <1>11, <1>14, <1>15 DEF MoneyTrail, PaymentTrail
-----------------------------------------------------------------------------
(* The other components capture nothing and make no payment 'paid'.        *)

\* What a row of payments may do in a step that is not the webhook's.
RowsKeepTrail == \A k \in Keys :
    /\ HasPayment(k) => HasPayment(k)'
    /\ payments'[k].status = "paid" => payments[k].status = "paid"

LEMMA PaymentsKeepTrail ==
    ASSUME MoneyTrail, RowsKeepTrail, UNCHANGED <<paymentVars, captured>>
    PROVE  CheckoutTrail' /\ EventTrail' /\ PaidIsCaptured'
BY DEF MoneyTrail, CheckoutTrail, EventTrail, PaidIsCaptured, RowsKeepTrail,
       paymentVars, Paid, AmountTotal

LEMMA ConfirmRowsTrail == TypeInv /\ ConfirmStep => RowsKeepTrail
<1> SUFFICES ASSUME TypeInv, ConfirmStep, NEW c \in ConfirmCalls,
                    RecordRefund(c) \/ Escalate(c) \/ UNCHANGED payments
             PROVE  RowsKeepTrail
  BY DEF ConfirmStep, ConfirmNext, ConfirmProceeds, ConfirmRejects,
         ConfirmStarts,
         PaymentRefused, OfferMismatch, PaymentVerified, BookingExists, NoBookingYet,
         Tier1Books, Tier1Fails, Tier1TimesOut, Tier1BadReply, Tier2Books, Tier2Fails,
         Tier2TimesOut, Tier2BadReply, Tier3Refunds, Tier3Fails, Tier3TimesOut,
         RecordBooking, ConfirmDbError, ConfirmCrashes, dataVars, tables
<1>1. CASE RecordRefund(c)
  BY <1>1 DEF TypeInv, TypeOK, DataTypeOK, PaymentRow, RecordRefund,
              RowsKeepTrail, HasPayment
<1>2. CASE Escalate(c)
  BY <1>2 DEF TypeInv, TypeOK, DataTypeOK, PaymentRow, Escalate,
              RowsKeepTrail, HasPayment
<1>3. CASE UNCHANGED payments
  BY <1>3 DEF RowsKeepTrail, HasPayment
<1> QED
  BY <1>1, <1>2, <1>3

\* A call gets past its payment when it finds it 'paid', and then stays there.
LEMMA ConfirmCallTrail == TypeInv /\ MoneyTrail /\ ConfirmStep => CallTrail'
<1> SUFFICES ASSUME TypeInv, MoneyTrail, ConfirmStep, NEW c \in ConfirmCalls,
                    pc'[c] \in PastPayment
             PROVE  Paid(KeyOf[c])'
  BY DEF CallTrail
<1>1. captured' = captured
  BY DEF ConfirmStep, ConfirmNext, ConfirmProceeds, ConfirmRejects,
         ConfirmStarts,
         PaymentRefused, OfferMismatch, PaymentVerified, BookingExists, NoBookingYet,
         Tier1Books, Tier1Fails, Tier1TimesOut, Tier1BadReply, Tier2Books, Tier2Fails,
         Tier2TimesOut, Tier2BadReply, Tier3Refunds, Tier3Fails, Tier3TimesOut,
         RecordRefund, Escalate, RecordBooking, ConfirmDbError, ConfirmCrashes,
         StripeRefunds, dataVars, stripe
<1>2. pc[c] \in PastPayment \/ PaymentVerified(c)
  <2>1. PICK d \in ConfirmCalls :
            \/ ConfirmRejects(d) \/ ConfirmStarts(d) \/ ConfirmProceeds(d)
            \/ ConfirmDbError(d) \/ ConfirmCrashes(d)
    BY DEF ConfirmStep, ConfirmNext
  <2> USE DEF ConfirmProceeds, ConfirmRejects, ConfirmStarts, PaymentRefused,
              OfferMismatch, PaymentVerified, BookingExists, NoBookingYet,
              Tier1Books, Tier1Fails, Tier1TimesOut, Tier1BadReply, Tier2Books,
              Tier2Fails, Tier2TimesOut, Tier2BadReply, Tier3Refunds, Tier3Fails,
              Tier3TimesOut, RecordRefund, Escalate, RecordBooking,
              ConfirmDbError, ConfirmCrashes, Goto, Return, Answered
  <2>2. pc \in [ConfirmCalls -> Steps]
    BY DEF TypeInv, TypeOK, EngineTypeOK
  <2>3. CASE d # c
    BY <2>1, <2>2, <2>3
  <2>4. CASE d = c
    BY <2>1, <2>2, <2>4 DEF PastPayment
  <2> QED
    BY <2>3, <2>4
<1>3. Paid(KeyOf[c])
  <2>1. CASE pc[c] \in PastPayment
    BY <2>1 DEF MoneyTrail, CallTrail
  <2>2. CASE PaymentVerified(c)
    BY <2>2, KeysOfCalls DEF PaymentVerified, MoneyTrail, PaidIsCaptured, Paid
  <2> QED
    BY <1>2, <2>1, <2>2
<1> QED
  BY <1>1, <1>3 DEF Paid, AmountTotal

\* An order is placed by a call that is past its payment.
LEMMA PlacesPaid ==
    ASSUME TypeInv, MoneyTrail, NEW c \in ConfirmCalls, pc[c] \in PastPayment,
           UNCHANGED captured, NEW i \in OrderIds, i[1] = c, NEW o,
           AmadeusPlaces(i, o)
    PROVE  NoOrderWithoutPayment'
<1>1. Paid(OrderKey(i))
  BY DEF MoneyTrail, CallTrail, OrderKey
<1>2. \A j \in OrderIds \ {i} : orders'[j] = orders[j]
  BY DEF AmadeusPlaces, TypeInv, TypeOK, DataTypeOK
<1> QED
  BY <1>1, <1>2
  DEF MoneyTrail, NoOrderWithoutPayment, Paid, Placed, OrderKey, AmountTotal

LEMMA ConfirmOrderTrail ==
    TypeInv /\ MoneyTrail /\ ConfirmStep => NoOrderWithoutPayment'
<1> SUFFICES ASSUME TypeInv, MoneyTrail, ConfirmStep
             PROVE  NoOrderWithoutPayment'
  OBVIOUS
<1> USE DEF dataVars, stripe
<1>1. ASSUME NEW c \in ConfirmCalls,
             Tier1Books(c) \/ Tier1TimesOut(c) \/ Tier1BadReply(c)
      PROVE  NoOrderWithoutPayment'
  <2>1. pc[c] = "tier1" /\ AmadeusPlaces(Attempt(c), offer[c]) /\ UNCHANGED captured
    BY <1>1 DEF Tier1Books, Tier1TimesOut, Tier1BadReply
  <2>2. Attempt(c) \in OrderIds /\ Attempt(c)[1] = c
    BY <2>1, AttemptIsOrder DEF Attempt
  <2> QED
    BY <2>1, <2>2, PlacesPaid DEF PastPayment
<1>2. ASSUME UNCHANGED <<orders, captured>> PROVE NoOrderWithoutPayment'
  BY <1>2 DEF MoneyTrail, NoOrderWithoutPayment, Placed, OrderKey, AmountTotal
<1>3. ASSUME NEW c \in ConfirmCalls,
             Tier2Books(c) \/ Tier2TimesOut(c) \/ Tier2BadReply(c)
      PROVE  NoOrderWithoutPayment'
  <2>1. pc[c] = "tier2" /\ UNCHANGED captured
    BY <1>3 DEF Tier2Books, Tier2TimesOut, Tier2BadReply
  <2>2. CASE UNCHANGED orders
    BY <1>2, <2>1, <2>2
  <2>3. CASE ~ UNCHANGED orders
    <3>1. PICK o \in Offers : AmadeusPlaces(<<c, Rebook>>, o)
      BY <1>3, <2>3, AlternativesAreOffers
      DEF Tier2Books, Tier2TimesOut, Tier2BadReply
    <3>2. <<c, Rebook>> \in OrderIds /\ <<c, Rebook>>[1] = c
      BY RebookIsOrder
    <3> QED
      BY <2>1, <3>1, <3>2, PlacesPaid DEF PastPayment
  <2> QED
    BY <2>2, <2>3
<1> QED
  BY <1>1, <1>2, <1>3
  DEF ConfirmStep, ConfirmNext, ConfirmProceeds, ConfirmRejects, ConfirmStarts,
      PaymentRefused, OfferMismatch, PaymentVerified, BookingExists, NoBookingYet,
      Tier1Fails, Tier2Fails, Tier3Refunds, Tier3Fails, Tier3TimesOut, RecordRefund,
      Escalate, RecordBooking, ConfirmDbError, ConfirmCrashes, StripeRefunds

LEMMA ConfirmStepTrail == TypeInv /\ MoneyTrail /\ ConfirmStep => MoneyTrail'
<1> SUFFICES ASSUME TypeInv, MoneyTrail, ConfirmStep PROVE MoneyTrail'
  OBVIOUS
<1>1. UNCHANGED <<paymentVars, captured>>
  BY DEF ConfirmStep, ConfirmNext, ConfirmProceeds, ConfirmRejects,
         ConfirmStarts,
         PaymentRefused, OfferMismatch, PaymentVerified, BookingExists, NoBookingYet,
         Tier1Books, Tier1Fails, Tier1TimesOut, Tier1BadReply, Tier2Books, Tier2Fails,
         Tier2TimesOut, Tier2BadReply, Tier3Refunds, Tier3Fails, Tier3TimesOut,
         RecordRefund, Escalate, RecordBooking, ConfirmDbError, ConfirmCrashes,
         StripeRefunds, dataVars, stripe
<1> QED
  BY <1>1, PaymentsKeepTrail, ConfirmRowsTrail, ConfirmCallTrail, ConfirmOrderTrail
  DEF MoneyTrail

-----------------------------------------------------------------------------
\* Neither a cancellation nor an admin places an order or starts a call.
LEMMA OthersKeepTrail ==
    ASSUME MoneyTrail, RowsKeepTrail, UNCHANGED <<paymentVars, captured, pc>>,
           \A i \in OrderIds : Placed(i)' => Placed(i)
    PROVE  MoneyTrail'
<1>1. CallTrail'
  BY DEF MoneyTrail, CallTrail, Paid, AmountTotal
<1>2. NoOrderWithoutPayment'
  BY DEF MoneyTrail, NoOrderWithoutPayment, OrderKey, AmountTotal
<1> QED
  BY <1>1, <1>2, PaymentsKeepTrail DEF MoneyTrail

LEMMA CancelStepTrail == TypeInv /\ MoneyTrail /\ CancelStep => MoneyTrail'
<1> SUFFICES ASSUME TypeInv, MoneyTrail, CancelStep PROVE MoneyTrail'
  OBVIOUS
<1> USE DEF dataVars, tables, stripe
<1>1. UNCHANGED <<paymentVars, captured, pc, payments>>
  BY DEF CancelStep, CancelNext, CancelNotFound, AlreadyCancelled, CancelStarts,
         OrderDeleted, DeleteFails, DeleteTimesOut, CancelRefunds, CancelRefundFails,
         CancelRefundTimesOut, NotEligible, CancelWrites, CancelDies, StripeRefunds,
         engineVars
<1>2. ASSUME NEW c \in CancelCalls, AmadeusCancels(c), NEW i \in OrderIds, Placed(i)'
      PROVE  Placed(i)
  BY <1>2 DEF AmadeusCancels, Placed, TypeInv, TypeOK, DataTypeOK, Order
<1>3. \A i \in OrderIds : Placed(i)' => Placed(i)
  BY <1>2
  DEF CancelStep, CancelNext, CancelNotFound, AlreadyCancelled, CancelStarts,
      OrderDeleted, DeleteFails, DeleteTimesOut, CancelRefunds, CancelRefundFails,
      CancelRefundTimesOut, NotEligible, CancelWrites, CancelDies, Placed
<1>4. RowsKeepTrail
  BY <1>1 DEF RowsKeepTrail, HasPayment
<1> QED
  BY <1>1, <1>3, <1>4, OthersKeepTrail

LEMMA AdminStepTrail == TypeInv /\ MoneyTrail /\ AdminStep => MoneyTrail'
<1> SUFFICES ASSUME TypeInv, MoneyTrail, AdminStep PROVE MoneyTrail'
  OBVIOUS
<1> USE DEF dataVars, tables, stripe
<1>1. UNCHANGED <<paymentVars, captured, pc, orders>>
  BY DEF AdminStep, RefundNext, DeskNext, RefundChecked, RefundRefused,
         RefundIssued,
         RefundFails, RefundTimesOut, RefundRecorded, RefundDies, SupportRequested,
         TicketResolved, RefundDenied, StripeRefunds, engineVars
<1>2. ASSUME NEW a \in RefundCalls, RefundRecorded(a) PROVE RowsKeepTrail
  BY <1>2 DEF TypeInv, TypeOK, DataTypeOK, PaymentRow, RefundRecorded,
              RowsKeepTrail, HasPayment
<1>3. ASSUME UNCHANGED payments PROVE RowsKeepTrail
  BY <1>3 DEF RowsKeepTrail, HasPayment
<1>4. RowsKeepTrail
  BY <1>2, <1>3
  DEF AdminStep, RefundNext, DeskNext, RefundChecked, RefundRefused,
      RefundIssued,
      RefundFails, RefundTimesOut, RefundDies, SupportRequested, TicketResolved,
      RefundDenied
<1> QED
  BY <1>1, <1>4, OthersKeepTrail DEF Placed

LEMMA StutterTrail == MoneyTrail /\ UNCHANGED vars => MoneyTrail'
BY DEF MoneyTrail, CheckoutTrail, EventTrail, PaidIsCaptured, CallTrail,
       NoOrderWithoutPayment, HasPayment, Paid, Placed, AmountTotal, OrderKey,
       vars, dataVars, tables, stripe, paymentVars, engineVars

-----------------------------------------------------------------------------
\* The trail of the money is never broken.
THEOREM MoneyTrailHolds == Spec => []MoneyTrail
<1>1. Init => MoneyTrail
  BY InitTrail
<1>2. TypeInv /\ MoneyTrail /\ [Next]_vars => MoneyTrail'
  BY PaymentStepTrail, ConfirmStepTrail, CancelStepTrail, AdminStepTrail, StutterTrail
  DEF Next, Finished
<1> QED
  BY <1>1, <1>2, TypeCorrect, PTL DEF Spec

\* No flight order is placed for a key whose payment Stripe has not captured in
\* full ("verify payment BEFORE touching Amadeus"), whichever calls overlap and
\* whatever is lost, repeated or reordered.
THEOREM OrdersArePaid == Spec => []NoOrderWithoutPayment
<1>1. MoneyTrail => NoOrderWithoutPayment
  BY DEF MoneyTrail
<1> QED
  BY <1>1, MoneyTrailHolds, PTL

\* A payment reads 'paid' only when its money is in, delayed methods included.
THEOREM PaidIsPaid == Spec => []PaidIsCaptured
<1>1. MoneyTrail => PaidIsCaptured
  BY DEF MoneyTrail
<1> QED
  BY <1>1, MoneyTrailHolds, PTL

\* Nobody is charged before the row that will receive the event is committed.
THEOREM ChargesHaveRows == Spec => []NoChargeWithoutRow
<1>1. MoneyTrail => NoChargeWithoutRow
  BY DEF MoneyTrail, CheckoutTrail, NoChargeWithoutRow
<1> QED
  BY <1>1, MoneyTrailHolds, PTL
-----------------------------------------------------------------------------
(* No payment is lost: a session that completed with its money in was open *)
(* until then, and has no other event.                                     *)

EventOrder ==
    /\ processed \subseteq issued
    /\ \A k \in Keys :
        /\ <<k, "completed_paid">> \in issued =>
               /\ checkout[k] = "stored" /\ session[k] = "paid"
               /\ \A type \in EventTypes :
                      <<k, type>> \in issued => type = "completed_paid"
        /\ session[k] \in {"none", "open"} =>
               \A type \in EventTypes : <<k, type>> \notin issued

\* A session that no longer is open does not complete again.
LEMMA EventOrderStep ==
    ASSUME TypeInv, MoneyTrail, EventOrder, [Next]_vars
    PROVE  EventOrder'
<1> USE DEF TypeInv, TypeOK, PaymentTypeOK
<1>1. ASSUME UNCHANGED paymentVars PROVE EventOrder'
  BY <1>1 DEF paymentVars, EventOrder
<1>2. ASSUME NEW k \in Keys, OpenSession(k) PROVE EventOrder'
  BY <1>2 DEF EventOrder, OpenSession, MoneyTrail, CheckoutTrail
<1>3. ASSUME NEW k \in Keys, StoreCheckout(k) PROVE EventOrder'
  BY <1>3 DEF EventOrder, StoreCheckout
<1>4. ASSUME NEW k \in Keys, CheckoutFails(k) PROVE EventOrder'
  BY <1>4 DEF EventOrder, CheckoutFails
<1>5. ASSUME NEW k \in Keys, CustomerPays(k) PROVE EventOrder'
  BY <1>5 DEF EventOrder, CustomerPays, LinkSent, Issue
<1>6. ASSUME NEW k \in Keys, CustomerCommits(k) PROVE EventOrder'
  BY <1>6 DEF EventOrder, CustomerCommits, LinkSent, Issue
<1>7. ASSUME NEW k \in Keys, MoneyArrives(k) \/ MoneyFails(k) \/ SessionExpires(k)
      PROVE  EventOrder'
  BY <1>7 DEF EventOrder, MoneyArrives, MoneyFails, SessionExpires, Issue
<1>8. ASSUME NEW d \in Deliveries, WebhookReads(d) \/ WebhookFails(d)
      PROVE  EventOrder'
  BY <1>8 DEF EventOrder, WebhookReads, WebhookFails
<1>9. ASSUME NEW d \in Deliveries, WebhookApplies(d) PROVE EventOrder'
  BY <1>9 DEF EventOrder, WebhookApplies, MoneyTrail, EventTrail
<1> QED
  BY <1>1, <1>2, <1>3, <1>4, <1>5, <1>6, <1>7, <1>8, <1>9, NextCases
  DEF PaymentStep, CheckoutNext, StripeNext, WebhookNext, ConfirmStep,
      CancelStep, AdminStep, vars

\* A payment that was learned of goes back by no statement.
LEMMA NoPaymentLostStep ==
    ASSUME TypeInv, MoneyTrail, EventOrder, NoPaymentLost, [Next]_vars
    PROVE  NoPaymentLost'
<1> SUFFICES ASSUME NEW k \in Keys, <<k, "completed_paid">> \in processed'
             PROVE  payments'[k].status \in
                        {"paid", "refunded", "failed_needs_manual_review"}
  BY DEF NoPaymentLost
<1>1. /\ payments \in [Keys -> PaymentRow]
      /\ checkout \in [Keys -> {"none", "session", "stored", "failed"}]
  BY DEF TypeInv, TypeOK, DataTypeOK, PaymentTypeOK
<1> DEFINE Applies == \E d \in Deliveries :
        WebhookApplies(d) /\ delivery[d] = <<k, "completed_paid">>
<1>2. <<k, "completed_paid">> \in processed \/ Applies
  BY NextCases
  DEF PaymentStep, CheckoutNext, StripeNext, WebhookNext, OpenSession,
      StoreCheckout, CheckoutFails, CustomerPays, CustomerCommits, MoneyArrives,
      MoneyFails, SessionExpires, WebhookReads, WebhookApplies, WebhookFails,
      ConfirmStep, CancelStep, AdminStep, vars, paymentVars
<1>3. <<k, "completed_paid">> \in issued
  BY <1>2 DEF EventOrder, MoneyTrail, EventTrail, WebhookApplies
<1>4. /\ checkout[k] = "stored" /\ HasPayment(k)
      /\ \A type \in EventTypes : <<k, type>> \in issued => type = "completed_paid"
  BY <1>3 DEF EventOrder, MoneyTrail, CheckoutTrail
<1>5. CASE Applies
  <2>1. PICK d \in Deliveries :
            WebhookApplies(d) /\ delivery[d] = <<k, "completed_paid">>
    BY <1>5
  <2>2. payments' = [payments EXCEPT ![k] = AfterEvent(@, "completed_paid")]
    BY <2>1 DEF WebhookApplies
  <2>3. StatusAfter("completed_paid") = "paid"
    BY DEF StatusAfter
  <2> QED
    BY <1>1, <1>4, <2>2, <2>3 DEF AfterEvent, PaymentRow, HasPayment
<1>6. CASE <<k, "completed_paid">> \in processed
  <2>1. payments[k].status \in {"paid", "refunded", "failed_needs_manual_review"}
    BY <1>6 DEF NoPaymentLost
  <2>2. ~StoreCheckout(k)
    BY <1>4 DEF StoreCheckout
  <2>3. ASSUME NEW d \in Deliveries, NEW type \in EventTypes, WebhookApplies(d),
               delivery[d] = <<k, type>>
        PROVE  StatusAfter(type) = "paid"
    <3>1. type = "completed_paid"
      BY <1>4, <2>3 DEF MoneyTrail, EventTrail, WebhookApplies
    <3> QED
      BY <3>1 DEF StatusAfter
  <2> QED
    BY <2>1, <2>2, <2>3, StatusWriters DEF StatusMoves
<1> QED
  BY <1>2, <1>5, <1>6

\* An event noted as processed has left its mark on the payment: no crash or
\* error between the two loses it, and no other event takes it back.
THEOREM NoPaymentIsLost == Spec => []NoPaymentLost
<1>1. Init => EventOrder /\ NoPaymentLost
  BY DEF Init, PaymentInit, EventOrder, NoPaymentLost
<1>2. TypeInv /\ MoneyTrail /\ EventOrder /\ NoPaymentLost /\ [Next]_vars
          => EventOrder' /\ NoPaymentLost'
  BY EventOrderStep, NoPaymentLostStep
<1> QED
  BY <1>1, <1>2, TypeCorrect, MoneyTrailHolds, PTL DEF Spec
=============================================================================
