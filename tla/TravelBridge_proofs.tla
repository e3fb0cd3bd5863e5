------------------------- MODULE TravelBridge_proofs --------------------------
(***************************************************************************)
(* Theorems about TravelBridge, for every value of its constants.          *)
(***************************************************************************)
EXTENDS TravelBridge, TLAPS

TypeInv == TypeOK /\ AttemptsLeft

LEMMA PriceIsPositive ==
    ASSUME NEW k \in Keys
    PROVE  AmountTotal(k) \in Nat /\ AmountTotal(k) > 0
BY DataAssumption DEF AmountTotal

LEMMA InitType == Init => TypeInv
<1> SUFFICES ASSUME Init PROVE TypeInv
  OBVIOUS
<1>1. DataTypeOK
  BY DataAssumption
  DEF Init, DataInit, DataTypeOK, PaymentRow, BookingRow, TicketRow, Order,
      OrderIds, OrderKey, Calls, TicketIds, RefundStatus, PaymentStatus
<1>2. PaymentTypeOK
  BY DEF Init, PaymentInit, PaymentTypeOK
<1>3. EngineTypeOK
  BY DataAssumption DEF Init, EngineInit, EngineTypeOK, Calls, Steps, Answers
<1>4. CancelTypeOK
  BY DEF Init, CancelInit, CancelTypeOK, CancelSteps, CancelAnswers,
         RefundStatus
<1>5. AdminTypeOK
  BY DEF Init, AdminInit, AdminTypeOK, RefundSteps, Replies
<1>6. AttemptsLeft
  BY DataAssumption DEF Init, EngineInit, AttemptsLeft
<1> QED
  BY <1>1, <1>2, <1>3, <1>4, <1>5, <1>6 DEF TypeInv, TypeOK

-----------------------------------------------------------------------------
(* Type correctness, component by component.                               *)

LEMMA PaymentStepType == TypeInv /\ PaymentStep => TypeInv'
<1> SUFFICES ASSUME TypeInv, PaymentStep PROVE TypeInv'
  OBVIOUS
<1> USE DEF dataVars, tables, stripe, paymentVars
<1>1. ASSUME NEW k \in Keys, OpenSession(k) PROVE DataTypeOK' /\ PaymentTypeOK'
  BY <1>1 DEF TypeInv, TypeOK, DataTypeOK, PaymentTypeOK, OpenSession
<1>2. ASSUME NEW k \in Keys, StoreCheckout(k) PROVE DataTypeOK' /\ PaymentTypeOK'
  BY <1>2 DEF TypeInv, TypeOK, DataTypeOK, PaymentTypeOK, StoreCheckout,
              PaymentRow, PaymentStatus
<1>3. ASSUME NEW k \in Keys, CheckoutFails(k) PROVE DataTypeOK' /\ PaymentTypeOK'
  BY <1>3 DEF TypeInv, TypeOK, DataTypeOK, PaymentTypeOK, CheckoutFails
<1>4. ASSUME NEW k \in Keys, CustomerPays(k) PROVE DataTypeOK' /\ PaymentTypeOK'
  BY <1>4, PriceIsPositive DEF TypeInv, TypeOK, DataTypeOK, PaymentTypeOK,
     CustomerPays, Capture, Issue, Events, EventTypes
<1>5. ASSUME NEW k \in Keys, CustomerCommits(k) PROVE DataTypeOK' /\ PaymentTypeOK'
  BY <1>5 DEF TypeInv, TypeOK, DataTypeOK, PaymentTypeOK, CustomerCommits,
     Issue, Events, EventTypes
<1>6. ASSUME NEW k \in Keys, MoneyArrives(k) PROVE DataTypeOK' /\ PaymentTypeOK'
  BY <1>6, PriceIsPositive DEF TypeInv, TypeOK, DataTypeOK, PaymentTypeOK,
     MoneyArrives, Capture, Issue, Events, EventTypes
<1>7. ASSUME NEW k \in Keys, MoneyFails(k) PROVE DataTypeOK' /\ PaymentTypeOK'
  BY <1>7 DEF TypeInv, TypeOK, DataTypeOK, PaymentTypeOK, MoneyFails,
     Issue, Events, EventTypes
<1>8. ASSUME NEW k \in Keys, SessionExpires(k) PROVE DataTypeOK' /\ PaymentTypeOK'
  BY <1>8 DEF TypeInv, TypeOK, DataTypeOK, PaymentTypeOK, SessionExpires,
     Issue, Events, EventTypes
<1>9. ASSUME NEW d \in Deliveries, WebhookReads(d)
      PROVE  DataTypeOK' /\ PaymentTypeOK'
  BY <1>9 DEF TypeInv, TypeOK, DataTypeOK, PaymentTypeOK, WebhookReads
<1>10. ASSUME NEW d \in Deliveries, WebhookApplies(d)
       PROVE  DataTypeOK' /\ PaymentTypeOK'
  <2>1. PICK k \in Keys, type \in EventTypes : delivery[d] = <<k, type>>
    BY <1>10 DEF TypeInv, TypeOK, PaymentTypeOK, WebhookApplies, Events
  <2>2. StatusAfter(type) \in PaymentStatus
    BY <2>1 DEF StatusAfter, EventTypes, PaymentStatus
  <2>3. SetsIntent(type) \in BOOLEAN
    BY DEF SetsIntent
  <2>4. AfterEvent(payments[k], type) \in PaymentRow
    BY <2>2, <2>3 DEF TypeInv, TypeOK, DataTypeOK, PaymentRow, AfterEvent
  <2>5. payments' = [payments EXCEPT ![k] = AfterEvent(@, type)]
    BY <1>10, <2>1 DEF WebhookApplies
  <2>6. DataTypeOK'
    BY <1>10, <2>4, <2>5 DEF TypeInv, TypeOK, DataTypeOK, WebhookApplies
  <2>7. PaymentTypeOK'
    BY <1>10, <2>1 DEF TypeInv, TypeOK, PaymentTypeOK, WebhookApplies, Events
  <2> QED
    BY <2>6, <2>7
<1>11. ASSUME NEW d \in Deliveries, WebhookFails(d)
       PROVE  DataTypeOK' /\ PaymentTypeOK'
  BY <1>11 DEF TypeInv, TypeOK, DataTypeOK, PaymentTypeOK, WebhookFails
<1>12. DataTypeOK' /\ PaymentTypeOK'
  BY <1>1, <1>2, <1>3, <1>4, <1>5, <1>6, <1>7, <1>8, <1>9, <1>10, <1>11
  DEF PaymentStep, CheckoutNext, StripeNext, WebhookNext
<1>13. EngineTypeOK' /\ CancelTypeOK' /\ AdminTypeOK' /\ AttemptsLeft'
  BY DEF TypeInv, TypeOK, PaymentStep, EngineTypeOK, CancelTypeOK, AdminTypeOK,
         AttemptsLeft, engineVars, cancelVars, adminVars
<1> QED
  BY <1>12, <1>13 DEF TypeInv, TypeOK

LEMMA AttemptIsOrder ==
    ASSUME TypeInv, NEW c \in ConfirmCalls, pc[c] = "tier1"
    PROVE  Attempt(c) \in OrderIds /\ tries[c] + 1 \in 0..Attempts
BY DataAssumption
DEF TypeInv, TypeOK, EngineTypeOK, AttemptsLeft, Attempt, OrderIds

LEMMA RebookIsOrder ==
    ASSUME NEW c \in ConfirmCalls
    PROVE  <<c, Rebook>> \in OrderIds
BY DataAssumption DEF OrderIds, Rebook

\* What a call is to record is a booking_id, whatever the reply named.
LEMMA NamedAsType ==
    ASSUME NEW i \in OrderIds
    PROVE  NamedAs(i) \subseteq OrderIds \cup {UnknownId}
BY DEF NamedAs

LEMMA PlacesType ==
    ASSUME TypeOK, NEW i \in OrderIds, NEW o \in Offers, AmadeusPlaces(i, o)
    PROVE  orders' \in [OrderIds -> Order]
BY DEF TypeOK, DataTypeOK, AmadeusPlaces, Order

LEMMA RefundsType ==
    ASSUME TypeOK, NEW k \in Keys, NEW amount \in Nat, StripeRefunds(k, amount)
    PROVE  /\ captured' \in [Keys -> Nat]
           /\ refunds' \in [Keys -> SUBSET Nat]
           /\ refunded' \in [Keys -> Nat]
BY DEF TypeOK, DataTypeOK, StripeRefunds

LEMMA KeysOfCalls ==
    /\ \A c \in ConfirmCalls : KeyOf[c] \in Keys
    /\ \A c \in CancelCalls : KeyOf[c] \in Keys
    /\ \A a \in RefundCalls : KeyOf[a] \in Keys
BY DataAssumption DEF Calls

LEMMA AlternativesAreOffers ==
    ASSUME NEW c PROVE Alternatives(c) \subseteq Offers
BY DEF Alternatives, Cheapest

LEMMA AnsweredType ==
    ASSUME TypeOK, NEW c \in ConfirmCalls, NEW a \in Answers, Answered(c, a)
    PROVE  /\ pc' = [pc EXCEPT ![c] = "done"]
           /\ answer' \in [ConfirmCalls -> Answers]
BY DEF TypeOK, EngineTypeOK, Answered, Return, Answers

LEMMA ConfirmStepType == TypeInv /\ ConfirmStep => TypeInv'
<1> SUFFICES ASSUME TypeInv, ConfirmStep PROVE TypeInv'
  OBVIOUS
<1> USE DEF dataVars, tables, stripe, engineVars
<1>1. ASSUME NEW c \in ConfirmCalls, ConfirmRejects(c)
      PROVE  DataTypeOK' /\ EngineTypeOK' /\ AttemptsLeft'
  BY <1>1
  DEF TypeInv, TypeOK, DataTypeOK, EngineTypeOK, AttemptsLeft, ConfirmRejects,
      MayStart,
      Return, Answers, Steps
<1>2. ASSUME NEW c \in ConfirmCalls, ConfirmStarts(c)
      PROVE  DataTypeOK' /\ EngineTypeOK' /\ AttemptsLeft'
  BY <1>2
  DEF TypeInv, TypeOK, DataTypeOK, EngineTypeOK, AttemptsLeft, ConfirmStarts,
      MayStart,
      Goto, Steps
<1>3. ASSUME NEW c \in ConfirmCalls, PaymentRefused(c)
      PROVE  DataTypeOK' /\ EngineTypeOK' /\ AttemptsLeft'
  BY <1>3
  DEF TypeInv, TypeOK, DataTypeOK, EngineTypeOK, AttemptsLeft, PaymentRefused,
      Return, Answers, Steps
<1>4. ASSUME NEW c \in ConfirmCalls, OfferMismatch(c)
      PROVE  DataTypeOK' /\ EngineTypeOK' /\ AttemptsLeft'
  BY <1>4
  DEF TypeInv, TypeOK, DataTypeOK, EngineTypeOK, AttemptsLeft, OfferMismatch,
      Return, Answers, Steps
<1>5. ASSUME NEW c \in ConfirmCalls, PaymentVerified(c)
      PROVE  DataTypeOK' /\ EngineTypeOK' /\ AttemptsLeft'
  BY <1>5
  DEF TypeInv, TypeOK, DataTypeOK, EngineTypeOK, AttemptsLeft, PaymentVerified,
      Goto, Steps
<1>6. ASSUME NEW c \in ConfirmCalls, BookingExists(c)
      PROVE  DataTypeOK' /\ EngineTypeOK' /\ AttemptsLeft'
  BY <1>6
  DEF TypeInv, TypeOK, DataTypeOK, EngineTypeOK, AttemptsLeft, BookingExists,
      Return, Answers, Steps
<1>7. ASSUME NEW c \in ConfirmCalls, NoBookingYet(c)
      PROVE  DataTypeOK' /\ EngineTypeOK' /\ AttemptsLeft'
  BY <1>7
  DEF TypeInv, TypeOK, DataTypeOK, EngineTypeOK, AttemptsLeft, NoBookingYet,
      Goto, Steps
<1>8. ASSUME NEW c \in ConfirmCalls, Tier1Books(c)
      PROVE  DataTypeOK' /\ EngineTypeOK' /\ AttemptsLeft'
  BY <1>8, AttemptIsOrder, PlacesType, NamedAsType
  DEF TypeInv, TypeOK, DataTypeOK, EngineTypeOK, AttemptsLeft, Tier1Books,
      CountTry, Goto, Steps
<1>9. ASSUME NEW c \in ConfirmCalls, Tier1Fails(c)
      PROVE  DataTypeOK' /\ EngineTypeOK' /\ AttemptsLeft'
  BY <1>9, AttemptIsOrder
  DEF TypeInv, TypeOK, DataTypeOK, EngineTypeOK, AttemptsLeft, Tier1Fails,
      CountTry, AfterFailure, Goto, Steps
<1>10. ASSUME NEW c \in ConfirmCalls, Tier1TimesOut(c)
      PROVE  DataTypeOK' /\ EngineTypeOK' /\ AttemptsLeft'
  BY <1>10, AttemptIsOrder, PlacesType
  DEF TypeInv, TypeOK, DataTypeOK, EngineTypeOK, AttemptsLeft, Tier1TimesOut,
      CountTry, AfterFailure, Goto, Steps
<1>11. ASSUME NEW c \in ConfirmCalls, Tier1BadReply(c)
      PROVE  DataTypeOK' /\ EngineTypeOK' /\ AttemptsLeft'
  BY <1>11, AttemptIsOrder, PlacesType
  DEF TypeInv, TypeOK, DataTypeOK, EngineTypeOK, AttemptsLeft, Tier1BadReply,
      CountTry, Return, Answers, Steps
<1>12. ASSUME NEW c \in ConfirmCalls, Tier2Books(c)
      PROVE  DataTypeOK' /\ EngineTypeOK' /\ AttemptsLeft'
  BY <1>12, RebookIsOrder, PlacesType, AlternativesAreOffers, NamedAsType
  DEF TypeInv, TypeOK, DataTypeOK, EngineTypeOK, AttemptsLeft, Tier2Books,
      Goto, Steps
<1>13. ASSUME NEW c \in ConfirmCalls, Tier2Fails(c)
      PROVE  DataTypeOK' /\ EngineTypeOK' /\ AttemptsLeft'
  BY <1>13
  DEF TypeInv, TypeOK, DataTypeOK, EngineTypeOK, AttemptsLeft, Tier2Fails,
      Goto, Steps
<1>14. ASSUME NEW c \in ConfirmCalls, Tier2TimesOut(c)
      PROVE  DataTypeOK' /\ EngineTypeOK' /\ AttemptsLeft'
  BY <1>14, RebookIsOrder, PlacesType, AlternativesAreOffers
  DEF TypeInv, TypeOK, DataTypeOK, EngineTypeOK, AttemptsLeft, Tier2TimesOut,
      Goto, Steps
<1>15. ASSUME NEW c \in ConfirmCalls, Tier2BadReply(c)
      PROVE  DataTypeOK' /\ EngineTypeOK' /\ AttemptsLeft'
  BY <1>15, RebookIsOrder, PlacesType, AlternativesAreOffers
  DEF TypeInv, TypeOK, DataTypeOK, EngineTypeOK, AttemptsLeft, Tier2BadReply,
      Return, Answers, Steps
<1>16. ASSUME NEW c \in ConfirmCalls, Tier3Refunds(c)
      PROVE  DataTypeOK' /\ EngineTypeOK' /\ AttemptsLeft'
  BY <1>16, RefundsType, PriceIsPositive, KeysOfCalls
  DEF TypeInv, TypeOK, DataTypeOK, EngineTypeOK, AttemptsLeft, Tier3Refunds,
      Goto, Steps
<1>17. ASSUME NEW c \in ConfirmCalls, Tier3Fails(c)
      PROVE  DataTypeOK' /\ EngineTypeOK' /\ AttemptsLeft'
  BY <1>17
  DEF TypeInv, TypeOK, DataTypeOK, EngineTypeOK, AttemptsLeft, Tier3Fails,
      Goto, Steps
<1>18. ASSUME NEW c \in ConfirmCalls, Tier3TimesOut(c)
      PROVE  DataTypeOK' /\ EngineTypeOK' /\ AttemptsLeft'
  BY <1>18, RefundsType, PriceIsPositive, KeysOfCalls
  DEF TypeInv, TypeOK, DataTypeOK, EngineTypeOK, AttemptsLeft, Tier3TimesOut,
      Goto, Steps
<1>19. ASSUME NEW c \in ConfirmCalls, RecordRefund(c)
      PROVE  DataTypeOK' /\ EngineTypeOK' /\ AttemptsLeft'
  BY <1>19, PriceIsPositive, KeysOfCalls, AnsweredType
  DEF TypeInv, TypeOK, DataTypeOK, EngineTypeOK, AttemptsLeft, RecordRefund,
      PaymentRow, PaymentStatus, Answers, Steps
<1>20. ASSUME NEW c \in ConfirmCalls, Escalate(c)
      PROVE  DataTypeOK' /\ EngineTypeOK' /\ AttemptsLeft'
  <2>1. DataTypeOK'
    BY <1>20, KeysOfCalls
    DEF TypeInv, TypeOK, DataTypeOK, Escalate, PaymentRow, PaymentStatus,
        TicketRow, TicketIds
  <2>2. EngineTypeOK' /\ AttemptsLeft'
    BY <1>20, AnsweredType
    DEF TypeInv, TypeOK, EngineTypeOK, AttemptsLeft, Escalate, Answers, Steps
  <2> QED
    BY <2>1, <2>2
<1>21. ASSUME NEW c \in ConfirmCalls, RecordBooking(c)
      PROVE  DataTypeOK' /\ EngineTypeOK' /\ AttemptsLeft'
  <2>1. DataTypeOK'
    BY <1>21, KeysOfCalls
    DEF TypeInv, TypeOK, DataTypeOK, EngineTypeOK, RecordBooking, AfterInsert,
        BookingRow
  <2>2. EngineTypeOK' /\ AttemptsLeft'
    BY <1>21, AnsweredType
    DEF TypeInv, TypeOK, EngineTypeOK, AttemptsLeft, RecordBooking, Answers,
        Steps
  <2> QED
    BY <2>1, <2>2
<1>22. ASSUME NEW c \in ConfirmCalls, ConfirmDbError(c)
      PROVE  DataTypeOK' /\ EngineTypeOK' /\ AttemptsLeft'
  BY <1>22
  DEF TypeInv, TypeOK, DataTypeOK, EngineTypeOK, AttemptsLeft, ConfirmDbError,
      Return, Answers, Steps
<1>23. ASSUME NEW c \in ConfirmCalls, ConfirmCrashes(c)
      PROVE  DataTypeOK' /\ EngineTypeOK' /\ AttemptsLeft'
  BY <1>23
  DEF TypeInv, TypeOK, DataTypeOK, EngineTypeOK, AttemptsLeft, ConfirmCrashes,
      Return, Answers, Steps
<1>24. DataTypeOK' /\ EngineTypeOK' /\ AttemptsLeft'
  BY <1>1, <1>2, <1>3, <1>4, <1>5, <1>6, <1>7, <1>8, <1>9, <1>10, <1>11,
     <1>12, <1>13, <1>14, <1>15, <1>16, <1>17, <1>18, <1>19, <1>20, <1>21,
     <1>22, <1>23
  DEF ConfirmStep, ConfirmNext, ConfirmProceeds
<1>25. PaymentTypeOK' /\ CancelTypeOK' /\ AdminTypeOK'
  BY DEF TypeInv, TypeOK, ConfirmStep, PaymentTypeOK, CancelTypeOK, AdminTypeOK,
         paymentVars, cancelVars, adminVars
<1> QED
  BY <1>24, <1>25 DEF TypeInv, TypeOK

LEMMA DeleteType ==
    ASSUME TypeOK, NEW c \in CancelCalls, AmadeusCancels(c)
    PROVE  orders' \in [OrderIds -> Order]
BY DEF TypeOK, DataTypeOK, AmadeusCancels, Order

LEMMA CancelStepType == TypeInv /\ CancelStep => TypeInv'
<1> SUFFICES ASSUME TypeInv, CancelStep PROVE TypeInv'
  OBVIOUS
<1> USE DEF dataVars, tables, stripe, cancelVars
<1>1. ASSUME NEW c \in CancelCalls, CancelNotFound(c)
      PROVE  DataTypeOK' /\ CancelTypeOK'
  BY <1>1
  DEF TypeInv, TypeOK, DataTypeOK, CancelTypeOK, CancelNotFound, CancelReturn,
      CancelAnswers, CancelSteps
<1>2. ASSUME NEW c \in CancelCalls, AlreadyCancelled(c)
      PROVE  DataTypeOK' /\ CancelTypeOK'
  BY <1>2
  DEF TypeInv, TypeOK, DataTypeOK, CancelTypeOK, AlreadyCancelled,
      CancelReturn, CancelAnswers, CancelSteps
<1>3. ASSUME NEW c \in CancelCalls, CancelStarts(c)
      PROVE  DataTypeOK' /\ CancelTypeOK'
  BY <1>3
  DEF TypeInv, TypeOK, DataTypeOK, CancelTypeOK, CancelStarts, CancelGoto,
      CancelSteps
<1>4. ASSUME NEW c \in CancelCalls, OrderDeleted(c)
      PROVE  DataTypeOK' /\ CancelTypeOK'
  BY <1>4, DeleteType
  DEF TypeInv, TypeOK, DataTypeOK, CancelTypeOK, OrderDeleted, CancelGoto,
      CancelSteps
<1>5. ASSUME NEW c \in CancelCalls, DeleteFails(c)
      PROVE  DataTypeOK' /\ CancelTypeOK'
  BY <1>5
  DEF TypeInv, TypeOK, DataTypeOK, CancelTypeOK, DeleteFails, CancelReturn,
      CancelAnswers, CancelSteps
<1>6. ASSUME NEW c \in CancelCalls, DeleteTimesOut(c)
      PROVE  DataTypeOK' /\ CancelTypeOK'
  BY <1>6, DeleteType
  DEF TypeInv, TypeOK, DataTypeOK, CancelTypeOK, DeleteTimesOut, CancelReturn,
      CancelAnswers, CancelSteps
<1>7. ASSUME NEW c \in CancelCalls, CancelRefunds(c)
      PROVE  DataTypeOK' /\ CancelTypeOK'
  BY <1>7, RefundsType, PriceIsPositive, KeysOfCalls
  DEF TypeInv, TypeOK, DataTypeOK, CancelTypeOK, CancelRefunds, Decide,
      CancelGoto,
      CancelSteps, RefundStatus
<1>8. ASSUME NEW c \in CancelCalls, CancelRefundFails(c)
      PROVE  DataTypeOK' /\ CancelTypeOK'
  BY <1>8
  DEF TypeInv, TypeOK, DataTypeOK, CancelTypeOK, CancelRefundFails, Decide,
      CancelGoto,
      CancelSteps, RefundStatus
<1>9. ASSUME NEW c \in CancelCalls, CancelRefundTimesOut(c)
      PROVE  DataTypeOK' /\ CancelTypeOK'
  BY <1>9, RefundsType, PriceIsPositive, KeysOfCalls
  DEF TypeInv, TypeOK, DataTypeOK, CancelTypeOK, CancelRefundTimesOut, Decide,
      CancelGoto,
      CancelSteps, RefundStatus
<1>10. ASSUME NEW c \in CancelCalls, NotEligible(c)
      PROVE  DataTypeOK' /\ CancelTypeOK'
  BY <1>10
  DEF TypeInv, TypeOK, DataTypeOK, CancelTypeOK, NotEligible, Decide,
      CancelGoto,
      CancelSteps, RefundStatus
<1>11. ASSUME NEW c \in CancelCalls, CancelWrites(c)
      PROVE  DataTypeOK' /\ CancelTypeOK'
  <2>1. AfterCancel(bookings[KeyOf[c]], c) \in BookingRow
    <3>1. bookings[KeyOf[c]] \in BookingRow
      BY KeysOfCalls DEF TypeInv, TypeOK, DataTypeOK
    <3>2. decision[c] \in RefundStatus
      BY DEF TypeInv, TypeOK, CancelTypeOK
    <3>3. (IF decision[c] = "full_auto" THEN AmountTotal(KeyOf[c]) ELSE 0) \in Nat
      BY PriceIsPositive, KeysOfCalls
    <3> QED
      BY <3>1, <3>2, <3>3 DEF AfterCancel, BookingRow
  <2>2. bookings' \in [Keys -> BookingRow]
    BY <1>11, <2>1, KeysOfCalls DEF TypeInv, TypeOK, DataTypeOK, CancelWrites
  <2> QED
    BY <1>11, <2>2
    DEF TypeInv, TypeOK, DataTypeOK, CancelTypeOK, CancelWrites, CancelReturn,
        CancelAnswers, CancelSteps
<1>12. ASSUME NEW c \in CancelCalls, CancelDies(c)
      PROVE  DataTypeOK' /\ CancelTypeOK'
  BY <1>12
  DEF TypeInv, TypeOK, DataTypeOK, CancelTypeOK, CancelDies, CancelReturn,
      CancelAnswers, CancelSteps
<1>13. DataTypeOK' /\ CancelTypeOK'
  BY <1>1, <1>2, <1>3, <1>4, <1>5, <1>6, <1>7, <1>8, <1>9, <1>10, <1>11, <1>12
  DEF CancelStep, CancelNext
<1>14. PaymentTypeOK' /\ EngineTypeOK' /\ AdminTypeOK' /\ AttemptsLeft'
  BY DEF TypeInv, TypeOK, CancelStep, PaymentTypeOK, EngineTypeOK, AdminTypeOK,
         AttemptsLeft, paymentVars, engineVars, adminVars
<1> QED
  BY <1>13, <1>14 DEF TypeInv, TypeOK

LEMMA CloseTicketsType ==
    ASSUME TypeOK, NEW k, CloseTickets(k)
    PROVE  tickets' \in [TicketIds -> TicketRow]
BY DEF TypeOK, DataTypeOK, CloseTickets, TicketRow

LEMMA AdminStepType == TypeInv /\ AdminStep => TypeInv'
<1> SUFFICES ASSUME TypeInv, AdminStep PROVE TypeInv'
  OBVIOUS
<1> USE DEF dataVars, tables, stripe, adminVars
<1>1. ASSUME NEW a \in RefundCalls, RefundChecked(a)
      PROVE  DataTypeOK' /\ AdminTypeOK'
  BY <1>1, PriceIsPositive, KeysOfCalls
  DEF TypeInv, TypeOK, DataTypeOK, AdminTypeOK, RefundChecked, Refundable,
      BodyAmounts,
      RefundSteps
<1>2. ASSUME NEW a \in RefundCalls, RefundRefused(a)
      PROVE  DataTypeOK' /\ AdminTypeOK'
  BY <1>2
  DEF TypeInv, TypeOK, DataTypeOK, AdminTypeOK, RefundRefused, Reply, Replies,
      RefundSteps
<1>3. ASSUME NEW a \in RefundCalls, RefundIssued(a)
      PROVE  DataTypeOK' /\ AdminTypeOK'
  BY <1>3, RefundsType, KeysOfCalls
  DEF TypeInv, TypeOK, DataTypeOK, AdminTypeOK, RefundIssued, RefundSteps
<1>4. ASSUME NEW a \in RefundCalls, RefundFails(a)
      PROVE  DataTypeOK' /\ AdminTypeOK'
  BY <1>4
  DEF TypeInv, TypeOK, DataTypeOK, AdminTypeOK, RefundFails, Reply, Replies,
      RefundSteps
<1>5. ASSUME NEW a \in RefundCalls, RefundTimesOut(a)
      PROVE  DataTypeOK' /\ AdminTypeOK'
  BY <1>5, RefundsType, KeysOfCalls
  DEF TypeInv, TypeOK, DataTypeOK, AdminTypeOK, RefundTimesOut, Reply, Replies,
      RefundSteps
<1>6. ASSUME NEW a \in RefundCalls, RefundRecorded(a)
      PROVE  DataTypeOK' /\ AdminTypeOK'
  <2>1. payments' \in [Keys -> PaymentRow]
    BY <1>6, KeysOfCalls
    DEF TypeInv, TypeOK, DataTypeOK, AdminTypeOK, RefundRecorded, PaymentRow,
        PaymentStatus
  <2>2. bookings' \in [Keys -> BookingRow]
    <3>1. AfterRefund(bookings[KeyOf[a]], asked[a]) \in BookingRow
      <4>1. bookings[KeyOf[a]] \in BookingRow /\ asked[a] \in Nat
        BY KeysOfCalls DEF TypeInv, TypeOK, DataTypeOK, AdminTypeOK
      <4>2. "manual" \in RefundStatus
        BY DEF RefundStatus
      <4> QED
        BY <4>1, <4>2 DEF AfterRefund, BookingRow
    <3> QED
      BY <1>6, <3>1, KeysOfCalls
      DEF TypeInv, TypeOK, DataTypeOK, RefundRecorded
  <2>3. tickets' \in [TicketIds -> TicketRow]
    BY <1>6, CloseTicketsType DEF TypeInv, RefundRecorded
  <2> QED
    BY <1>6, <2>1, <2>2, <2>3
    DEF TypeInv, TypeOK, DataTypeOK, AdminTypeOK, RefundRecorded, Reply,
        Replies, RefundSteps
<1>7. ASSUME NEW a \in RefundCalls, RefundDies(a)
      PROVE  DataTypeOK' /\ AdminTypeOK'
  BY <1>7
  DEF TypeInv, TypeOK, DataTypeOK, AdminTypeOK, RefundDies, Reply, Replies,
      RefundSteps
<1>8. ASSUME NEW t \in SupportCalls, SupportRequested(t)
      PROVE  DataTypeOK' /\ AdminTypeOK'
  BY <1>8
  DEF TypeInv, TypeOK, DataTypeOK, AdminTypeOK, SupportRequested, TicketIds,
      TicketRow
<1>9. ASSUME NEW t \in TicketIds, TicketResolved(t)
      PROVE  DataTypeOK' /\ AdminTypeOK'
  BY <1>9
  DEF TypeInv, TypeOK, DataTypeOK, AdminTypeOK, TicketResolved, TicketRow
<1>10. ASSUME NEW k \in Keys, RefundDenied(k)
      PROVE  DataTypeOK' /\ AdminTypeOK'
  BY <1>10, CloseTicketsType
  DEF TypeInv, TypeOK, DataTypeOK, AdminTypeOK, RefundDenied, BookingRow,
      RefundStatus
<1>11. DataTypeOK' /\ AdminTypeOK'
  BY <1>1, <1>2, <1>3, <1>4, <1>5, <1>6, <1>7, <1>8, <1>9, <1>10
  DEF AdminStep, RefundNext, DeskNext
<1>12. PaymentTypeOK' /\ EngineTypeOK' /\ CancelTypeOK' /\ AttemptsLeft'
  BY DEF TypeInv, TypeOK, AdminStep, PaymentTypeOK, EngineTypeOK, CancelTypeOK,
         AttemptsLeft, paymentVars, engineVars, cancelVars
<1> QED
  BY <1>11, <1>12 DEF TypeInv, TypeOK

LEMMA StutterType == TypeInv /\ UNCHANGED vars => TypeInv'
BY DEF TypeInv, TypeOK, DataTypeOK, PaymentTypeOK, EngineTypeOK, CancelTypeOK,
       AdminTypeOK, AttemptsLeft, vars, dataVars, tables, stripe, paymentVars,
       engineVars, cancelVars, adminVars

LEMMA TypeNext == TypeInv /\ [Next]_vars => TypeInv'
BY PaymentStepType, ConfirmStepType, CancelStepType, AdminStepType, StutterType
DEF Next, Finished

\* Every variable keeps its type, and Tier 1 never makes more attempts than
\* 1 + BOOKING_RETRY_ATTEMPTS, in every behaviour.
THEOREM TypeCorrect == Spec => []TypeInv
<1>1. Init => TypeInv
  BY InitType
<1>2. TypeInv /\ [Next]_vars => TypeInv'
  BY TypeNext
<1> QED
  BY <1>1, <1>2, PTL DEF Spec

\* In particular the type invariant of the runs.
THEOREM TypesHold == Spec => []TypeOK
<1>1. TypeInv => TypeOK
  BY DEF TypeInv
<1> QED
  BY <1>1, TypeCorrect, PTL
-----------------------------------------------------------------------------
(* What a step does to one call, and who writes what.                      *)

CallRests(c) == UNCHANGED <<pc[c], offer[c], tries[c], held[c], answer[c]>>
CallActs(c) ==
    \/ ConfirmRejects(c) \/ ConfirmStarts(c) \/ ConfirmProceeds(c)
    \/ ConfirmDbError(c) \/ ConfirmCrashes(c)

CancelRests(c) == UNCHANGED <<cancelPc[c], decision[c], cancelAnswer[c]>>
CancelActs(c) ==
    \/ CancelNotFound(c) \/ AlreadyCancelled(c) \/ CancelStarts(c)
    \/ OrderDeleted(c) \/ DeleteFails(c) \/ DeleteTimesOut(c)
    \/ CancelRefunds(c) \/ CancelRefundFails(c) \/ CancelRefundTimesOut(c)
    \/ NotEligible(c) \/ CancelWrites(c) \/ CancelDies(c)

RefundRests(a) == UNCHANGED <<refundPc[a], asked[a], refundReply[a]>>
RefundActs(a) ==
    \/ RefundChecked(a) \/ RefundRefused(a) \/ RefundIssued(a) \/ RefundFails(a)
    \/ RefundTimesOut(a) \/ RefundRecorded(a) \/ RefundDies(a)

LEMMA NextCases ==
    ASSUME [Next]_vars
    PROVE  PaymentStep \/ ConfirmStep \/ CancelStep \/ AdminStep \/ UNCHANGED vars
BY DEF Next, Finished

\* A step is that of one call, or of one request.
LEMMA OneCallActs ==
    ASSUME TypeInv, NEW c \in ConfirmCalls, NEW d \in ConfirmCalls, d # c,
           CallActs(d)
    PROVE  CallRests(c)
BY DEF TypeInv, TypeOK, EngineTypeOK, CallActs, CallRests, ConfirmProceeds,
       ConfirmRejects, ConfirmStarts, PaymentRefused, OfferMismatch,
       PaymentVerified, BookingExists, NoBookingYet, Tier1Books, Tier1Fails,
       Tier1TimesOut, Tier1BadReply, Tier2Books, Tier2Fails, Tier2TimesOut,
       Tier2BadReply, Tier3Refunds, Tier3Fails, Tier3TimesOut, RecordRefund,
       Escalate, RecordBooking, ConfirmDbError, ConfirmCrashes, Goto, Return,
       Answered, CountTry

LEMMA OneRequestActs ==
    ASSUME TypeInv, NEW a \in RefundCalls, NEW b \in RefundCalls, b # a,
           RefundActs(b)
    PROVE  RefundRests(a)
BY DEF TypeInv, TypeOK, AdminTypeOK, RefundActs, RefundRests, RefundChecked,
       RefundRefused, RefundIssued, RefundFails, RefundTimesOut,
       RefundRecorded, RefundDies, Reply

LEMMA CallMoves ==
    ASSUME TypeInv, [Next]_vars, NEW c \in ConfirmCalls
    PROVE  CallRests(c) \/ CallActs(c)
<1>1. CASE ~ConfirmStep
  BY <1>1, NextCases
  DEF PaymentStep, CancelStep, AdminStep, vars, engineVars, CallRests
<1>2. CASE ConfirmStep
  <2>1. PICK d \in ConfirmCalls : CallActs(d)
    BY <1>2 DEF ConfirmStep, ConfirmNext, CallActs
  <2>2. CASE d # c
    BY <2>1, <2>2, OneCallActs
  <2> QED
    BY <2>1, <2>2
<1> QED
  BY <1>1, <1>2

LEMMA CancelMoves ==
    ASSUME TypeInv, [Next]_vars, NEW c \in CancelCalls
    PROVE  CancelRests(c) \/ CancelActs(c)
<1>1. CASE ~CancelStep
  BY <1>1, NextCases
  DEF PaymentStep, ConfirmStep, AdminStep, vars, cancelVars, CancelRests
<1>2. CASE CancelStep
  <2>1. PICK d \in CancelCalls : CancelActs(d)
    BY <1>2 DEF CancelStep, CancelNext, CancelActs
  <2>2. CASE d # c
    BY <2>1, <2>2
    DEF TypeInv, TypeOK, CancelTypeOK, CancelActs, CancelRests, CancelNotFound,
        AlreadyCancelled, CancelStarts, OrderDeleted, DeleteFails, DeleteTimesOut,
        CancelRefunds, CancelRefundFails, CancelRefundTimesOut, NotEligible,
        CancelWrites, CancelDies, CancelGoto, CancelReturn, Decide
  <2> QED
    BY <2>1, <2>2
<1> QED
  BY <1>1, <1>2

LEMMA RefundMoves ==
    ASSUME TypeInv, [Next]_vars, NEW a \in RefundCalls
    PROVE  RefundRests(a) \/ RefundActs(a)
<1>1. CASE ~AdminStep
  BY <1>1, NextCases
  DEF PaymentStep, ConfirmStep, CancelStep, vars, adminVars, RefundRests
<1>2. CASE AdminStep
  <2>1. CASE DeskNext
    BY <2>1
    DEF DeskNext, SupportRequested, TicketResolved, RefundDenied, adminVars,
        RefundRests
  <2>2. CASE RefundNext
    <3>1. PICK b \in RefundCalls : RefundActs(b)
      BY <2>2 DEF RefundNext, RefundActs
    <3>2. CASE b # a
      BY <3>1, <3>2, OneRequestActs
    <3> QED
      BY <3>1, <3>2
  <2> QED
    BY <1>2, <2>1, <2>2 DEF AdminStep
<1> QED
  BY <1>1, <1>2

Places(c) ==
    \/ Tier1Books(c) \/ Tier1TimesOut(c) \/ Tier1BadReply(c)
    \/ Tier2Books(c) \/ Tier2TimesOut(c) \/ Tier2BadReply(c)

LEMMA OrderWriters ==
    ASSUME [Next]_vars
    PROVE  \/ UNCHANGED orders
           \/ \E c \in ConfirmCalls : Places(c)
           \/ \E c \in CancelCalls : OrderDeleted(c) \/ DeleteTimesOut(c)
<1> USE DEF dataVars, tables, stripe
<1>1. CASE PaymentStep
  BY <1>1
  DEF PaymentStep, CheckoutNext, StripeNext, WebhookNext, OpenSession,
      StoreCheckout, CheckoutFails, CustomerPays, CustomerCommits, MoneyArrives,
      MoneyFails, SessionExpires, WebhookReads, WebhookApplies, WebhookFails
<1>2. CASE ConfirmStep
  BY <1>2
  DEF ConfirmStep, ConfirmNext, ConfirmProceeds, ConfirmRejects, ConfirmStarts,
      PaymentRefused, OfferMismatch, PaymentVerified, BookingExists, NoBookingYet,
      Tier1Fails, Tier2Fails, Tier3Refunds, Tier3Fails, Tier3TimesOut,
      RecordRefund, Escalate, RecordBooking, ConfirmDbError, ConfirmCrashes, Places
<1>3. CASE CancelStep
  BY <1>3
  DEF CancelStep, CancelNext, CancelNotFound, AlreadyCancelled, CancelStarts,
      DeleteFails, CancelRefunds, CancelRefundFails, CancelRefundTimesOut,
      NotEligible, CancelWrites, CancelDies
<1>4. CASE AdminStep
  BY <1>4
  DEF AdminStep, RefundNext, DeskNext, RefundChecked, RefundRefused, RefundIssued,
      RefundFails, RefundTimesOut, RefundRecorded, RefundDies, SupportRequested,
      TicketResolved, RefundDenied
<1> QED
  BY <1>1, <1>2, <1>3, <1>4, NextCases DEF vars

\* Who asks Stripe for a refund.
Refunds(k, amount) ==
    /\ StripeRefunds(k, amount)
    /\ \/ \E c \in ConfirmCalls :
             /\ Tier3Refunds(c) \/ Tier3TimesOut(c)
             /\ k = KeyOf[c] /\ amount = AmountTotal(k)
       \/ \E c \in CancelCalls :
             /\ CancelRefunds(c) \/ CancelRefundTimesOut(c)
             /\ k = KeyOf[c] /\ amount = AmountTotal(k)
       \/ \E a \in RefundCalls :
             /\ RefundIssued(a) \/ RefundTimesOut(a)
             /\ k = KeyOf[a] /\ amount = asked[a]

LEMMA RefundWriters ==
    ASSUME TypeInv, [Next]_vars
    PROVE  \/ UNCHANGED <<refunds, refunded>>
           \/ \E k \in Keys, amount \in Nat : Refunds(k, amount)
<1> USE DEF dataVars, tables, stripe
<1>1. CASE PaymentStep
  BY <1>1
  DEF PaymentStep, CheckoutNext, StripeNext, WebhookNext, OpenSession,
      StoreCheckout, CheckoutFails, CustomerPays, CustomerCommits, MoneyArrives,
      MoneyFails, SessionExpires, WebhookReads, WebhookApplies, WebhookFails
<1>2. ASSUME NEW c \in ConfirmCalls, Tier3Refunds(c) \/ Tier3TimesOut(c)
      PROVE  \E k \in Keys, amount \in Nat : Refunds(k, amount)
  <2>1. Refunds(KeyOf[c], AmountTotal(KeyOf[c]))
    BY <1>2 DEF Tier3Refunds, Tier3TimesOut, Refunds
  <2> QED
    BY <2>1, KeysOfCalls, PriceIsPositive
<1>3. CASE ConfirmStep
  BY <1>2, <1>3
  DEF ConfirmStep, ConfirmNext, ConfirmProceeds, ConfirmRejects, ConfirmStarts,
      PaymentRefused, OfferMismatch, PaymentVerified, BookingExists, NoBookingYet,
      Tier1Books, Tier1Fails, Tier1TimesOut, Tier1BadReply, Tier2Books, Tier2Fails,
      Tier2TimesOut, Tier2BadReply, Tier3Fails, RecordRefund, Escalate,
      RecordBooking, ConfirmDbError, ConfirmCrashes
<1>4. ASSUME NEW c \in CancelCalls, CancelRefunds(c) \/ CancelRefundTimesOut(c)
      PROVE  \E k \in Keys, amount \in Nat : Refunds(k, amount)
  <2>1. Refunds(KeyOf[c], AmountTotal(KeyOf[c]))
    BY <1>4 DEF CancelRefunds, CancelRefundTimesOut, Refunds
  <2> QED
    BY <2>1, KeysOfCalls, PriceIsPositive
<1>5. CASE CancelStep
  BY <1>4, <1>5
  DEF CancelStep, CancelNext, CancelNotFound, AlreadyCancelled, CancelStarts,
      OrderDeleted, DeleteFails, DeleteTimesOut, CancelRefundFails, NotEligible,
      CancelWrites, CancelDies
<1>6. ASSUME NEW a \in RefundCalls, RefundIssued(a) \/ RefundTimesOut(a)
      PROVE  \E k \in Keys, amount \in Nat : Refunds(k, amount)
  <2>1. Refunds(KeyOf[a], asked[a])
    BY <1>6 DEF RefundIssued, RefundTimesOut, Refunds
  <2>2. asked[a] \in Nat
    BY DEF TypeInv, TypeOK, AdminTypeOK
  <2> QED
    BY <2>1, <2>2, KeysOfCalls
<1>7. CASE AdminStep
  BY <1>6, <1>7
  DEF AdminStep, RefundNext, DeskNext, RefundChecked, RefundRefused, RefundFails,
      RefundRecorded, RefundDies, SupportRequested, TicketResolved, RefundDenied
<1> QED
  BY <1>1, <1>3, <1>5, <1>7, NextCases DEF vars

LEMMA PaymentWriters ==
    ASSUME [Next]_vars
    PROVE  \/ UNCHANGED payments
           \/ \E k \in Keys : StoreCheckout(k)
           \/ \E d \in Deliveries : WebhookApplies(d)
           \/ \E c \in ConfirmCalls : RecordRefund(c) \/ Escalate(c)
           \/ \E a \in RefundCalls : RefundRecorded(a)
<1> USE DEF dataVars, tables, stripe
<1>1. CASE PaymentStep
  BY <1>1
  DEF PaymentStep, CheckoutNext, StripeNext, WebhookNext, OpenSession,
      CheckoutFails, CustomerPays, CustomerCommits, MoneyArrives,
      MoneyFails, SessionExpires, WebhookReads, WebhookFails
<1>2. CASE ConfirmStep
  BY <1>2
  DEF ConfirmStep, ConfirmNext, ConfirmProceeds, ConfirmRejects, ConfirmStarts,
      PaymentRefused, OfferMismatch, PaymentVerified, BookingExists, NoBookingYet,
      Tier1Books, Tier1Fails, Tier1TimesOut, Tier1BadReply, Tier2Books, Tier2Fails,
      Tier2TimesOut, Tier2BadReply, Tier3Refunds, Tier3Fails, Tier3TimesOut,
      RecordBooking, ConfirmDbError, ConfirmCrashes
<1>3. CASE CancelStep
  BY <1>3
  DEF CancelStep, CancelNext, CancelNotFound, AlreadyCancelled, CancelStarts,
      OrderDeleted, DeleteFails, DeleteTimesOut, CancelRefunds, CancelRefundFails,
      CancelRefundTimesOut, NotEligible, CancelWrites, CancelDies
<1>4. CASE AdminStep
  BY <1>4
  DEF AdminStep, RefundNext, DeskNext, RefundChecked, RefundRefused, RefundIssued,
      RefundFails, RefundTimesOut, RefundDies, SupportRequested, TicketResolved,
      RefundDenied
<1> QED
  BY <1>1, <1>2, <1>3, <1>4, NextCases DEF vars

\* What happens to one payment's status, and on whose word.
StatusMoves(k) ==
    \/ payments'[k] = payments[k]
    \/ StoreCheckout(k) /\ payments'[k].status = "pending"
    \/ \E d \in Deliveries, type \in EventTypes :
           /\ WebhookApplies(d) /\ delivery[d] = <<k, type>>
           /\ HasPayment(k) /\ payments'[k].status = StatusAfter(type)
    \/ \E c \in ConfirmCalls :
           RecordRefund(c) /\ KeyOf[c] = k /\ payments'[k].status = "refunded"
    \/ \E c \in ConfirmCalls :
           /\ Escalate(c) /\ KeyOf[c] = k
           /\ payments'[k].status = "failed_needs_manual_review"
    \/ \E a \in RefundCalls :
           RefundRecorded(a) /\ KeyOf[a] = k /\ payments'[k].status = "refunded"

LEMMA StatusWriters ==
    ASSUME TypeInv, [Next]_vars, NEW k \in Keys
    PROVE  StatusMoves(k)
<1>1. payments \in [Keys -> PaymentRow]
  BY DEF TypeInv, TypeOK, DataTypeOK
<1>2. ASSUME NEW j \in Keys, StoreCheckout(j) PROVE StatusMoves(k)
  BY <1>1, <1>2 DEF StoreCheckout, PaymentRow, StatusMoves
<1>3. ASSUME NEW d \in Deliveries, WebhookApplies(d) PROVE StatusMoves(k)
  <2>1. PICK j \in Keys, type \in EventTypes : delivery[d] = <<j, type>>
    BY <1>3 DEF TypeInv, TypeOK, PaymentTypeOK, WebhookApplies, Events
  <2>2. payments' = [payments EXCEPT ![j] = AfterEvent(@, type)]
    BY <1>3, <2>1 DEF WebhookApplies
  <2>3. CASE j # k \/ ~HasPayment(k)
    BY <1>1, <2>2, <2>3 DEF AfterEvent, HasPayment, StatusMoves
  <2>4. CASE j = k /\ HasPayment(k)
    <3>1. payments'[k].status = StatusAfter(type)
      BY <1>1, <2>2, <2>4 DEF AfterEvent, HasPayment, PaymentRow
    <3> QED
      BY <1>3, <2>1, <2>4, <3>1 DEF StatusMoves
  <2> QED
    BY <2>3, <2>4
<1>4. ASSUME NEW c \in ConfirmCalls, Escalate(c) PROVE StatusMoves(k)
  <2>1. CASE KeyOf[c] = k
    <3>1. payments'[k].status = "failed_needs_manual_review"
      BY <1>1, <1>4, <2>1 DEF Escalate, PaymentRow
    <3> QED
      BY <1>4, <2>1, <3>1 DEF StatusMoves
  <2>2. CASE KeyOf[c] # k
    BY <1>1, <1>4, <2>2 DEF Escalate, StatusMoves
  <2> QED
    BY <2>1, <2>2
<1>5. ASSUME NEW c \in ConfirmCalls, RecordRefund(c) PROVE StatusMoves(k)
  <2>1. CASE KeyOf[c] = k
    <3>1. payments'[k].status = "refunded"
      BY <1>1, <1>5, <2>1 DEF RecordRefund, PaymentRow
    <3> QED
      BY <1>5, <2>1, <3>1 DEF StatusMoves
  <2>2. CASE KeyOf[c] # k
    BY <1>1, <1>5, <2>2 DEF RecordRefund, StatusMoves
  <2> QED
    BY <2>1, <2>2
<1>6. ASSUME NEW a \in RefundCalls, RefundRecorded(a) PROVE StatusMoves(k)
  <2>1. CASE KeyOf[a] = k
    <3>1. payments'[k].status = "refunded"
      BY <1>1, <1>6, <2>1 DEF RefundRecorded, PaymentRow
    <3> QED
      BY <1>6, <2>1, <3>1 DEF StatusMoves
  <2>2. CASE KeyOf[a] # k
    BY <1>1, <1>6, <2>2 DEF RefundRecorded, StatusMoves
  <2> QED
    BY <2>1, <2>2
<1>7. ASSUME UNCHANGED payments PROVE StatusMoves(k)
  BY <1>7 DEF StatusMoves
<1> QED
  BY <1>2, <1>3, <1>4, <1>5, <1>6, <1>7, PaymentWriters
=============================================================================
