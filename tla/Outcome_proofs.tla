---------------------------- MODULE Outcome_proofs ----------------------------
(***************************************************************************)
(* Theorems about what becomes of a charge.  Each holds under conditions   *)
(* it names, and for every value of the other constants: that the          *)
(* confirmations of a key do not overlap, that no session completes before *)
(* its money is in and Stripe's requests do not race one another, or that  *)
(* certain faults do not happen.  The runs that expect a violation show    *)
(* what happens without them.                                              *)
(***************************************************************************)
EXTENDS Records_proofs, MoneyTrail_proofs

-----------------------------------------------------------------------------
(* One confirmation of a key at a time.                                    *)

\* A call starts when no other of its key runs.
LEMMA AloneStep ==
    ASSUME Overlap = FALSE, TypeInv, OneAtATime, [Next]_vars,
           NEW c \in ConfirmCalls, NEW d \in ConfirmCalls,
           Running(c)', Running(d)', KeyOf[c] = KeyOf[d]
    PROVE  c = d
<1> SUFFICES ASSUME c # d PROVE FALSE
  OBVIOUS
<1>1. ASSUME NEW a \in ConfirmCalls, NEW b \in ConfirmCalls, a # b,
             KeyOf[a] = KeyOf[b], CallActs(a), Running(a)', Running(b)'
      PROVE  FALSE
  <2>1. CallRests(b)
    BY <1>1, OneCallActs
  <2>2. Running(b)
    BY <1>1, <2>1 DEF CallRests, Running
  <2>3. ~Running(a)
    BY <1>1, <2>2 DEF OneAtATime
  <2>4. MayStart(a)
    BY <1>1, <2>3
    DEF CallActs, ConfirmProceeds, ConfirmRejects, ConfirmStarts,
        PaymentRefused, OfferMismatch, PaymentVerified, BookingExists,
        NoBookingYet, Tier1Books, Tier1Fails, Tier1TimesOut, Tier1BadReply,
        Tier2Books, Tier2Fails, Tier2TimesOut, Tier2BadReply, Tier3Refunds,
        Tier3Fails, Tier3TimesOut, RecordRefund, Escalate, RecordBooking,
        ConfirmDbError, ConfirmCrashes, DatabaseSteps, Running
  <2> QED
    BY <1>1, <2>2, <2>4 DEF MayStart
<1>2. CASE CallActs(c)
  BY <1>1, <1>2
<1>3. CASE CallActs(d)
  BY <1>1, <1>3
<1>4. CASE CallRests(c) /\ CallRests(d)
  BY <1>4 DEF CallRests, Running, OneAtATime
<1> QED
  BY <1>2, <1>3, <1>4, CallMoves

\* A booking appears when a confirmation of its key records it.
LEMMA BookingAppears ==
    ASSUME TypeInv, RecordTrail, [Next]_vars, NEW k \in Keys, ~HasBooking(k),
           HasBooking(k)'
    PROVE  \E c \in ConfirmCalls :
               /\ RecordBooking(c) /\ KeyOf[c] = k
               /\ bookings'[k] = AfterInsert(bookings[k], held[c])
<1>1. bookings[k] \in BookingRow
  BY DEF TypeInv, TypeOK, DataTypeOK
<1>2. ASSUME NEW c \in CancelCalls, CancelWrites(c), KeyOf[c] = k PROVE FALSE
  BY <1>2 DEF CancelWrites, RecordTrail, CancelKnows
<1>3. ASSUME NEW a \in RefundCalls,
             bookings'[k] = AfterRefund(bookings[k], asked[a])
      PROVE  FALSE
  BY <1>3 DEF AfterRefund, HasBooking
<1>4. bookings'[k] # bookings[k]
  BY DEF HasBooking
<1>5. bookings'[k] # [bookings[k] EXCEPT !.refundStatus = "denied"]
  BY <1>1 DEF HasBooking, BookingRow
<1> QED
  BY <1>2, <1>3, <1>4, <1>5, BookingChanges

LEMMA NoRivalBooking ==
    ASSUME TypeInv, RecordTrail, OneAtATime, [Next]_vars, NEW c \in ConfirmCalls,
           pc'[c] \in PastPayment \ {"existing"}, HasBooking(KeyOf[c])'
    PROVE  FALSE
<1>1. KeyOf[c] \in Keys /\ pc[c] \in Steps
  BY KeysOfCalls DEF TypeInv, TypeOK, EngineTypeOK
<1>2. pc[c] \in PastPayment \ {"existing"} \/ NoBookingYet(c)
  <2>1. CASE CallRests(c)
    BY <2>1 DEF CallRests
  <2>2. CASE CallActs(c)
    BY <1>1, <2>2
    DEF TypeInv, TypeOK, EngineTypeOK, PastPayment, CallActs, ConfirmProceeds,
        ConfirmRejects, ConfirmStarts, PaymentRefused, OfferMismatch,
        PaymentVerified, BookingExists, NoBookingYet, Tier1Books, Tier1Fails,
        Tier1TimesOut, Tier1BadReply, Tier2Books, Tier2Fails, Tier2TimesOut,
        Tier2BadReply, Tier3Refunds, Tier3Fails, Tier3TimesOut, RecordRefund,
        Escalate, RecordBooking, ConfirmDbError, ConfirmCrashes, MayStart, Goto,
        Return, Answered
  <2> QED
    BY <2>1, <2>2, CallMoves
<1>3. ~HasBooking(KeyOf[c])
  BY <1>2 DEF OneAtATime, NoBookingYet
<1>4. PICK d \in ConfirmCalls : RecordBooking(d) /\ KeyOf[d] = KeyOf[c]
  BY <1>1, <1>3, BookingAppears
<1>5. pc'[d] = "done"
  BY <1>4 DEF RecordBooking, Answered, Return, TypeInv, TypeOK, EngineTypeOK
<1>6. d # c
  BY <1>5 DEF PastPayment
<1>7. CallActs(d)
  BY <1>4 DEF CallActs, ConfirmProceeds
<1>8. Running(c) /\ Running(d)
  BY <1>4, <1>6, <1>7, OneCallActs
  DEF CallRests, RecordBooking, PastPayment, Running
<1> QED
  BY <1>4, <1>6, <1>8 DEF OneAtATime

\* Of two confirmations of a key one runs at a time, and past its check it
\* finds no booking that it did not make.
THEOREM ConfirmsTakeTurns ==
    ASSUME Overlap = FALSE
    PROVE  Spec => []OneAtATime
<1>1. Init => OneAtATime
  BY DEF Init, EngineInit, OneAtATime, Running, PastPayment
<1>2. TypeInv /\ RecordTrail /\ OneAtATime /\ [Next]_vars => OneAtATime'
  <2> SUFFICES ASSUME TypeInv, RecordTrail, OneAtATime, [Next]_vars
               PROVE  OneAtATime'
    OBVIOUS
  <2>1. \A c, d \in ConfirmCalls :
            Running(c)' /\ Running(d)' /\ KeyOf[c] = KeyOf[d] => c = d
    BY AloneStep
  <2>2. \A c \in ConfirmCalls :
            pc'[c] \in PastPayment \ {"existing"} => ~HasBooking(KeyOf[c])'
    BY NoRivalBooking
  <2> QED
    BY <2>1, <2>2 DEF OneAtATime, Running, HasBooking
<1> QED
  BY <1>1, <1>2, TypeCorrect, RecordTrailHolds, PTL DEF Spec

\* A confirmation that answered is over.
AnswersEnd == \A c \in ConfirmCalls : answer[c] # "none" => pc[c] = "done"

LEMMA AnswersEndStep ==
    ASSUME TypeInv, AnswersEnd, [Next]_vars PROVE AnswersEnd'
<1> SUFFICES ASSUME NEW c \in ConfirmCalls, answer'[c] # "none"
             PROVE  pc'[c] = "done"
  BY DEF AnswersEnd
<1>1. CASE CallRests(c)
  BY <1>1 DEF CallRests, AnswersEnd
<1>2. CASE CallActs(c)
  BY <1>2
  DEF TypeInv, TypeOK, EngineTypeOK, AnswersEnd, CallActs, ConfirmProceeds,
      ConfirmRejects, ConfirmStarts, PaymentRefused, OfferMismatch,
      PaymentVerified, BookingExists, NoBookingYet, Tier1Books, Tier1Fails,
      Tier1TimesOut, Tier1BadReply, Tier2Books, Tier2Fails, Tier2TimesOut,
      Tier2BadReply, Tier3Refunds, Tier3Fails, Tier3TimesOut, RecordRefund,
      Escalate, RecordBooking, ConfirmDbError, ConfirmCrashes, MayStart, Goto,
      Return, Answered, DatabaseSteps, Running
<1> QED
  BY <1>1, <1>2, CallMoves

THEOREM AnswersAreLast == Spec => []AnswersEnd
<1>1. Init => AnswersEnd
  BY DEF Init, EngineInit, AnswersEnd
<1>2. TypeInv /\ AnswersEnd /\ [Next]_vars => AnswersEnd'
  BY AnswersEndStep
<1> QED
  BY <1>1, <1>2, TypeCorrect, PTL DEF Spec

\* Once it has answered a call does nothing more.
LEMMA AnsweredRests ==
    ASSUME TypeInv, AnswersEnd, [Next]_vars, NEW c \in ConfirmCalls,
           answer[c] # "none"
    PROVE  CallRests(c)
<1>1. pc[c] = "done"
  BY DEF AnswersEnd
<1>2. ~CallActs(c)
  BY <1>1
  DEF CallActs, ConfirmProceeds, ConfirmRejects, ConfirmStarts, PaymentRefused,
      OfferMismatch, PaymentVerified, BookingExists, NoBookingYet, Tier1Books,
      Tier1Fails, Tier1TimesOut, Tier1BadReply, Tier2Books, Tier2Fails,
      Tier2TimesOut, Tier2BadReply, Tier3Refunds, Tier3Fails, Tier3TimesOut,
      RecordRefund, Escalate, RecordBooking, ConfirmDbError, ConfirmCrashes,
      MayStart, DatabaseSteps, Running
<1> QED
  BY <1>2, CallMoves

\* Who gives an answer that speaks of a booking or a refund.
LEMMA Answerers ==
    ASSUME TypeInv, AnswersEnd, [Next]_vars, NEW c \in ConfirmCalls
    PROVE  /\ answer'[c] = "confirmed" =>
                  (answer[c] = "confirmed" /\ CallRests(c)) \/ RecordBooking(c)
           /\ answer'[c] = "refunded" =>
                  (answer[c] = "refunded" /\ CallRests(c)) \/ RecordRefund(c)
<1>1. CASE CallRests(c)
  BY <1>1 DEF CallRests
<1>2. CASE CallActs(c) /\ answer[c] = "none"
  BY <1>2
  DEF TypeInv, TypeOK, EngineTypeOK, CallActs, ConfirmProceeds,
      ConfirmRejects, ConfirmStarts, PaymentRefused, OfferMismatch,
      PaymentVerified, BookingExists, NoBookingYet, Tier1Books, Tier1Fails,
      Tier1TimesOut, Tier1BadReply, Tier2Books, Tier2Fails, Tier2TimesOut,
      Tier2BadReply, Tier3Refunds, Tier3Fails, Tier3TimesOut, RecordRefund,
      Escalate, RecordBooking, ConfirmDbError, ConfirmCrashes, Goto, Return,
      Answered
<1> QED
  BY <1>1, <1>2, CallMoves, AnsweredRests

\* Who records a booking finds none, so nobody was told of one before.
LEMMA RecordsFirst ==
    ASSUME OneAtATime, AnswersAreTrue, NEW c \in ConfirmCalls, RecordBooking(c)
    PROVE  /\ ~HasBooking(KeyOf[c])
           /\ \A d \in ConfirmCalls :
                  KeyOf[d] = KeyOf[c] => answer[d] # "confirmed"
<1>1. ~HasBooking(KeyOf[c])
  BY DEF OneAtATime, RecordBooking, PastPayment
<1> QED
  BY <1>1 DEF AnswersAreTrue

LEMMA ToldIsOnFile ==
    ASSUME TypeInv, RecordTrail, AnswersAreTrue, AnswersEnd, OneAtATime,
           ConfirmedIsOnFile, [Next]_vars, NEW c \in ConfirmCalls,
           answer'[c] = "confirmed"
    PROVE  bookings'[KeyOf[c]].order = held'[c] /\ PlacedBy(c)'
<1>1. KeyOf[c] \in Keys /\ bookings \in [Keys -> BookingRow] /\ BookingStays
  BY KeysOfCalls, BookingStaysInStep DEF TypeInv, TypeOK, DataTypeOK
<1>2. PlacedBy(c) /\ held'[c] = held[c] => PlacedBy(c)'
  BY OrderStays DEF RecordTrail, PlacedBy, Placed
<1>3. CASE answer[c] = "confirmed" /\ CallRests(c)
  <2>1. HasBooking(KeyOf[c]) /\ bookings[KeyOf[c]].order = held[c] /\ PlacedBy(c)
    BY <1>3 DEF AnswersAreTrue, ConfirmedIsOnFile
  <2> QED
    BY <1>1, <1>2, <1>3, <2>1 DEF BookingStays, CallRests
<1>4. CASE RecordBooking(c)
  <2>1. PlacedBy(c) /\ held'[c] = held[c]
    BY <1>4 DEF RecordBooking, RecordTrail, ConfirmKnows
  <2>2. bookings'[KeyOf[c]].order = held[c]
    BY <1>1, <1>4, RecordsFirst DEF RecordBooking, AfterInsert, HasBooking, BookingRow
  <2> QED
    BY <1>2, <2>1, <2>2
<1> QED
  BY <1>3, <1>4, Answerers

LEMMA OneIsTold ==
    ASSUME TypeInv, AnswersAreTrue, AnswersEnd, OneAtATime, ConfirmedIsOnFile,
           [Next]_vars, NEW c \in ConfirmCalls, NEW d \in ConfirmCalls,
           answer'[c] = "confirmed", answer'[d] = "confirmed", KeyOf[d] = KeyOf[c]
    PROVE  d = c
<1>1. answer[c] = "confirmed" \/ RecordBooking(c)
  BY Answerers
<1>2. answer[d] = "confirmed" \/ RecordBooking(d)
  BY Answerers
<1>3. CASE answer[c] = "confirmed" /\ answer[d] = "confirmed"
  BY <1>3 DEF ConfirmedIsOnFile
<1>4. CASE RecordBooking(c) /\ RecordBooking(d)
  BY <1>4 DEF OneAtATime, RecordBooking, Running
<1> QED
  BY <1>1, <1>2, <1>3, <1>4, RecordsFirst

LEMMA ConfirmedIsOnFileStep ==
    ASSUME TypeInv, RecordTrail, AnswersAreTrue, AnswersEnd, OneAtATime,
           ConfirmedIsOnFile, [Next]_vars
    PROVE  ConfirmedIsOnFile'
BY ToldIsOnFile, OneIsTold DEF ConfirmedIsOnFile

\* The booking a caller was told of is the one on file, under the booking_id its
\* own order came back with ('UNKNOWN_ID' if the reply named none), and it is
\* the only caller of the key who was told of one.
THEOREM ConfirmedStaysOnFile ==
    ASSUME Overlap = FALSE
    PROVE  Spec => []ConfirmedIsOnFile
<1>1. Init => ConfirmedIsOnFile
  BY DEF Init, EngineInit, ConfirmedIsOnFile
<1>2. TypeInv /\ RecordTrail /\ AnswersAreTrue /\ AnswersEnd /\ OneAtATime
          /\ ConfirmedIsOnFile /\ [Next]_vars => ConfirmedIsOnFile'
  BY ConfirmedIsOnFileStep
<1>3. Spec => []OneAtATime
  BY ConfirmsTakeTurns
<1> QED
  BY <1>1, <1>2, <1>3, TypeCorrect, RecordTrailHolds, AnswersHold,
     AnswersAreLast, PTL DEF Spec

-----------------------------------------------------------------------------
(* Cards only and one webhook request at a time: once a payment was        *)
(* learned of, neither the checkout nor another event writes its row.      *)

CardsOneByOne == DelayedMethods = FALSE /\ \A d, e \in Deliveries : d = e

\* The part of CardTrail that is about checkout, Stripe and the webhook.
OneEvent ==
    /\ \A k \in Keys : session[k] # "processing"
    /\ \A k \in Keys : session[k] = "paid" => checkout[k] = "stored"
    /\ \A k \in Keys : \A type \in EventTypes : <<k, type>> \in issued =>
        \/ type = "completed_paid" /\ session[k] = "paid"
        \/ type = "expired" /\ session[k] = "expired"
    /\ processed \subseteq issued
    /\ \A d \in Deliveries : delivery[d] \notin processed

LEMMA OneEventStep ==
    ASSUME CardsOneByOne, TypeInv, MoneyTrail, OneEvent, [Next]_vars
    PROVE  OneEvent'
<1> USE DEF TypeInv, TypeOK, PaymentTypeOK, OneEvent
<1>1. ASSUME UNCHANGED paymentVars PROVE OneEvent'
  BY <1>1 DEF paymentVars
<1>2. ASSUME NEW k \in Keys, OpenSession(k) PROVE OneEvent'
  BY <1>2 DEF OpenSession, MoneyTrail, CheckoutTrail
<1>3. ASSUME NEW k \in Keys, StoreCheckout(k) PROVE OneEvent'
  BY <1>3 DEF StoreCheckout
<1>4. ASSUME NEW k \in Keys, CheckoutFails(k) PROVE OneEvent'
  BY <1>4 DEF CheckoutFails
<1>5. ASSUME NEW k \in Keys, CustomerPays(k) PROVE OneEvent'
  BY <1>5, DeliveryAssumption
  DEF CustomerPays, LinkSent, Issue, EventTypes, MoneyTrail, EventTrail, Events
<1>6. ASSUME NEW k \in Keys,
             CustomerCommits(k) \/ MoneyArrives(k) \/ MoneyFails(k)
      PROVE  OneEvent'
  BY <1>6 DEF CardsOneByOne, CustomerCommits, MoneyArrives, MoneyFails
<1>7. ASSUME NEW k \in Keys, SessionExpires(k) PROVE OneEvent'
  BY <1>7 DEF SessionExpires, Issue, EventTypes
<1>8. ASSUME NEW d \in Deliveries, WebhookReads(d) PROVE OneEvent'
  BY <1>8 DEF WebhookReads
<1>9. ASSUME NEW d \in Deliveries, WebhookFails(d) PROVE OneEvent'
  BY <1>9, DeliveryAssumption DEF WebhookFails
<1>10. ASSUME NEW d \in Deliveries, WebhookApplies(d) PROVE OneEvent'
  <2>1. delivery'[d] = NoEvent /\ processed' \subseteq Events
    BY <1>10 DEF WebhookApplies
  <2>2. \A e \in Deliveries : delivery'[e] \notin processed'
    BY <2>1, DeliveryAssumption DEF CardsOneByOne
  <2>3. processed' \subseteq issued'
    BY <1>10 DEF WebhookApplies, MoneyTrail, EventTrail
  <2> QED
    BY <1>10, <2>2, <2>3 DEF WebhookApplies
<1> QED
  BY <1>1, <1>2, <1>3, <1>4, <1>5, <1>6, <1>7, <1>8, <1>9, <1>10, NextCases
  DEF PaymentStep, CheckoutNext, StripeNext, WebhookNext, ConfirmStep,
      CancelStep, AdminStep, vars

LEMMA LearnedStays ==
    ASSUME TypeInv, [Next]_vars, NEW k \in Keys, Learned(k) PROVE Learned(k)'
BY NextCases
DEF Learned, PaymentStep, CheckoutNext, StripeNext, WebhookNext, OpenSession,
    StoreCheckout, CheckoutFails, CustomerPays, CustomerCommits, MoneyArrives,
    MoneyFails, SessionExpires, WebhookReads, WebhookApplies, WebhookFails,
    ConfirmStep, CancelStep, AdminStep, vars, paymentVars

\* A payment learned of is written by the engine and the admin only.
LEMMA Settled ==
    ASSUME TypeInv, MoneyTrail, OneEvent, NEW k \in Keys, Learned(k)
    PROVE  /\ ~StoreCheckout(k)
           /\ \A d \in Deliveries, type \in EventTypes :
                  ~(WebhookApplies(d) /\ delivery[d] = <<k, type>>)
<1>1. session[k] = "paid" /\ checkout[k] = "stored"
  BY DEF Learned, OneEvent, EventTypes
<1>2. ASSUME NEW d \in Deliveries, NEW type \in EventTypes, WebhookApplies(d),
             delivery[d] = <<k, type>>
      PROVE  FALSE
  <2>1. <<k, type>> \in issued /\ <<k, type>> \notin processed
    BY <1>2 DEF MoneyTrail, EventTrail, OneEvent, WebhookApplies
  <2>2. type # "expired"
    BY <1>1, <2>1 DEF OneEvent
  <2> QED
    BY <2>1, <2>2 DEF OneEvent, Learned
<1> QED
  BY <1>1, <1>2 DEF StoreCheckout

\* The intent is written with the event that names it.
LEMMA IntentWriters ==
    ASSUME TypeInv, [Next]_vars, NEW k \in Keys, payments'[k].intent,
           ~payments[k].intent
    PROVE  \E d \in Deliveries, type \in EventTypes :
               /\ WebhookApplies(d) /\ delivery[d] = <<k, type>>
               /\ SetsIntent(type)
<1>1. payments \in [Keys -> PaymentRow]
  BY DEF TypeInv, TypeOK, DataTypeOK
<1>2. ASSUME NEW j \in Keys, StoreCheckout(j) PROVE FALSE
  BY <1>1, <1>2 DEF StoreCheckout, PaymentRow
<1>3. ASSUME NEW c \in ConfirmCalls, RecordRefund(c) PROVE FALSE
  BY <1>1, <1>3 DEF RecordRefund, PaymentRow
<1>4. ASSUME NEW c \in ConfirmCalls, Escalate(c) PROVE FALSE
  BY <1>1, <1>4 DEF Escalate, PaymentRow
<1>5. ASSUME NEW a \in RefundCalls, RefundRecorded(a) PROVE FALSE
  BY <1>1, <1>5 DEF RefundRecorded, PaymentRow
<1>6. PICK d \in Deliveries : WebhookApplies(d)
  BY <1>2, <1>3, <1>4, <1>5, PaymentWriters
<1>7. PICK j \in Keys, type \in EventTypes : delivery[d] = <<j, type>>
  BY <1>6 DEF TypeInv, TypeOK, PaymentTypeOK, WebhookApplies, Events
<1>8. payments' = [payments EXCEPT ![j] = AfterEvent(@, type)]
  BY <1>6, <1>7 DEF WebhookApplies
<1>9. j = k
  BY <1>1, <1>8
<1>10. payments'[k] = AfterEvent(payments[k], type)
  BY <1>1, <1>8, <1>9
<1>11. SetsIntent(type)
  BY <1>1, <1>10 DEF AfterEvent, PaymentRow, SetsIntent
<1> QED
  BY <1>6, <1>7, <1>9, <1>11

LEMMA MarkedIsLearned ==
    ASSUME CardsOneByOne, TypeInv, MoneyTrail, CardTrail, [Next]_vars,
           NEW k \in Keys,
           \/ payments'[k].intent
           \/ payments'[k].status \in {"paid", "refunded", "failed_needs_manual_review"}
    PROVE  Learned(k)'
<1>1. OneEvent
  BY DEF CardTrail, OneEvent
<1>2. CASE Learned(k)
  BY <1>2, LearnedStays
<1>3. CASE ~Learned(k)
  <2>1. /\ ~payments[k].intent
        /\ payments[k].status \notin
               {"paid", "refunded", "failed_needs_manual_review"}
    BY <1>3 DEF CardTrail
  <2>2. ASSUME NEW d \in Deliveries, NEW type \in EventTypes, WebhookApplies(d),
               delivery[d] = <<k, type>>, SetsIntent(type) \/ StatusAfter(type) = "paid"
        PROVE  Learned(k)'
    <3>1. type = "completed_paid"
      <4>1. <<k, type>> \in issued
        BY <2>2 DEF MoneyTrail, EventTrail, WebhookApplies
      <4>2. type \in {"completed_paid", "expired"}
        BY <1>1, <4>1 DEF OneEvent
      <4> QED
        BY <2>2, <4>2 DEF SetsIntent, StatusAfter
    <3> QED
      BY <2>2, <3>1 DEF WebhookApplies, Learned
  <2>3. CASE payments'[k].intent
    BY <2>1, <2>2, <2>3, IntentWriters
  <2>4. ASSUME payments'[k].status \in
                   {"paid", "refunded", "failed_needs_manual_review"}
        PROVE  Learned(k)'
    <3>1. ASSUME NEW d \in Deliveries, NEW type \in EventTypes, WebhookApplies(d),
                 delivery[d] = <<k, type>>, payments'[k].status = StatusAfter(type)
          PROVE  Learned(k)'
      <4>1. StatusAfter(type) = "paid"
        BY <2>4, <3>1 DEF StatusAfter, EventTypes
      <4> QED
        BY <2>2, <3>1, <4>1
    <3>2. ASSUME NEW c \in ConfirmCalls, RecordRefund(c) \/ Escalate(c), KeyOf[c] = k
          PROVE  FALSE
      BY <1>3, <3>2 DEF CardTrail, RecordRefund, Escalate, PastPayment
    <3>3. ASSUME NEW a \in RefundCalls, RefundRecorded(a), KeyOf[a] = k
          PROVE  FALSE
      BY <1>3, <3>3 DEF CardTrail, RefundRecorded
    <3>4. payments'[k] # payments[k] /\ payments'[k].status # "pending"
      BY <2>1, <2>4
    <3> QED
      BY <3>1, <3>2, <3>3, <3>4, StatusWriters DEF StatusMoves
  <2> QED
    BY <2>3, <2>4
<1> QED
  BY <1>2, <1>3

\* A call is past its payment when it was, or when it finds it 'paid'.
LEMMA PastOrVerified ==
    ASSUME TypeInv, [Next]_vars, NEW c \in ConfirmCalls, pc'[c] \in PastPayment
    PROVE  pc[c] \in PastPayment \/ PaymentVerified(c)
<1>1. CASE CallRests(c)
  BY <1>1 DEF CallRests
<1>2. CASE CallActs(c)
  BY <1>2
  DEF TypeInv, TypeOK, EngineTypeOK, PastPayment, CallActs, ConfirmProceeds,
      ConfirmRejects, ConfirmStarts, PaymentRefused, OfferMismatch,
      PaymentVerified, BookingExists, NoBookingYet, Tier1Books, Tier1Fails,
      Tier1TimesOut, Tier1BadReply, Tier2Books, Tier2Fails, Tier2TimesOut,
      Tier2BadReply, Tier3Refunds, Tier3Fails, Tier3TimesOut, RecordRefund,
      Escalate, RecordBooking, ConfirmDbError, ConfirmCrashes, MayStart, Goto,
      Return, Answered
<1> QED
  BY <1>1, <1>2, CallMoves

LEMMA CallsLearned ==
    ASSUME TypeInv, CardTrail, [Next]_vars, NEW c \in ConfirmCalls,
           pc'[c] \in PastPayment
    PROVE  Learned(KeyOf[c])'
<1>1. KeyOf[c] \in Keys
  BY KeysOfCalls
<1>2. Learned(KeyOf[c])
  BY <1>1, PastOrVerified DEF PaymentVerified, CardTrail
<1> QED
  BY <1>1, <1>2, LearnedStays

LEMMA RequestsLearned ==
    ASSUME TypeInv, CardTrail, [Next]_vars, NEW a \in RefundCalls,
           refundPc'[a] \in {"stripe", "write"}
    PROVE  Learned(KeyOf[a])'
<1>1. KeyOf[a] \in Keys /\ refundPc \in [RefundCalls -> RefundSteps]
  BY KeysOfCalls DEF TypeInv, TypeOK, AdminTypeOK
<1>2. CASE RefundRests(a)
  BY <1>1, <1>2, LearnedStays DEF RefundRests, CardTrail
<1>3. CASE RefundActs(a)
  <2>1. refundPc[a] \in {"stripe", "write"} \/ RefundChecked(a)
    BY <1>1, <1>3
    DEF RefundActs, RefundRefused, RefundIssued, RefundFails, RefundTimesOut,
        RefundRecorded, RefundDies, Reply
  <2>2. RefundChecked(a) => payments[KeyOf[a]].intent
    BY DEF RefundChecked, Refundable
  <2> QED
    BY <1>1, <2>1, <2>2, LearnedStays DEF CardTrail
<1> QED
  BY <1>2, <1>3, RefundMoves

LEMMA CardTrailStep ==
    ASSUME CardsOneByOne, TypeInv, MoneyTrail, CardTrail, [Next]_vars
    PROVE  CardTrail'
<1>1. OneEvent'
  BY OneEventStep DEF CardTrail, OneEvent
<1>2. \A k \in Keys :
        \/ payments'[k].intent
        \/ payments'[k].status \in {"paid", "refunded", "failed_needs_manual_review"}
        => Learned(k)'
  BY MarkedIsLearned
<1>3. \A c \in ConfirmCalls : pc'[c] \in PastPayment => Learned(KeyOf[c])'
  BY CallsLearned
<1>4. \A a \in RefundCalls :
        refundPc'[a] \in {"stripe", "write"} => Learned(KeyOf[a])'
  BY RequestsLearned
<1> QED
  BY <1>1, <1>2, <1>3, <1>4 DEF CardTrail, OneEvent, Learned

\* A session has one event, and what was paid was learned of from it.
THEOREM CardTrailHolds ==
    ASSUME CardsOneByOne
    PROVE  Spec => []CardTrail
<1>1. Init => CardTrail
  BY DeliveryAssumption
  DEF Init, DataInit, PaymentInit, EngineInit, AdminInit, CardTrail, PastPayment
<1>2. TypeInv /\ MoneyTrail /\ CardTrail /\ [Next]_vars => CardTrail'
  BY CardTrailStep
<1> QED
  BY <1>1, <1>2, TypeCorrect, MoneyTrailHolds, PTL DEF Spec

\* A payment that was refunded or escalated is not bookable again, whoever
\* overlaps and whatever fails: no late event takes it back.
THEOREM NoneResurrected ==
    ASSUME CardsOneByOne
    PROVE  Spec => NoResurrection
<1>1. ASSUME TypeInv, MoneyTrail, CardTrail, [Next]_vars, NEW k \in Keys,
             payments[k].status \in {"refunded", "failed_needs_manual_review"}
      PROVE  payments'[k].status \notin {"pending", "paid"}
  <2>1. Learned(k) /\ OneEvent
    BY <1>1 DEF CardTrail, OneEvent
  <2> QED
    BY <1>1, <2>1, Settled, StatusWriters DEF StatusMoves
<1>2. TypeInv /\ MoneyTrail /\ CardTrail /\ [Next]_vars =>
          [\A k \in Keys :
              payments[k].status \in {"refunded", "failed_needs_manual_review"} =>
                  payments'[k].status \notin {"pending", "paid"}]_vars
  BY <1>1
<1>3. Spec => []CardTrail
  BY CardTrailHolds
<1> QED
  BY <1>2, <1>3, TypeCorrect, MoneyTrailHolds, PTL DEF Spec, NoResurrection

-----------------------------------------------------------------------------
(* A refund the engine announced is the end of its key.                    *)

RefundedForGood == \A c \in ConfirmCalls : answer[c] = "refunded" =>
    /\ Learned(KeyOf[c])
    /\ payments[KeyOf[c]].status # "paid"
    /\ ~HasBooking(KeyOf[c])
    /\ \A d \in ConfirmCalls : KeyOf[d] = KeyOf[c] => pc[d] \notin PastPayment

LEMMA RefundedForGoodStep ==
    ASSUME TypeInv, MoneyTrail, RecordTrail, CardTrail, OneAtATime, AnswersEnd,
           RefundedForGood, [Next]_vars
    PROVE  RefundedForGood'
<1> SUFFICES ASSUME NEW c \in ConfirmCalls, answer'[c] = "refunded"
             PROVE  /\ Learned(KeyOf[c])'
                    /\ payments'[KeyOf[c]].status # "paid"
                    /\ ~HasBooking(KeyOf[c])'
                    /\ \A d \in ConfirmCalls :
                           KeyOf[d] = KeyOf[c] => pc'[d] \notin PastPayment
  BY DEF RefundedForGood, Learned, HasBooking
<1> DEFINE k == KeyOf[c]
<1>1. k \in Keys /\ payments \in [Keys -> PaymentRow] /\ pc \in [ConfirmCalls -> Steps]
  BY KeysOfCalls DEF TypeInv, TypeOK, DataTypeOK, EngineTypeOK
<1>2. OneEvent
  BY DEF CardTrail, OneEvent
<1> HIDE DEF k
<1>3. CASE answer[c] = "refunded" /\ CallRests(c)
  <2>1. /\ Learned(k) /\ payments[k].status # "paid" /\ ~HasBooking(k)
        /\ \A d \in ConfirmCalls : KeyOf[d] = k => pc[d] \notin PastPayment
    BY <1>3 DEF RefundedForGood, k
  <2>2. payments'[k].status # "paid"
    BY <1>1, <1>2, <2>1, Settled, StatusWriters DEF StatusMoves
  <2>3. ~HasBooking(k)'
    BY <1>1, <2>1, BookingAppears DEF RecordBooking, PastPayment
  <2>4. ASSUME NEW d \in ConfirmCalls, KeyOf[d] = k PROVE pc'[d] \notin PastPayment
    BY <2>1, <2>4, PastOrVerified DEF PaymentVerified
  <2> QED
    BY <1>1, <2>1, <2>2, <2>3, <2>4, LearnedStays DEF k
<1>4. CASE RecordRefund(c)
  <2>1. pc[c] = "record_refund" /\ UNCHANGED bookings /\ CallActs(c)
    BY <1>4 DEF RecordRefund, CallActs, ConfirmProceeds
  <2>2. Learned(k) /\ ~HasBooking(k)
    BY <2>1 DEF CardTrail, OneAtATime, PastPayment, k
  <2>3. payments'[k].status = "refunded"
    BY <1>1, <1>4 DEF RecordRefund, PaymentRow, k
  <2>4. pc'[c] = "done"
    BY <1>1, <1>4 DEF RecordRefund, Answered, Return
  <2>5. ASSUME NEW d \in ConfirmCalls, KeyOf[d] = k, d # c
        PROVE  pc'[d] \notin PastPayment
    <3>1. CallRests(d)
      BY <2>1, <2>5, OneCallActs
    <3>2. ~Running(d)
      BY <2>1, <2>5 DEF OneAtATime, Running, k
    <3> QED
      BY <3>1, <3>2 DEF CallRests, Running, PastPayment
  <2>6. ~HasBooking(k)'
    BY <2>1, <2>2 DEF HasBooking
  <2>7. Learned(k)'
    BY <1>1, <2>2, LearnedStays
  <2> QED
    BY <2>3, <2>4, <2>5, <2>6, <2>7 DEF k, PastPayment
<1> QED
  BY <1>3, <1>4, Answerers

\* After the engine's refund its key is never paid for, booked or being booked.
THEOREM RefundsAreForGood ==
    ASSUME Overlap = FALSE, CardsOneByOne
    PROVE  Spec => []RefundedForGood
<1>1. Init => RefundedForGood
  BY DEF Init, EngineInit, RefundedForGood
<1>2. TypeInv /\ MoneyTrail /\ RecordTrail /\ CardTrail /\ OneAtATime /\ AnswersEnd
          /\ RefundedForGood /\ [Next]_vars => RefundedForGood'
  BY RefundedForGoodStep
<1>3. Spec => []OneAtATime /\ []CardTrail
  BY ConfirmsTakeTurns, CardTrailHolds
<1> QED
  BY <1>1, <1>2, <1>3, TypeCorrect, MoneyTrailHolds, RecordTrailHolds,
     AnswersAreLast, PTL DEF Spec

\* A customer told of a refund has no booking, and gets none by a later call.
THEOREM RefundedAreNotBooked ==
    ASSUME Overlap = FALSE, CardsOneByOne
    PROVE  Spec => []NotBookedAndRefunded
<1>1. RefundedForGood => NotBookedAndRefunded
  BY DEF RefundedForGood, NotBookedAndRefunded
<1>2. Spec => []RefundedForGood
  BY RefundsAreForGood
<1> QED
  BY <1>1, <1>2, PTL

-----------------------------------------------------------------------------
(* The promise of the engine: every path ends booked, refunded or before a *)
(* human, where nothing dies and Amadeus's replies can be read.            *)

NothingDies == Faults \cap {"db", "crash", "bad_reply"} = {}

\* A call that has not reached Tier 1 has made no attempt.
TriesCounted == \A c \in ConfirmCalls :
    pc[c] \in {"idle", "payment", "existing"} => tries[c] = 0

LEMMA TriesCountedStep ==
    ASSUME TypeInv, TriesCounted, [Next]_vars PROVE TriesCounted'
<1> SUFFICES ASSUME NEW c \in ConfirmCalls,
                    pc'[c] \in {"idle", "payment", "existing"}
             PROVE  tries'[c] = 0
  BY DEF TriesCounted
<1>1. CASE CallRests(c)
  BY <1>1 DEF CallRests, TriesCounted
<1>2. CASE CallActs(c)
  BY <1>2
  DEF TypeInv, TypeOK, EngineTypeOK, TriesCounted, CallActs, ConfirmProceeds,
      ConfirmRejects, ConfirmStarts, PaymentRefused, OfferMismatch,
      PaymentVerified, BookingExists, NoBookingYet, Tier1Books, Tier1Fails,
      Tier1TimesOut, Tier1BadReply, Tier2Books, Tier2Fails, Tier2TimesOut,
      Tier2BadReply, Tier3Refunds, Tier3Fails, Tier3TimesOut, RecordRefund,
      Escalate, RecordBooking, ConfirmDbError, ConfirmCrashes, MayStart, Goto,
      Return, Answered, AfterFailure
<1> QED
  BY <1>1, <1>2, CallMoves

\* Booked, refunded, before a human: each of them stays.
LEMMA ResolvedStays ==
    ASSUME TypeInv, MoneyTrail, CardTrail, [Next]_vars, NEW k \in Keys, Resolved(k)
    PROVE  Resolved(k)'
<1>1. CASE HasBooking(k)
  <2>1. HasBooking(k)'
    BY <1>1, BookingStaysInStep DEF BookingStays, HasBooking
  <2> QED
    BY <2>1 DEF Resolved
<1>2. CASE Escalated(k)
  BY <1>2, EscalatedStays DEF Resolved
<1>3. CASE payments[k].status = "refunded"
  <2>1. Learned(k) /\ OneEvent
    BY <1>3 DEF CardTrail, OneEvent
  <2>2. ASSUME NEW c \in ConfirmCalls, Escalate(c), KeyOf[c] = k
        PROVE  Escalated(k)'
    BY <2>2 DEF Escalate, Escalated, TicketIds, TicketRow, TypeInv, TypeOK, DataTypeOK
  <2>3. payments'[k].status = "refunded" \/ Escalated(k)'
    BY <1>3, <2>1, <2>2, Settled, StatusWriters DEF StatusMoves
  <2> QED
    BY <2>3 DEF Resolved
<1> QED
  BY <1>1, <1>2, <1>3 DEF Resolved

LEMMA EveryPathResolvesStep ==
    ASSUME NothingDies, TypeInv, MoneyTrail, CardTrail, TriesCounted,
           EveryPathResolves, [Next]_vars
    PROVE  EveryPathResolves'
<1> SUFFICES ASSUME NEW c \in ConfirmCalls, pc'[c] = "done", tries'[c] > 0
             PROVE  Resolved(KeyOf[c])'
  BY DEF EveryPathResolves
<1>1. /\ KeyOf[c] \in Keys
      /\ pc \in [ConfirmCalls -> Steps]
      /\ payments \in [Keys -> PaymentRow]
      /\ bookings \in [Keys -> BookingRow]
      /\ tickets \in [TicketIds -> TicketRow]
  BY KeysOfCalls DEF TypeInv, TypeOK, DataTypeOK, EngineTypeOK
<1>2. CASE CallRests(c)
  BY <1>1, <1>2, ResolvedStays DEF CallRests, EveryPathResolves
<1>3. CASE CallActs(c)
  <2>1. RecordRefund(c) \/ Escalate(c) \/ RecordBooking(c)
    <3>1. ~(ConfirmRejects(c) \/ PaymentRefused(c) \/ OfferMismatch(c)
                \/ BookingExists(c))
      BY DEF ConfirmRejects, PaymentRefused, OfferMismatch, BookingExists,
             MayStart, TriesCounted
    <3>2. ~(Tier1BadReply(c) \/ Tier2BadReply(c) \/ ConfirmDbError(c)
                \/ ConfirmCrashes(c))
      BY DEF NothingDies, Tier1BadReply, Tier2BadReply, ConfirmDbError, ConfirmCrashes
    <3> QED
      BY <1>1, <1>3, <3>1, <3>2
      DEF CallActs, ConfirmProceeds, ConfirmStarts, PaymentVerified,
          NoBookingYet, Tier1Books, Tier1Fails, Tier1TimesOut, Tier2Books,
          Tier2Fails, Tier2TimesOut, Tier3Refunds, Tier3Fails, Tier3TimesOut,
          AfterFailure, Goto
  <2>2. CASE RecordRefund(c)
    BY <1>1, <2>2 DEF RecordRefund, PaymentRow, Resolved
  <2>3. CASE Escalate(c)
    BY <1>1, <2>3 DEF Escalate, Escalated, TicketIds, TicketRow, Resolved
  <2>4. CASE RecordBooking(c)
    BY <1>1, <2>4 DEF RecordBooking, AfterInsert, HasBooking, BookingRow, Resolved
  <2> QED
    BY <2>1, <2>2, <2>3, <2>4
<1> QED
  BY <1>2, <1>3, CallMoves

\* A confirmation that asked Amadeus and returned has booked its key, refunded
\* it or put it before a human, and so it stays.
THEOREM PathsResolve ==
    ASSUME CardsOneByOne, NothingDies
    PROVE  Spec => []EveryPathResolves
<1>1. Init => TriesCounted /\ EveryPathResolves
  BY DEF Init, EngineInit, TriesCounted, EveryPathResolves
<1>2. TypeInv /\ MoneyTrail /\ CardTrail /\ TriesCounted /\ EveryPathResolves
          /\ [Next]_vars => TriesCounted' /\ EveryPathResolves'
  BY TriesCountedStep, EveryPathResolvesStep
<1>3. Spec => []CardTrail
  BY CardTrailHolds
<1> QED
  BY <1>1, <1>2, <1>3, TypeCorrect, MoneyTrailHolds, PTL DEF Spec

-----------------------------------------------------------------------------
(* One charge, one order: where no order is made that its call does not    *)
(* learn of, and none is forgotten before it is recorded.                  *)

EveryOrderIsHeard ==
    Faults \cap {"order_timeout", "bad_reply", "db", "crash"} = {}

OnFile(i) == HasBooking(OrderKey(i)) /\ bookings[OrderKey(i)].order = i
InHand(i) == pc[i[1]] = "record_booking" /\ held[i[1]] = i

OrderOnFile == \A i \in OrderIds : Placed(i) => OnFile(i) \/ InHand(i)

LEMMA NewOrderInHand ==
    ASSUME EveryOrderIsHeard, TypeInv, [Next]_vars, NEW i \in OrderIds,
           ~Placed(i), Placed(i)'
    PROVE  InHand(i)'
<1>1. orders \in [OrderIds -> Order] /\ ~UNCHANGED orders
  BY DEF TypeInv, TypeOK, DataTypeOK, Placed
<1>2. ASSUME NEW c \in CancelCalls, OrderDeleted(c) \/ DeleteTimesOut(c)
      PROVE  FALSE
  BY <1>1, <1>2 DEF OrderDeleted, DeleteTimesOut, AmadeusCancels, Placed, Order
<1>3. PICK c \in ConfirmCalls : Places(c)
  BY <1>1, <1>2, OrderWriters
<1>4. Tier1Books(c) \/ Tier2Books(c)
  BY <1>3
  DEF Places, EveryOrderIsHeard, Tier1TimesOut, Tier1BadReply, Tier2TimesOut,
      Tier2BadReply
<1>5. PICK j \in OrderIds, o \in Offers :
          /\ j[1] = c /\ AmadeusPlaces(j, o)
          /\ held' = [held EXCEPT ![c] = j]
          /\ pc' = [pc EXCEPT ![c] = "record_booking"]
  <2>1. CASE Tier1Books(c)
    BY <2>1, AttemptIsOrder
    DEF Tier1Books, Attempt, NamedAs, EveryOrderIsHeard, Goto, TypeInv, TypeOK, EngineTypeOK
  <2>2. CASE Tier2Books(c)
    BY <2>2, RebookIsOrder, AlternativesAreOffers
    DEF Tier2Books, NamedAs, EveryOrderIsHeard, Goto
  <2> QED
    BY <1>4, <2>1, <2>2
<1>6. i = j
  BY <1>1, <1>5 DEF AmadeusPlaces, Placed
<1> QED
  BY <1>5, <1>6 DEF InHand, TypeInv, TypeOK, EngineTypeOK

LEMMA OrderOnFileStep ==
    ASSUME EveryOrderIsHeard, TypeInv, RecordTrail, OneAtATime, OrderOnFile,
           [Next]_vars
    PROVE  OrderOnFile'
<1> SUFFICES ASSUME NEW i \in OrderIds, Placed(i)'
             PROVE  OnFile(i)' \/ InHand(i)'
  BY DEF OrderOnFile
<1>1. /\ OrderKey(i) \in Keys /\ i[1] \in ConfirmCalls
      /\ bookings \in [Keys -> BookingRow]
  BY KeysOfCalls DEF OrderIds, OrderKey, TypeInv, TypeOK, DataTypeOK
<1>2. CASE ~Placed(i)
  BY <1>2, NewOrderInHand
<1>3. CASE OnFile(i)
  BY <1>1, <1>3, BookingStaysInStep DEF OnFile, BookingStays, HasBooking, OrderKey
<1>4. CASE InHand(i)
  <2>1. CASE CallRests(i[1])
    BY <1>4, <2>1 DEF InHand, CallRests
  <2>2. CASE CallActs(i[1])
    <3>1. RecordBooking(i[1])
      BY <1>4, <2>2
      DEF InHand, EveryOrderIsHeard, CallActs, ConfirmProceeds, ConfirmRejects,
          ConfirmStarts, PaymentRefused, OfferMismatch, PaymentVerified,
          BookingExists, NoBookingYet, Tier1Books, Tier1Fails, Tier1TimesOut,
          Tier1BadReply, Tier2Books, Tier2Fails, Tier2TimesOut, Tier2BadReply,
          Tier3Refunds, Tier3Fails, Tier3TimesOut, RecordRefund, Escalate,
          ConfirmDbError, ConfirmCrashes, MayStart
    <3>2. ~HasBooking(OrderKey(i))
      BY <1>1, <1>4 DEF InHand, OneAtATime, PastPayment, OrderKey
    <3>3. bookings'[OrderKey(i)] = AfterInsert(bookings[OrderKey(i)], i)
      BY <1>1, <1>4, <3>1 DEF RecordBooking, InHand, OrderKey
    <3> QED
      BY <1>1, <3>2, <3>3
      DEF OnFile, AfterInsert, HasBooking, BookingRow, OrderKey
  <2> QED
    BY <1>1, <2>1, <2>2, CallMoves
<1> QED
  BY <1>2, <1>3, <1>4 DEF OrderOnFile

\* Every order is on file, or in the hand of the call about to record it.
THEOREM OrdersAreOnFile ==
    ASSUME Overlap = FALSE, EveryOrderIsHeard
    PROVE  Spec => []OrderOnFile
<1>1. Init => OrderOnFile
  BY DEF Init, DataInit, OrderOnFile, Placed
<1>2. TypeInv /\ RecordTrail /\ OneAtATime /\ OrderOnFile /\ [Next]_vars
          => OrderOnFile'
  BY OrderOnFileStep
<1>3. Spec => []OneAtATime
  BY ConfirmsTakeTurns
<1> QED
  BY <1>1, <1>2, <1>3, TypeCorrect, RecordTrailHolds, PTL DEF Spec

\* One charge buys one order, whatever it was refused, retried or rebooked.
THEOREM OrdersAreSingle ==
    ASSUME Overlap = FALSE, EveryOrderIsHeard
    PROVE  Spec => []OneOrderPerCharge
<1>1. ASSUME OneAtATime, OrderOnFile PROVE OneOrderPerCharge
  <2> SUFFICES ASSUME NEW i \in OrderIds, NEW j \in OrderIds, Placed(i), Placed(j),
                      OrderKey(i) = OrderKey(j)
               PROVE  i = j
    BY DEF OneOrderPerCharge
  <2>1. ASSUME NEW n \in OrderIds, InHand(n)
        PROVE  ~HasBooking(OrderKey(n)) /\ Running(n[1]) /\ n[1] \in ConfirmCalls
    BY <1>1, <2>1
    DEF InHand, OneAtATime, Running, PastPayment, OrderKey, OrderIds
  <2>2. CASE OnFile(i) /\ OnFile(j)
    BY <2>2 DEF OnFile
  <2>3. CASE (OnFile(i) /\ InHand(j)) \/ (InHand(i) /\ OnFile(j))
    BY <2>1, <2>3 DEF OnFile
  <2>4. CASE InHand(i) /\ InHand(j)
    BY <1>1, <2>1, <2>4 DEF InHand, OneAtATime, OrderKey
  <2>5. (OnFile(i) \/ InHand(i)) /\ (OnFile(j) \/ InHand(j))
    BY <1>1 DEF OrderOnFile
  <2> QED
    BY <2>2, <2>3, <2>4, <2>5
<1>2. OneAtATime /\ OrderOnFile => OneOrderPerCharge
  BY <1>1
<1>3. Spec => []OneAtATime /\ []OrderOnFile
  BY ConfirmsTakeTurns, OrdersAreOnFile
<1> QED
  BY <1>2, <1>3, PTL

\* A customer told of a refund holds no ticket: no order of theirs is live.
THEOREM RefundedHoldNoTicket ==
    ASSUME Overlap = FALSE, CardsOneByOne, EveryOrderIsHeard
    PROVE  Spec => []NoTicketAfterRefund
<1>1. ASSUME RefundedForGood, OrderOnFile PROVE NoTicketAfterRefund
  <2> SUFFICES ASSUME NEW c \in ConfirmCalls, answer[c] = "refunded",
                      NEW i \in OrderIds, OrderKey(i) = KeyOf[c], Placed(i)
               PROVE  FALSE
    BY DEF NoTicketAfterRefund, Placed
  <2>1. i[1] \in ConfirmCalls
    BY DEF OrderIds
  <2>2. ~OnFile(i)
    BY <1>1 DEF RefundedForGood, OnFile
  <2>3. ~InHand(i)
    BY <1>1, <2>1 DEF RefundedForGood, InHand, OrderKey, PastPayment
  <2> QED
    BY <1>1, <2>2, <2>3 DEF OrderOnFile
<1>2. RefundedForGood /\ OrderOnFile => NoTicketAfterRefund
  BY <1>1
<1>3. Spec => []RefundedForGood /\ []OrderOnFile
  BY RefundsAreForGood, OrdersAreOnFile
<1> QED
  BY <1>2, <1>3, PTL

-----------------------------------------------------------------------------
(* One refund per key: where a refund that was made is always written      *)
(* down, and the admin's requests about a key do not overlap.              *)

RefundsAreWritten == Faults \cap {"db", "crash", "refund_timeout"} = {}

AtWork(a) == refundPc[a] \in {"stripe", "write"}

\* A request starts when no other of its key is at work.
LEMMA RequestsAlone ==
    ASSUME Overlap = FALSE, TypeInv, OneRefund, [Next]_vars,
           NEW a \in RefundCalls, NEW b \in RefundCalls,
           AtWork(a)', AtWork(b)', KeyOf[a] = KeyOf[b]
    PROVE  a = b
<1> SUFFICES ASSUME a # b PROVE FALSE
  OBVIOUS
<1>1. ASSUME NEW e \in RefundCalls, NEW f \in RefundCalls, e # f,
             KeyOf[e] = KeyOf[f], RefundActs(e), AtWork(e)', AtWork(f)'
      PROVE  FALSE
  <2>1. AtWork(f)
    BY <1>1, OneRequestActs DEF RefundRests, AtWork
  <2>2. ~AtWork(e)
    BY <1>1, <2>1 DEF OneRefund, AtWork
  <2>3. RefundChecked(e)
    BY <1>1, <2>2
    DEF RefundActs, RefundRefused, RefundIssued, RefundFails, RefundTimesOut,
        RefundRecorded, RefundDies, Reply, AtWork, TypeInv, TypeOK, AdminTypeOK
  <2> QED
    BY <1>1, <2>1, <2>3 DEF RefundChecked, NoneRunning, AtWork
<1>2. CASE RefundActs(a)
  BY <1>1, <1>2
<1>3. CASE RefundActs(b)
  BY <1>1, <1>3
<1>4. CASE RefundRests(a) /\ RefundRests(b)
  BY <1>4 DEF RefundRests, AtWork, OneRefund
<1> QED
  BY <1>2, <1>3, <1>4, RefundMoves

\* The refund on file when an admin's goes to Stripe is none, or all of it.
LEMMA CheckedStays ==
    ASSUME TypeInv, OneRefund, [Next]_vars, NEW a \in RefundCalls,
           refundPc'[a] = "stripe"
    PROVE  payments'[KeyOf[a]].refund \in {0, AmountTotal(KeyOf[a])}
<1>1. KeyOf[a] \in Keys /\ refundPc \in [RefundCalls -> RefundSteps]
  BY KeysOfCalls DEF TypeInv, TypeOK, AdminTypeOK
<1>2. CASE RefundChecked(a)
  BY <1>2 DEF RefundChecked, Refundable, dataVars, tables
<1>3. CASE ~RefundChecked(a)
  <2>1. refundPc[a] = "stripe"
    <3>1. CASE RefundRests(a)
      BY <3>1 DEF RefundRests
    <3>2. CASE RefundActs(a)
      BY <1>1, <1>3, <3>2
      DEF RefundActs, RefundRefused, RefundIssued, RefundFails, RefundTimesOut,
          RefundRecorded, RefundDies, Reply
    <3> QED
      BY <3>1, <3>2, RefundMoves
  <2>2. payments[KeyOf[a]].refund \in {0, AmountTotal(KeyOf[a])}
    BY <2>1 DEF OneRefund
  <2>3. ASSUME NEW b \in RefundCalls, RefundRecorded(b), KeyOf[b] = KeyOf[a]
        PROVE  FALSE
    <3>1. refundPc[b] = "write"
      BY <2>3 DEF RefundRecorded
    <3>2. a = b
      BY <2>1, <2>3, <3>1 DEF OneRefund
    <3> QED
      BY <2>1, <3>1, <3>2
  <2> QED
    BY <1>1, <2>2, <2>3, PaymentChanges
<1> QED
  BY <1>2, <1>3

\* What OneRefund says of one refund.
Single(k, amount) ==
    /\ refunded[k] = amount
    /\ \/ amount = AmountTotal(k)
       \/ payments[k].refund = amount
       \/ \E a \in RefundCalls :
            KeyOf[a] = k /\ refundPc[a] = "write" /\ asked[a] = amount

\* Stripe makes no second refund: the first one of the whole leaves nothing,
\* and one of less keeps the admin out while it is written and after.
LEMMA NoSecondRefund ==
    ASSUME TypeInv, MoneyTrail, RecordTrail, OneRefund, NEW k \in Keys,
           NEW amount \in Nat, Refunds(k, amount), amount \notin refunds[k]
    PROVE  refunds[k] = {} /\ refunded[k] = 0
<1>1. /\ refunds[k] \in SUBSET Nat /\ refunded[k] \in Nat /\ captured[k] \in Nat
      /\ AmountTotal(k) \in Nat
  BY PriceIsPositive DEF TypeInv, TypeOK, DataTypeOK
<1>2. refunded[k] + amount =< AmountTotal(k)
  <2>1. refunded[k] + amount =< captured[k]
    BY DEF Refunds, StripeRefunds, StripeAccepts
  <2>2. captured[k] = 0 \/ captured[k] = AmountTotal(k)
    BY DEF MoneyTrail, CheckoutTrail
  <2> QED
    BY <1>1, <2>1, <2>2
<1>3. amount > 0
  BY PriceIsPositive
  DEF Refunds, RefundIssued, RefundTimesOut, RecordTrail, RefundKnows
<1>4. ASSUME NEW m \in refunds[k] PROVE FALSE
  <2>1. m \in Nat /\ 0 < m /\ refunded[k] = m
    BY <1>1 DEF RecordTrail, RefundsAreCounted, OneRefund
  <2>2. m < AmountTotal(k) /\ amount < AmountTotal(k)
    BY <1>1, <1>2, <1>3, <2>1
  <2>3. PICK a \in RefundCalls :
            (RefundIssued(a) \/ RefundTimesOut(a)) /\ k = KeyOf[a]
    BY <1>1, <2>2 DEF Refunds
  <2>4. refundPc[a] = "stripe"
    BY <2>3 DEF RefundIssued, RefundTimesOut
  <2>5. payments[k].refund \in {0, AmountTotal(k)}
    BY <2>3, <2>4 DEF OneRefund
  <2>6. payments[k].refund # m /\ m # AmountTotal(k)
    BY <1>1, <2>1, <2>2, <2>5
  <2>7. PICK b \in RefundCalls : KeyOf[b] = k /\ refundPc[b] = "write"
    BY <2>6 DEF OneRefund
  <2>8. a = b
    BY <2>3, <2>4, <2>7 DEF OneRefund
  <2> QED
    BY <2>4, <2>7, <2>8
<1> QED
  BY <1>4 DEF OneRefund

\* What was said of a refund stays true: it is on file, or gets there.
LEMMA SingleStays ==
    ASSUME RefundsAreWritten, TypeInv, RecordTrail, OneRefund, [Next]_vars,
           NEW k \in Keys, refunded'[k] = refunded[k], NEW m \in refunds[k]
    PROVE  Single(k, m)'
<1>1. Single(k, m) /\ payments \in [Keys -> PaymentRow]
  BY DEF OneRefund, Single, TypeInv, TypeOK, DataTypeOK
<1>2. refunded'[k] = m
  BY <1>1 DEF Single
<1>3. CASE m = AmountTotal(k)
  BY <1>2, <1>3 DEF Single, AmountTotal
<1>4. ASSUME NEW a \in RefundCalls, RefundRecorded(a), KeyOf[a] = k
      PROVE  Single(k, m)'
  <2>1. asked[a] \in refunds[k]
    BY <1>4 DEF RefundRecorded, RecordTrail, RefundKnows
  <2>2. asked[a] = m
    BY <1>1, <2>1 DEF OneRefund, Single
  <2>3. payments'[k].refund = m
    BY <1>1, <1>4, <2>2 DEF RefundRecorded, PaymentRow
  <2> QED
    BY <1>2, <2>3 DEF Single
<1>5. CASE payments[k].refund = m
  <2>1. ASSUME NEW c \in ConfirmCalls, RecordRefund(c), KeyOf[c] = k
        PROVE  m = AmountTotal(k)
    <3>1. AmountTotal(k) \in refunds[k]
      BY <2>1 DEF RecordRefund, RecordTrail, ConfirmKnows
    <3> QED
      BY <1>1, <3>1 DEF OneRefund, Single
  <2>2. payments'[k].refund = m \/ Single(k, m)'
    BY <1>3, <1>4, <1>5, <2>1, PaymentChanges
  <2> QED
    BY <1>2, <2>2 DEF Single
<1>6. ASSUME NEW a \in RefundCalls, KeyOf[a] = k, refundPc[a] = "write", asked[a] = m
      PROVE  Single(k, m)'
  <2>1. CASE RefundRests(a)
    BY <1>2, <1>6, <2>1 DEF RefundRests, Single
  <2>2. CASE RefundActs(a)
    <3>1. RefundRecorded(a)
      BY <1>6, <2>2
      DEF RefundsAreWritten, RefundActs, RefundChecked, RefundRefused,
          RefundIssued, RefundFails, RefundTimesOut, RefundDies
    <3> QED
      BY <1>4, <1>6, <3>1
  <2> QED
    BY <2>1, <2>2, RefundMoves
<1> QED
  BY <1>1, <1>3, <1>5, <1>6 DEF Single

LEMMA LedgerStep ==
    ASSUME RefundsAreWritten, TypeInv, MoneyTrail, RecordTrail, OneRefund,
           [Next]_vars, NEW k \in Keys
    PROVE  /\ refunds'[k] = {} => refunded'[k] = 0
           /\ \A amount \in refunds'[k] : Single(k, amount)'
<1>1. /\ refunds \in [Keys -> SUBSET Nat] /\ refunded \in [Keys -> Nat]
      /\ asked \in [RefundCalls -> Nat] /\ refundPc \in [RefundCalls -> RefundSteps]
  BY DEF TypeInv, TypeOK, DataTypeOK, AdminTypeOK
<1>2. CASE refunds'[k] = refunds[k] /\ refunded'[k] = refunded[k]
  BY <1>2, SingleStays DEF OneRefund
<1>3. ASSUME NEW amount \in Nat, Refunds(k, amount), amount \notin refunds[k]
      PROVE  /\ refunds'[k] = {} => refunded'[k] = 0
             /\ \A m \in refunds'[k] : Single(k, m)'
  <2>1. refunds[k] = {} /\ refunded[k] = 0
    BY <1>3, NoSecondRefund
  <2>2. refunds'[k] = {amount} /\ refunded'[k] = amount
    BY <1>1, <1>3, <2>1 DEF Refunds, StripeRefunds
  <2>3. \/ amount = AmountTotal(k)
        \/ \E a \in RefundCalls :
             KeyOf[a] = k /\ refundPc'[a] = "write" /\ asked'[a] = amount
    BY <1>1, <1>3
    DEF Refunds, RefundIssued, RefundTimesOut, RefundsAreWritten
  <2>4. Single(k, amount)'
    BY <2>2, <2>3 DEF Single, AmountTotal
  <2> QED
    BY <2>2, <2>4
<1>4. ASSUME NEW j \in Keys, NEW amount \in Nat, Refunds(j, amount)
      PROVE  \/ refunds'[k] = refunds[k] /\ refunded'[k] = refunded[k]
             \/ j = k /\ amount \notin refunds[k]
  <2>1. CASE j = k /\ amount \in refunds[k]
    BY <1>1, <1>4, <2>1 DEF Refunds, StripeRefunds
  <2>2. CASE j # k
    BY <1>1, <1>4, <2>2 DEF Refunds, StripeRefunds
  <2> QED
    BY <2>1, <2>2
<1>5. \/ refunds'[k] = refunds[k] /\ refunded'[k] = refunded[k]
      \/ \E amount \in Nat : Refunds(k, amount) /\ amount \notin refunds[k]
  BY <1>4, RefundWriters
<1> QED
  BY <1>2, <1>3, <1>5

\* Stripe makes one refund per key, and it is of the whole, on file, or being
\* written by the one admin's request at work.
THEOREM OneRefundHolds ==
    ASSUME Overlap = FALSE, RefundsAreWritten
    PROVE  Spec => []OneRefund
<1>1. Init => OneRefund
  BY DEF Init, DataInit, AdminInit, OneRefund
<1>2. ASSUME TypeInv, MoneyTrail, RecordTrail, OneRefund, [Next]_vars
      PROVE  OneRefund'
  <2>1. \A a, b \in RefundCalls :
            AtWork(a)' /\ AtWork(b)' /\ KeyOf[a] = KeyOf[b] => a = b
    BY <1>2, RequestsAlone
  <2>2. \A a \in RefundCalls : refundPc'[a] = "stripe" =>
            payments'[KeyOf[a]].refund \in {0, AmountTotal(KeyOf[a])}
    BY <1>2, CheckedStays
  <2>3. \A k \in Keys : /\ refunds'[k] = {} => refunded'[k] = 0
                        /\ \A amount \in refunds'[k] : Single(k, amount)'
    BY <1>2, LedgerStep
  <2> QED
    BY <2>1, <2>2, <2>3 DEF OneRefund, AtWork, Single, AmountTotal
<1>3. TypeInv /\ MoneyTrail /\ RecordTrail /\ OneRefund /\ [Next]_vars => OneRefund'
  BY <1>2
<1> QED
  BY <1>1, <1>3, TypeCorrect, MoneyTrailHolds, RecordTrailHolds, PTL DEF Spec

\* The refund on file in payments is all that Stripe gave back.
THEOREM RefundsOnFileAreWhole ==
    ASSUME Overlap = FALSE, RefundsAreWritten
    PROVE  Spec => []RefundOnFileIsWhole
<1>1. OneRefund /\ RecordTrail => RefundOnFileIsWhole
  BY DEF OneRefund, RecordTrail, RefundsOnFileAreReal, RefundOnFileIsWhole
<1>2. Spec => []OneRefund
  BY OneRefundHolds
<1> QED
  BY <1>1, <1>2, RecordTrailHolds, PTL

-----------------------------------------------------------------------------
(* The engine implements the promise.  No admin is at the desk here: their *)
(* refund takes a charge, and an escalated payment, to 'refunded' by hand. *)

NoAdmin == RefundCalls = {}

\* While a call works on a payment it stays 'paid'.
ChargedStill == \A c \in ConfirmCalls :
    pc[c] \in PastPayment => payments[KeyOf[c]].status = "paid"

LEMMA ChargedStillStep ==
    ASSUME NoAdmin, TypeInv, MoneyTrail, CardTrail, OneAtATime, ChargedStill,
           [Next]_vars
    PROVE  ChargedStill'
<1> SUFFICES ASSUME NEW c \in ConfirmCalls, pc'[c] \in PastPayment
             PROVE  payments'[KeyOf[c]].status = "paid"
  BY DEF ChargedStill
<1>1. KeyOf[c] \in Keys /\ pc \in [ConfirmCalls -> Steps] /\ OneEvent
  BY KeysOfCalls DEF TypeInv, TypeOK, EngineTypeOK, CardTrail, OneEvent
<1>2. CASE PaymentVerified(c)
  BY <1>2 DEF PaymentVerified, dataVars, tables
<1>3. CASE pc[c] \in PastPayment
  <2>1. payments[KeyOf[c]].status = "paid" /\ Learned(KeyOf[c])
    BY <1>1, <1>3 DEF ChargedStill, CardTrail
  <2>2. ASSUME NEW d \in ConfirmCalls, RecordRefund(d) \/ Escalate(d),
               KeyOf[d] = KeyOf[c]
        PROVE  FALSE
    <3>1. c = d
      BY <1>3, <2>2 DEF OneAtATime, Running, PastPayment, RecordRefund, Escalate
    <3>2. pc'[d] = "done"
      BY <1>1, <2>2 DEF RecordRefund, Escalate, Answered, Return
    <3> QED
      BY <3>1, <3>2 DEF PastPayment
  <2> QED
    BY <1>1, <2>1, <2>2, Settled, StatusWriters DEF StatusMoves, NoAdmin
<1> QED
  BY <1>2, <1>3, PastOrVerified

THEOREM ChargesStandStill ==
    ASSUME Overlap = FALSE, CardsOneByOne, NoAdmin
    PROVE  Spec => []ChargedStill
<1>1. Init => ChargedStill
  BY DEF Init, EngineInit, ChargedStill, PastPayment
<1>2. TypeInv /\ MoneyTrail /\ CardTrail /\ OneAtATime /\ ChargedStill /\ [Next]_vars
          => ChargedStill'
  BY ChargedStillStep
<1>3. Spec => []OneAtATime /\ []CardTrail
  BY ConfirmsTakeTurns, CardTrailHolds
<1> QED
  BY <1>1, <1>2, <1>3, TypeCorrect, MoneyTrailHolds, PTL DEF Spec

\* What the tables say of the other keys when a step is about key k.
Elsewhere(k) == \A j \in Keys \ {k} : OutcomeOf(j)' = OutcomeOf(j)

LEMMA RowsDecide ==
    ASSUME NEW j \in Keys, payments'[j].status = payments[j].status,
           HasBooking(j)' <=> HasBooking(j)
    PROVE  OutcomeOf(j)' = OutcomeOf(j)
BY DEF OutcomeOf, HasBooking

\* An outcome moves when an event is applied, when the engine records a refund
\* or an escalation, or when it records the booking.
LEMMA OutcomeMoves ==
    ASSUME NoAdmin, TypeInv, RecordTrail, MoneyTrail, CardTrail, OneAtATime,
           ChargedStill, [Next]_vars
    PROVE  \/ \A j \in Keys : OutcomeOf(j)' = OutcomeOf(j)
           \/ \E k \in Keys :
                /\ Elsewhere(k)
                /\ \/ OutcomeOf(k) = "unpaid" /\ OutcomeOf(k)' = "charged"
                   \/ /\ OutcomeOf(k) = "charged"
                      /\ OutcomeOf(k)' \in {"booked", "refunded", "escalated"}
<1> DEFINE Stays == \A j \in Keys : OutcomeOf(j)' = OutcomeOf(j)
           Moves == \E k \in Keys :
                /\ Elsewhere(k)
                /\ \/ OutcomeOf(k) = "unpaid" /\ OutcomeOf(k)' = "charged"
                   \/ /\ OutcomeOf(k) = "charged"
                      /\ OutcomeOf(k)' \in {"booked", "refunded", "escalated"}
<1>1. /\ payments \in [Keys -> PaymentRow] /\ bookings \in [Keys -> BookingRow]
      /\ OneEvent
  BY DEF TypeInv, TypeOK, DataTypeOK, CardTrail, OneEvent
<1>2. CASE UNCHANGED payments
  <2>1. CASE \A j \in Keys : HasBooking(j)' <=> HasBooking(j)
    BY <1>2, <2>1, RowsDecide
  <2>2. ASSUME NEW k \in Keys, ~(HasBooking(k)' <=> HasBooking(k)) PROVE Moves
    <3>1. ~HasBooking(k) /\ HasBooking(k)'
      BY <2>2, BookingStaysInStep DEF BookingStays, HasBooking
    <3>2. PICK c \in ConfirmCalls : RecordBooking(c) /\ KeyOf[c] = k
      BY <3>1, BookingAppears
    <3>3. payments[k].status = "paid"
      BY <3>2 DEF RecordBooking, ChargedStill, PastPayment
    <3>4. \A j \in Keys \ {k} : bookings'[j] = bookings[j]
      BY <1>1, <3>2 DEF RecordBooking
    <3>5. Elsewhere(k)
      BY <1>2, <3>4, RowsDecide DEF Elsewhere, HasBooking
    <3>6. OutcomeOf(k) = "charged" /\ OutcomeOf(k)' = "booked"
      BY <3>1, <3>3 DEF OutcomeOf, HasBooking
    <3> QED
      BY <3>5, <3>6
  <2> QED
    BY <2>1, <2>2
<1>3. ASSUME NEW k \in Keys, StoreCheckout(k) PROVE Stays
  <2>1. payments[k].status \notin {"paid", "refunded", "failed_needs_manual_review"}
    BY <1>1, <1>3, Settled DEF CardTrail
  <2>2. payments'[k].status = "pending" /\ UNCHANGED bookings
    BY <1>1, <1>3 DEF StoreCheckout, PaymentRow
  <2>3. \A j \in Keys \ {k} : payments'[j] = payments[j]
    BY <1>1, <1>3 DEF StoreCheckout
  <2>4. OutcomeOf(k)' = OutcomeOf(k)
    BY <2>1, <2>2 DEF OutcomeOf, HasBooking
  <2> QED
    BY <2>2, <2>3, <2>4, RowsDecide DEF HasBooking
<1>4. ASSUME NEW d \in Deliveries, WebhookApplies(d) PROVE Stays \/ Moves
  <2>1. PICK k \in Keys, type \in EventTypes : delivery[d] = <<k, type>>
    BY <1>4 DEF TypeInv, TypeOK, PaymentTypeOK, WebhookApplies, Events
  <2>2. payments' = [payments EXCEPT ![k] = AfterEvent(@, type)] /\ UNCHANGED bookings
    BY <1>4, <2>1 DEF WebhookApplies
  <2>3. payments[k].status \notin {"paid", "refunded", "failed_needs_manual_review"}
    BY <1>1, <1>4, <2>1, Settled DEF CardTrail
  <2>4. type \in {"completed_paid", "expired"}
    BY <1>1, <1>4, <2>1 DEF WebhookApplies, MoneyTrail, EventTrail, OneEvent
  <2>5. Elsewhere(k)
    BY <1>1, <2>2, RowsDecide DEF Elsewhere, HasBooking
  <2>6. \/ payments'[k].status = payments[k].status
        \/ payments'[k].status = "paid"
        \/ payments'[k].status = "expired"
    BY <1>1, <2>2, <2>4 DEF AfterEvent, PaymentRow, StatusAfter
  <2>7. \/ OutcomeOf(k)' = OutcomeOf(k)
        \/ OutcomeOf(k) = "unpaid" /\ OutcomeOf(k)' = "charged"
    BY <2>2, <2>3, <2>6 DEF OutcomeOf, HasBooking
  <2> QED
    BY <2>5, <2>7 DEF Elsewhere
<1>5. ASSUME NEW c \in ConfirmCalls, RecordRefund(c) \/ Escalate(c) PROVE Moves
  <2>1. KeyOf[c] \in Keys /\ UNCHANGED bookings
    BY <1>5, KeysOfCalls DEF RecordRefund, Escalate
  <2>2. pc[c] \in {"record_refund", "tier4"}
    BY <1>5 DEF RecordRefund, Escalate
  <2>3. ~HasBooking(KeyOf[c]) /\ payments[KeyOf[c]].status = "paid"
    BY <2>2 DEF OneAtATime, ChargedStill, PastPayment
  <2>4. payments'[KeyOf[c]].status \in {"refunded", "failed_needs_manual_review"}
    <3>1. CASE RecordRefund(c)
      BY <1>1, <2>1, <3>1 DEF RecordRefund, PaymentRow
    <3>2. CASE Escalate(c)
      BY <1>1, <2>1, <3>2 DEF Escalate, PaymentRow
    <3> QED
      BY <1>5, <3>1, <3>2
  <2>5. \A j \in Keys \ {KeyOf[c]} : payments'[j] = payments[j]
    BY <1>1, <1>5 DEF RecordRefund, Escalate
  <2>6. Elsewhere(KeyOf[c])
    BY <2>1, <2>5, RowsDecide DEF Elsewhere, HasBooking
  <2>7. /\ OutcomeOf(KeyOf[c]) = "charged"
        /\ OutcomeOf(KeyOf[c])' \in {"refunded", "escalated"}
    BY <2>1, <2>3, <2>4 DEF OutcomeOf, HasBooking
  <2> QED
    BY <2>1, <2>6, <2>7
<1> QED
  BY <1>2, <1>3, <1>4, <1>5, PaymentWriters DEF NoAdmin

LEMMA PromiseInit == Init => Promise!OutcomeInit
BY DEF Init, DataInit, Promise!OutcomeInit, OutcomeOf, HasBooking

\* Every step of the tables is one of the promise, or none.
LEMMA PromiseStep ==
    ASSUME NoAdmin, TypeInv, RecordTrail, MoneyTrail, CardTrail, OneAtATime,
           ChargedStill, [Next]_vars
    PROVE  [Promise!OutcomeNext]_([k \in Keys |-> OutcomeOf(k)])
<1> DEFINE now == [k \in Keys |-> OutcomeOf(k)]
           next == [k \in Keys |-> OutcomeOf(k)']
<1>1. CASE \A j \in Keys : OutcomeOf(j)' = OutcomeOf(j)
  BY <1>1
<1>2. ASSUME NEW k \in Keys, Elsewhere(k),
             \/ OutcomeOf(k) = "unpaid" /\ OutcomeOf(k)' = "charged"
             \/ /\ OutcomeOf(k) = "charged"
                /\ OutcomeOf(k)' \in {"booked", "refunded", "escalated"}
      PROVE  Promise!OutcomeNext
  <2>1. next = [now EXCEPT ![k] = OutcomeOf(k)']
    BY <1>2 DEF Elsewhere
  <2>2. now[k] = OutcomeOf(k)
    OBVIOUS
  <2>3. \/ now[k] = "unpaid" /\ next = [now EXCEPT ![k] = "charged"]
        \/ now[k] = "charged" /\ next = [now EXCEPT ![k] = "booked"]
        \/ now[k] = "charged" /\ next = [now EXCEPT ![k] = "refunded"]
        \/ now[k] = "charged" /\ next = [now EXCEPT ![k] = "escalated"]
    BY <1>2, <2>1, <2>2
  <2> QED
    BY <2>3
    DEF Promise!OutcomeNext, Promise!Charge, Promise!Book, Promise!Refund,
        Promise!Escalate, Promise!Moves
<1> QED
  BY <1>1, <1>2, OutcomeMoves

\* The system implements CustomerOutcome: in the tables a charge ends booked,
\* refunded or escalated, exactly once, and stays so.
THEOREM PromiseKept ==
    ASSUME Overlap = FALSE, CardsOneByOne, NoAdmin
    PROVE  Spec => KeepsPromise
<1>1. Init => Promise!OutcomeInit
  BY PromiseInit
<1>2. TypeInv /\ RecordTrail /\ MoneyTrail /\ CardTrail /\ OneAtATime
          /\ ChargedStill /\ [Next]_vars
          => [Promise!OutcomeNext]_([k \in Keys |-> OutcomeOf(k)])
  BY PromiseStep
<1>3. Spec => []OneAtATime /\ []CardTrail /\ []ChargedStill
  BY ConfirmsTakeTurns, CardTrailHolds, ChargesStandStill
<1> QED
  BY <1>1, <1>2, <1>3, TypeCorrect, RecordTrailHolds, MoneyTrailHolds, PTL
  DEF Spec, KeepsPromise, Promise!OutcomeSpec
=============================================================================
