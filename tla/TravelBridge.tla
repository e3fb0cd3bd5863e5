----------------------------- MODULE TravelBridge -----------------------------
(***************************************************************************)
(* The flight purchase system: checkout and webhook, booking engine,       *)
(* cancellation and admin desk over the same tables, Stripe and Amadeus.   *)
(* Confirmations, cancellations and an admin's refunds take part when      *)
(* their sets of calls are not empty; the desk's denials always may.       *)
(***************************************************************************)
EXTENDS StripePayments, BookingEngine, BookingCancel, AdminDesk

vars == <<dataVars, paymentVars, engineVars, cancelVars, adminVars>>

Init ==
    /\ DataInit
    /\ PaymentInit
    /\ EngineInit
    /\ CancelInit
    /\ AdminInit

PaymentStep ==
    /\ CheckoutNext \/ StripeNext \/ WebhookNext
    /\ UNCHANGED <<engineVars, cancelVars, adminVars>>

ConfirmStep ==
    /\ ConfirmNext
    /\ UNCHANGED <<paymentVars, cancelVars, adminVars>>

CancelStep ==
    /\ CancelNext
    /\ UNCHANGED <<paymentVars, engineVars, adminVars>>

AdminStep ==
    /\ RefundNext \/ DeskNext
    /\ UNCHANGED <<paymentVars, engineVars, cancelVars>>

\* Nothing is left to do: every checkout was started and its session ended,
\* every event is processed, every call returned.
Finished ==
    /\ \A k \in Keys : session[k] \notin {"none", "open", "processing"}
    /\ \A k \in Keys : checkout[k] # "session"
    /\ issued \subseteq processed
    /\ \A d \in Deliveries : delivery[d] = NoEvent
    /\ \A c \in ConfirmCalls : pc[c] = "done"
    /\ \A c \in CancelCalls : cancelPc[c] = "done"
    /\ \A a \in RefundCalls : refundPc[a] = "done"
    /\ UNCHANGED vars

Next == PaymentStep \/ ConfirmStep \/ CancelStep \/ AdminStep \/ Finished

Spec == Init /\ [][Next]_vars

-----------------------------------------------------------------------------
(* Fairness.  A started handler runs on: asyncio.to_thread schedules its   *)
(* thread, and every request it makes has a timeout.  Stripe delivers an   *)
(* event again until the handler commits, so one delivery commits if       *)
(* commits are possible again and again.  Nobody has to buy, pay, confirm, *)
(* cancel or work the queue.                                               *)
Fairness ==
    /\ \A c \in ConfirmCalls :
        WF_vars(ConfirmProceeds(c) /\ UNCHANGED <<paymentVars, cancelVars, adminVars>>)
    /\ \A d \in Deliveries :
        /\ WF_vars(WebhookReads(d) /\ UNCHANGED <<engineVars, cancelVars, adminVars>>)
        /\ SF_vars(WebhookApplies(d) /\ UNCHANGED <<engineVars, cancelVars, adminVars>>)

FairSpec == Spec /\ Fairness

-----------------------------------------------------------------------------
(* Safety, whatever interleaves and whatever fails.                        *)

\* Every variable has its type.
TypeOK ==
    /\ DataTypeOK
    /\ PaymentTypeOK
    /\ EngineTypeOK
    /\ CancelTypeOK
    /\ AdminTypeOK

\* The money of a payment that can be marked 'paid' is in: the webhook handler
\* tells a completed session from a paid one (server/main.py).
PaidIsCaptured == \A k \in Keys :
    payments[k].status = "paid" => captured[k] = AmountTotal(k)

\* Nobody is charged before the payments row that will receive the event is
\* committed: the link goes out after the INSERT (tools/payment_tools.py).
NoChargeWithoutRow == \A k \in Keys : captured[k] > 0 => HasPayment(k)

\* No flight order is placed for a key whose payment Stripe has not captured
\* in full: "verify payment BEFORE touching Amadeus" in
\* _confirm_flight_booking_sync.
NoOrderWithoutPayment == \A i \in OrderIds :
    Placed(i) => captured[OrderKey(i)] = AmountTotal(OrderKey(i))

\* An order is for the very offer that was paid for or, rebooked by Tier 2,
\* for a fare of the same currency within the absorb threshold, and for as many
\* travelers as the caller listed and the paid offer, if it says, was priced for.
OrderIsPaidFor == \A i \in OrderIds : Placed(i) =>
    LET paid == Fare[OfferOf[OrderKey(i)]]
        got == Fare[orders[i].offer]
    IN  IF i[2] = Rebook
        THEN /\ got.currency = paid.currency
             /\ got.party = Listed[i[1]]
             /\ paid.party \in {0, got.party}
             /\ 100 * (got.price - paid.price) =< ThresholdPercent * paid.price
        ELSE orders[i].offer = OfferOf[OrderKey(i)]

\* A row that names an order names one that Amadeus made for the row's key, and
\* reads 'cancelled' only if Amadeus has cancelled that order.
NamedIsBacked(k) ==
    /\ bookings[k].order \in OrderIds
    /\ OrderKey(bookings[k].order) = k
    /\ Placed(bookings[k].order)
    /\ bookings[k].status = "cancelled" =>
           orders[bookings[k].order].state = "cancelled"

\* A row that says 'UNKNOWN_ID' names none.  Some order of its key is live at
\* Amadeus all the same, and the row never reads 'cancelled'.
UnnamedIsBacked(k) ==
    /\ bookings[k].order = UnknownId
    /\ bookings[k].status = "booked"
    /\ \E i \in OrderIds : OrderKey(i) = k /\ orders[i].state = "live"

\* Every travel_bookings row stands for an order that Amadeus made for its key,
\* whether the reply to that order named it or not; and what Amadeus cancelled
\* is the order on file, never another one.
BookingIsBacked ==
    /\ \A k \in Keys : HasBooking(k) => NamedIsBacked(k) \/ UnnamedIsBacked(k)
    /\ \A i \in OrderIds : orders[i].state = "cancelled" =>
           HasBooking(OrderKey(i)) /\ bookings[OrderKey(i)].order = i

\* A refund on file in either table is one that Stripe made, and a payment
\* that reads 'refunded' has one on file.
RefundsOnFileAreReal == \A k \in Keys :
    /\ payments[k].refund # 0 => payments[k].refund \in refunds[k]
    /\ bookings[k].refund # 0 => bookings[k].refund \in refunds[k]
    /\ payments[k].status = "refunded" => payments[k].refund # 0

\* A cancelled booking carries a decision about its refund, and 'full_auto'
\* means that the whole price went back, 'manual' that some of it did.
CancelledIsDecided == \A k \in Keys :
    /\ bookings[k].status = "cancelled" => bookings[k].refundStatus # "none"
    /\ bookings[k].refundStatus = "full_auto" => AmountTotal(k) \in refunds[k]
    /\ bookings[k].refundStatus = "manual" => refunded[k] > 0

\* A payment waiting for manual review was put before a human: Tier 4 writes
\* the urgent ticket and the status in one transaction.
ReviewHasTicket == \A k \in Keys :
    payments[k].status = "failed_needs_manual_review" => Escalated(k)

\* What a call told its caller is, and stays, so.
AnswersAreTrue ==
    /\ \A c \in ConfirmCalls :
        /\ answer[c] \in {"confirmed", "duplicate"} => HasBooking(KeyOf[c])
        /\ answer[c] = "refunded" => AmountTotal(KeyOf[c]) \in refunds[KeyOf[c]]
        /\ answer[c] = "escalated" => Escalated(KeyOf[c])
    /\ \A c \in CancelCalls :
        cancelAnswer[c] \in {"cancelled", "already_cancelled"} =>
            bookings[KeyOf[c]].status = "cancelled"
    /\ \A a \in RefundCalls :
        refundReply[a] = "ok" => asked[a] \in refunds[KeyOf[a]]

\* A booking row never changes its order, disappears or comes back from
\* 'cancelled': ON CONFLICT DO NOTHING and "booked -> cancelled" (schema.sql).
BookingStays == \A k \in Keys :
    /\ HasBooking(k) => bookings'[k].order = bookings[k].order
    /\ HasBooking(k) => bookings'[k].status # "absent"
    /\ bookings[k].status = "cancelled" => bookings'[k].status = "cancelled"

BookingIsFinal == [][BookingStays]_vars

\* The refund decision of a cancelled booking is changed by a human alone: a
\* second cancellation that read the row 'booked' before the first one's UPDATE
\* (which names no expected status) does not put its own decision over it.
DecisionStays == \A k \in Keys : bookings[k].status = "cancelled" =>
    \/ bookings'[k].refundStatus = bookings[k].refundStatus
    \/ bookings'[k].refundStatus \in {"manual", "denied"}

DecisionIsFinal == [][DecisionStays]_vars

-----------------------------------------------------------------------------
(* What makes NoOrderWithoutPayment inductive: the trail of the money from *)
(* Stripe's capture to the order.                                          *)

\* Until Tier 1 is over there is an attempt left to make.
AttemptsLeft == \A c \in ConfirmCalls :
    pc[c] \in {"idle", "payment", "existing", "tier1"} => tries[c] < Attempts

Paid(k) == captured[k] = AmountTotal(k)

\* Calls that have seen their payment 'paid' and their offer match.
PastPayment == {"existing", "tier1", "tier2", "tier3", "record_refund",
                "tier4", "record_booking"}

\* A session has a row once its customer can act on it, and money is captured
\* with its session.
CheckoutTrail == \A k \in Keys :
    /\ checkout[k] = "none" => session[k] = "none"
    /\ checkout[k] = "stored" => HasPayment(k)
    /\ session[k] \in {"processing", "paid"} => HasPayment(k)
    /\ captured[k] \in {0, AmountTotal(k)}
    /\ captured[k] > 0 => session[k] = "paid"

\* An event that speaks of money is issued after the capture, and only issued
\* events are delivered.
EventTrail ==
    /\ \A k \in Keys : \A type \in {"completed_paid", "async_succeeded"} :
        <<k, type>> \in issued => Paid(k)
    /\ \A d \in Deliveries : delivery[d] # NoEvent => delivery[d] \in issued

CallTrail == \A c \in ConfirmCalls : pc[c] \in PastPayment => Paid(KeyOf[c])

\* Capture, event, status, call and order: each rests on the one before it.
MoneyTrail ==
    /\ CheckoutTrail
    /\ EventTrail
    /\ PaidIsCaptured
    /\ CallTrail
    /\ NoOrderWithoutPayment

-----------------------------------------------------------------------------
(* What makes the claims about the tables inductive: what a call knows, by *)
(* the step it is at, of the ledgers it is going to write about.           *)

\* No attempt still to come, and no rebooking before Tier 2 is over, has placed
\* an order: an id is used once, so a cancelled order does not come back.
UnusedOrders == \A i \in OrderIds :
    \/ i[2] > tries[i[1]]
    \/ i[2] = Rebook /\ pc[i[1]] \in {"idle", "payment", "existing", "tier1", "tier2"}
    => ~Placed(i)

\* A booking_id as call c may have to record it: an order that c placed itself,
\* or 'UNKNOWN_ID' for one.
PlacedBy(c) == \E i \in OrderIds :
    i[1] = c /\ Placed(i) /\ held[c] \in {i, UnknownId}

\* A confirmation works on an offer that fits its travelers, past its check the
\* one that was paid for, and records an order that it placed itself.
ConfirmKnows == \A c \in ConfirmCalls :
    /\ Running(c) => Fare[offer[c]].party \in {0, Listed[c]}
    /\ pc[c] \in PastPayment => offer[c] = OfferOf[KeyOf[c]]
    /\ pc[c] = "record_booking" => PlacedBy(c)
    /\ pc[c] = "record_refund" => AmountTotal(KeyOf[c]) \in refunds[KeyOf[c]]

\* A cancellation has its booking, past the DELETE a cancelled order, and
\* past the refund a decision that the refund made bears out.
CancelKnows == \A c \in CancelCalls :
    /\ cancelPc[c] \in {"amadeus", "refund", "write"} => HasBooking(KeyOf[c])
    /\ cancelPc[c] \in {"refund", "write"} =>
           /\ OrderOf(c) # UnknownId
           /\ orders[OrderOf(c)].state = "cancelled"
    /\ cancelPc[c] = "write" =>
           /\ decision[c] \notin {"none", "manual"}
           /\ decision[c] = "full_auto" => AmountTotal(KeyOf[c]) \in refunds[KeyOf[c]]

\* An admin's refund is of a positive amount, and made before it is written.
RefundKnows == \A a \in RefundCalls :
    /\ refundPc[a] \in {"stripe", "write"} => asked[a] > 0
    /\ refundPc[a] = "write" => asked[a] \in refunds[KeyOf[a]]

RefundsAreCounted == \A k \in Keys : \A amount \in refunds[k] :
    0 < amount /\ amount =< refunded[k]

\* Orders, refunds and the rows that name them.
RecordTrail ==
    /\ UnusedOrders /\ OrderIsPaidFor /\ BookingIsBacked
    /\ RefundsAreCounted /\ RefundsOnFileAreReal /\ CancelledIsDecided
    /\ ConfirmKnows /\ CancelKnows /\ RefundKnows

\* What DecisionIsFinal rests on: Amadeus cancels an order once, so of the
\* cancellations of a key one gets past the DELETE, and until it has written its
\* UPDATE the row reads 'booked'.
OneCancels ==
    /\ \A c \in CancelCalls : cancelPc[c] \in {"refund", "write"} =>
           bookings[KeyOf[c]].status = "booked"
    /\ \A c, d \in CancelCalls :
           /\ cancelPc[c] \in {"refund", "write"} /\ cancelPc[d] \in {"refund", "write"}
           /\ KeyOf[c] = KeyOf[d]
           => c = d

-----------------------------------------------------------------------------
(* Safety when the confirmations of a key do not overlap, cards only, one  *)
(* webhook request at a time and no admin; faults as Faults says.  Which   *)
(* of these conditions each property needs, its theorem in Outcome_proofs  *)
(* says.                                                                   *)

\* The booking a caller was told about is the one on file: the row carries the
\* booking_id this call read from Amadeus's reply to an order it placed itself,
\* and no other caller of the key was told of one.  Later lookups and
\* cancellations then act on the ticket the customer holds -- unless the reply
\* did not name the order: the row says 'UNKNOWN_ID', which stands for this
\* call's order, and no cancellation can reach it.
ConfirmedIsOnFile == \A c \in ConfirmCalls : answer[c] = "confirmed" =>
    /\ bookings[KeyOf[c]].order = held[c]
    /\ PlacedBy(c)
    /\ \A d \in ConfirmCalls :
           answer[d] = "confirmed" /\ KeyOf[d] = KeyOf[c] => d = c

\* A customer whom the engine refunded is not booked as well, by this call or
\* a later one.
NotBookedAndRefunded == \A c \in ConfirmCalls :
    answer[c] = "refunded" => ~HasBooking(KeyOf[c])

\* An event recorded as processed has left its mark: the payment reads 'paid'
\* or what became of it, no crash or error in between loses it, and no other
\* event of the session takes it back.
NoPaymentLost == \A k \in Keys :
    <<k, "completed_paid">> \in processed =>
        payments[k].status \in {"paid", "refunded", "failed_needs_manual_review"}

\* 'refunded' and 'failed_needs_manual_review' are not taken back: a late
\* webhook does not make such a payment bookable again (db/schema.sql).
NoResurrection == [][\A k \in Keys :
    payments[k].status \in {"refunded", "failed_needs_manual_review"} =>
        payments'[k].status \notin {"pending", "paid"}]_vars

\* What the engine promises: once it has asked Amadeus and returned, its key
\* is booked, refunded or before a human.
Resolved(k) ==
    HasBooking(k) \/ payments[k].status = "refunded" \/ Escalated(k)

EveryPathResolves == \A c \in ConfirmCalls :
    pc[c] = "done" /\ (tries[c] > 0) => Resolved(KeyOf[c])

\* One charge buys one order.
OneOrderPerCharge == \A i, j \in OrderIds :
    Placed(i) /\ Placed(j) /\ OrderKey(i) = OrderKey(j) => i = j

\* A customer told of a refund is not left holding a ticket: without lost
\* replies no live order stands beside the engine's refund.
NoTicketAfterRefund == \A c \in ConfirmCalls :
    answer[c] = "refunded" =>
        \A i \in OrderIds : OrderKey(i) = KeyOf[c] => orders[i].state # "live"

\* What the properties above rest on.  Of two confirmations of a key one runs
\* at a time, and past its check there is no booking before it records one.
OneAtATime ==
    /\ \A c, d \in ConfirmCalls :
        Running(c) /\ Running(d) /\ KeyOf[c] = KeyOf[d] => c = d
    /\ \A c \in ConfirmCalls :
        pc[c] \in PastPayment \ {"existing"} => ~HasBooking(KeyOf[c])

Learned(k) == <<k, "completed_paid">> \in processed

\* Cards only and one webhook request at a time: a session has one event, and
\* once its payment was marked 'paid' no other is under way.
CardTrail ==
    /\ \A k \in Keys : session[k] # "processing"
    /\ \A k \in Keys : session[k] = "paid" => checkout[k] = "stored"
    /\ \A k \in Keys : \A type \in EventTypes : <<k, type>> \in issued =>
        \/ type = "completed_paid" /\ session[k] = "paid"
        \/ type = "expired" /\ session[k] = "expired"
    /\ processed \subseteq issued
    /\ \A d \in Deliveries : delivery[d] \notin processed
    /\ \A k \in Keys :
        \/ payments[k].intent
        \/ payments[k].status \in {"paid", "refunded", "failed_needs_manual_review"}
        => Learned(k)
    /\ \A c \in ConfirmCalls : pc[c] \in PastPayment => Learned(KeyOf[c])
    /\ \A a \in RefundCalls :
        refundPc[a] \in {"stripe", "write"} => Learned(KeyOf[a])

\* The tables as the customer's outcome: the engine implements the promise.
OutcomeOf(k) ==
    IF HasBooking(k) THEN "booked"
    ELSE CASE payments[k].status = "paid" -> "charged"
           [] payments[k].status = "refunded" -> "refunded"
           [] payments[k].status = "failed_needs_manual_review" -> "escalated"
           [] OTHER -> "unpaid"

Promise == INSTANCE CustomerOutcome WITH
    outcome <- [k \in Keys |-> OutcomeOf(k)]

\* Every behaviour of the tables is one of CustomerOutcome: a charge ends
\* booked, refunded or escalated, once.
KeepsPromise == Promise!OutcomeSpec

-----------------------------------------------------------------------------
(* Safety of the refunds an admin and a cancellation make, one admin       *)
(* request at a time.                                                      *)

\* The refund on file in payments is all that Stripe gave back: the check of
\* payments.refund_id and Stripe's idempotency key keep a second refund out.
RefundOnFileIsWhole == \A k \in Keys :
    payments[k].refund # 0 => refunded[k] = payments[k].refund

\* What it rests on: Stripe makes one refund per key, and one of less than the
\* whole is on file or is being written by the only admin request at work.
OneRefund ==
    /\ \A a, b \in RefundCalls :
        /\ refundPc[a] \in {"stripe", "write"} /\ refundPc[b] \in {"stripe", "write"}
        /\ KeyOf[a] = KeyOf[b]
        => a = b
    /\ \A a \in RefundCalls : refundPc[a] = "stripe" =>
        payments[KeyOf[a]].refund \in {0, AmountTotal(KeyOf[a])}
    /\ \A k \in Keys : refunds[k] = {} => refunded[k] = 0
    /\ \A k \in Keys : \A amount \in refunds[k] :
        /\ refunded[k] = amount
        /\ \/ amount = AmountTotal(k)
           \/ payments[k].refund = amount
           \/ \E a \in RefundCalls :
                KeyOf[a] = k /\ refundPc[a] = "write" /\ asked[a] = amount

\* "... so the queue and the payment/booking records never disagree"
\* (server/admin.py): what is refunded awaits no refund decision.
QueueAgrees == \A k \in Keys :
    payments[k].status = "refunded" =>
        bookings[k].refundStatus \notin {"pending_manual_review",
                                         "auto_refund_failed"}

-----------------------------------------------------------------------------
(* Liveness under Fairness.                                                *)

\* A captured payment is learned of, however many deliveries fail.
PaidIsLearned == \A k \in Keys :
    session[k] = "paid" ~> payments[k].status \notin {"absent", "pending"}

\* A confirmation that reached Amadeus resolves its key.
EngineResolves == \A c \in ConfirmCalls :
    pc[c] = "tier1" ~> Resolved(KeyOf[c])
=============================================================================
