---------------------------- MODULE BookingEngine -----------------------------
(***************************************************************************)
(* confirm_flight_booking and its four-tier failure-resolution engine      *)
(* (tools/booking_tools.py).  Each call runs in a thread of its own        *)
(* (asyncio.to_thread) and its steps are the requests and transactions it  *)
(* makes, so calls interleave between them.                                *)
(***************************************************************************)
EXTENDS FlightData

VARIABLES
    pc,         \* per call, the step it is about to take
    offer,      \* per call, the flight offer it was given
    tries,      \* per call, the Tier 1 attempts made
    held,       \* per call, the booking_id it has to record
    answer      \* per call, what its caller was told

engineVars == <<pc, offer, tries, held, answer>>

Steps == {"idle", "payment", "existing", "tier1", "tier2", "tier3",
          "record_refund", "tier4", "record_booking", "done"}
\* "error" stands for an exception, booking_exception and no answer at all.
Answers == {"none", "rejected", "payment_required", "offer_mismatch",
            "duplicate", "confirmed", "refunded", "escalated", "error"}

EngineTypeOK ==
    /\ pc \in [ConfirmCalls -> Steps]
    /\ offer \in [ConfirmCalls -> Offers]
    /\ tries \in [ConfirmCalls -> 0..Attempts]
    /\ held \in [ConfirmCalls -> OrderIds \cup {UnknownId}]
    /\ answer \in [ConfirmCalls -> Answers]

EngineInit ==
    /\ pc = [c \in ConfirmCalls |-> "idle"]
    /\ offer = [c \in ConfirmCalls |-> OfferOf[KeyOf[c]]]
    /\ tries = [c \in ConfirmCalls |-> 0]
    /\ held = [c \in ConfirmCalls |-> UnknownId]
    /\ answer = [c \in ConfirmCalls |-> "none"]

Running(c) == pc[c] \notin {"idle", "done"}

Goto(c, step) == pc' = [pc EXCEPT ![c] = step] /\ UNCHANGED answer

Return(c, a) ==
    /\ pc' = [pc EXCEPT ![c] = "done"]
    /\ answer' = [answer EXCEPT ![c] = a]

\* After a commit the answer can still be lost: the process dies, or the
\* connection does while it acknowledges the commit.
Answered(c, a) ==
    \/ Return(c, a)
    \/ Faults \cap {"db", "crash"} # {} /\ Return(c, "error")

-----------------------------------------------------------------------------
\* The arguments are checked before anything is read: the list of travelers
\* must be as long as the offer's pricings, if it still has any.
MayStart(c) ==
    /\ pc[c] = "idle"
    /\ Overlap \/ \A d \in ConfirmCalls : KeyOf[d] = KeyOf[c] => ~Running(d)

ConfirmRejects(c) ==
    /\ MayStart(c)
    /\ Return(c, "rejected")
    /\ UNCHANGED <<offer, tries, held, dataVars>>

ConfirmStarts(c) ==
    /\ MayStart(c)
    /\ \E o \in Offers :
        /\ Fare[o].party \in {0, Listed[c]}
        /\ offer' = [offer EXCEPT ![c] = o]
    /\ Goto(c, "payment")
    /\ UNCHANGED <<tries, held, dataVars>>

\* SELECT ... FROM payments.
PaymentRefused(c) ==
    /\ pc[c] = "payment"
    /\ payments[KeyOf[c]].status # "paid"
    /\ Return(c, "payment_required")
    /\ UNCHANGED <<offer, tries, held, dataVars>>

OfferMismatch(c) ==
    /\ pc[c] = "payment"
    /\ payments[KeyOf[c]].status = "paid"
    /\ offer[c] # OfferOf[KeyOf[c]]
    /\ Return(c, "offer_mismatch")
    /\ UNCHANGED <<offer, tries, held, dataVars>>

\* Slip: the payment's status is not looked at.
StatusIgnored(c) ==
    /\ pc[c] = "payment"
    /\ offer[c] = OfferOf[KeyOf[c]]
    /\ Goto(c, "existing")
    /\ UNCHANGED <<offer, tries, held, dataVars>>

\* Slip: an escalated payment may be tried again.
EscalatedPasses(c) ==
    /\ pc[c] = "payment"
    /\ payments[KeyOf[c]].status \in {"paid", "failed_needs_manual_review"}
    /\ offer[c] = OfferOf[KeyOf[c]]
    /\ Goto(c, "existing")
    /\ UNCHANGED <<offer, tries, held, dataVars>>

PaymentVerified(c) ==
    /\ pc[c] = "payment"
    /\ payments[KeyOf[c]].status = "paid"
    /\ offer[c] = OfferOf[KeyOf[c]]
    /\ Goto(c, "existing")
    /\ UNCHANGED <<offer, tries, held, dataVars>>

\* SELECT ... FROM travel_bookings; a cancelled row counts as a booking too.
BookingExists(c) ==
    /\ pc[c] = "existing"
    /\ HasBooking(KeyOf[c])
    /\ Return(c, "duplicate")
    /\ UNCHANGED <<offer, tries, held, dataVars>>

\* Slip: an existing booking is not looked for.
ExistingIgnored(c) ==
    /\ pc[c] = "existing"
    /\ Goto(c, "tier1")
    /\ UNCHANGED <<offer, tries, held, dataVars>>

NoBookingYet(c) ==
    /\ pc[c] = "existing"
    /\ ~HasBooking(KeyOf[c])
    /\ Goto(c, "tier1")
    /\ UNCHANGED <<offer, tries, held, dataVars>>

-----------------------------------------------------------------------------
\* Tier 1: POST the order, again while the failure looks transient.
Attempt(c) == <<c, tries[c] + 1>>

\* What the confirmation of an order is recorded under: its id, or the default
\* for a body without data.id.
NamedAs(i) == {i} \cup (IF "bad_reply" \in Faults THEN {UnknownId} ELSE {})

CountTry(c) == tries' = [tries EXCEPT ![c] = @ + 1]

\* Slip: one attempt too many.
OneMoreTry(c, retryable) ==
    IF retryable /\ tries[c] < Attempts THEN "tier1" ELSE "tier2"

AfterFailure(c, retryable) ==
    IF retryable /\ tries[c] + 1 < Attempts THEN "tier1" ELSE "tier2"

\* Slip: the last attempt counts as a failure whatever its reply.
LastTryLost(c) ==
    /\ pc[c] = "tier1"
    /\ AmadeusPlaces(Attempt(c), offer[c])
    /\ held' = [held EXCEPT ![c] = Attempt(c)]
    /\ CountTry(c)
    /\ Goto(c, IF tries[c] + 1 = Attempts THEN "tier2" ELSE "record_booking")
    /\ UNCHANGED <<offer, tables, stripe>>

Tier1Books(c) ==
    /\ pc[c] = "tier1"
    /\ AmadeusPlaces(Attempt(c), offer[c])
    /\ \E id \in NamedAs(Attempt(c)) : held' = [held EXCEPT ![c] = id]
    /\ CountTry(c)
    /\ Goto(c, "record_booking")
    /\ UNCHANGED <<offer, tables, stripe>>

Tier1Fails(c) ==
    /\ pc[c] = "tier1"
    /\ CountTry(c)
    /\ \E retryable \in BOOLEAN : Goto(c, AfterFailure(c, retryable))
    /\ UNCHANGED <<offer, held, dataVars>>

\* No reply within 15 seconds, yet Amadeus made the order.
Tier1TimesOut(c) ==
    /\ "order_timeout" \in Faults
    /\ pc[c] = "tier1"
    /\ AmadeusPlaces(Attempt(c), offer[c])
    /\ CountTry(c)
    /\ Goto(c, AfterFailure(c, TRUE))
    /\ UNCHANGED <<offer, held, tables, stripe>>

\* A 2xx whose body is not JSON, whose data is null or whose associatedRecords
\* are an empty list: the blanket except.  A body that merely lacks the id is
\* NamedAs's; one that lacks the records is recorded as 'UNKNOWN_REF', which no
\* property tells from a reference.
Tier1BadReply(c) ==
    /\ "bad_reply" \in Faults
    /\ pc[c] = "tier1"
    /\ AmadeusPlaces(Attempt(c), offer[c])
    /\ CountTry(c)
    /\ Return(c, "error")
    /\ UNCHANGED <<offer, held, tables, stripe>>

-----------------------------------------------------------------------------
\* Tier 2: search the same trip again, and rebook the cheapest fare found if
\* it is comparable.

\* Slip: the percentage is added as an amount.
WithinAmount(paid, alt) ==
    /\ paid > 0
    /\ alt =< paid + ThresholdPercent

WithinThreshold(paid, alt) ==
    /\ paid > 0
    /\ alt * 100 =< paid * (100 + ThresholdPercent)

Comparable(c, alt) ==
    /\ Fare[alt].currency = Fare[offer[c]].currency
    /\ WithinThreshold(Fare[offer[c]].price, Fare[alt].price)
    /\ Fare[alt].party = Listed[c]

\* min(offers, key=_offer_total): one of the lowest totals, whatever its
\* currency.
Cheapest(found) ==
    {o \in found : \A other \in found : Fare[o].price =< Fare[other].price}

Alternatives(c) ==
    {alt \in UNION {Cheapest(found) : found \in SUBSET Offers} :
        Comparable(c, alt)}

Tier2Books(c) ==
    /\ pc[c] = "tier2"
    /\ \E alt \in Alternatives(c) : AmadeusPlaces(<<c, Rebook>>, alt)
    /\ \E id \in NamedAs(<<c, Rebook>>) : held' = [held EXCEPT ![c] = id]
    /\ Goto(c, "record_booking")
    /\ UNCHANGED <<offer, tries, tables, stripe>>

\* Slip: a failed rebooking starts Tier 1 over with all its attempts.
Tier2StartsOver(c) ==
    /\ pc[c] = "tier2"
    /\ tries' = [tries EXCEPT ![c] = 0]
    /\ Goto(c, "tier1")
    /\ UNCHANGED <<offer, held, dataVars>>

\* The search failed or found nothing, its cheapest fare is not comparable,
\* or the single rebooking request failed.
Tier2Fails(c) ==
    /\ pc[c] = "tier2"
    /\ Goto(c, "tier3")
    /\ UNCHANGED <<offer, tries, held, dataVars>>

\* No reply, or a body that is JSON's null, counts as no order made.
Tier2TimesOut(c) ==
    /\ Faults \cap {"order_timeout", "bad_reply"} # {}
    /\ pc[c] = "tier2"
    /\ \E alt \in Alternatives(c) : AmadeusPlaces(<<c, Rebook>>, alt)
    /\ Goto(c, "tier3")
    /\ UNCHANGED <<offer, tries, held, tables, stripe>>

\* The body of the order cannot be used, or already that of the search.
Tier2BadReply(c) ==
    /\ "bad_reply" \in Faults
    /\ pc[c] = "tier2"
    /\ \/ \E alt \in Alternatives(c) : AmadeusPlaces(<<c, Rebook>>, alt)
       \/ UNCHANGED orders
    /\ Return(c, "error")
    /\ UNCHANGED <<offer, tries, held, tables, stripe>>

-----------------------------------------------------------------------------
\* Tier 3: refund the whole payment, then say so in payments.
Tier3Refunds(c) ==
    /\ pc[c] = "tier3"
    /\ payments[KeyOf[c]].intent
    /\ StripeRefunds(KeyOf[c], AmountTotal(KeyOf[c]))
    /\ Goto(c, "record_refund")
    /\ UNCHANGED <<offer, tries, held, tables, orders>>

\* Slip: a refund that failed is recorded as made.
RefundErrorIgnored(c) ==
    /\ pc[c] = "tier3"
    /\ Goto(c, "record_refund")
    /\ UNCHANGED <<offer, tries, held, dataVars>>

\* Slip: the StripeError is not caught.
RefundErrorEscapes(c) ==
    /\ pc[c] = "tier3"
    /\ Return(c, "error")
    /\ UNCHANGED <<offer, tries, held, dataVars>>

\* Nothing on file to refund, or a StripeError.
Tier3Fails(c) ==
    /\ pc[c] = "tier3"
    /\ Goto(c, "tier4")
    /\ UNCHANGED <<offer, tries, held, dataVars>>

\* The refund was made and its reply lost (APIConnectionError).
Tier3TimesOut(c) ==
    /\ "refund_timeout" \in Faults
    /\ pc[c] = "tier3"
    /\ payments[KeyOf[c]].intent
    /\ StripeRefunds(KeyOf[c], AmountTotal(KeyOf[c]))
    /\ Goto(c, "tier4")
    /\ UNCHANGED <<offer, tries, held, tables, orders>>

\* Slip: the refund is written without the status.
RefundLeavesPaid(c) ==
    /\ pc[c] = "record_refund"
    /\ payments' = [payments EXCEPT ![KeyOf[c]].refund = AmountTotal(KeyOf[c])]
    /\ Answered(c, "refunded")
    /\ UNCHANGED <<offer, tries, held, bookings, tickets, orders, stripe>>

RecordRefund(c) ==
    /\ pc[c] = "record_refund"
    /\ payments' = [payments EXCEPT ![KeyOf[c]] =
           [@ EXCEPT !.status = "refunded", !.refund = AmountTotal(KeyOf[c])]]
    /\ Answered(c, "refunded")
    /\ UNCHANGED <<offer, tries, held, bookings, tickets, orders, stripe>>

\* Slip: the status commits without the ticket.
EscalateWithoutTicket(c) ==
    /\ pc[c] = "tier4"
    /\ payments' = [payments EXCEPT
                        ![KeyOf[c]].status = "failed_needs_manual_review"]
    /\ Answered(c, "escalated")
    /\ UNCHANGED <<offer, tries, held, bookings, tickets, orders, stripe>>

\* Tier 4: the ticket and the payment's status in one transaction.
Escalate(c) ==
    /\ pc[c] = "tier4"
    /\ tickets' = [tickets EXCEPT ![c].status = "open"]
    /\ payments' = [payments EXCEPT
                        ![KeyOf[c]].status = "failed_needs_manual_review"]
    /\ Answered(c, "escalated")
    /\ UNCHANGED <<offer, tries, held, bookings, orders, stripe>>

\* Slip: ON CONFLICT DO UPDATE.
AfterUpsert(row, i) == [row EXCEPT !.status = "booked", !.order = i]

\* INSERT INTO travel_bookings ... ON CONFLICT (idempotency_key) DO NOTHING:
\* the first order recorded for a key stays.
AfterInsert(row, i) ==
    IF row.status # "absent" THEN row
    ELSE [row EXCEPT !.status = "booked", !.order = i]

RecordBooking(c) ==
    /\ pc[c] = "record_booking"
    /\ bookings' = [bookings EXCEPT ![KeyOf[c]] = AfterInsert(@, held[c])]
    /\ Answered(c, "confirmed")
    /\ UNCHANGED <<offer, tries, held, payments, tickets, orders, stripe>>

-----------------------------------------------------------------------------
\* The steps that need the database: an error in the first two escapes the
\* tool, in the others it ends in "booking_exception".
DatabaseSteps == {"payment", "existing", "record_refund", "tier4",
                  "record_booking"}

ConfirmDbError(c) ==
    /\ "db" \in Faults
    /\ pc[c] \in DatabaseSteps
    /\ Return(c, "error")
    /\ UNCHANGED <<offer, tries, held, dataVars>>

ConfirmCrashes(c) ==
    /\ "crash" \in Faults
    /\ Running(c)
    /\ Return(c, "error")
    /\ UNCHANGED <<offer, tries, held, dataVars>>

ConfirmProceeds(c) ==
    \/ PaymentRefused(c) \/ OfferMismatch(c) \/ PaymentVerified(c)
    \/ BookingExists(c) \/ NoBookingYet(c)
    \/ Tier1Books(c) \/ Tier1Fails(c) \/ Tier1TimesOut(c) \/ Tier1BadReply(c)
    \/ Tier2Books(c) \/ Tier2Fails(c) \/ Tier2TimesOut(c) \/ Tier2BadReply(c)
    \/ Tier3Refunds(c) \/ Tier3Fails(c) \/ Tier3TimesOut(c)
    \/ RecordRefund(c) \/ Escalate(c) \/ RecordBooking(c)

ConfirmNext == \E c \in ConfirmCalls :
    \/ ConfirmRejects(c) \/ ConfirmStarts(c)
    \/ ConfirmProceeds(c)
    \/ ConfirmDbError(c) \/ ConfirmCrashes(c)
=============================================================================
