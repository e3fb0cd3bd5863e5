------------------------------ MODULE FlightData ------------------------------
(***************************************************************************)
(* What the handlers of a flight purchase share: the PostgreSQL tables     *)
(* payments, travel_bookings and support_requests (db/schema.sql) and the  *)
(* two outside ledgers they must agree with, Stripe's and Amadeus's.       *)
(*                                                                         *)
(* A key is a payments.idempotency_key: one checkout, hence one Checkout   *)
(* Session, one payment intent and the one offer OfferOf[k] it was opened  *)
(* for (payments.offer_hash).  payments.amount_total is the price of that  *)
(* offer and no statement of the code changes it.  A row that does not     *)
(* exist is a record whose status is "absent".                             *)
(***************************************************************************)
EXTENDS Integers, FiniteSets

CONSTANTS
    Keys,               \* idempotency keys
    Offers, Fare,       \* offers, and [price, currency, party] of each
    OfferOf,            \* the offer each key's checkout was opened for
    ConfirmCalls,       \* confirm_flight_booking calls
    CancelCalls,        \* cancel_booking_request calls
    RefundCalls,        \* POST .../refund requests
    SupportCalls,       \* request_human_support calls
    KeyOf,              \* the key each call is about
    Listed,             \* how many travelers each confirmation lists
    Attempts,           \* 1 + BOOKING_RETRY_ATTEMPTS
    ThresholdPercent,   \* FARE_REBOOK_THRESHOLD_PERCENT
    Faults,             \* what may go wrong, a subset of AllFaults
    Overlap,            \* may a confirmation, or an admin's refund, of a key
                        \* start while another one of that key still runs?
    UnknownId           \* booking_id 'UNKNOWN_ID', and where there is none yet

VARIABLES
    payments,           \* payments rows
    bookings,           \* travel_bookings rows
    tickets,            \* support_requests rows
    orders,             \* Amadeus: flight orders placed
    captured,           \* Stripe: amount captured for a key's intent
    refunds,            \* Stripe: amounts refunded, one refund per amount
    refunded            \* Stripe: their total

tables == <<payments, bookings, tickets>>
stripe == <<captured, refunds, refunded>>
dataVars == <<tables, orders, stripe>>

Calls == ConfirmCalls \cup CancelCalls \cup RefundCalls \cup SupportCalls

\* db: a statement or the pool raises.  crash: the thread dies with its
\* process.  bad_reply: Amadeus books but its 2xx body cannot be used, or does
\* not name the order.
\* order_timeout, cancel_timeout, refund_timeout: the request took effect and
\* the reply never arrived.
AllFaults == {"db", "crash", "bad_reply", "order_timeout", "cancel_timeout",
              "refund_timeout"}

ASSUME DataAssumption ==
    /\ Fare \in [Offers -> [price: Nat \ {0}, currency: STRING, party: Nat]]
                \* party: the offer's travelerPricings, 0 when it lost them
    /\ OfferOf \in [Keys -> Offers]
    /\ KeyOf \in [Calls -> Keys]
    /\ Listed \in [ConfirmCalls -> Nat \ {0}]
    /\ Attempts \in Nat \ {0}
    /\ ThresholdPercent \in Nat
    /\ Faults \subseteq AllFaults
    /\ Overlap \in BOOLEAN
    /\ ConfirmCalls \cap SupportCalls = {}

-----------------------------------------------------------------------------
\* An order is named by the call that placed it and the request that did:
\* 1..Attempts are the Tier 1 attempts, 0 is the Tier 2 rebooking.
Rebook == 0
OrderIds == ConfirmCalls \X (0..Attempts)
OrderKey(i) == KeyOf[i[1]]

ASSUME UnknownIdAssumption == UnknownId \notin OrderIds

\* A ticket is named by the call that inserts it: Tier 4 of a confirmation
\* (priority urgent) or request_human_support (priority normal).
TicketIds == ConfirmCalls \cup SupportCalls

AmountTotal(k) == Fare[OfferOf[k]].price

PaymentStatus == {"pending", "paid", "failed", "expired", "refunded",
                  "failed_needs_manual_review"}
RefundStatus == {"none", "full_auto", "pending_manual_review",
                 "auto_refund_failed", "manual", "denied"}

\* refund is the refund_id and refund_amount pair, 0 for NULL: a refund's id
\* is fixed by its intent and amount (see StripeRefunds).
PaymentRow == [status: PaymentStatus \cup {"absent"}, intent: BOOLEAN,
               refund: Nat]
BookingRow == [status: {"absent", "booked", "cancelled"},
               order: OrderIds \cup {UnknownId},
               refundStatus: RefundStatus, refund: Nat]
TicketRow == [status: {"absent", "open", "in_progress", "closed"}]
Order == [state: {"absent", "live", "cancelled"}, offer: Offers]

DataTypeOK ==
    /\ payments \in [Keys -> PaymentRow]
    /\ bookings \in [Keys -> BookingRow]
    /\ tickets \in [TicketIds -> TicketRow]
    /\ orders \in [OrderIds -> Order]
    /\ captured \in [Keys -> Nat]
    /\ refunds \in [Keys -> SUBSET Nat]
    /\ refunded \in [Keys -> Nat]

DataInit ==
    /\ payments = [k \in Keys |-> [status |-> "absent", intent |-> FALSE,
                                   refund |-> 0]]
    /\ bookings = [k \in Keys |-> [status |-> "absent", order |-> UnknownId,
                                   refundStatus |-> "none", refund |-> 0]]
    /\ tickets = [t \in TicketIds |-> [status |-> "absent"]]
    /\ orders = [i \in OrderIds |->
                    [state |-> "absent", offer |-> OfferOf[OrderKey(i)]]]
    /\ captured = [k \in Keys |-> 0]
    /\ refunds = [k \in Keys |-> {}]
    /\ refunded = [k \in Keys |-> 0]

HasPayment(k) == payments[k].status # "absent"
HasBooking(k) == bookings[k].status # "absent"
Placed(i) == orders[i].state # "absent"

\* An urgent ticket, whatever its status is by now.
Escalated(k) ==
    \E t \in ConfirmCalls : KeyOf[t] = k /\ tickets[t].status # "absent"

-----------------------------------------------------------------------------
\* Amadeus accepts a POST of flight-orders: order i now exists for offer o.
AmadeusPlaces(i, o) ==
    orders' = [orders EXCEPT ![i] = [state |-> "live", offer |-> o]]

\* create_refund: Stripe refuses what would exceed the captured amount.  The
\* Stripe idempotency key is refund-<intent>-<amount>, so a second request
\* for the same amount answers with the first one's refund and moves nothing.
StripeAccepts(k, amount) ==
    \/ amount \in refunds[k]
    \/ refunded[k] + amount =< captured[k]

StripeRefunds(k, amount) ==
    /\ StripeAccepts(k, amount)
    /\ refunds' = [refunds EXCEPT ![k] = @ \cup {amount}]
    /\ refunded' = [refunded EXCEPT ![k] =
                        IF amount \in refunds[k] THEN @ ELSE @ + amount]
    /\ UNCHANGED captured
=============================================================================
