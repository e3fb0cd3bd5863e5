---------------------------- MODULE StripePayments ----------------------------
(***************************************************************************)
(* From a quoted fare to a paid one: create_payment_checkout               *)
(* (tools/payment_tools.py), the Checkout Session as Stripe runs it, and   *)
(* the webhook handler of server/main.py, the only writer of 'paid'.       *)
(* Stripe delivers an event at least once: until a delivery is answered    *)
(* 200, and sometimes again, in any order and several at a time.           *)
(***************************************************************************)
EXTENDS FlightData

CONSTANTS
    Deliveries,         \* webhook requests that can be in flight at once
    DelayedMethods,     \* whether a session may complete before its money is in
    NoEvent             \* "no event"

VARIABLES
    checkout,           \* per key, how far create_payment_checkout got
    session,            \* per key, the Checkout Session at Stripe
    issued,             \* Stripe's events
    processed,          \* processed_webhook_events rows
    delivery            \* per webhook request, the event it is about to apply

paymentVars == <<checkout, session, issued, processed, delivery>>

\* The (event type, payment_status) pairs the handler tells apart.
EventTypes == {"completed_paid", "completed_unpaid", "async_succeeded",
               "async_failed", "expired"}
Events == Keys \X EventTypes

ASSUME DeliveryAssumption ==
    /\ DelayedMethods \in BOOLEAN
    /\ NoEvent \notin Events

PaymentTypeOK ==
    /\ checkout \in [Keys -> {"none", "session", "stored", "failed"}]
    /\ session \in [Keys -> {"none", "open", "processing", "paid", "unpaid",
                             "expired"}]
    /\ issued \subseteq Events
    /\ processed \subseteq Events
    /\ delivery \in [Deliveries -> Events \cup {NoEvent}]

PaymentInit ==
    /\ checkout = [k \in Keys |-> "none"]
    /\ session = [k \in Keys |-> "none"]
    /\ issued = {}
    /\ processed = {}
    /\ delivery = [d \in Deliveries |-> NoEvent]

-----------------------------------------------------------------------------
\* create_payment_checkout: first the session, then the row, then the link.
OpenSession(k) ==
    /\ checkout[k] = "none"
    /\ checkout' = [checkout EXCEPT ![k] = "session"]
    /\ session' = [session EXCEPT ![k] = "open"]
    /\ UNCHANGED <<issued, processed, delivery, dataVars>>

StoreCheckout(k) ==
    /\ checkout[k] = "session"
    /\ checkout' = [checkout EXCEPT ![k] = "stored"]
    /\ payments' = [payments EXCEPT ![k].status = "pending"]
    /\ UNCHANGED <<session, issued, processed, delivery>>
    /\ UNCHANGED <<bookings, tickets, orders, stripe>>

\* The INSERT fails or the process dies: the session stays behind at Stripe.
CheckoutFails(k) ==
    /\ Faults \cap {"db", "crash"} # {}
    /\ checkout[k] = "session"
    /\ checkout' = [checkout EXCEPT ![k] = "failed"]
    /\ UNCHANGED <<session, issued, processed, delivery, dataVars>>

-----------------------------------------------------------------------------
\* Stripe.  Only the text message sent after the INSERT carries the link.
\* Slip: the link goes out as soon as the session exists.
LinkSentEarly(k) == checkout[k] \in {"session", "stored"}

LinkSent(k) == checkout[k] = "stored"

Capture(k) == captured' = [captured EXCEPT ![k] = AmountTotal(k)]

Issue(k, type) == issued' = issued \cup {<<k, type>>}

CustomerPays(k) ==
    /\ LinkSent(k) /\ session[k] = "open"
    /\ session' = [session EXCEPT ![k] = "paid"]
    /\ Capture(k) /\ Issue(k, "completed_paid")
    /\ UNCHANGED <<checkout, processed, delivery>>
    /\ UNCHANGED <<tables, orders, refunds, refunded>>

CustomerCommits(k) ==
    /\ DelayedMethods
    /\ LinkSent(k) /\ session[k] = "open"
    /\ session' = [session EXCEPT ![k] = "processing"]
    /\ Issue(k, "completed_unpaid")
    /\ UNCHANGED <<checkout, processed, delivery, dataVars>>

MoneyArrives(k) ==
    /\ session[k] = "processing"
    /\ session' = [session EXCEPT ![k] = "paid"]
    /\ Capture(k) /\ Issue(k, "async_succeeded")
    /\ UNCHANGED <<checkout, processed, delivery>>
    /\ UNCHANGED <<tables, orders, refunds, refunded>>

MoneyFails(k) ==
    /\ session[k] = "processing"
    /\ session' = [session EXCEPT ![k] = "unpaid"]
    /\ Issue(k, "async_failed")
    /\ UNCHANGED <<checkout, processed, delivery, dataVars>>

SessionExpires(k) ==
    /\ session[k] = "open"
    /\ session' = [session EXCEPT ![k] = "expired"]
    /\ Issue(k, "expired")
    /\ UNCHANGED <<checkout, processed, delivery, dataVars>>

-----------------------------------------------------------------------------
\* _process_stripe_event_sync, in two steps: the SELECT on
\* processed_webhook_events, and the UPDATE and INSERT that commit together.
\* Slip: the event is noted as processed before it is applied.
NotesEventFirst(d) ==
    /\ delivery[d] = NoEvent
    /\ \E e \in issued \ processed :
           /\ delivery' = [delivery EXCEPT ![d] = e]
           /\ processed' = processed \cup {e}
    /\ UNCHANGED <<checkout, session, issued, dataVars>>

\* Slip: the SELECT on processed_webhook_events is left out.
ReadsWithoutCheck(d) ==
    /\ delivery[d] = NoEvent
    /\ \E e \in issued : delivery' = [delivery EXCEPT ![d] = e]
    /\ UNCHANGED <<checkout, session, issued, processed, dataVars>>

WebhookReads(d) ==
    /\ delivery[d] = NoEvent
    /\ \E e \in issued \ processed : delivery' = [delivery EXCEPT ![d] = e]
    /\ UNCHANGED <<checkout, session, issued, processed, dataVars>>

\* Slip: a completed session is taken for a paid one.
CompletedIsPaid(type) ==
    CASE type = "async_failed" -> "failed"
      [] type = "expired"      -> "expired"
      [] OTHER                 -> "paid"

StatusAfter(type) ==
    CASE type \in {"completed_paid", "async_succeeded"} -> "paid"
      [] type = "completed_unpaid"                      -> "pending"
      [] type = "async_failed"                          -> "failed"
      [] type = "expired"                               -> "expired"

SetsIntent(type) ==
    type \in {"completed_paid", "completed_unpaid", "async_succeeded"}

\* The UPDATE names no expected status, and matches no row when the INSERT of
\* create_payment_checkout never happened.
AfterEvent(row, type) ==
    IF row.status = "absent" THEN row
    ELSE [row EXCEPT !.status = StatusAfter(type),
                     !.intent = @ \/ SetsIntent(type)]

WebhookApplies(d) ==
    /\ delivery[d] # NoEvent
    /\ LET k == delivery[d][1]
           type == delivery[d][2]
       IN  payments' = [payments EXCEPT ![k] = AfterEvent(@, type)]
    /\ processed' = processed \cup {delivery[d]}
    /\ delivery' = [delivery EXCEPT ![d] = NoEvent]
    /\ UNCHANGED <<checkout, session, issued>>
    /\ UNCHANGED <<bookings, tickets, orders, stripe>>

\* An error rolls back and answers 500; Stripe will deliver the event again.
WebhookFails(d) ==
    /\ Faults \cap {"db", "crash"} # {}
    /\ delivery[d] # NoEvent
    /\ delivery' = [delivery EXCEPT ![d] = NoEvent]
    /\ UNCHANGED <<checkout, session, issued, processed, dataVars>>

CheckoutNext == \E k \in Keys :
    OpenSession(k) \/ StoreCheckout(k) \/ CheckoutFails(k)

StripeNext == \E k \in Keys :
    \/ CustomerPays(k) \/ CustomerCommits(k)
    \/ MoneyArrives(k) \/ MoneyFails(k) \/ SessionExpires(k)

WebhookNext == \E d \in Deliveries :
    WebhookReads(d) \/ WebhookApplies(d) \/ WebhookFails(d)
=============================================================================
