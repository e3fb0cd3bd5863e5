------------------------------ MODULE AdminDesk -------------------------------
(***************************************************************************)
(* The human side: request_human_support (tools/support_tools.py) fills    *)
(* the queue, and the admin routes of server/admin.py empty it.  Requests  *)
(* reach several server instances, so they interleave between their        *)
(* statements and the Stripe call, with one another and with the tools.    *)
(***************************************************************************)
EXTENDS FlightData

VARIABLES
    refundPc,       \* per refund request, the step it is about to take
    asked,          \* per refund request, the amount it checked
    refundReply     \* per refund request, the HTTP reply

adminVars == <<refundPc, asked, refundReply>>

RefundSteps == {"idle", "stripe", "write", "done"}
Replies == {"none", "ok", "refused", "stripe_failed", "error"}

AdminTypeOK ==
    /\ refundPc \in [RefundCalls -> RefundSteps]
    /\ asked \in [RefundCalls -> Nat]
    /\ refundReply \in [RefundCalls -> Replies]

AdminInit ==
    /\ refundPc = [a \in RefundCalls |-> "idle"]
    /\ asked = [a \in RefundCalls |-> 0]
    /\ refundReply = [a \in RefundCalls |-> "none"]

Reply(a, r) ==
    /\ refundPc' = [refundPc EXCEPT ![a] = "done"]
    /\ refundReply' = [refundReply EXCEPT ![a] = r]

-----------------------------------------------------------------------------
\* request_human_support: the INSERT selects the booking's row, so a booking
\* there must be.
SupportRequested(t) ==
    /\ tickets[t].status = "absent"
    /\ HasBooking(KeyOf[t])
    /\ tickets' = [tickets EXCEPT ![t].status = "open"]
    /\ UNCHANGED <<payments, bookings, orders, stripe, adminVars>>

\* resolve_support_request: any ticket, and a closed one can be taken up again.
TicketResolved(t) ==
    /\ tickets[t].status # "absent"
    /\ \E new \in {"in_progress", "closed"} :
           tickets' = [tickets EXCEPT ![t].status = new]
    /\ UNCHANGED <<payments, bookings, orders, stripe, adminVars>>

\* UPDATE support_requests SET status = 'closed' WHERE status != 'closed'.
CloseTickets(k) ==
    tickets' = [t \in TicketIds |->
        IF KeyOf[t] = k /\ tickets[t].status # "absent"
        THEN [tickets[t] EXCEPT !.status = "closed"] ELSE tickets[t]]

-----------------------------------------------------------------------------
\* manual_refund: read and check the payment, refund it, write three tables.
\* body.amount is any number; one below 1 stands for all of them and one above
\* the payment for all of those.
BodyAmounts(k) == 0..(AmountTotal(k) + 1)

\* Slip: payments.refund_id is not looked at.
RefundableAgain(k, amount) ==
    /\ HasPayment(k)
    /\ payments[k].intent
    /\ amount \in 1..AmountTotal(k)

Refundable(k, amount) ==
    /\ HasPayment(k)
    /\ payments[k].refund = 0
    /\ payments[k].intent
    /\ amount \in 1..AmountTotal(k)

\* The handler awaits nothing, so one server runs one refund at a time.
NoneRunning(k) ==
    \A a \in RefundCalls : KeyOf[a] = k => refundPc[a] \in {"idle", "done"}

RefundChecked(a) ==
    /\ refundPc[a] = "idle"
    /\ Overlap \/ NoneRunning(KeyOf[a])
    /\ \E amount \in BodyAmounts(KeyOf[a]) :
           /\ Refundable(KeyOf[a], amount)
           /\ asked' = [asked EXCEPT ![a] = amount]
    /\ refundPc' = [refundPc EXCEPT ![a] = "stripe"]
    /\ UNCHANGED <<refundReply, dataVars>>

RefundRefused(a) ==
    /\ refundPc[a] = "idle"
    /\ \E amount \in BodyAmounts(KeyOf[a]) : ~Refundable(KeyOf[a], amount)
    /\ Reply(a, "refused")
    /\ UNCHANGED <<asked, dataVars>>

RefundIssued(a) ==
    /\ refundPc[a] = "stripe"
    /\ StripeRefunds(KeyOf[a], asked[a])
    /\ refundPc' = [refundPc EXCEPT ![a] = "write"]
    /\ UNCHANGED <<asked, refundReply, tables, orders>>

\* Slip: a refund Stripe refused is written down all the same.
RefusalRecorded(a) ==
    /\ refundPc[a] = "stripe"
    /\ refundPc' = [refundPc EXCEPT ![a] = "write"]
    /\ UNCHANGED <<asked, refundReply, dataVars>>

RefundFails(a) ==
    /\ refundPc[a] = "stripe"
    /\ Reply(a, "stripe_failed")
    /\ UNCHANGED <<asked, dataVars>>

RefundTimesOut(a) ==
    /\ "refund_timeout" \in Faults
    /\ refundPc[a] = "stripe"
    /\ StripeRefunds(KeyOf[a], asked[a])
    /\ Reply(a, "stripe_failed")
    /\ UNCHANGED <<asked, tables, orders>>

\* The booking is kept in step, if there is one; whatever it says is replaced.
AfterRefund(row, amount) ==
    IF row.status = "absent" THEN row
    ELSE [row EXCEPT !.refundStatus = "manual", !.refund = amount]

RefundRecorded(a) ==
    /\ refundPc[a] = "write"
    /\ payments' = [payments EXCEPT ![KeyOf[a]] =
           [@ EXCEPT !.status = "refunded", !.refund = asked[a]]]
    /\ bookings' = [bookings EXCEPT ![KeyOf[a]] = AfterRefund(@, asked[a])]
    /\ CloseTickets(KeyOf[a])
    /\ \/ Reply(a, "ok")
       \/ Faults \cap {"db", "crash"} # {} /\ Reply(a, "error")
    /\ UNCHANGED <<asked, orders, stripe>>

RefundDies(a) ==
    /\ \/ "db" \in Faults /\ refundPc[a] = "write"
       \/ "crash" \in Faults /\ refundPc[a] \in {"stripe", "write"}
    /\ Reply(a, "error")
    /\ UNCHANGED <<asked, dataVars>>

-----------------------------------------------------------------------------
\* deny_refund: one transaction; without a booking or an open ticket it
\* changes nothing and answers 404.
RefundDenied(k) ==
    /\ bookings' = [bookings EXCEPT ![k] =
           IF @.status = "absent" THEN @ ELSE [@ EXCEPT !.refundStatus = "denied"]]
    /\ CloseTickets(k)
    /\ UNCHANGED <<payments, orders, stripe, adminVars>>

RefundNext == \E a \in RefundCalls :
    \/ RefundChecked(a) \/ RefundRefused(a)
    \/ RefundIssued(a) \/ RefundFails(a) \/ RefundTimesOut(a)
    \/ RefundRecorded(a) \/ RefundDies(a)

DeskNext ==
    \/ \E t \in SupportCalls : SupportRequested(t)
    \/ \E t \in TicketIds : TicketResolved(t)
    \/ \E k \in Keys : RefundDenied(k)
=============================================================================
