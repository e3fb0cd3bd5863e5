---------------------------- MODULE BookingCancel -----------------------------
(***************************************************************************)
(* cancel_booking_request (tools/booking_tools.py): read the booking,      *)
(* cancel the order at Amadeus, refund it if the 24-hour / 7-day rule      *)
(* allows, and only then write the row.                                    *)
(***************************************************************************)
EXTENDS FlightData

VARIABLES
    cancelPc,       \* per call, the step it is about to take
    decision,       \* per call, the refund_status it will write
    cancelAnswer    \* per call, what it returned

cancelVars == <<cancelPc, decision, cancelAnswer>>

CancelSteps == {"idle", "amadeus", "refund", "write", "done"}
CancelAnswers == {"none", "not_found", "already_cancelled", "error",
                  "cancelled"}

CancelTypeOK ==
    /\ cancelPc \in [CancelCalls -> CancelSteps]
    /\ decision \in [CancelCalls -> RefundStatus]
    /\ cancelAnswer \in [CancelCalls -> CancelAnswers]

CancelInit ==
    /\ cancelPc = [c \in CancelCalls |-> "idle"]
    /\ decision = [c \in CancelCalls |-> "none"]
    /\ cancelAnswer = [c \in CancelCalls |-> "none"]

CancelGoto(c, step) ==
    cancelPc' = [cancelPc EXCEPT ![c] = step] /\ UNCHANGED cancelAnswer

CancelReturn(c, a) ==
    /\ cancelPc' = [cancelPc EXCEPT ![c] = "done"]
    /\ cancelAnswer' = [cancelAnswer EXCEPT ![c] = a]

\* The row's order never changes, so it is read again where it is used.
OrderOf(c) == bookings[KeyOf[c]].order

-----------------------------------------------------------------------------
\* SELECT ... FROM travel_bookings JOIN payments.
CancelNotFound(c) ==
    /\ cancelPc[c] = "idle"
    /\ ~HasBooking(KeyOf[c])
    /\ CancelReturn(c, "not_found")
    /\ UNCHANGED <<decision, dataVars>>

AlreadyCancelled(c) ==
    /\ cancelPc[c] = "idle"
    /\ bookings[KeyOf[c]].status = "cancelled"
    /\ CancelReturn(c, "already_cancelled")
    /\ UNCHANGED <<decision, dataVars>>

CancelStarts(c) ==
    /\ cancelPc[c] = "idle"
    /\ bookings[KeyOf[c]].status = "booked"
    /\ CancelGoto(c, "amadeus")
    /\ UNCHANGED <<decision, dataVars>>

\* DELETE flight-orders/{booking_id}: Amadeus cancels a live order once, and
\* has no order 'UNKNOWN_ID'.
AmadeusCancels(c) ==
    /\ OrderOf(c) # UnknownId
    /\ orders[OrderOf(c)].state = "live"
    /\ orders' = [orders EXCEPT ![OrderOf(c)].state = "cancelled"]

OrderDeleted(c) ==
    /\ cancelPc[c] = "amadeus"
    /\ AmadeusCancels(c)
    /\ CancelGoto(c, "refund")
    /\ UNCHANGED <<decision, tables, stripe>>

\* Unreachable, or a status other than 200 and 204 (the order is gone, say).
\* Slip: the status code of the DELETE is not looked at.
DeleteErrorIgnored(c) ==
    /\ cancelPc[c] = "amadeus"
    /\ CancelGoto(c, "refund")
    /\ UNCHANGED <<decision, dataVars>>

DeleteFails(c) ==
    /\ cancelPc[c] = "amadeus"
    /\ CancelReturn(c, "error")
    /\ UNCHANGED <<decision, dataVars>>

DeleteTimesOut(c) ==
    /\ "cancel_timeout" \in Faults
    /\ cancelPc[c] = "amadeus"
    /\ AmadeusCancels(c)
    /\ CancelReturn(c, "error")
    /\ UNCHANGED <<decision, tables, stripe>>

-----------------------------------------------------------------------------
\* is_eligible_for_free_cancellation is asked now, and time may have run out
\* since the customer was told: both answers are possible.
Decide(c, status) ==
    /\ decision' = [decision EXCEPT ![c] = status]
    /\ CancelGoto(c, "write")

CancelRefunds(c) ==
    /\ cancelPc[c] = "refund"
    /\ payments[KeyOf[c]].intent
    /\ StripeRefunds(KeyOf[c], AmountTotal(KeyOf[c]))
    /\ Decide(c, "full_auto")
    /\ UNCHANGED <<tables, orders>>

\* Slip: the StripeError is swallowed and the refund announced.
FailedRefundAnnounced(c) ==
    /\ cancelPc[c] = "refund"
    /\ payments[KeyOf[c]].intent
    /\ Decide(c, "full_auto")
    /\ UNCHANGED dataVars

CancelRefundFails(c) ==
    /\ cancelPc[c] = "refund"
    /\ payments[KeyOf[c]].intent
    /\ Decide(c, "auto_refund_failed")
    /\ UNCHANGED dataVars

CancelRefundTimesOut(c) ==
    /\ "refund_timeout" \in Faults
    /\ cancelPc[c] = "refund"
    /\ payments[KeyOf[c]].intent
    /\ StripeRefunds(KeyOf[c], AmountTotal(KeyOf[c]))
    /\ Decide(c, "auto_refund_failed")
    /\ UNCHANGED <<tables, orders>>

NotEligible(c) ==
    /\ cancelPc[c] = "refund"
    /\ Decide(c, "pending_manual_review")
    /\ UNCHANGED dataVars

\* The UPDATE names no expected status: whatever the row says is replaced.
AfterCancel(row, c) ==
    [row EXCEPT !.status = "cancelled",
                !.refundStatus = decision[c],
                !.refund = IF decision[c] = "full_auto"
                           THEN AmountTotal(KeyOf[c]) ELSE 0]

CancelWrites(c) ==
    /\ cancelPc[c] = "write"
    /\ bookings' = [bookings EXCEPT ![KeyOf[c]] = AfterCancel(@, c)]
    /\ \/ CancelReturn(c, "cancelled")
       \/ Faults \cap {"db", "crash"} # {} /\ CancelReturn(c, "error")
    /\ UNCHANGED <<decision, payments, tickets, orders, stripe>>

\* The connection or the process is lost: what Amadeus and Stripe did stays.
CancelDies(c) ==
    /\ \/ "db" \in Faults /\ cancelPc[c] = "write"
       \/ "crash" \in Faults /\ cancelPc[c] \in {"amadeus", "refund", "write"}
    /\ CancelReturn(c, "error")
    /\ UNCHANGED <<decision, dataVars>>

CancelNext == \E c \in CancelCalls :
    \/ CancelNotFound(c) \/ AlreadyCancelled(c) \/ CancelStarts(c)
    \/ OrderDeleted(c) \/ DeleteFails(c) \/ DeleteTimesOut(c)
    \/ CancelRefunds(c) \/ CancelRefundFails(c) \/ CancelRefundTimesOut(c)
    \/ NotEligible(c) \/ CancelWrites(c) \/ CancelDies(c)
=============================================================================
