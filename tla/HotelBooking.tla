----------------------------- MODULE HotelBooking -----------------------------
(***************************************************************************)
(* confirm_hotel_booking and cancel_hotel_booking_request                  *)
(* (tools/hotel_booking_tools.py) over hotel_bookings and Amadeus's hotel  *)
(* orders.  Nothing is paid through this app, so no payment row and no     *)
(* engine stand behind a confirmation.                                     *)
(*                                                                         *)
(* A stay is an idempotency key: the digest of one offer, one guest list   *)
(* and one phone number, so equal calls are about equal stays.             *)
(***************************************************************************)
EXTENDS Naturals

CONSTANTS
    Stays,              \* idempotency keys
    Policy,             \* the payment policy each stay's offer states
    HotelConfirms,      \* confirm_hotel_booking calls
    HotelCancels,       \* cancel_hotel_booking_request calls
    StayOf,             \* the stay each call is about
    HotelFaults,        \* what may go wrong, a subset of AllHotelFaults
    HotelOverlap,       \* may confirmations of one stay overlap?
    UnknownId           \* the order id on file when the reply named none

VARIABLES
    stays,              \* hotel_bookings rows
    hotelOrders,        \* Amadeus: hotel orders, one at most per confirmation
    hotelPc,            \* per call, the step it is about to take
    named,              \* per confirmation, the order id of its reply
    hotelAnswer         \* per call, what its caller was told

hotelVars == <<stays, hotelOrders, hotelPc, named, hotelAnswer>>

HotelCalls == HotelConfirms \cup HotelCancels

\* db: a statement or the pool raises.  crash: the thread dies with its
\* process.  bad_reply: Amadeus books, but its body is no JSON or names no
\* order.  order_timeout, cancel_timeout: done, and the reply never arrived.
AllHotelFaults == {"db", "crash", "bad_reply", "order_timeout",
                   "cancel_timeout"}

\* _hotel_offer_payment_policy; None is "UNKNOWN".
Policies == {"GUARANTEE", "DEPOSIT", "PREPAY", "UNKNOWN"}

ASSUME HotelAssumption ==
    /\ Policy \in [Stays -> Policies]
    /\ StayOf \in [HotelCalls -> Stays]
    /\ HotelConfirms \cap HotelCancels = {}
    /\ HotelFaults \subseteq AllHotelFaults
    /\ HotelOverlap \in BOOLEAN
    /\ UnknownId \notin HotelConfirms

HotelSteps == {"idle", "order", "insert", "delete", "write", "done"}
HotelAnswers == {"none", "rejected", "policy_not_supported", "existing",
                 "booked", "hotel_booking_failed", "not_found", "cancelled",
                 "cancel_failed", "error"}

StayRow == [status: {"absent", "booked", "cancelled"},
            order: HotelConfirms \cup {UnknownId}]

\* Every variable has its type.
HotelTypeOK ==
    /\ stays \in [Stays -> StayRow]
    /\ hotelOrders \in [HotelConfirms -> {"absent", "live", "cancelled"}]
    /\ hotelPc \in [HotelCalls -> HotelSteps]
    /\ named \in [HotelConfirms -> HotelConfirms \cup {UnknownId}]
    /\ hotelAnswer \in [HotelCalls -> HotelAnswers]

HotelInit ==
    /\ stays = [s \in Stays |-> [status |-> "absent", order |-> UnknownId]]
    /\ hotelOrders = [c \in HotelConfirms |-> "absent"]
    /\ hotelPc = [c \in HotelCalls |-> "idle"]
    /\ named = [c \in HotelConfirms |-> UnknownId]
    /\ hotelAnswer = [c \in HotelCalls |-> "none"]

HasStay(s) == stays[s].status # "absent"
StayPlaced(c) == hotelOrders[c] # "absent"

HotelGoto(c, step) ==
    /\ hotelPc' = [hotelPc EXCEPT ![c] = step]
    /\ UNCHANGED hotelAnswer

HotelReturn(c, a) ==
    /\ hotelPc' = [hotelPc EXCEPT ![c] = "done"]
    /\ hotelAnswer' = [hotelAnswer EXCEPT ![c] = a]

\* After a commit the answer can still be lost.
HotelAnswered(c, a) ==
    \/ HotelReturn(c, a)
    \/ HotelFaults \cap {"db", "crash"} # {} /\ HotelReturn(c, "error")

-----------------------------------------------------------------------------
(* Confirmation: check the arguments, look for the stay, order, insert.    *)
(* SELECT and INSERT share a transaction that locks nothing and that is    *)
(* rolled back when its connection goes back to the pool.                  *)
MayConfirm(c) ==
    /\ hotelPc[c] = "idle"
    /\ HotelOverlap \/ \A d \in HotelConfirms :
           StayOf[d] = StayOf[c] => hotelPc[d] \in {"idle", "done"}

\* Guests, phone number or offer cannot be read.
HotelRejects(c) ==
    /\ MayConfirm(c)
    /\ HotelReturn(c, "rejected")
    /\ UNCHANGED <<stays, hotelOrders, named>>

PolicyRefused(c) ==
    /\ MayConfirm(c)
    /\ Policy[StayOf[c]] # "GUARANTEE"
    /\ HotelReturn(c, "policy_not_supported")
    /\ UNCHANGED <<stays, hotelOrders, named>>

\* A cancelled stay is returned as it is, and not booked again.
StayExists(c) ==
    /\ MayConfirm(c)
    /\ Policy[StayOf[c]] = "GUARANTEE"
    /\ HasStay(StayOf[c])
    /\ HotelReturn(c, "existing")
    /\ UNCHANGED <<stays, hotelOrders, named>>

\* Slip: the stay is not looked for.
StayIgnored(c) ==
    /\ MayConfirm(c)
    /\ Policy[StayOf[c]] = "GUARANTEE"
    /\ HotelGoto(c, "order")
    /\ UNCHANGED <<stays, hotelOrders, named>>

NoStayYet(c) ==
    /\ MayConfirm(c)
    /\ Policy[StayOf[c]] = "GUARANTEE"
    /\ ~HasStay(StayOf[c])
    /\ HotelGoto(c, "order")
    /\ UNCHANGED <<stays, hotelOrders, named>>

AmadeusTakesStay(c) ==
    /\ hotelPc[c] = "order"
    /\ hotelOrders' = [hotelOrders EXCEPT ![c] = "live"]

HotelOrdered(c) ==
    /\ AmadeusTakesStay(c)
    /\ named' = [named EXCEPT ![c] = c]
    /\ HotelGoto(c, "insert")
    /\ UNCHANGED stays

HotelRefused(c) ==
    /\ hotelPc[c] = "order"
    /\ HotelReturn(c, "hotel_booking_failed")
    /\ UNCHANGED <<stays, hotelOrders, named>>

HotelOrderTimesOut(c) ==
    /\ "order_timeout" \in HotelFaults
    /\ AmadeusTakesStay(c)
    /\ HotelReturn(c, "hotel_booking_failed")
    /\ UNCHANGED <<stays, named>>

\* Slip: a missing id has no default, and None is recorded.
NoDefaultId(c) ==
    /\ "bad_reply" \in HotelFaults
    /\ AmadeusTakesStay(c)
    /\ named' = [named EXCEPT ![c] = "None"]
    /\ HotelGoto(c, "insert")
    /\ UNCHANGED stays

\* A body that is no JSON raises; one without an id is recorded as UNKNOWN_ID.
HotelBadReply(c) ==
    /\ "bad_reply" \in HotelFaults
    /\ AmadeusTakesStay(c)
    /\ HotelReturn(c, "error") \/ HotelGoto(c, "insert")
    /\ UNCHANGED <<stays, named>>

StayInserted(c) ==
    /\ hotelPc[c] = "insert"
    /\ ~HasStay(StayOf[c])
    /\ stays' = [stays EXCEPT ![StayOf[c]] =
                     [status |-> "booked", order |-> named[c]]]
    /\ HotelAnswered(c, "booked")
    /\ UNCHANGED <<hotelOrders, named>>

\* Slip: ON CONFLICT (idempotency_key) DO NOTHING, as for flights.
ConflictIgnored(c) ==
    /\ hotelPc[c] = "insert"
    /\ HasStay(StayOf[c])
    /\ HotelReturn(c, "booked")
    /\ UNCHANGED <<stays, hotelOrders, named>>

\* idempotency_key is UNIQUE and the INSERT has no ON CONFLICT: it raises.
StayConflicts(c) ==
    /\ hotelPc[c] = "insert"
    /\ HasStay(StayOf[c])
    /\ HotelReturn(c, "error")
    /\ UNCHANGED <<stays, hotelOrders, named>>

ConfirmDies(c) ==
    /\ \/ "db" \in HotelFaults /\ MayConfirm(c) /\ Policy[StayOf[c]] = "GUARANTEE"
       \/ "db" \in HotelFaults /\ hotelPc[c] = "insert"
       \/ "crash" \in HotelFaults /\ hotelPc[c] \in {"order", "insert"}
    /\ HotelReturn(c, "error")
    /\ UNCHANGED <<stays, hotelOrders, named>>

HotelConfirmNext == \E c \in HotelConfirms :
    \/ HotelRejects(c) \/ PolicyRefused(c) \/ StayExists(c) \/ NoStayYet(c)
    \/ HotelOrdered(c) \/ HotelRefused(c)
    \/ HotelOrderTimesOut(c) \/ HotelBadReply(c)
    \/ StayInserted(c) \/ StayConflicts(c) \/ ConfirmDies(c)

-----------------------------------------------------------------------------
(* Cancellation: read the row, DELETE the order it names, write the row.   *)
StayNotFound(c) ==
    /\ hotelPc[c] = "idle"
    /\ ~HasStay(StayOf[c])
    /\ HotelReturn(c, "not_found")
    /\ UNCHANGED <<stays, hotelOrders, named>>

StayAlreadyCancelled(c) ==
    /\ hotelPc[c] = "idle"
    /\ stays[StayOf[c]].status = "cancelled"
    /\ HotelReturn(c, "cancelled")
    /\ UNCHANGED <<stays, hotelOrders, named>>

HotelCancelStarts(c) ==
    /\ hotelPc[c] = "idle"
    /\ stays[StayOf[c]].status = "booked"
    /\ HotelGoto(c, "delete")
    /\ UNCHANGED <<stays, hotelOrders, named>>

\* The row's order never changes.  Amadeus cancels a live order once, and has
\* none called UNKNOWN_ID.
AmadeusCancelsStay(c) ==
    LET order == stays[StayOf[c]].order
    IN  /\ hotelPc[c] = "delete"
        /\ order \in HotelConfirms
        /\ hotelOrders[order] = "live"
        /\ hotelOrders' = [hotelOrders EXCEPT ![order] = "cancelled"]

StayDeleted(c) ==
    /\ AmadeusCancelsStay(c)
    /\ HotelGoto(c, "write")
    /\ UNCHANGED <<stays, named>>

\* Slip: the status code of the DELETE is not looked at.
StayDeleteIgnored(c) ==
    /\ hotelPc[c] = "delete"
    /\ HotelGoto(c, "write")
    /\ UNCHANGED <<stays, hotelOrders, named>>

StayDeleteFails(c) ==
    /\ hotelPc[c] = "delete"
    /\ HotelReturn(c, "cancel_failed")
    /\ UNCHANGED <<stays, hotelOrders, named>>

StayDeleteTimesOut(c) ==
    /\ "cancel_timeout" \in HotelFaults
    /\ AmadeusCancelsStay(c)
    /\ HotelReturn(c, "cancel_failed")
    /\ UNCHANGED <<stays, named>>

StayWritten(c) ==
    /\ hotelPc[c] = "write"
    /\ stays' = [stays EXCEPT ![StayOf[c]].status = "cancelled"]
    /\ HotelAnswered(c, "cancelled")
    /\ UNCHANGED <<hotelOrders, named>>

HotelCancelDies(c) ==
    /\ \/ "db" \in HotelFaults /\ hotelPc[c] \in {"idle", "write"}
       \/ "crash" \in HotelFaults /\ hotelPc[c] \in {"delete", "write"}
    /\ HotelReturn(c, "error")
    /\ UNCHANGED <<stays, hotelOrders, named>>

HotelCancelNext == \E c \in HotelCancels :
    \/ StayNotFound(c) \/ StayAlreadyCancelled(c) \/ HotelCancelStarts(c)
    \/ StayDeleted(c) \/ StayDeleteFails(c) \/ StayDeleteTimesOut(c)
    \/ StayWritten(c) \/ HotelCancelDies(c)

AllReturned ==
    /\ \A c \in HotelCalls : hotelPc[c] = "done"
    /\ UNCHANGED hotelVars

HotelNext == HotelConfirmNext \/ HotelCancelNext \/ AllReturned

HotelSpec == HotelInit /\ [][HotelNext]_hotelVars

-----------------------------------------------------------------------------
\* A hotel_bookings row names no order but one that Amadeus made for that stay
\* under the GUARANTEE policy, and says 'cancelled' only if Amadeus cancelled it.
StayIsBacked == \A s \in Stays :
    LET order == stays[s].order
    IN  /\ HasStay(s) /\ order # UnknownId =>
               StayPlaced(order) /\ StayOf[order] = s
        /\ HasStay(s) => Policy[s] = "GUARANTEE"
        /\ stays[s].status = "cancelled" =>
               order # UnknownId /\ hotelOrders[order] = "cancelled"

\* What makes it inductive: an order exists before its row is written, and is
\* cancelled before the row says so; who has no answer yet has not returned.
HotelTrail ==
    /\ \A c \in HotelCalls : hotelPc[c] # "done" => hotelAnswer[c] = "none"
    /\ \A c \in HotelConfirms :
        /\ hotelPc[c] \in {"order", "insert"} => Policy[StayOf[c]] = "GUARANTEE"
        /\ hotelPc[c] \in {"idle", "order"} => ~StayPlaced(c)
        /\ hotelPc[c] = "insert" => StayPlaced(c)
        /\ named[c] \in {c, UnknownId}
    /\ \A c \in HotelCancels :
        /\ hotelPc[c] \in {"delete", "write"} => HasStay(StayOf[c])
        /\ hotelPc[c] = "write" =>
               /\ stays[StayOf[c]].order # UnknownId
               /\ hotelOrders[stays[StayOf[c]].order] = "cancelled"

\* A caller told of a booking is the one whose order is on file, of two that
\* raced only the winner; a caller told of a cancellation is told the truth.
HotelAnswersAreTrue ==
    /\ \A c \in HotelConfirms :
        /\ hotelAnswer[c] = "booked" =>
               HasStay(StayOf[c]) /\ stays[StayOf[c]].order = named[c]
        /\ hotelAnswer[c] = "existing" => HasStay(StayOf[c])
    /\ \A c \in HotelCancels :
        hotelAnswer[c] = "cancelled" => stays[StayOf[c]].status = "cancelled"

\* Once a caller was told of a booking, no later call with the same offer,
\* guests and phone number asks Amadeus again: the derived idempotency key.
AsksNoMore == \A c, d \in HotelConfirms :
    (/\ StayOf[c] = StayOf[d]
     /\ hotelAnswer[c] \in {"booked", "existing"}
     /\ hotelPc[d] = "idle") => hotelPc'[d] # "order"

ToldOnceBookedOnce == [][AsksNoMore]_hotelVars

\* "... an accidental retry with the same inputs naturally reuses the same
\* booking instead of creating a duplicate" (tools/hotel_booking_tools.py:24-25).
RetryReusesStay == \A c, d \in HotelConfirms :
    StayPlaced(c) /\ StayPlaced(d) /\ StayOf[c] = StayOf[d] => c = d
=============================================================================
