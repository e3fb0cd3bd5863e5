------------------------- MODULE HotelBooking_proofs --------------------------
(***************************************************************************)
(* Theorems about HotelBooking, for every value of its constants: any      *)
(* stays, policies, calls and faults, and overlapping calls.               *)
(***************************************************************************)
EXTENDS HotelBooking, TLAPS

HotelInv ==
    /\ HotelTypeOK
    /\ StayIsBacked
    /\ HotelTrail
    /\ HotelAnswersAreTrue

LEMMA HotelInitInv == HotelInit => HotelInv
<1> SUFFICES ASSUME HotelInit PROVE HotelInv
  OBVIOUS
<1>1. HotelTypeOK
  BY DEF HotelInit, HotelTypeOK, StayRow, HotelSteps, HotelAnswers
<1>2. StayIsBacked
  BY DEF HotelInit, StayIsBacked, HasStay
<1>3. HotelTrail
  BY DEF HotelInit, HotelTrail, HotelCalls, StayPlaced
<1>4. HotelAnswersAreTrue
  BY DEF HotelInit, HotelAnswersAreTrue, HotelCalls
<1> QED
  BY <1>1, <1>2, <1>3, <1>4 DEF HotelInv

-----------------------------------------------------------------------------
(* How a call moves on.  Everything a step does to its own call is one of  *)
(* these, and no step touches another call.                                *)

\* A call goes to a step without an answer.
LEMMA GotoKeeps ==
    ASSUME HotelInv, NEW c \in HotelCalls, NEW step \in HotelSteps,
           hotelPc[c] # "done", HotelGoto(c, step)
    PROVE  /\ hotelPc' \in [HotelCalls -> HotelSteps]
           /\ hotelAnswer' \in [HotelCalls -> HotelAnswers]
           /\ hotelPc'[c] = step /\ hotelAnswer'[c] = "none"
           /\ \A d \in HotelCalls : d # c =>
                  hotelPc'[d] = hotelPc[d] /\ hotelAnswer'[d] = hotelAnswer[d]
BY DEF HotelInv, HotelTypeOK, HotelGoto, HotelTrail

\* A call returns.
LEMMA ReturnKeeps ==
    ASSUME HotelInv, NEW c \in HotelCalls, NEW a \in HotelAnswers, HotelReturn(c, a)
    PROVE  /\ hotelPc' \in [HotelCalls -> HotelSteps]
           /\ hotelAnswer' \in [HotelCalls -> HotelAnswers]
           /\ hotelPc'[c] = "done" /\ hotelAnswer'[c] = a
           /\ \A d \in HotelCalls : d # c =>
                  hotelPc'[d] = hotelPc[d] /\ hotelAnswer'[d] = hotelAnswer[d]
BY DEF HotelInv, HotelTypeOK, HotelReturn, HotelSteps

\* A call that returns without a booking or a cancellation to tell of, and
\* with nothing written, leaves the invariant alone.
LEMMA BareReturn ==
    ASSUME HotelInv, NEW c \in HotelCalls,
           NEW a \in HotelAnswers \ {"booked", "existing", "cancelled"},
           HotelReturn(c, a), UNCHANGED <<stays, hotelOrders, named>>
    PROVE  HotelInv'
<1>1. HotelTypeOK' /\ StayIsBacked'
  BY ReturnKeeps DEF HotelInv, HotelTypeOK, StayIsBacked, HasStay, StayPlaced
<1>2. HotelTrail'
  BY ReturnKeeps DEF HotelInv, HotelTrail, HasStay, StayPlaced, HotelCalls
<1>3. HotelAnswersAreTrue'
  BY ReturnKeeps DEF HotelInv, HotelAnswersAreTrue, HasStay, HotelCalls
<1> QED
  BY <1>1, <1>2, <1>3 DEF HotelInv

-----------------------------------------------------------------------------
LEMMA ConfirmKeepsInv ==
    ASSUME HotelInv, NEW c \in HotelConfirms,
           \/ HotelRejects(c) \/ PolicyRefused(c) \/ StayExists(c) \/ NoStayYet(c)
           \/ HotelOrdered(c) \/ HotelRefused(c)
           \/ HotelOrderTimesOut(c) \/ HotelBadReply(c)
           \/ StayInserted(c) \/ StayConflicts(c) \/ ConfirmDies(c)
    PROVE  HotelInv'
<1> USE HotelAssumption DEF HotelCalls
<1>1. CASE HotelRejects(c)
  BY <1>1, BareReturn DEF HotelRejects, HotelAnswers
<1>2. CASE PolicyRefused(c)
  BY <1>2, BareReturn DEF PolicyRefused, HotelAnswers
<1>3. CASE StayExists(c)
  <2>1. HotelReturn(c, "existing") /\ UNCHANGED <<stays, hotelOrders, named>>
    BY <1>3 DEF StayExists
  <2>2. HasStay(StayOf[c])
    BY <1>3 DEF StayExists
  <2>3. HotelTypeOK' /\ StayIsBacked'
    BY <2>1, ReturnKeeps
    DEF HotelInv, HotelTypeOK, StayIsBacked, HasStay, StayPlaced, HotelAnswers
  <2>4. HotelTrail'
    BY <2>1, ReturnKeeps
    DEF HotelInv, HotelTrail, HasStay, StayPlaced, HotelAnswers
  <2>5. HotelAnswersAreTrue'
    BY <2>1, <2>2, ReturnKeeps
    DEF HotelInv, HotelAnswersAreTrue, HasStay, HotelAnswers
  <2> QED
    BY <2>3, <2>4, <2>5 DEF HotelInv
<1>4. CASE NoStayYet(c)
  <2>1. /\ HotelGoto(c, "order") /\ UNCHANGED <<stays, hotelOrders, named>>
        /\ hotelPc[c] = "idle" /\ Policy[StayOf[c]] = "GUARANTEE"
    BY <1>4 DEF NoStayYet, MayConfirm
  <2>2. HotelTypeOK' /\ StayIsBacked'
    BY <2>1, GotoKeeps
    DEF HotelInv, HotelTypeOK, StayIsBacked, HasStay, StayPlaced, HotelSteps
  <2>3. HotelTrail'
    BY <2>1, GotoKeeps
    DEF HotelInv, HotelTrail, HasStay, StayPlaced, HotelSteps
  <2>4. HotelAnswersAreTrue'
    BY <2>1, GotoKeeps DEF HotelInv, HotelAnswersAreTrue, HasStay, HotelSteps
  <2> QED
    BY <2>2, <2>3, <2>4 DEF HotelInv
<1>5. ASSUME AmadeusTakesStay(c), UNCHANGED stays,
             named' = named \/ named' = [named EXCEPT ![c] = c],
             \/ HotelGoto(c, "insert")
             \/ HotelReturn(c, "error")
             \/ HotelReturn(c, "hotel_booking_failed")
      PROVE  HotelInv'
  <2>1. /\ hotelOrders' \in [HotelConfirms -> {"absent", "live", "cancelled"}]
        /\ hotelOrders'[c] = "live"
        /\ \A d \in HotelConfirms : d # c => hotelOrders'[d] = hotelOrders[d]
    BY <1>5 DEF HotelInv, HotelTypeOK, AmadeusTakesStay
  <2>2. /\ named' \in [HotelConfirms -> HotelConfirms \cup {UnknownId}]
        /\ named'[c] \in {c, UnknownId}
        /\ \A d \in HotelConfirms : d # c => named'[d] = named[d]
    BY <1>5 DEF HotelInv, HotelTypeOK, HotelTrail
  <2>3. hotelPc[c] = "order" /\ hotelAnswer[c] = "none"
    BY <1>5 DEF HotelInv, HotelTrail, AmadeusTakesStay
  <2>4. /\ hotelPc' \in [HotelCalls -> HotelSteps]
        /\ hotelAnswer' \in [HotelCalls -> HotelAnswers]
        /\ \/ hotelPc'[c] = "insert" /\ hotelAnswer'[c] = "none"
           \/ hotelPc'[c] = "done"
              /\ hotelAnswer'[c] \in {"error", "hotel_booking_failed"}
        /\ \A d \in HotelCalls : d # c =>
               hotelPc'[d] = hotelPc[d] /\ hotelAnswer'[d] = hotelAnswer[d]
    BY <1>5, <2>3, GotoKeeps, ReturnKeeps DEF HotelSteps, HotelAnswers
  <2>5. HotelTypeOK'
    BY <1>5, <2>1, <2>2, <2>4 DEF HotelInv, HotelTypeOK
  <2>6. ~StayPlaced(c)
    BY <2>3 DEF HotelInv, HotelTrail
  <2>7. \A s \in Stays : HasStay(s) => stays[s].order # c
    BY <2>6 DEF HotelInv, StayIsBacked
  <2>8. StayIsBacked'
    <3> SUFFICES ASSUME NEW s \in Stays, HasStay(s)
                 PROVE  /\ stays[s].order # UnknownId =>
                               /\ hotelOrders'[stays[s].order] # "absent"
                               /\ StayOf[stays[s].order] = s
                        /\ Policy[s] = "GUARANTEE"
                        /\ stays[s].status = "cancelled" =>
                               /\ stays[s].order # UnknownId
                               /\ hotelOrders'[stays[s].order] = "cancelled"
      BY <1>5 DEF StayIsBacked, StayPlaced, HasStay
    <3>1. stays[s].order \in HotelConfirms \cup {UnknownId}
      BY DEF HotelInv, HotelTypeOK, StayRow
    <3> QED
      BY <2>1, <2>7, <3>1 DEF HotelInv, StayIsBacked, StayPlaced
  <2>9. HotelTrail'
    <3>1. \A d \in HotelCancels : hotelPc'[d] = "write" =>
              /\ stays[StayOf[d]].order # UnknownId
              /\ hotelOrders'[stays[StayOf[d]].order] = "cancelled"
      <4> SUFFICES ASSUME NEW d \in HotelCancels, hotelPc'[d] = "write"
                   PROVE  /\ stays[StayOf[d]].order # UnknownId
                          /\ hotelOrders'[stays[StayOf[d]].order] = "cancelled"
        OBVIOUS
      <4>1. HasStay(StayOf[d]) /\ hotelPc[d] = "write"
        BY <2>4 DEF HotelInv, HotelTrail
      <4>2. stays[StayOf[d]].order \in HotelConfirms \cup {UnknownId}
        BY DEF HotelInv, HotelTypeOK, StayRow
      <4> QED
        BY <2>1, <2>7, <4>1, <4>2 DEF HotelInv, HotelTrail
    <3>2. \A d \in HotelConfirms :
              /\ hotelPc'[d] \in {"idle", "order"} => hotelOrders'[d] = "absent"
              /\ hotelPc'[d] = "insert" => hotelOrders'[d] # "absent"
              /\ named'[d] \in {d, UnknownId}
      BY <2>1, <2>2, <2>4 DEF HotelInv, HotelTrail, StayPlaced
    <3>3. \A d \in HotelConfirms : hotelPc'[d] \in {"order", "insert"} =>
              Policy[StayOf[d]] = "GUARANTEE"
      BY <2>3, <2>4 DEF HotelInv, HotelTrail
    <3>4. \A d \in HotelCalls : hotelPc'[d] # "done" => hotelAnswer'[d] = "none"
      BY <2>4 DEF HotelInv, HotelTrail
    <3>5. \A d \in HotelCancels : hotelPc'[d] \in {"delete", "write"} =>
              HasStay(StayOf[d])
      BY <2>4 DEF HotelInv, HotelTrail
    <3> QED
      BY <1>5, <3>1, <3>2, <3>3, <3>4, <3>5 DEF HotelTrail, StayPlaced, HasStay
  <2>10. HotelAnswersAreTrue'
    BY <1>5, <2>2, <2>4 DEF HotelInv, HotelAnswersAreTrue, HasStay
  <2> QED
    BY <2>5, <2>8, <2>9, <2>10 DEF HotelInv
<1>6. CASE HotelOrdered(c) \/ HotelOrderTimesOut(c) \/ HotelBadReply(c)
  BY <1>5, <1>6 DEF HotelOrdered, HotelOrderTimesOut, HotelBadReply
<1>7. CASE HotelRefused(c)
  BY <1>7, BareReturn DEF HotelRefused, HotelAnswers
<1>8. CASE StayInserted(c)
  <2>1. PICK a \in {"booked", "error"} : HotelReturn(c, a)
    BY <1>8 DEF StayInserted, HotelAnswered
  <2>2. /\ hotelPc[c] = "insert" /\ ~HasStay(StayOf[c])
        /\ StayPlaced(c) /\ Policy[StayOf[c]] = "GUARANTEE"
        /\ named[c] \in {c, UnknownId}
        /\ UNCHANGED <<hotelOrders, named>>
    BY <1>8 DEF StayInserted, HotelInv, HotelTrail
  <2>3. stays' \in [Stays -> StayRow]
    BY <1>8, <2>2 DEF StayInserted, HotelInv, HotelTypeOK, StayRow
  <2>4. /\ stays'[StayOf[c]].status = "booked"
        /\ stays'[StayOf[c]].order = named[c]
    BY <1>8 DEF StayInserted, HotelInv, HotelTypeOK
  <2>5. \A s \in Stays : s # StayOf[c] => stays'[s] = stays[s]
    BY <1>8 DEF StayInserted, HotelInv, HotelTypeOK
  <2>6. HotelTypeOK'
    BY <2>1, <2>2, <2>3, ReturnKeeps DEF HotelInv, HotelTypeOK, HotelAnswers
  <2>7. StayIsBacked'
    <3> SUFFICES ASSUME NEW s \in Stays
                 PROVE  /\ HasStay(s)' /\ stays'[s].order # UnknownId =>
                               StayPlaced(stays'[s].order) /\ StayOf[stays'[s].order] = s
                        /\ HasStay(s)' => Policy[s] = "GUARANTEE"
                        /\ stays'[s].status = "cancelled" =>
                               /\ stays'[s].order # UnknownId
                               /\ hotelOrders[stays'[s].order] = "cancelled"
      BY <2>2 DEF StayIsBacked, StayPlaced
    <3>1. CASE s = StayOf[c]
      BY <2>2, <2>4, <3>1
    <3>2. CASE s # StayOf[c]
      BY <2>5, <3>2 DEF HotelInv, StayIsBacked, HasStay
    <3> QED
      BY <3>1, <3>2
  <2>8. HotelTrail'
    <3>1. \A d \in HotelCancels : hotelPc'[d] \in {"delete", "write"} =>
              hotelPc[d] = hotelPc'[d] /\ StayOf[d] # StayOf[c]
      BY <2>1, <2>2, ReturnKeeps DEF HotelInv, HotelTrail, HotelAnswers
    <3>2. \A d \in HotelConfirms :
              /\ hotelPc'[d] \in {"order", "insert"} => Policy[StayOf[d]] = "GUARANTEE"
              /\ hotelPc'[d] \in {"idle", "order"} => ~StayPlaced(d)'
              /\ hotelPc'[d] = "insert" => StayPlaced(d)'
              /\ named'[d] \in {d, UnknownId}
      BY <2>1, <2>2, ReturnKeeps DEF HotelInv, HotelTrail, HotelAnswers, StayPlaced
    <3>3. \A d \in HotelCancels : hotelPc'[d] \in {"delete", "write"} =>
              stays'[StayOf[d]] = stays[StayOf[d]]
      BY <2>5, <3>1
    <3>4. \A d \in HotelCalls : hotelPc'[d] # "done" => hotelAnswer'[d] = "none"
      BY <2>1, ReturnKeeps DEF HotelInv, HotelTrail, HotelAnswers
    <3> QED
      BY <2>2, <3>1, <3>2, <3>3, <3>4 DEF HotelInv, HotelTrail, HasStay
  <2>9. HotelAnswersAreTrue'
    <3>1. \A s \in Stays : HasStay(s) => stays'[s] = stays[s]
      BY <2>2, <2>5
    <3>2. \A d \in HotelCalls : d # c => hotelAnswer'[d] = hotelAnswer[d]
      BY <2>1, ReturnKeeps DEF HotelAnswers
    <3>3. hotelAnswer'[c] \in {"booked", "error"}
      BY <2>1, ReturnKeeps DEF HotelAnswers
    <3>4. \A d \in HotelConfirms :
              /\ hotelAnswer'[d] = "booked" =>
                     HasStay(StayOf[d])' /\ stays'[StayOf[d]].order = named[d]
              /\ hotelAnswer'[d] = "existing" => HasStay(StayOf[d])'
      BY <2>4, <3>1, <3>2, <3>3 DEF HotelInv, HotelAnswersAreTrue, HasStay
    <3>5. \A d \in HotelCancels : hotelAnswer'[d] = "cancelled" =>
              stays'[StayOf[d]].status = "cancelled"
      BY <3>1, <3>2 DEF HotelInv, HotelAnswersAreTrue, HasStay
    <3> QED
      BY <2>2, <3>4, <3>5 DEF HotelAnswersAreTrue
  <2> QED
    BY <2>6, <2>7, <2>8, <2>9 DEF HotelInv
<1>9. CASE StayConflicts(c)
  BY <1>9, BareReturn DEF StayConflicts, HotelAnswers
<1>10. CASE ConfirmDies(c)
  BY <1>10, BareReturn DEF ConfirmDies, HotelAnswers
<1> QED
  BY <1>1, <1>2, <1>3, <1>4, <1>6, <1>7, <1>8, <1>9, <1>10

-----------------------------------------------------------------------------
LEMMA CancelKeepsInv ==
    ASSUME HotelInv, NEW c \in HotelCancels,
           \/ StayNotFound(c) \/ StayAlreadyCancelled(c) \/ HotelCancelStarts(c)
           \/ StayDeleted(c) \/ StayDeleteFails(c) \/ StayDeleteTimesOut(c)
           \/ StayWritten(c) \/ HotelCancelDies(c)
    PROVE  HotelInv'
<1> USE HotelAssumption DEF HotelCalls
<1>1. CASE StayNotFound(c)
  BY <1>1, BareReturn DEF StayNotFound, HotelAnswers
<1>2. CASE StayAlreadyCancelled(c)
  <2>1. /\ HotelReturn(c, "cancelled") /\ UNCHANGED <<stays, hotelOrders, named>>
        /\ stays[StayOf[c]].status = "cancelled"
    BY <1>2 DEF StayAlreadyCancelled
  <2>2. HotelTypeOK' /\ StayIsBacked'
    BY <2>1, ReturnKeeps
    DEF HotelInv, HotelTypeOK, StayIsBacked, HasStay, StayPlaced, HotelAnswers
  <2>3. HotelTrail'
    BY <2>1, ReturnKeeps
    DEF HotelInv, HotelTrail, HasStay, StayPlaced, HotelAnswers
  <2>4. HotelAnswersAreTrue'
    BY <2>1, ReturnKeeps DEF HotelInv, HotelAnswersAreTrue, HasStay, HotelAnswers
  <2> QED
    BY <2>2, <2>3, <2>4 DEF HotelInv
<1>3. CASE HotelCancelStarts(c)
  <2>1. /\ HotelGoto(c, "delete") /\ UNCHANGED <<stays, hotelOrders, named>>
        /\ hotelPc[c] = "idle" /\ HasStay(StayOf[c])
    BY <1>3 DEF HotelCancelStarts, HasStay
  <2>2. HotelTypeOK' /\ StayIsBacked'
    BY <2>1, GotoKeeps
    DEF HotelInv, HotelTypeOK, StayIsBacked, HasStay, StayPlaced, HotelSteps
  <2>3. HotelTrail'
    BY <2>1, GotoKeeps
    DEF HotelInv, HotelTrail, HasStay, StayPlaced, HotelSteps
  <2>4. HotelAnswersAreTrue'
    BY <2>1, GotoKeeps DEF HotelInv, HotelAnswersAreTrue, HasStay, HotelSteps
  <2> QED
    BY <2>2, <2>3, <2>4 DEF HotelInv
<1>4. ASSUME AmadeusCancelsStay(c), UNCHANGED <<stays, named>>,
             HotelGoto(c, "write") \/ HotelReturn(c, "cancel_failed")
      PROVE  HotelInv'
  <2> DEFINE order == stays[StayOf[c]].order
  <2>1. /\ hotelPc[c] = "delete" /\ HasStay(StayOf[c])
        /\ order \in HotelConfirms /\ hotelOrders[order] = "live"
    BY <1>4 DEF AmadeusCancelsStay, HotelInv, HotelTrail
  <2>2. /\ hotelOrders' \in [HotelConfirms -> {"absent", "live", "cancelled"}]
        /\ hotelOrders'[order] = "cancelled"
        /\ \A d \in HotelConfirms : d # order => hotelOrders'[d] = hotelOrders[d]
    BY <1>4 DEF AmadeusCancelsStay, HotelInv, HotelTypeOK
  <2>3. /\ hotelPc' \in [HotelCalls -> HotelSteps]
        /\ hotelAnswer' \in [HotelCalls -> HotelAnswers]
        /\ \/ hotelPc'[c] = "write" /\ hotelAnswer'[c] = "none"
           \/ hotelPc'[c] = "done" /\ hotelAnswer'[c] = "cancel_failed"
        /\ \A d \in HotelCalls : d # c =>
               hotelPc'[d] = hotelPc[d] /\ hotelAnswer'[d] = hotelAnswer[d]
    BY <1>4, <2>1, GotoKeeps, ReturnKeeps DEF HotelSteps, HotelAnswers
  <2>4. HotelTypeOK'
    BY <1>4, <2>2, <2>3 DEF HotelInv, HotelTypeOK
  <2>5. \A d \in HotelConfirms :
            /\ (hotelOrders'[d] # "absent") <=> StayPlaced(d)
            /\ hotelOrders[d] = "cancelled" => hotelOrders'[d] = "cancelled"
    BY <2>1, <2>2 DEF StayPlaced
  <2>6. StayIsBacked'
    <3> SUFFICES ASSUME NEW s \in Stays, HasStay(s)
                 PROVE  /\ stays[s].order # UnknownId =>
                               /\ hotelOrders'[stays[s].order] # "absent"
                               /\ StayOf[stays[s].order] = s
                        /\ Policy[s] = "GUARANTEE"
                        /\ stays[s].status = "cancelled" =>
                               /\ stays[s].order # UnknownId
                               /\ hotelOrders'[stays[s].order] = "cancelled"
      BY <1>4 DEF StayIsBacked, StayPlaced, HasStay
    <3>1. stays[s].order \in HotelConfirms \cup {UnknownId}
      BY DEF HotelInv, HotelTypeOK, StayRow
    <3> QED
      BY <2>5, <3>1 DEF HotelInv, StayIsBacked
  <2>7. HotelTrail'
    <3>1. \A d \in HotelCancels : hotelPc'[d] = "write" =>
              /\ stays[StayOf[d]].order # UnknownId
              /\ hotelOrders'[stays[StayOf[d]].order] = "cancelled"
      <4> SUFFICES ASSUME NEW d \in HotelCancels, hotelPc'[d] = "write"
                   PROVE  /\ stays[StayOf[d]].order # UnknownId
                          /\ hotelOrders'[stays[StayOf[d]].order] = "cancelled"
        OBVIOUS
      <4>1. CASE d = c
        BY <2>1, <2>2, <4>1
      <4>2. CASE d # c
        <5>1. hotelPc[d] = "write"
          BY <2>3, <4>2
        <5>2. stays[StayOf[d]].order \in HotelConfirms \cup {UnknownId}
          BY DEF HotelInv, HotelTypeOK, StayRow
        <5> QED
          BY <2>5, <5>1, <5>2 DEF HotelInv, HotelTrail
      <4> QED
        BY <4>1, <4>2
    <3>2. \A d \in HotelConfirms :
              /\ hotelPc'[d] \in {"order", "insert"} => Policy[StayOf[d]] = "GUARANTEE"
              /\ hotelPc'[d] \in {"idle", "order"} => hotelOrders'[d] = "absent"
              /\ hotelPc'[d] = "insert" => hotelOrders'[d] # "absent"
              /\ named[d] \in {d, UnknownId}
      BY <2>3, <2>5 DEF HotelInv, HotelTrail
    <3>3. \A d \in HotelCalls : hotelPc'[d] # "done" => hotelAnswer'[d] = "none"
      BY <2>3 DEF HotelInv, HotelTrail
    <3>4. \A d \in HotelCancels : hotelPc'[d] \in {"delete", "write"} =>
              HasStay(StayOf[d])
      BY <2>1, <2>3 DEF HotelInv, HotelTrail
    <3> QED
      BY <1>4, <3>1, <3>2, <3>3, <3>4 DEF HotelTrail, StayPlaced, HasStay
  <2>8. HotelAnswersAreTrue'
    BY <1>4, <2>3 DEF HotelInv, HotelAnswersAreTrue, HasStay
  <2> QED
    BY <2>4, <2>6, <2>7, <2>8 DEF HotelInv
<1>5. CASE StayDeleted(c) \/ StayDeleteTimesOut(c)
  BY <1>4, <1>5 DEF StayDeleted, StayDeleteTimesOut
<1>6. CASE StayDeleteFails(c)
  BY <1>6, BareReturn DEF StayDeleteFails, HotelAnswers
<1>7. CASE StayWritten(c)
  <2>1. PICK a \in {"cancelled", "error"} : HotelReturn(c, a)
    BY <1>7 DEF StayWritten, HotelAnswered
  <2>2. /\ hotelPc[c] = "write" /\ HasStay(StayOf[c])
        /\ stays[StayOf[c]].order # UnknownId
        /\ hotelOrders[stays[StayOf[c]].order] = "cancelled"
        /\ UNCHANGED <<hotelOrders, named>>
    BY <1>7 DEF StayWritten, HotelInv, HotelTrail
  <2>3. /\ stays' \in [Stays -> StayRow]
        /\ \A s \in Stays :
               /\ stays'[s].order = stays[s].order
               /\ stays'[s].status =
                      IF s = StayOf[c] THEN "cancelled" ELSE stays[s].status
    BY <1>7 DEF StayWritten, HotelInv, HotelTypeOK, StayRow
  <2>4. \A s \in Stays : HasStay(s)' <=> HasStay(s)
    BY <2>2, <2>3 DEF HasStay
  <2>5. HotelTypeOK'
    BY <2>1, <2>2, <2>3, ReturnKeeps DEF HotelInv, HotelTypeOK, HotelAnswers
  <2>6. StayIsBacked'
    BY <2>2, <2>3, <2>4 DEF HotelInv, StayIsBacked, StayPlaced
  <2>7. \A d \in HotelCalls : d # c =>
            hotelPc'[d] = hotelPc[d] /\ hotelAnswer'[d] = hotelAnswer[d]
    BY <2>1, ReturnKeeps DEF HotelAnswers
  <2>8. hotelPc'[c] = "done" /\ hotelAnswer'[c] \in {"cancelled", "error"}
    BY <2>1, ReturnKeeps DEF HotelAnswers
  <2>9. HotelTrail'
    BY <2>2, <2>3, <2>4, <2>7, <2>8 DEF HotelInv, HotelTrail, StayPlaced
  <2>10. HotelAnswersAreTrue'
    BY <2>2, <2>3, <2>4, <2>7, <2>8 DEF HotelInv, HotelAnswersAreTrue
  <2> QED
    BY <2>5, <2>6, <2>9, <2>10 DEF HotelInv
<1>8. CASE HotelCancelDies(c)
  BY <1>8, BareReturn DEF HotelCancelDies, HotelAnswers
<1> QED
  BY <1>1, <1>2, <1>3, <1>5, <1>6, <1>7, <1>8

-----------------------------------------------------------------------------
\* The inductive invariant of the hotel tools holds in every state.
THEOREM HotelInvHolds == HotelSpec => []HotelInv
<1>1. HotelInv /\ [HotelNext]_hotelVars => HotelInv'
  <2> SUFFICES ASSUME HotelInv, [HotelNext]_hotelVars PROVE HotelInv'
    OBVIOUS
  <2>1. CASE HotelConfirmNext
    BY <2>1, ConfirmKeepsInv DEF HotelConfirmNext
  <2>2. CASE HotelCancelNext
    BY <2>2, CancelKeepsInv DEF HotelCancelNext
  <2>3. CASE UNCHANGED hotelVars
    BY <2>3 DEF hotelVars, HotelInv, HotelTypeOK, StayIsBacked, HotelTrail,
                HotelAnswersAreTrue, HasStay, StayPlaced
  <2> QED
    BY <2>1, <2>2, <2>3 DEF HotelNext, AllReturned
<1> QED
  BY <1>1, HotelInitInv, PTL DEF HotelSpec

\* Every variable of the hotel tools keeps its type.
THEOREM HotelTypesHold == HotelSpec => []HotelTypeOK
BY HotelInvHolds, PTL DEF HotelInv

\* What a hotel call at work knows of the rows and orders it is going to write
\* about is so: a call about to insert has an order, one about to write the
\* cancellation has seen Amadeus cancel it.
THEOREM HotelTrailHolds == HotelSpec => []HotelTrail
BY HotelInvHolds, PTL DEF HotelInv

\* A hotel booking on file is one Amadeus made, and cancelled when it says so.
THEOREM StaysAreBacked == HotelSpec => []StayIsBacked
BY HotelInvHolds, PTL DEF HotelInv

\* Nobody is told of a booking or a cancellation that is not on file.
THEOREM HotelTellsTheTruth == HotelSpec => []HotelAnswersAreTrue
BY HotelInvHolds, PTL DEF HotelInv

\* After one caller was told of a booking, no later call orders again.
THEOREM BookedOnce == HotelSpec => ToldOnceBookedOnce
<1>1. HotelInv /\ [HotelNext]_hotelVars => [AsksNoMore]_hotelVars
  <2> SUFFICES ASSUME HotelInv, HotelNext,
                      NEW c \in HotelConfirms, NEW d \in HotelConfirms,
                      StayOf[c] = StayOf[d],
                      hotelAnswer[c] \in {"booked", "existing"},
                      hotelPc[d] = "idle",
                      hotelPc'[d] = "order"
               PROVE  FALSE
    BY DEF AsksNoMore
  <2>1. HasStay(StayOf[d])
    BY DEF HotelInv, HotelAnswersAreTrue
  <2>2. hotelPc \in [HotelCalls -> HotelSteps] /\ d \in HotelCalls
    BY DEF HotelInv, HotelTypeOK, HotelCalls
  <2>3. ASSUME NEW e, NEW a, HotelReturn(e, a) PROVE FALSE
    BY <2>2, <2>3 DEF HotelReturn
  <2>4. ASSUME NEW e, NEW step, step # "order", HotelGoto(e, step) PROVE FALSE
    BY <2>2, <2>4 DEF HotelGoto
  <2>5. ASSUME NEW e \in HotelConfirms, NoStayYet(e) PROVE FALSE
    <3>1. e # d
      BY <2>1, <2>5 DEF NoStayYet
    <3> QED
      BY <2>2, <2>5, <3>1 DEF NoStayYet, HotelGoto
  <2>6. ASSUME NEW e, NEW a, HotelAnswered(e, a) PROVE FALSE
    BY <2>3, <2>6 DEF HotelAnswered
  <2>7. ~HotelConfirmNext
    <3> SUFFICES ASSUME NEW e \in HotelConfirms,
                        \/ HotelRejects(e) \/ PolicyRefused(e) \/ StayExists(e)
                        \/ HotelOrdered(e) \/ HotelRefused(e)
                        \/ HotelOrderTimesOut(e) \/ HotelBadReply(e)
                        \/ StayInserted(e) \/ StayConflicts(e) \/ ConfirmDies(e)
                 PROVE  FALSE
      BY <2>5 DEF HotelConfirmNext
    <3>1. (\E a : HotelReturn(e, a)) \/ HotelGoto(e, "insert")
              \/ (\E a : HotelAnswered(e, a))
      BY DEF HotelRejects, PolicyRefused, StayExists, HotelOrdered, HotelRefused,
             HotelOrderTimesOut, HotelBadReply, StayInserted, StayConflicts,
             ConfirmDies
    <3> QED
      BY <2>3, <2>4, <2>6, <3>1
  <2>8. ~HotelCancelNext
    <3> SUFFICES ASSUME NEW e \in HotelCancels,
                        \/ StayNotFound(e) \/ StayAlreadyCancelled(e)
                        \/ HotelCancelStarts(e) \/ StayDeleted(e)
                        \/ StayDeleteFails(e) \/ StayDeleteTimesOut(e)
                        \/ StayWritten(e) \/ HotelCancelDies(e)
                 PROVE  FALSE
      BY DEF HotelCancelNext
    <3>1. (\E a : HotelReturn(e, a)) \/ HotelGoto(e, "delete")
              \/ HotelGoto(e, "write") \/ (\E a : HotelAnswered(e, a))
      BY DEF StayNotFound, StayAlreadyCancelled, HotelCancelStarts, StayDeleted,
             StayDeleteFails, StayDeleteTimesOut, StayWritten, HotelCancelDies
    <3> QED
      BY <2>3, <2>4, <2>6, <3>1
  <2>9. ~AllReturned
    BY DEF AllReturned, hotelVars
  <2> QED
    BY <2>7, <2>8, <2>9 DEF HotelNext
<1> QED
  BY <1>1, HotelInvHolds, PTL DEF HotelSpec, ToldOnceBookedOnce
=============================================================================
