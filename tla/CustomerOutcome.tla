--------------------------- MODULE CustomerOutcome ----------------------------
(***************************************************************************)
(* What the booking engine promises a customer, with no handler, table or  *)
(* outside service in sight: a purchase is unpaid, then charged, and a     *)
(* charge ends in exactly one of three ways and stays there.               *)
(***************************************************************************)
CONSTANT Keys

VARIABLE outcome

Outcomes == {"unpaid", "charged", "booked", "refunded", "escalated"}

OutcomeInit == outcome = [k \in Keys |-> "unpaid"]

Moves(k, from, to) ==
    /\ outcome[k] = from
    /\ outcome' = [outcome EXCEPT ![k] = to]

Charge(k) == Moves(k, "unpaid", "charged")
Book(k) == Moves(k, "charged", "booked")
Refund(k) == Moves(k, "charged", "refunded")
Escalate(k) == Moves(k, "charged", "escalated")

OutcomeNext == \E k \in Keys :
    Charge(k) \/ Book(k) \/ Refund(k) \/ Escalate(k)

OutcomeSpec == OutcomeInit /\ [][OutcomeNext]_outcome
=============================================================================
