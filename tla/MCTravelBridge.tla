---------------------------- MODULE MCTravelBridge ----------------------------
(***************************************************************************)
(* Small values for TravelBridge's constants.  One fare is asked for.  Of  *)
(* the others, Tier 2 may take "near", exactly at the threshold; "dear" is *)
(* above it, "group" is for a larger party, "foreign" in another currency. *)
(***************************************************************************)
EXTENDS TravelBridge, TLC

MCOffers == {"asked", "near", "dear", "group", "foreign"}
MCFare == [o \in MCOffers |->
    [price    |-> CASE o = "near" -> 11 [] o = "dear" -> 12 [] OTHER -> 10,
     currency |-> IF o = "foreign" THEN "USD" ELSE "VND",
     party    |-> IF o = "group" THEN 2 ELSE 1]]

\* The offer asked for has lost its travelerPricings on the way.
MCLostFare == [MCFare EXCEPT !["asked"].party = 0]

\* Where refunds matter: two fares that share nothing, and amounts 1, 2, 3.
MCTwoOffers == {"asked", "other"}
MCSmallFare == [o \in MCTwoOffers |->
    [price |-> 3, currency |-> IF o = "asked" THEN "VND" ELSE "USD", party |-> 1]]

MCOfferOf == [k \in Keys |-> "asked"]

\* Every call is about the same key.
MCKeyOf == [c \in Calls |-> CHOOSE k \in Keys : TRUE]

\* Every call lists one traveler.
MCListed == [c \in ConfirmCalls |-> 1]

\* One call lists one traveler, the others list two, whom "group" fits.
MCListedOneOrTwo ==
    LET one == CHOOSE c \in ConfirmCalls : TRUE
    IN  [c \in ConfirmCalls |-> IF c = one THEN 1 ELSE 2]

\* Calls of a kind, and webhook requests, are interchangeable.
Interchangeable ==
    Permutations(ConfirmCalls) \cup Permutations(CancelCalls)
        \cup Permutations(RefundCalls) \cup Permutations(Deliveries)
=============================================================================
