------------------------------ MODULE TripRules ------------------------------
(***************************************************************************)
(* The rules on trips that keep no state: which searches are refused, what *)
(* an offer says about its trip and party, how Tier 2 asks for the same    *)
(* trip again, who sits in which seat, when a cancellation is refunded     *)
(* automatically, and how a fare becomes an amount of Stripe.              *)
(*                                                                         *)
(* Times are hours of an airport's local clock, as in Amadeus's            *)
(* departure.at; prices are in hundredths of a currency's main unit.       *)
(***************************************************************************)
EXTENDS Integers, Sequences, FiniteSets

CONSTANTS
    Airports,       \* airport codes
    NoCode,         \* the empty code
    City,           \* City[a]: the city that airport a serves
    Zone,           \* Zone[a]: by how much a's clock is ahead of UTC
    MaxZone,        \* no clock is further from UTC than this
    Day,            \* hours of a day
    MaxPartySize,   \* MAX_PARTY_SIZE
    MaxLegs,        \* MAX_MULTI_CITY_LEGS
    Window,         \* FREE_CANCELLATION_WINDOW
    Lead,           \* FREE_CANCELLATION_MIN_DEPARTURE_LEAD
    ZeroDecimal     \* ZERO_DECIMAL_CURRENCIES

ASSUME TripAssumption ==
    /\ NoCode \notin Airports
    /\ Zone \in [Airports -> Int]
    /\ MaxZone \in Nat
    /\ \A a \in Airports : -MaxZone <= Zone[a] /\ Zone[a] <= MaxZone
    /\ Day \in Nat \ {0}
    /\ MaxPartySize \in Nat \ {0}
    /\ MaxLegs \in Nat \ {0, 1}
    /\ Window \in Nat /\ Lead \in Nat
-----------------------------------------------------------------------------
(* Searches *)

Leg == [origin: Airports \cup {NoCode}, destination: Airports \cup {NoCode}, date: Nat]

Party == [adults: Nat, children: Nat, infants: Nat]

PartySize(p) == p.adults + p.children + p.infants

OneWay(from, to, out) == <<[origin |-> from, destination |-> to, date |-> out]>>

ThereAndBack(from, to, out, back) ==
    OneWay(from, to, out) \o OneWay(to, from, back)

\* A search: "route" is search_flights, whose returnDate is a leg back, and
\* "multi" is search_multi_city_flights.
Ask == [form: {"route", "multi"}, legs: Seq(Leg) \ {<<>>}, party: Party]

Complete(leg) == leg.origin # NoCode /\ leg.destination # NoCode

InOrder(legs) == \A i \in 1..Len(legs) - 1 : legs[i].date <= legs[i + 1].date

\* Only the multi-city search counts its legs and asks for all their fields.
LegsRefused(ask) ==
    \/ ask.form = "multi" /\ Len(ask.legs) \notin 2..MaxLegs
    \/ ask.form = "multi" /\ \E i \in DOMAIN ask.legs : ~Complete(ask.legs[i])
    \/ ~InOrder(ask.legs)

PartyRefused(p) == PartySize(p) > MaxPartySize \/ p.infants > p.adults

Refused(ask) == LegsRefused(ask) \/ PartyRefused(ask.party)

TravelerTypes == {"ADULT", "CHILD", "HELD_INFANT"}

\* Slip: infants under a name of their own, which no pricing has.
TravelersMisnamed(p) ==
    [i \in 1..PartySize(p) |->
        IF i <= p.adults THEN "ADULT"
        ELSE IF i <= p.adults + p.children THEN "CHILD" ELSE "INFANT"]

\* The party in the order in which it is searched for, priced and listed:
\* adults, then children, then infants.
Travelers(p) ==
    [i \in 1..PartySize(p) |->
        IF i <= p.adults THEN "ADULT"
        ELSE IF i <= p.adults + p.children THEN "CHILD" ELSE "HELD_INFANT"]
-----------------------------------------------------------------------------
(* Offers.  An itinerary is a sequence of segments; slots are the types of  *)
(* the offer's travelerPricings, empty where they were lost on the way.     *)

Segment == [from: Airports, to: Airports, at: Nat]
Itinerary == Seq(Segment) \ {<<>>}
Offer == [itineraries: Seq(Itinerary) \ {<<>>}, slots: Seq(TravelerTypes)]

First(itinerary) == itinerary[1]
LastSegment(itinerary) == itinerary[Len(itinerary)]

LegOf(itinerary) ==
    [origin      |-> First(itinerary).from,
     destination |-> LastSegment(itinerary).to,
     date        |-> First(itinerary).at \div Day]

ExtractAllLegs(offer) ==
    [i \in 1..Len(offer.itineraries) |-> LegOf(offer.itineraries[i])]

\* Slip: a trip that ends where it began counts as there and back.
EndsWhereItBegan(legs) ==
    Len(legs) = 2 /\ legs[2].destination = legs[1].origin

IsSimpleRoundTrip(legs) ==
    /\ Len(legs) = 2
    /\ legs[2].origin = legs[1].destination
    /\ legs[2].destination = legs[1].origin

Seated(offer, types) ==
    Cardinality({i \in 1..Len(offer.slots) : offer.slots[i] \in types})

\* An offer without adults is searched for with one.
PassengerCounts(offer) ==
    LET adults == Seated(offer, {"ADULT"})
    IN  [adults   |-> IF adults = 0 THEN 1 ELSE adults,
         children |-> Seated(offer, {"CHILD"}),
         infants  |-> Seated(offer, {"HELD_INFANT"})]

\* What Tier 2 asks Amadeus for, from nothing but the offer that failed: the
\* simple search carries the first leg and the date of the second one.
Research(offer) ==
    LET legs == ExtractAllLegs(offer)
        multi == Len(legs) >= 2 /\ ~IsSimpleRoundTrip(legs)
    IN  [form  |-> IF multi THEN "multi" ELSE "route",
         legs  |-> IF multi THEN legs
                   ELSE IF Len(legs) = 2
                   THEN ThereAndBack(legs[1].origin, legs[1].destination,
                                     legs[1].date, legs[2].date)
                   ELSE OneWay(legs[1].origin, legs[1].destination, legs[1].date),
         party |-> PassengerCounts(offer)]

ValidTravelers(list) == list # <<>> /\ Len(list) <= MaxPartySize

\* Slip: only too many travelers are noticed.
CountExceeded(offer, list) == offer.slots # <<>> /\ Len(offer.slots) < Len(list)

\* An offer without pricings is let through.
CountMismatch(offer, list) == offer.slots # <<>> /\ Len(offer.slots) # Len(list)

\* zip(slots, travelers): it stops at the shorter one.
Seats(offer, list) ==
    LET n == IF Len(offer.slots) <= Len(list) THEN Len(offer.slots) ELSE Len(list)
    IN  [i \in 1..n |-> [slot |-> offer.slots[i], traveler |-> list[i]]]
-----------------------------------------------------------------------------
(* Departure and cancellation.  departure.at has no offset, and is read as  *)
(* if it were UTC.                                                          *)

EarliestDeparture(offer) == First(offer.itineraries[1]).at

TakesOff(offer) == First(offer.itineraries[1]).at - Zone[First(offer.itineraries[1]).from]

\* Slip: either condition will do.
EligibleByEither(bookedAt, departureAt, now) ==
    \/ now - bookedAt <= Window
    \/ departureAt - bookedAt >= Lead

EligibleForFreeCancellation(bookedAt, departureAt, now) ==
    /\ now - bookedAt <= Window
    /\ departureAt - bookedAt >= Lead
-----------------------------------------------------------------------------
(* Fares *)

\* Python's round(): a half goes to the even neighbour.
RoundedToUnits(hundredths) ==
    LET units == hundredths \div 100
        rest  == hundredths % 100
    IN  IF rest > 50 \/ (rest = 50 /\ units % 2 = 1) THEN units + 1 ELSE units

\* Slip: int() instead of round().
TruncatedAmount(total, currency) ==
    IF currency \in ZeroDecimal THEN total \div 100 ELSE total

ToStripeAmount(total, currency) ==
    IF currency \in ZeroDecimal THEN RoundedToUnits(total) ELSE total
=============================================================================
