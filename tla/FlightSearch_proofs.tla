------------------------- MODULE FlightSearch_proofs -------------------------
(***************************************************************************)
(* Theorems about FlightSearch for any airports, clocks, searches,         *)
(* itineraries and prices: a trip stays the trip that was asked for        *)
(* through Tier 2, everyone has his seat, the charge is the fare, and no   *)
(* cancellation close to the departure is refunded automatically.          *)
(***************************************************************************)
EXTENDS FlightSearch, FiniteSetTheorems, SequenceTheorems, TLAPS

-----------------------------------------------------------------------------
(* Parties and seats *)

LEMMA FunctionIsSeq ==
    ASSUME NEW S, NEW n \in Nat, NEW f \in [1..n -> S]
    PROVE  f \in Seq(S) /\ Len(f) = n
<1>1. f \in Seq(S)
  BY SeqDef
<1>2. DOMAIN f = 1..Len(f) /\ Len(f) \in Nat
  BY <1>1, LenProperties
<1> QED
  BY <1>1, <1>2

(***************************************************************************)
(* Everyone of a party is listed once.  (_build_multi_city_search_body)    *)
(***************************************************************************)
LEMMA TravelersOfParty ==
    ASSUME NEW p \in Party
    PROVE  /\ PartySize(p) \in Nat
           /\ Travelers(p) \in [1..PartySize(p) -> TravelerTypes]
           /\ Travelers(p) \in Seq(TravelerTypes)
           /\ Len(Travelers(p)) = PartySize(p)
<1>1. PartySize(p) \in Nat
  BY DEF Party, PartySize
<1>2. Travelers(p) \in [1..PartySize(p) -> TravelerTypes]
  BY DEF Travelers, TravelerTypes
<1> QED
  BY <1>1, <1>2, FunctionIsSeq

LEMMA IntervalSize ==
    ASSUME NEW m \in Nat, NEW n \in Nat
    PROVE  Cardinality(1..n) = n /\ Cardinality(m + 1 .. m + n) = n
<1>1. \A x \in Int, y \in Int : Cardinality(x..y) = IF x > y THEN 0 ELSE y - x + 1
  BY FS_Interval
<1>2. m + 1 \in Int /\ m + n \in Int /\ 1 \in Int /\ n \in Int
  OBVIOUS
<1>3. /\ Cardinality(1..n) = IF 1 > n THEN 0 ELSE n - 1 + 1
      /\ Cardinality(m + 1 .. m + n) = IF m + 1 > m + n THEN 0 ELSE m + n - (m + 1) + 1
  BY <1>1, <1>2
<1> QED
  BY <1>3

(***************************************************************************)
(* Counting the slots of an offer gives back the party it was priced for:  *)
(* what Tier 2 searches with is what the customer searched with.           *)
(* (_passenger_counts)                                                     *)
(***************************************************************************)
LEMMA PartyIsCounted ==
    ASSUME NEW p \in Party, p.adults >= 1, NEW o, o.slots = Travelers(p)
    PROVE  PassengerCounts(o) = p
<1> DEFINE a == p.adults
           c == p.children
           i == p.infants
<1>0. a \in Nat /\ c \in Nat /\ i \in Nat /\ p = [adults |-> a, children |-> c, infants |-> i]
  BY DEF Party
<1>1. Len(o.slots) = a + c + i
  BY TravelersOfParty DEF PartySize
<1>2. \A k \in 1..a + c + i :
         o.slots[k] = IF k <= a THEN "ADULT" ELSE IF k <= a + c THEN "CHILD" ELSE "HELD_INFANT"
  BY DEF Travelers, PartySize
<1> HIDE DEF a, c, i
<1>3. Seated(o, {"ADULT"}) = a
  <2>1. {k \in 1..Len(o.slots) : o.slots[k] \in {"ADULT"}} = 1..a
    BY <1>0, <1>1, <1>2
  <2>2. Cardinality(1..a) = a
    BY <1>0, IntervalSize
  <2> QED
    BY <2>1, <2>2 DEF Seated
<1>4. Seated(o, {"CHILD"}) = c
  <2>1. {k \in 1..Len(o.slots) : o.slots[k] \in {"CHILD"}} = a + 1 .. a + c
    BY <1>0, <1>1, <1>2
  <2>2. Cardinality(a + 1 .. a + c) = c
    BY <1>0, IntervalSize
  <2> QED
    BY <2>1, <2>2 DEF Seated
<1>5. Seated(o, {"HELD_INFANT"}) = i
  <2>1. {k \in 1..Len(o.slots) : o.slots[k] \in {"HELD_INFANT"}} = a + c + 1 .. a + c + i
    BY <1>0, <1>1, <1>2
  <2>2. Cardinality(a + c + 1 .. a + c + i) = i
    <3>1. a + c \in Nat /\ i \in Nat
      BY <1>0
    <3> QED
      BY <3>1, IntervalSize
  <2> QED
    BY <2>1, <2>2 DEF Seated
<1>6. a # 0
  BY <1>0 DEF a
<1> QED
  BY <1>0, <1>3, <1>4, <1>5, <1>6 DEF PassengerCounts

\* Without pricings, Tier 2 searches for one adult.
LEMMA NobodyIsCounted ==
    ASSUME NEW o, o.slots = <<>>
    PROVE  PassengerCounts(o) = [adults |-> 1, children |-> 0, infants |-> 0]
<1>1. \A types : Seated(o, types) = 0
  BY FS_EmptySet DEF Seated
<1> QED
  BY <1>1 DEF PassengerCounts

(***************************************************************************)
(* The amount of a charge is the fare to the nearest unit.                 *)
(* (to_stripe_amount)                                                      *)
(***************************************************************************)
LEMMA AmountIsTheFare ==
    ASSUME NEW total \in Nat, NEW currency,
           NEW unit, unit = IF currency \in ZeroDecimal THEN 100 ELSE 1
    PROVE  LET amount == ToStripeAmount(total, currency)
           IN  /\ amount \in Nat
               /\ 2 * (amount * unit - total) <= unit
               /\ -2 * (amount * unit - total) <= unit
<1>1. CASE currency \notin ZeroDecimal
  BY <1>1 DEF ToStripeAmount
<1>2. CASE currency \in ZeroDecimal
  <2> DEFINE units == total \div 100
             rest == total % 100
  <2>1. units \in Nat /\ rest \in 0..99 /\ total = 100 * units + rest
    OBVIOUS
  <2>2. \/ rest >= 50 /\ RoundedToUnits(total) = units + 1
        \/ rest <= 50 /\ RoundedToUnits(total) = units
    BY <2>1 DEF RoundedToUnits
  <2> HIDE DEF units, rest
  <2> QED
    BY <1>2, <2>1, <2>2 DEF ToStripeAmount
<1> QED
  BY <1>1, <1>2

(***************************************************************************)
(* Whatever list the agent may pass is a list of travelers.                *)
(* (_validate_traveler_count)                                              *)
(***************************************************************************)
LEMMA ListsAreOfTravelers ==
    ASSUME NEW p \in Party, NEW travelers \in Lists(p)
    PROVE  travelers \in Seq(TravelerTypes)
<1> DEFINE party == Travelers(p)
           n == PartySize(p)
<1>1. n \in Nat /\ party \in [1..n -> TravelerTypes] /\ party \in Seq(TravelerTypes)
      /\ Len(party) = n
  BY TravelersOfParty
<1> HIDE DEF party, n
<1>2. ASSUME NEW j \in 1..n
      PROVE  LET less == [i \in 1..n - 1 |-> IF i < j THEN party[i] ELSE party[i + 1]]
             IN  less \in Seq(TravelerTypes)
  <2> DEFINE less == [i \in 1..n - 1 |-> IF i < j THEN party[i] ELSE party[i + 1]]
  <2>1. n - 1 \in Nat
    BY <1>1, <1>2
  <2>2. less \in [1..n - 1 -> TravelerTypes]
    BY <1>1, <1>2
  <2> HIDE DEF less
  <2>3. less \in Seq(TravelerTypes)
    BY <2>1, <2>2, FunctionIsSeq
  <2> QED
    BY <2>3 DEF less
<1>3. ASSUME NEW x \in TravelerTypes
      PROVE  Append(party, x) \in Seq(TravelerTypes)
  BY <1>1, AppendProperties
<1>4. ASSUME NEW i \in 1..n, NEW x \in TravelerTypes
      PROVE  [party EXCEPT ![i] = x] \in Seq(TravelerTypes)
  <2>1. [party EXCEPT ![i] = x] \in [1..n -> TravelerTypes]
    BY <1>1
  <2> QED
    BY <1>1, <2>1, FunctionIsSeq
<1>5. \/ travelers = party
      \/ \E i \in 1..n, x \in TravelerTypes : travelers = [party EXCEPT ![i] = x]
      \/ \E j \in 1..n : travelers = [i \in 1..n - 1 |-> IF i < j THEN party[i] ELSE party[i + 1]]
      \/ \E x \in TravelerTypes : travelers = Append(party, x)
  <2> USE DEF party, n
  <2>1. travelers \in {party}
        \cup {[party EXCEPT ![i] = x] : i \in 1..n, x \in TravelerTypes}
        \cup {[i \in 1..n - 1 |-> IF i < j THEN party[i] ELSE party[i + 1]] : j \in 1..n}
        \cup {Append(party, x) : x \in TravelerTypes}
    BY DEF Lists
  <2> HIDE DEF party, n
  <2> QED
    BY <2>1
<1> QED
  BY <1>1, <1>2, <1>3, <1>4, <1>5

(***************************************************************************)
(* zip gives as many seats as the shorter of its lists has, in order.      *)
(* (_build_booking_payload)                                                *)
(***************************************************************************)
LEMMA SeatsInOrder ==
    ASSUME NEW o, o.slots \in Seq(TravelerTypes), NEW l \in Seq(TravelerTypes)
    PROVE  /\ Seats(o, l) \in Seq(Seat)
           /\ Len(Seats(o, l)) = IF Len(o.slots) <= Len(l) THEN Len(o.slots) ELSE Len(l)
           /\ \A i \in 1..Len(Seats(o, l)) :
                 Seats(o, l)[i].slot = o.slots[i] /\ Seats(o, l)[i].traveler = l[i]
<1> DEFINE n == IF Len(o.slots) <= Len(l) THEN Len(o.slots) ELSE Len(l)
           seats == [i \in 1..n |-> [slot |-> o.slots[i], traveler |-> l[i]]]
<1>1. Len(o.slots) \in Nat /\ Len(l) \in Nat
  BY LenProperties
<1>2. n \in Nat
  BY <1>1
<1>3. \A i \in 1..n : i \in 1..Len(o.slots) /\ i \in 1..Len(l)
  BY <1>1
<1>4. \A i \in 1..n : o.slots[i] \in TravelerTypes /\ l[i] \in TravelerTypes
  BY <1>3, ElementOfSeq
<1> HIDE DEF n
<1>5. seats \in [1..n -> Seat]
  BY <1>4 DEF Seat
<1>6. seats \in Seq(Seat) /\ Len(seats) = n
  BY <1>2, <1>5, FunctionIsSeq
<1>7. Seats(o, l) = seats
  BY DEF Seats, n
<1>8. \A i \in 1..n : seats[i].slot = o.slots[i] /\ seats[i].traveler = l[i]
  OBVIOUS
<1> HIDE DEF seats
<1> QED
  BY <1>6, <1>7, <1>8 DEF n
-----------------------------------------------------------------------------
(* Legs *)

(***************************************************************************)
(* However many segments it has, an itinerary is one leg, between airports *)
(* and on a day.  (_extract_all_legs)                                      *)
(***************************************************************************)
LEMMA ItineraryIsLeg ==
    ASSUME TripAssumption, NEW it \in Itinerary
    PROVE  /\ First(it) \in Segment
           /\ LegOf(it) \in Leg
           /\ LegOf(it).origin \in Airports /\ LegOf(it).destination \in Airports
           /\ Complete(LegOf(it))
<1>1. it \in Seq(Segment) /\ it # <<>>
  BY DEF Itinerary
<1>2. Len(it) \in Nat /\ Len(it) >= 1
  BY <1>1
<1>3. it[1] \in Segment /\ it[Len(it)] \in Segment
  BY <1>1, <1>2, ElementOfSeq
<1>4. it[1].at \div Day \in Nat
  <2>1. it[1].at \in Nat /\ Day \in Nat \ {0}
    BY <1>3 DEF Segment, TripAssumption
  <2> QED
    BY <2>1
<1>5. LegOf(it).origin = it[1].from /\ LegOf(it).destination = it[Len(it)].to
      /\ LegOf(it).date = it[1].at \div Day
  BY DEF LegOf, First, LastSegment
<1>6. it[1].from \in Airports /\ it[Len(it)].to \in Airports
  BY <1>3 DEF Segment
<1>7. LegOf(it) \in Leg
  BY <1>4, <1>6 DEF LegOf, Leg, First, LastSegment
<1> QED
  BY <1>3, <1>5, <1>6, <1>7 DEF Complete, First, TripAssumption

LEMMA LegsOfOffer ==
    ASSUME TripAssumption, NEW o \in Offer
    PROVE  /\ Len(o.itineraries) \in Nat \ {0}
           /\ ExtractAllLegs(o) \in [1..Len(o.itineraries) -> Leg]
           /\ ExtractAllLegs(o) \in Seq(Leg)
           /\ Len(ExtractAllLegs(o)) = Len(o.itineraries)
           /\ \A i \in 1..Len(o.itineraries) :
                 /\ o.itineraries[i] \in Itinerary
                 /\ ExtractAllLegs(o)[i] = LegOf(o.itineraries[i])
<1>1. o.itineraries \in Seq(Itinerary) /\ o.itineraries # <<>>
  BY DEF Offer
<1> DEFINE n == Len(o.itineraries)
<1>2. n \in Nat \ {0}
  BY <1>1
<1>3. \A i \in 1..n : o.itineraries[i] \in Itinerary
  BY <1>1, ElementOfSeq
<1>4. \A i \in 1..n : LegOf(o.itineraries[i]) \in Leg
  BY <1>3, ItineraryIsLeg
<1>5. ExtractAllLegs(o) \in [1..n -> Leg]
  BY <1>4 DEF ExtractAllLegs
<1>6. \A i \in 1..n : ExtractAllLegs(o)[i] = LegOf(o.itineraries[i])
  BY DEF ExtractAllLegs
<1> HIDE DEF n
<1>7. ExtractAllLegs(o) \in Seq(Leg) /\ Len(ExtractAllLegs(o)) = n
  BY <1>2, <1>5, FunctionIsSeq
<1> QED
  BY <1>2, <1>3, <1>5, <1>6, <1>7 DEF n

SameLeg(a, b) ==
    a.origin = b.origin /\ a.destination = b.destination /\ a.date = b.date

(***************************************************************************)
(* Whichever of the two searches Tier 2 uses, it asks for every leg of the *)
(* failed offer and for nothing else: the simple search's return flight is *)
(* the second leg exactly when the legs are there and back.                *)
(* (_is_simple_round_trip, _tier2_fare_recheck_and_rebook)                 *)
(***************************************************************************)
LEMMA ResearchHasTheLegs ==
    ASSUME TripAssumption, NEW o \in Offer
    PROVE  LET legs == ExtractAllLegs(o)
               a == Research(o)
           IN  /\ a.form \in {"route", "multi"}
               /\ a.form = "multi" => Len(legs) >= 2
               /\ a.legs \in Seq(Leg) \ {<<>>}
               /\ Len(a.legs) = Len(legs)
               /\ \A i \in 1..Len(legs) : SameLeg(a.legs[i], legs[i])
               /\ a.party = PassengerCounts(o)
<1> DEFINE legs == ExtractAllLegs(o)
           multi == Len(legs) >= 2 /\ ~IsSimpleRoundTrip(legs)
           a == Research(o)
<1>1. legs \in Seq(Leg) /\ Len(legs) \in Nat \ {0} /\ \A i \in 1..Len(legs) : legs[i] \in Leg
  BY LegsOfOffer, ElementOfSeq
<1>2. a.form = (IF multi THEN "multi" ELSE "route") /\ a.party = PassengerCounts(o)
  BY DEF Research
<1>3. multi => a.legs = legs
  BY DEF Research
<1>4. ~multi /\ Len(legs) = 2 => a.legs = ThereAndBack(legs[1].origin, legs[1].destination,
                                                       legs[1].date, legs[2].date)
  BY DEF Research
<1>5. ~multi /\ Len(legs) # 2 => a.legs = OneWay(legs[1].origin, legs[1].destination, legs[1].date)
  BY DEF Research
<1> HIDE DEF legs, a
<1>6. ~multi /\ Len(legs) = 2 => IsSimpleRoundTrip(legs)
  OBVIOUS
<1>7. ASSUME ~multi, Len(legs) # 2
      PROVE  Len(legs) = 1
  <2>1. IsSimpleRoundTrip(legs) => Len(legs) = 2
    BY DEF IsSimpleRoundTrip
  <2>2. ~(Len(legs) >= 2)
    BY <1>7, <2>1
  <2>3. Len(legs) \in Nat \ {0}
    BY <1>1
  <2>4. \A n \in Nat \ {0} : ~(n >= 2) => n = 1
    OBVIOUS
  <2> QED
    BY <2>2, <2>3, <2>4
<1> HIDE DEF multi
<1>8. CASE multi
  <2>1. \A i \in 1..Len(legs) : SameLeg(legs[i], legs[i])
    BY DEF SameLeg
  <2>2. Len(legs) >= 2
    BY <1>8 DEF multi
  <2> QED
    BY <1>1, <1>2, <1>3, <1>8, <2>1, <2>2 DEF legs, a
<1>9. CASE ~multi /\ Len(legs) = 2
  <2> DEFINE out == [origin |-> legs[1].origin, destination |-> legs[1].destination,
                     date |-> legs[1].date]
             back == [origin |-> legs[1].destination, destination |-> legs[1].origin,
                      date |-> legs[2].date]
  <2>1. legs[1] \in Leg /\ legs[2] \in Leg
    BY <1>1, <1>9
  <2>2. out \in Leg /\ back \in Leg
    BY <2>1 DEF Leg
  <2>3. SameLeg(out, legs[1]) /\ SameLeg(back, legs[2])
    BY <1>6, <1>9 DEF IsSimpleRoundTrip, SameLeg
  <2>4. a.legs = <<out>> \o <<back>>
    BY <1>4, <1>9 DEF ThereAndBack, OneWay
  <2> HIDE DEF out, back
  <2>5. /\ <<out>> \in Seq(Leg) /\ Len(<<out>>) = 1 /\ <<out>>[1] = out
        /\ <<back>> \in Seq(Leg) /\ Len(<<back>>) = 1 /\ <<back>>[1] = back
    BY <2>2
  <2>6. a.legs \in Seq(Leg) /\ Len(a.legs) = 2 /\ a.legs[1] = out /\ a.legs[2] = back
    BY <2>4, <2>5, ConcatProperties
  <2>7. \A i \in 1..Len(legs) : SameLeg(a.legs[i], legs[i])
    BY <1>9, <2>3, <2>6
  <2> QED
    BY <1>2, <1>9, <2>6, <2>7 DEF legs, a
<1>10. CASE ~multi /\ Len(legs) # 2
  <2> DEFINE out == [origin |-> legs[1].origin, destination |-> legs[1].destination,
                     date |-> legs[1].date]
  <2>1. legs[1] \in Leg /\ Len(legs) = 1
    BY <1>1, <1>7, <1>10
  <2>2. out \in Leg /\ SameLeg(out, legs[1])
    BY <2>1 DEF Leg, SameLeg
  <2>3. a.legs = <<out>>
    BY <1>5, <1>10 DEF OneWay
  <2> HIDE DEF out
  <2>4. a.legs \in Seq(Leg) /\ Len(a.legs) = 1 /\ a.legs[1] = out
    BY <2>2, <2>3
  <2>5. \A i \in 1..Len(legs) : SameLeg(a.legs[i], legs[i])
    BY <2>1, <2>2, <2>4
  <2> QED
    BY <1>2, <1>10, <2>1, <2>4, <2>5 DEF legs, a
<1> QED
  BY <1>8, <1>9, <1>10

(***************************************************************************)
(* What Amadeus answers a search with.  (_extract_all_legs rests on it)    *)
(***************************************************************************)
LEMMA OffersAnswer ==
    ASSUME SearchAssumption, NEW a \in Ask, NEW o \in OffersFor(a)
    PROVE  /\ o \in Offer
           /\ Len(o.itineraries) = Len(a.legs)
           /\ \A i \in 1..Len(a.legs) : Answers(o.itineraries[i], a.legs[i])
           /\ o.slots = Travelers(a.party)
           /\ a.party.adults >= 1
<1>1. PICK its \in [1..Len(a.legs) -> Sold] :
          /\ o = [itineraries |-> its, slots |-> Travelers(a.party)]
          /\ a.party.adults >= 1
          /\ \A i \in 1..Len(a.legs) : Answers(its[i], a.legs[i])
  BY DEF OffersFor
<1>2. a.legs \in Seq(Leg) /\ a.legs # <<>> /\ a.party \in Party
  BY DEF Ask
<1>3. Len(a.legs) \in Nat \ {0}
  BY <1>2
<1>4. its \in [1..Len(a.legs) -> Itinerary]
  BY SearchAssumption DEF SearchAssumption
<1>5. its \in Seq(Itinerary) /\ Len(its) = Len(a.legs)
  BY <1>3, <1>4, FunctionIsSeq
<1>6. its # <<>>
  BY <1>3, <1>5
<1>7. Travelers(a.party) \in Seq(TravelerTypes)
  BY <1>2, TravelersOfParty
<1>8. o \in Offer
  BY <1>1, <1>5, <1>6, <1>7 DEF Offer
<1> QED
  BY <1>1, <1>5, <1>8
-----------------------------------------------------------------------------
(* The invariant *)

AskFits == stage \notin {"idle", "booked"} => ask \in Asked /\ ~Refused(ask)

OfferFits ==
    stage \in {"chosen", "charged", "tier1", "tier2"} =>
        /\ offer \in Offer
        /\ Len(offer.itineraries) = Len(ask.legs)
        /\ \A i \in 1..Len(ask.legs) : Answers(offer.itineraries[i], ask.legs[i])
        /\ offer.slots \in {Travelers(ask.party), <<>>}
        /\ ask.party.adults >= 1

ListFits ==
    stage \in {"tier1", "tier2"} =>
        /\ list # <<>>
        /\ offer.slots # <<>> => Len(list) = Len(offer.slots)

AgainFits == stage = "tier2" => again = Research(offer)

BookingFits ==
    /\ stage = "booked" <=> booking # None
    /\ booking # None =>
          /\ booking.leaves - booking.departureAt >= -MaxZone
          /\ booking.refund = "full_auto" =>
                /\ booking.cancelled - booking.made <= Window
                /\ booking.departureAt - booking.made >= Lead

TripInv ==
    /\ TripTypeOK
    /\ AskFits
    /\ OfferFits
    /\ ListFits
    /\ AgainFits
    /\ BookingFits
    /\ RightSeat
    /\ ChargeIsTheFare

(***************************************************************************)
(* A search by route has at most two legs.  (search_flights)               *)
(***************************************************************************)
LEMMA RouteIsShort ==
    ASSUME SearchAssumption, NEW a \in Asked, a.form = "route"
    PROVE  Len(a.legs) <= 2
<1>1. Len(a.legs) = 1 \/ Len(a.legs) = 2
  BY DEF SearchAssumption, IsSimpleRoundTrip
<1>2. 1 <= 2 /\ 2 <= 2
  OBVIOUS
<1> QED
  BY <1>1, <1>2

(***************************************************************************)
(* What the invariant says of Tier 2's search: it is the customer's trip.  *)
(* (_tier2_fare_recheck_and_rebook)                                        *)
(***************************************************************************)
LEMMA ResearchIsTheTrip ==
    ASSUME TripAssumption, SearchAssumption, TripInv
    PROVE  SameTrip
<1> SUFFICES ASSUME stage = "tier2"
             PROVE  /\ Len(again.legs) = Len(ask.legs)
                    /\ \A i \in 1..Len(ask.legs) :
                          /\ SameCity(again.legs[i].origin, ask.legs[i].origin)
                          /\ SameCity(again.legs[i].destination, ask.legs[i].destination)
                          /\ again.legs[i].date = ask.legs[i].date
                    /\ offer.slots # <<>> => again.party = ask.party
                    /\ ~Refused(again)
  BY DEF SameTrip
<1> DEFINE n == Len(ask.legs)
           legs == ExtractAllLegs(offer)
<1>1. ask \in Asked /\ ask \in Ask /\ ~LegsRefused(ask) /\ ~PartyRefused(ask.party)
  BY DEF TripInv, AskFits, SearchAssumption, Refused
<1>2. ask.legs \in Seq(Leg) /\ ask.legs # <<>> /\ ask.party \in Party
      /\ ask.form \in {"route", "multi"}
  BY <1>1 DEF Ask
<1>3. /\ offer \in Offer /\ Len(offer.itineraries) = n
      /\ \A i \in 1..n : Answers(offer.itineraries[i], ask.legs[i])
      /\ offer.slots \in {Travelers(ask.party), <<>>}
      /\ ask.party.adults >= 1
      /\ again = Research(offer)
  BY DEF TripInv, OfferFits, AgainFits
<1>4. n \in Nat \ {0}
  BY <1>2
<1>5. /\ Len(legs) = n
      /\ \A i \in 1..n : offer.itineraries[i] \in Itinerary /\ legs[i] = LegOf(offer.itineraries[i])
  BY <1>3, LegsOfOffer
<1>6. /\ again.form \in {"route", "multi"} /\ (again.form = "multi" => n >= 2)
      /\ Len(again.legs) = n
      /\ \A i \in 1..n : SameLeg(again.legs[i], legs[i])
      /\ again.party = PassengerCounts(offer)
  BY <1>3, <1>5, ResearchHasTheLegs
<1> HIDE DEF n, legs
<1>7. ASSUME NEW i \in 1..n
      PROVE  /\ SameCity(again.legs[i].origin, ask.legs[i].origin)
             /\ SameCity(again.legs[i].destination, ask.legs[i].destination)
             /\ again.legs[i].date = ask.legs[i].date
             /\ Complete(again.legs[i])
  <2>1. SameLeg(again.legs[i], LegOf(offer.itineraries[i]))
    BY <1>5, <1>6
  <2>2. Answers(offer.itineraries[i], ask.legs[i])
    BY <1>3 DEF n
  <2>3. Complete(LegOf(offer.itineraries[i]))
    BY <1>5, ItineraryIsLeg
  <2> QED
    BY <2>1, <2>2, <2>3 DEF SameLeg, Answers, Complete
<1>8. offer.slots # <<>> => again.party = ask.party
  BY <1>2, <1>3, <1>6, PartyIsCounted
<1>9. ~PartyRefused(again.party)
  <2>1. CASE offer.slots # <<>>
    BY <2>1, <1>1, <1>8
  <2>2. CASE offer.slots = <<>>
    <3>1. again.party = [adults |-> 1, children |-> 0, infants |-> 0]
      BY <1>6, <2>2, NobodyIsCounted
    <3> QED
      BY <3>1 DEF PartyRefused, PartySize, TripAssumption
  <2> QED
    BY <2>1, <2>2
<1>10. again.form = "multi" => n \in 2..MaxLegs
  <2>1. n <= MaxLegs
    <3>1. CASE ask.form = "multi"
      BY <1>1, <1>4, <3>1 DEF LegsRefused, n, TripAssumption
    <3>2. CASE ask.form = "route"
      BY <1>1, <1>4, <3>2, RouteIsShort DEF n, TripAssumption
    <3> QED
      BY <1>2, <3>1, <3>2
  <2> QED
    BY <1>4, <1>6, <2>1 DEF TripAssumption
<1>11. InOrder(again.legs)
  <2>1. \A i \in 1..n - 1 : ask.legs[i].date <= ask.legs[i + 1].date
    BY <1>1 DEF LegsRefused, InOrder, n
  <2>2. \A i \in 1..n - 1 : i \in 1..n /\ i + 1 \in 1..n
    BY <1>4
  <2> QED
    BY <1>6, <1>7, <2>1, <2>2 DEF InOrder
<1>12. again.form = "multi" => \A i \in DOMAIN again.legs : Complete(again.legs[i])
  <2>1. again.legs \in Seq(Leg)
    BY <1>3, ResearchHasTheLegs
  <2>2. DOMAIN again.legs = 1..n
    BY <1>6, <2>1, LenProperties
  <2> QED
    BY <1>7, <2>2
<1>13. ~LegsRefused(again)
  BY <1>6, <1>10, <1>11, <1>12 DEF LegsRefused
<1> QED
  BY <1>6, <1>7, <1>8, <1>9, <1>13 DEF Refused, n

\* While a trip goes on, what Tier 2 would search for is a search.
LEMMA ResearchIsAsk ==
    ASSUME TripAssumption, SearchAssumption, TripInv,
           stage \in {"chosen", "charged", "tier1", "tier2"}
    PROVE  Research(offer) \in Ask
<1>1. offer \in Offer /\ offer.slots \in {Travelers(ask.party), <<>>} /\ ask.party.adults >= 1
  BY DEF TripInv, OfferFits
<1>2. ask.party \in Party
  BY DEF TripInv, AskFits, SearchAssumption, Ask
<1>3. PassengerCounts(offer) \in Party
  <2>1. CASE offer.slots = Travelers(ask.party)
    BY <1>1, <1>2, <2>1, PartyIsCounted
  <2>2. CASE offer.slots = <<>>
    <3>1. PassengerCounts(offer) = [adults |-> 1, children |-> 0, infants |-> 0]
      BY <2>2, NobodyIsCounted
    <3> QED BY <3>1 DEF Party
  <2> QED BY <1>1, <2>1, <2>2
<1>4. /\ Research(offer).form \in {"route", "multi"}
      /\ Research(offer).legs \in Seq(Leg) \ {<<>>}
      /\ Research(offer).party = PassengerCounts(offer)
  BY <1>1, ResearchHasTheLegs
<1>5. PICK f, l, q : Research(offer) = [form |-> f, legs |-> l, party |-> q]
  BY DEF Research
<1>6. f \in {"route", "multi"} /\ l \in Seq(Leg) \ {<<>>} /\ q \in Party
  BY <1>3, <1>4, <1>5
<1> QED
  BY <1>5, <1>6 DEF Ask

LEMMA TripInitInv == ASSUME SearchAssumption, TripInit PROVE TripInv
<1>1. TripTypeOK
  BY DEF TripInit, TripTypeOK, Stages
<1> QED
  BY <1>1 DEF TripInit, TripInv, AskFits, OfferFits, ListFits, AgainFits, BookingFits,
              RightSeat, ChargeIsTheFare

LEMMA SearchKeepsInv ==
    ASSUME TripInv, NEW a \in Asked, Search(a)
    PROVE  TripInv'
<1>1. stage = "idle" /\ stage' = "offers" /\ ask' = a /\ ~Refused(a)
      /\ UNCHANGED <<offer, charge, list, again, booking, clock>>
  BY DEF Search
<1>2. TripTypeOK'
  BY <1>1 DEF TripInv, TripTypeOK, Stages
<1>3. AskFits' /\ OfferFits' /\ ListFits' /\ AgainFits'
  BY <1>1 DEF AskFits, OfferFits, ListFits, AgainFits
<1>4. BookingFits' /\ RightSeat' /\ ChargeIsTheFare'
  BY <1>1 DEF TripInv, BookingFits, RightSeat, ChargeIsTheFare
<1> QED
  BY <1>2, <1>3, <1>4 DEF TripInv

LEMMA ChooseKeepsInv ==
    ASSUME TripAssumption, SearchAssumption, TripInv, stage = "offers",
           NEW o \in OffersFor(ask), NEW slots \in {o.slots, <<>>}, Choose(o, slots)
    PROVE  TripInv'
<1>1. stage' = "chosen" /\ offer' = [o EXCEPT !.slots = slots]
      /\ UNCHANGED <<ask, charge, list, again, booking, clock>>
  BY DEF Choose
<1>2. ask \in Ask /\ ask \in Asked /\ ~Refused(ask)
  BY DEF TripInv, AskFits, SearchAssumption
<1>3. /\ o \in Offer /\ Len(o.itineraries) = Len(ask.legs)
      /\ \A i \in 1..Len(ask.legs) : Answers(o.itineraries[i], ask.legs[i])
      /\ o.slots = Travelers(ask.party) /\ ask.party.adults >= 1
  BY <1>2, OffersAnswer
<1>4. slots \in Seq(TravelerTypes)
  <2>1. o.slots \in Seq(TravelerTypes)
    BY <1>3 DEF Offer
  <2> QED
    BY <2>1, EmptySeq
<1>5. offer' \in Offer
  BY <1>1, <1>3, <1>4 DEF Offer
<1>6. offer'.itineraries = o.itineraries /\ offer'.slots = slots
  BY <1>1, <1>3 DEF Offer
<1>7. TripTypeOK'
  BY <1>1, <1>5 DEF TripInv, TripTypeOK, Stages
<1>8. AskFits' /\ ListFits' /\ AgainFits'
  BY <1>1, <1>2 DEF AskFits, ListFits, AgainFits
<1>9. OfferFits'
  BY <1>1, <1>3, <1>5, <1>6 DEF OfferFits
<1>10. BookingFits' /\ RightSeat' /\ ChargeIsTheFare'
  BY <1>1 DEF TripInv, BookingFits, RightSeat, ChargeIsTheFare
<1> QED
  BY <1>7, <1>8, <1>9, <1>10 DEF TripInv

LEMMA CheckOutKeepsInv ==
    ASSUME SearchAssumption, TripInv, NEW total \in Totals, NEW currency \in Currencies,
           CheckOut(total, currency)
    PROVE  TripInv'
<1> DEFINE amount == ToStripeAmount(total, currency)
<1>1. stage = "chosen" /\ stage' = "charged"
      /\ charge' = [total |-> total, currency |-> currency, amount |-> amount]
      /\ UNCHANGED <<ask, offer, list, again, booking, clock>>
  BY DEF CheckOut
<1>2. total \in Nat /\ SmallestUnit[currency] = (IF currency \in ZeroDecimal THEN 100 ELSE 1)
  BY DEF SearchAssumption
<1>3. /\ amount \in Nat
      /\ 2 * (amount * SmallestUnit[currency] - total) <= SmallestUnit[currency]
      /\ -2 * (amount * SmallestUnit[currency] - total) <= SmallestUnit[currency]
  BY <1>2, AmountIsTheFare
<1> HIDE DEF amount
<1>4. charge' \in Charge
  BY <1>1, <1>2, <1>3 DEF Charge
<1>5. TripTypeOK'
  BY <1>1, <1>4 DEF TripInv, TripTypeOK, Stages
<1>6. AskFits' /\ OfferFits' /\ ListFits' /\ AgainFits'
  BY <1>1 DEF TripInv, AskFits, OfferFits, ListFits, AgainFits
<1>7. BookingFits' /\ RightSeat'
  BY <1>1 DEF TripInv, BookingFits, RightSeat
<1>8. ChargeIsTheFare'
  BY <1>1, <1>3 DEF ChargeIsTheFare
<1> QED
  BY <1>5, <1>6, <1>7, <1>8 DEF TripInv

LEMMA ConfirmKeepsInv ==
    ASSUME SearchAssumption, TripInv, NEW travelers \in Lists(ask.party), Confirm(travelers)
    PROVE  TripInv'
<1>1. stage = "charged" /\ stage' = "tier1" /\ list' = travelers /\ charge' = None
      /\ ValidTravelers(travelers) /\ ~CountMismatch(offer, travelers)
      /\ UNCHANGED <<ask, offer, again, booking, clock>>
  BY DEF Confirm
<1>2. ask.party \in Party
  BY <1>1 DEF TripInv, AskFits, SearchAssumption, Ask
<1>3. travelers \in Seq(TravelerTypes)
  BY <1>2, ListsAreOfTravelers
<1>4. TripTypeOK'
  BY <1>1, <1>3 DEF TripInv, TripTypeOK, Stages
<1>5. AskFits' /\ OfferFits' /\ AgainFits'
  BY <1>1 DEF TripInv, AskFits, OfferFits, AgainFits
<1>6. /\ travelers # <<>>
      /\ offer.slots # <<>> => Len(travelers) = Len(offer.slots)
  BY <1>1 DEF ValidTravelers, CountMismatch
<1>7. ListFits'
  BY <1>1, <1>6 DEF ListFits
<1>8. BookingFits' /\ RightSeat' /\ ChargeIsTheFare'
  BY <1>1 DEF TripInv, BookingFits, RightSeat, ChargeIsTheFare
<1> QED
  BY <1>4, <1>5, <1>7, <1>8 DEF TripInv

(***************************************************************************)
(* An order keeps the invariant if everyone listed gets a seat, and the    *)
(* offer is priced for the list where the chosen one was.                  *)
(* (_build_booking_payload)                                                *)
(***************************************************************************)
LEMMA BookedKeepsInv ==
    ASSUME TripAssumption, SearchAssumption, TripInv,
           NEW o \in Offer, Booked(o),
           Len(Seats(o, list)) = Len(list), offer.slots = list => o.slots = list,
           stage \in {"tier1", "tier2"}
    PROVE  TripInv'
<1> DEFINE it == o.itineraries[1]
           zone == Zone[First(it).from]
<1>1. /\ stage' = "booked"
      /\ booking' = [seats |-> Seats(o, list), priced |-> offer.slots, made |-> clock,
                     departureAt |-> EarliestDeparture(o), leaves |-> TakesOff(o),
                     cancelled |-> 0, refund |-> "none"]
      /\ ask' = None /\ offer' = None /\ again' = None
      /\ UNCHANGED <<charge, list, clock>>
  BY DEF Booked
<1>2. list \in Seq(TravelerTypes) /\ clock \in Nat
  BY DEF TripInv, TripTypeOK
<1>3. o.slots \in Seq(TravelerTypes)
  BY DEF Offer
<1>4. /\ Seats(o, list) \in Seq(Seat)
      /\ \A i \in 1..Len(list) :
            Seats(o, list)[i].slot = o.slots[i] /\ Seats(o, list)[i].traveler = list[i]
  BY <1>2, <1>3, SeatsInOrder
<1>5. First(it) \in Segment
  <2>1. 1 \in 1..Len(o.itineraries)
    BY LegsOfOffer
  <2> QED
    BY <2>1, LegsOfOffer, ItineraryIsLeg
<1>6. /\ First(it).at \in Nat /\ zone \in Int
      /\ -MaxZone <= zone /\ zone <= MaxZone /\ MaxZone \in Nat
  BY <1>5 DEF Segment, TripAssumption
<1>7. EarliestDeparture(o) = First(it).at /\ TakesOff(o) = First(it).at - zone
  BY DEF EarliestDeparture, TakesOff
<1> HIDE DEF it, zone
<1>8. EarliestDeparture(o) \in Nat /\ TakesOff(o) \in Int
      /\ TakesOff(o) - EarliestDeparture(o) >= -MaxZone
  BY <1>6, <1>7
<1>9. booking' \in Booking
  <2>1. offer.slots \in Seq(TravelerTypes)
    BY DEF TripInv, OfferFits, Offer
  <2> QED
    BY <1>1, <1>2, <1>4, <1>8, <2>1 DEF Booking, Decisions
<1>10. booking' # None
  BY <1>9, SearchAssumption DEF SearchAssumption
<1>11. TripTypeOK'
  BY <1>1, <1>9 DEF TripInv, TripTypeOK, Stages
<1>12. AskFits' /\ OfferFits' /\ ListFits' /\ AgainFits'
  BY <1>1 DEF AskFits, OfferFits, ListFits, AgainFits
<1>13. BookingFits'
  BY <1>1, <1>8, <1>10 DEF BookingFits
<1>14. RightSeat'
  <2>1. offer.slots # <<>> => Len(list) = Len(offer.slots)
    BY DEF TripInv, ListFits
  <2> QED
    BY <1>1, <1>4, <2>1 DEF RightSeat
<1>15. ChargeIsTheFare'
  BY <1>1 DEF TripInv, ChargeIsTheFare
<1> QED
  BY <1>11, <1>12, <1>13, <1>14, <1>15 DEF TripInv

LEMMA Tier1TakesKeepsInv ==
    ASSUME TripAssumption, SearchAssumption, TripInv, Tier1Takes
    PROVE  TripInv'
<1>1. stage = "tier1" /\ Booked(offer) /\ Seats(offer, list) # <<>>
  BY DEF Tier1Takes, Booked
<1>2. offer \in Offer /\ list \in Seq(TravelerTypes)
  BY <1>1 DEF TripInv, TripTypeOK, OfferFits
<1>3. offer.slots \in Seq(TravelerTypes)
  BY <1>2 DEF Offer
<1>4. offer.slots # <<>>
  <2> SUFFICES ASSUME offer.slots = <<>> PROVE FALSE
    OBVIOUS
  <2>1. Len(offer.slots) = 0 /\ Len(list) \in Nat
    BY <1>2, LenProperties
  <2>2. \A n \in Nat : 0 <= n
    OBVIOUS
  <2>3. Len(offer.slots) <= Len(list)
    BY <2>1, <2>2
  <2>4. Seats(offer, list) \in Seq(Seat)
    BY <1>2, <1>3, SeatsInOrder
  <2>5. Len(Seats(offer, list)) = Len(offer.slots)
    BY <1>2, <1>3, <2>3, SeatsInOrder
  <2> QED
    BY <1>1, <2>1, <2>4, <2>5, EmptySeq
<1>5. Len(offer.slots) = Len(list)
  BY <1>1, <1>4 DEF TripInv, ListFits
<1>6. Len(Seats(offer, list)) = Len(list)
  BY <1>2, <1>3, <1>5, SeatsInOrder
<1> QED
  BY <1>1, <1>2, <1>5, <1>6, BookedKeepsInv

LEMMA Tier1GivesUpKeepsInv ==
    ASSUME TripAssumption, SearchAssumption, TripInv, Tier1GivesUp
    PROVE  TripInv'
<1>1. stage = "tier1" /\ stage' = "tier2" /\ again' = Research(offer)
      /\ UNCHANGED <<ask, offer, charge, list, booking, clock>>
  BY DEF Tier1GivesUp
<1>2. again' \in Ask
  BY <1>1, ResearchIsAsk
<1>3. TripTypeOK'
  BY <1>1, <1>2 DEF TripInv, TripTypeOK, Stages
<1>4. AskFits' /\ OfferFits' /\ ListFits'
  BY <1>1 DEF TripInv, AskFits, OfferFits, ListFits
<1>5. AgainFits'
  BY <1>1 DEF AgainFits, Research, ExtractAllLegs, PassengerCounts, Seated
<1>6. BookingFits' /\ RightSeat' /\ ChargeIsTheFare'
  BY <1>1 DEF TripInv, BookingFits, RightSeat, ChargeIsTheFare
<1> QED
  BY <1>3, <1>4, <1>5, <1>6 DEF TripInv

LEMMA Tier2TakesKeepsInv ==
    ASSUME TripAssumption, SearchAssumption, TripInv, stage = "tier2",
           NEW alternative \in OffersFor(again), Tier2Takes(alternative)
    PROVE  TripInv'
<1>1. Len(alternative.slots) = Len(list) /\ Booked(alternative)
  BY DEF Tier2Takes
<1>2. again = Research(offer) /\ Research(offer) \in Ask /\ list \in Seq(TravelerTypes)
  BY ResearchIsAsk DEF TripInv, TripTypeOK, AgainFits
<1>3. alternative \in Offer /\ alternative.slots = Travelers(again.party)
  BY <1>2, OffersAnswer
<1>4. alternative.slots \in Seq(TravelerTypes)
  BY <1>3 DEF Offer
<1>5. Len(Seats(alternative, list)) = Len(list)
  BY <1>1, <1>2, <1>4, SeatsInOrder
<1>6. offer.slots = list => alternative.slots = list
  <2> SUFFICES ASSUME offer.slots = list PROVE alternative.slots = list
    OBVIOUS
  <2>1. offer.slots # <<>>
    BY DEF TripInv, ListFits
  <2>2. again.party = ask.party
    BY <2>1, ResearchIsTheTrip DEF SameTrip
  <2>3. offer.slots = Travelers(ask.party)
    BY <2>1 DEF TripInv, OfferFits
  <2> QED
    BY <1>3, <2>2, <2>3
<1> QED
  BY <1>1, <1>3, <1>5, <1>6, BookedKeepsInv

LEMMA CancelKeepsInv ==
    ASSUME SearchAssumption, TripInv, Cancel
    PROVE  TripInv'
<1> DEFINE auto == EligibleForFreeCancellation(booking.made, booking.departureAt, clock)
<1>1. /\ stage = "booked" /\ booking # None
      /\ booking' = [booking EXCEPT !.cancelled = clock,
                        !.refund = IF auto THEN "full_auto" ELSE "pending_manual_review"]
      /\ UNCHANGED <<stage, ask, offer, charge, list, again, clock>>
  BY DEF Cancel, TripInv, BookingFits
<1>2. booking \in Booking /\ clock \in Nat
  BY <1>1 DEF TripInv, TripTypeOK
<1>3. booking' \in Booking
  BY <1>1, <1>2 DEF Booking, Decisions
<1>4. /\ booking'.seats = booking.seats /\ booking'.priced = booking.priced
      /\ booking'.made = booking.made /\ booking'.departureAt = booking.departureAt
      /\ booking'.leaves = booking.leaves /\ booking'.cancelled = clock
      /\ booking'.refund = "full_auto" => auto
  BY <1>1, <1>2 DEF Booking
<1>5. TripTypeOK'
  BY <1>1, <1>3 DEF TripInv, TripTypeOK
<1>6. AskFits' /\ OfferFits' /\ ListFits' /\ AgainFits'
  BY <1>1 DEF AskFits, OfferFits, ListFits, AgainFits
<1>7. booking' # None
  BY <1>3, SearchAssumption DEF SearchAssumption
<1>8. BookingFits'
  BY <1>1, <1>4, <1>7 DEF TripInv, BookingFits, EligibleForFreeCancellation
<1>9. RightSeat' /\ ChargeIsTheFare'
  BY <1>1, <1>4, <1>7 DEF TripInv, RightSeat, ChargeIsTheFare
<1> QED
  BY <1>5, <1>6, <1>8, <1>9 DEF TripInv

LEMMA RestKeepsInv ==
    ASSUME SearchAssumption, TripInv, GiveUp \/ Tick \/ UNCHANGED tripVars
    PROVE  TripInv'
<1>1. CASE GiveUp
  BY <1>1, TripInitInv DEF GiveUp, TripInv, TripTypeOK, Stages, AskFits, OfferFits, ListFits,
                          AgainFits, BookingFits, RightSeat, ChargeIsTheFare
<1>2. CASE Tick \/ UNCHANGED tripVars
  <2>1. UNCHANGED <<stage, ask, offer, charge, list, again, booking>>
    BY <1>2 DEF Tick, tripVars
  <2>2. clock' \in Nat
    BY <1>2 DEF Tick, tripVars, TripInv, TripTypeOK
  <2>3. TripTypeOK'
    BY <2>1, <2>2 DEF TripInv, TripTypeOK
  <2>4. AskFits' /\ OfferFits' /\ ListFits'
    BY <2>1 DEF TripInv, AskFits, OfferFits, ListFits
  <2>5. AgainFits'
    BY <2>1 DEF TripInv, AgainFits, Research, ExtractAllLegs, PassengerCounts, Seated
  <2>6. BookingFits' /\ RightSeat' /\ ChargeIsTheFare'
    BY <2>1 DEF TripInv, BookingFits, RightSeat, ChargeIsTheFare
  <2> QED
    BY <2>3, <2>4, <2>5, <2>6 DEF TripInv
<1> QED
  BY <1>1, <1>2

(***************************************************************************)
(* Every step of a trip keeps the invariant.                               *)
(***************************************************************************)
LEMMA TripStepKeepsInv ==
    ASSUME TripAssumption, SearchAssumption, TripInv, [TripNext]_tripVars
    PROVE  TripInv'
<1>1. CASE \E a \in Asked : Search(a)
  BY <1>1, SearchKeepsInv
<1>2. CASE stage = "offers" /\ \E o \in OffersFor(ask) :
                \E slots \in {o.slots, <<>>} : Choose(o, slots)
  <2>1. PICK o \in OffersFor(ask) : \E slots \in {o.slots, <<>>} : Choose(o, slots)
    BY <1>2
  <2>2. PICK slots \in {o.slots, <<>>} : Choose(o, slots)
    BY <2>1
  <2> QED
    BY <1>2, <2>2, ChooseKeepsInv
<1>3. CASE AfterSearch
  <2>1. CASE \E total \in Totals, currency \in Currencies : CheckOut(total, currency)
    BY <2>1, CheckOutKeepsInv
  <2>2. CASE \E travelers \in Lists(ask.party) : Confirm(travelers)
    BY <2>2, ConfirmKeepsInv
  <2>3. CASE Tier1Takes
    BY <2>3, Tier1TakesKeepsInv
  <2>4. CASE Tier1GivesUp
    BY <2>4, Tier1GivesUpKeepsInv
  <2>5. CASE stage = "tier2" /\ \E alternative \in OffersFor(again) : Tier2Takes(alternative)
    BY <2>5, Tier2TakesKeepsInv
  <2>6. CASE Cancel
    BY <2>6, CancelKeepsInv
  <2>7. CASE Tick \/ GiveUp
    BY <2>7, RestKeepsInv
  <2> QED
    BY <1>3, <2>1, <2>2, <2>3, <2>4, <2>5, <2>6, <2>7 DEF AfterSearch
<1>4. CASE UNCHANGED tripVars
  BY <1>4, RestKeepsInv
<1> QED
  BY <1>1, <1>2, <1>3, <1>4 DEF TripNext

(***************************************************************************)
(* Every reachable state of a trip satisfies the invariant.                *)
(***************************************************************************)
THEOREM TripInvHolds == TripSpec => []TripInv
<1>1. TripInit => TripInv
  BY SearchAssumption, TripInitInv
<1>2. TripInv /\ [TripNext]_tripVars => TripInv'
  BY TripAssumption, SearchAssumption, TripStepKeepsInv
<1> QED
  BY <1>1, <1>2, PTL DEF TripSpec

(***************************************************************************)
(* What an automatic refund says of the departure: the booking was made    *)
(* the lead before it and cancelled within the window, and the time on     *)
(* file is off by no more than a zone.                                     *)
(***************************************************************************)
LEMMA RefundIsEarly == ASSUME TripAssumption, TripInv PROVE NoAutoRefundNearDeparture
<1> SUFFICES ASSUME booking # None, booking.refund = "full_auto"
             PROVE  booking.leaves - booking.cancelled >= Lead - Window - MaxZone
  BY DEF NoAutoRefundNearDeparture
<1>1. /\ booking.leaves \in Int /\ booking.departureAt \in Nat
      /\ booking.made \in Nat /\ booking.cancelled \in Nat
  BY DEF TripInv, TripTypeOK, Booking
<1>2. /\ booking.leaves - booking.departureAt >= -MaxZone
      /\ booking.cancelled - booking.made <= Window
      /\ booking.departureAt - booking.made >= Lead
  BY DEF TripInv, BookingFits
<1>3. Lead \in Nat /\ Window \in Nat /\ MaxZone \in Nat
  BY DEF TripAssumption
<1> QED
  BY <1>1, <1>2, <1>3

(***************************************************************************)
(* What Tier 2 searches for is the customer's own trip, however many legs  *)
(* it has and whoever travels.  (_tier2_fare_recheck_and_rebook)           *)
(***************************************************************************)
THEOREM TripStaysTheSame == TripSpec => []SameTrip
<1>1. TripInv => SameTrip
  BY TripAssumption, SearchAssumption, ResearchIsTheTrip
<1> QED
  BY <1>1, TripInvHolds, PTL

(***************************************************************************)
(* Everyone listed, and everyone the chosen offer was priced for, has a    *)
(* seat, of his own type if the list follows that offer, whichever offer   *)
(* is booked.                                                              *)
(***************************************************************************)
THEOREM EveryoneHasTheRightSeat == TripSpec => []RightSeat
<1>1. TripInv => RightSeat
  BY DEF TripInv
<1> QED
  BY <1>1, TripInvHolds, PTL

(***************************************************************************)
(* The charge is the fare, to the nearest unit, for every price.           *)
(***************************************************************************)
THEOREM ChargesAreFares == TripSpec => []ChargeIsTheFare
<1>1. TripInv => ChargeIsTheFare
  BY DEF TripInv
<1> QED
  BY <1>1, TripInvHolds, PTL

(***************************************************************************)
(* No automatic refund close to the departure, for every window and lead.  *)
(***************************************************************************)
THEOREM AutoRefundsAreEarly == TripSpec => []NoAutoRefundNearDeparture
<1>1. TripInv => NoAutoRefundNearDeparture
  BY TripAssumption, RefundIsEarly
<1> QED
  BY <1>1, TripInvHolds, PTL
=============================================================================
