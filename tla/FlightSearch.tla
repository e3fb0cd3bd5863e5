----------------------------- MODULE FlightSearch -----------------------------
(***************************************************************************)
(* One trip from the search to the cancellation, as far as its data goes:  *)
(* what is searched for, offered, charged, seated, searched for again by   *)
(* Tier 2 when the first offer cannot be booked, and refunded.  Payment,   *)
(* records and failures of the same calls are BookingEngine's and          *)
(* BookingCancel's.  The agent carries the offer from one tool to the next *)
(* as JSON, so its pricings may be missing.                                *)
(***************************************************************************)
EXTENDS TripRules

CONSTANTS
    Asked,          \* the searches the agent may make
    Sold,           \* the itineraries Amadeus has seats on
    Totals,         \* prices an offer may have
    Currencies,     \* and their currencies
    SmallestUnit,   \* SmallestUnit[c]: in hundredths, what Stripe counts c in
    Horizon,        \* bound on the clock of a trip
    None            \* no ask, offer, charge or booking

\* What Stripe is asked to collect.
Charge == [total: Nat, currency: Currencies, amount: Nat]

Seat == [slot: TravelerTypes, traveler: TravelerTypes]

Decisions == {"none", "full_auto", "pending_manual_review"}

\* The booking: its seats, what the chosen offer said of the party, when it was
\* made, the departure on file, the true one, and the cancellation.
Booking ==
    [seats: Seq(Seat), priced: Seq(TravelerTypes), made: Nat, departureAt: Nat,
     leaves: Int, cancelled: Nat, refund: Decisions]

ASSUME SearchAssumption ==
    /\ Asked \subseteq Ask
    \* search_flights has one route and a return date to give.
    /\ \A a \in Asked : a.form = "route" => Len(a.legs) = 1 \/ IsSimpleRoundTrip(a.legs)
    /\ Sold \subseteq Itinerary
    /\ Totals \subseteq Nat
    /\ SmallestUnit = [c \in Currencies |-> IF c \in ZeroDecimal THEN 100 ELSE 1]
    /\ Horizon \in Nat
    /\ None \notin Ask \cup Offer \cup Charge \cup Booking

VARIABLES
    stage,      \* where the trip is
    ask,        \* what the customer wants
    offer,      \* the offer the agent chose
    charge,     \* what Stripe was asked to collect for it
    list,       \* the travelers the agent listed
    again,      \* what Tier 2 searched for
    booking,    \* the order at Amadeus and its row
    clock       \* hours UTC since the day the trip was first searched for

tripVars == <<stage, ask, offer, charge, list, again, booking, clock>>

Stages == {"idle", "offers", "chosen", "charged", "tier1", "tier2", "booked"}

TripInit ==
    /\ stage = "idle"
    /\ ask = None /\ offer = None /\ charge = None
    /\ list = <<>> /\ again = None /\ booking = None
    /\ clock = 0
-----------------------------------------------------------------------------
(* Amadeus *)

SameCity(a, b) == a \in Airports /\ b \in Airports /\ City[a] = City[b]

\* An itinerary answers a leg on its day, from and to any airport of its cities.
Answers(itinerary, leg) ==
    /\ SameCity(LegOf(itinerary).origin, leg.origin)
    /\ SameCity(LegOf(itinerary).destination, leg.destination)
    /\ LegOf(itinerary).date = leg.date

\* It wants an adult, and prices the travelers in the order they are given.
OffersFor(a) ==
    {[itineraries |-> its, slots |-> Travelers(a.party)] :
        its \in {f \in [1..Len(a.legs) -> Sold] :
                    /\ a.party.adults >= 1
                    /\ \A i \in 1..Len(a.legs) : Answers(f[i], a.legs[i])}}
-----------------------------------------------------------------------------
(* The search tools.  A refused search, or one without an answer, changes   *)
(* nothing.                                                                 *)
Search(a) ==
    /\ stage = "idle"
    /\ ~Refused(a)
    /\ stage' = "offers" /\ ask' = a
    /\ UNCHANGED <<offer, charge, list, again, booking, clock>>

\* The agent takes one of the offers and passes it on, whole or without its
\* pricings.
Choose(o, slots) ==
    /\ stage = "offers"
    /\ slots \in {o.slots, <<>>}
    /\ stage' = "chosen" /\ offer' = [o EXCEPT !.slots = slots]
    /\ UNCHANGED <<ask, charge, list, again, booking, clock>>

\* create_payment_checkout: the amount comes from the offer's own price.
CheckOut(total, currency) ==
    /\ stage = "chosen"
    /\ stage' = "charged"
    /\ charge' = [total |-> total, currency |-> currency,
                  amount |-> ToStripeAmount(total, currency)]
    /\ UNCHANGED <<ask, offer, list, again, booking, clock>>

\* The party as the agent may list it: in order, with someone of another type in
\* one place, with one left out, or with one too many.
Lists(p) ==
    LET party == Travelers(p)
        n == PartySize(p)
    IN  {party}
        \cup {[party EXCEPT ![i] = t] : i \in 1..n, t \in TravelerTypes}
        \cup {[i \in 1..n - 1 |-> IF i < j THEN party[i] ELSE party[i + 1]] : j \in 1..n}
        \cup {Append(party, t) : t \in TravelerTypes}

\* confirm_flight_booking's checks of its arguments.
Confirm(travelers) ==
    /\ stage = "charged"
    /\ ValidTravelers(travelers)
    /\ ~CountMismatch(offer, travelers)
    /\ stage' = "tier1" /\ list' = travelers /\ charge' = None
    /\ UNCHANGED <<ask, offer, again, booking, clock>>

\* Amadeus takes no order without travelers, nor for a flight that has left.
Booked(o) ==
    /\ Seats(o, list) # <<>>
    /\ TakesOff(o) > clock
    /\ stage' = "booked"
    /\ booking' = [seats |-> Seats(o, list), priced |-> offer.slots, made |-> clock,
                   departureAt |-> EarliestDeparture(o), leaves |-> TakesOff(o),
                   cancelled |-> 0, refund |-> "none"]
    /\ ask' = None /\ offer' = None /\ again' = None
    /\ UNCHANGED <<charge, list, clock>>

Tier1Takes ==
    /\ stage = "tier1"
    /\ Booked(offer)

\* Every attempt of Tier 1 failed: search again.
Tier1GivesUp ==
    /\ stage = "tier1"
    /\ stage' = "tier2" /\ again' = Research(offer)
    /\ UNCHANGED <<ask, offer, charge, list, booking, clock>>

\* The cheapest answer is booked if it has as many slots as there are travelers.
Tier2Takes(alternative) ==
    /\ stage = "tier2"
    /\ Len(alternative.slots) = Len(list)
    /\ Booked(alternative)

\* Nothing was chosen, paid, or booked in the end, or the booked trip is over:
\* the next search begins another trip.
GiveUp ==
    /\ stage # "idle"
    /\ stage' = "idle"
    /\ ask' = None /\ offer' = None /\ charge' = None
    /\ list' = <<>> /\ again' = None /\ booking' = None
    /\ clock' = 0

\* cancel_booking_request asks the clock again, whatever the lookup told.
Cancel ==
    /\ stage = "booked"
    /\ booking.refund = "none"
    /\ booking' = [booking EXCEPT
            !.cancelled = clock,
            !.refund = IF EligibleForFreeCancellation(booking.made, booking.departureAt, clock)
                       THEN "full_auto" ELSE "pending_manual_review"]
    /\ UNCHANGED <<stage, ask, offer, charge, list, again, clock>>

Tick ==
    /\ stage \in {"charged", "booked"}
    /\ clock < Horizon
    /\ clock' = clock + 1
    /\ UNCHANGED <<stage, ask, offer, charge, list, again, booking>>

AfterSearch ==
    \/ \E total \in Totals, currency \in Currencies : CheckOut(total, currency)
    \/ stage = "charged" /\ \E travelers \in Lists(ask.party) : Confirm(travelers)
    \/ Tier1Takes
    \/ Tier1GivesUp
    \/ stage = "tier2" /\ \E alternative \in OffersFor(again) : Tier2Takes(alternative)
    \/ Cancel
    \/ Tick
    \/ GiveUp

TripNext ==
    \/ \E a \in Asked : Search(a)
    \/ /\ stage = "offers"
       /\ \E o \in OffersFor(ask) : \E slots \in {o.slots, <<>>} : Choose(o, slots)
    \/ AfterSearch

TripSpec == TripInit /\ [][TripNext]_tripVars
-----------------------------------------------------------------------------
TripTypeOK ==
    /\ stage \in Stages
    /\ ask \in Asked \cup {None}
    /\ offer \in Offer \cup {None}
    /\ charge \in Charge \cup {None}
    /\ list \in Seq(TravelerTypes)
    /\ again \in Ask \cup {None}
    /\ booking \in Booking \cup {None}
    /\ clock \in Nat

(***************************************************************************)
(* What Tier 2 asks for is the trip the customer asked for: the same       *)
(* cities on the same days, one-way, there and back, or leg by leg, for    *)
(* the same party where the offer still says who that is; and the search   *)
(* tools, whose checks it does not pass through, would not refuse it.      *)
(* (_tier2_fare_recheck_and_rebook)                                        *)
(***************************************************************************)
SameTrip ==
    stage = "tier2" =>
        /\ Len(again.legs) = Len(ask.legs)
        /\ \A i \in 1..Len(ask.legs) :
              /\ SameCity(again.legs[i].origin, ask.legs[i].origin)
              /\ SameCity(again.legs[i].destination, ask.legs[i].destination)
              /\ again.legs[i].date = ask.legs[i].date
        /\ offer.slots # <<>> => again.party = ask.party
        /\ ~Refused(again)

(***************************************************************************)
(* In a first booking as in a rebooked one, everyone the agent listed has  *)
(* a seat, and so has everyone the chosen offer was priced for; and if the *)
(* list follows its pricings, each has one of his own type.  A list of the *)
(* right length with another mix is accepted, and seats people wrongly:    *)
(* confirm_flight_booking's docstring asks the agent not to make one.      *)
(* (_build_booking_payload zips the two lists by position)                 *)
(***************************************************************************)
RightSeat ==
    booking # None =>
        /\ Len(booking.seats) = Len(list)
        /\ booking.priced # <<>> => Len(booking.seats) = Len(booking.priced)
        /\ booking.priced = list => \A i \in 1..Len(list) :
              booking.seats[i].slot = list[i] /\ booking.seats[i].traveler = list[i]

(***************************************************************************)
(* The amount charged is the fare to the nearest unit that Stripe counts   *)
(* the currency in.  (to_stripe_amount)                                    *)
(***************************************************************************)
ChargeIsTheFare ==
    charge # None =>
        LET off == charge.amount * SmallestUnit[charge.currency] - charge.total
        IN  /\ 2 * off <= SmallestUnit[charge.currency]
            /\ -2 * off <= SmallestUnit[charge.currency]

(***************************************************************************)
(* No cancellation is refunded automatically close to the departure, let   *)
(* alone after it: the two conditions on the booking leave the lead less   *)
(* the window, and less the clock's offset, since the departure on file is *)
(* local time read as UTC.  (is_eligible_for_free_cancellation)            *)
(***************************************************************************)
NoAutoRefundNearDeparture ==
    (booking # None /\ booking.refund = "full_auto") =>
        booking.leaves - booking.cancelled >= Lead - Window - MaxZone

(***************************************************************************)
(* cancel_booking_request says of "full_auto" that the departure was seven *)
(* days out or more when the flight was booked.                            *)
(***************************************************************************)
AutoRefundIsSevenDaysOut ==
    (booking # None /\ booking.refund = "full_auto") =>
        booking.leaves - booking.made >= Lead
=============================================================================
