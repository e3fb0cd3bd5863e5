--------------------------- MODULE MCSearchDesk ---------------------------
(***************************************************************************)
(* Small values for SearchDesk's constants.  An hour of the model is       *)
(* twelve, so that a day has two, the window is one day and the lead 14.   *)
(* Two airports serve Tokyo; clocks run ahead of UTC in Asia and behind it *)
(* in Los Angeles.                                                         *)
(***************************************************************************)
EXTENDS SearchDesk

MCAirports == {"SGN", "HAN", "NRT", "HND", "LAX"}
MCCity == [a \in MCAirports |-> IF a \in {"NRT", "HND"} THEN "TYO" ELSE a]
MCZone == [a \in MCAirports |-> IF a = "LAX" THEN -1 ELSE 1]

Hop(from, to, at) == [from |-> from, to |-> to, at |-> at]

\* Departures on days 6 (hours 12 and 13), 7 (14 and 15) and 8 (16 and 17).
MCSold == {
    <<Hop("SGN", "NRT", 13)>>,
    <<Hop("SGN", "NRT", 14)>>,
    <<Hop("SGN", "HAN", 14), Hop("HAN", "HND", 15)>>,
    <<Hop("LAX", "SGN", 14)>>,
    <<Hop("LAX", "SGN", 13)>>,
    <<Hop("NRT", "SGN", 16)>>,
    <<Hop("HND", "SGN", 17)>>,
    <<Hop("NRT", "HAN", 16)>>,
    <<Hop("HAN", "SGN", 16)>>}

Group(a, c, i) == [adults |-> a, children |-> c, infants |-> i]
Route(legs, p) == [form |-> "route", legs |-> legs, party |-> p]
Multi(legs, p) == [form |-> "multi", legs |-> legs, party |-> p]

OpenJaw == OneWay("SGN", "NRT", 7) \o OneWay("HAN", "SGN", 8)
ThreeLegs == OneWay("SGN", "NRT", 7) \o OneWay("NRT", "HAN", 8) \o OneWay("HAN", "SGN", 8)
Return == ThereAndBack("SGN", "NRT", 7, 8)

\* The last eight are refused, or get no answer.
MCAsked == {
    Route(OneWay("SGN", "NRT", 7), Group(1, 0, 0)),
    Route(OneWay("SGN", "NRT", 6), Group(2, 1, 0)),
    Route(OneWay("LAX", "SGN", 7), Group(1, 0, 1)),
    Route(OneWay("LAX", "SGN", 6), Group(1, 0, 0)),
    Route(Return, Group(1, 1, 1)),
    Multi(Return, Group(1, 0, 1)),
    Multi(OpenJaw, Group(1, 1, 0)),
    Multi(ThreeLegs, Group(2, 0, 1)),
    Route(ThereAndBack("SGN", "NRT", 7, 6), Group(1, 0, 0)),
    Route(OneWay("SGN", "NRT", 7), Group(2, 1, 1)),
    Route(OneWay("SGN", "NRT", 7), Group(1, 0, 2)),
    Route(OneWay("SGN", "NRT", 7), Group(0, 1, 0)),
    Multi(OneWay("SGN", "NRT", 7), Group(1, 0, 0)),
    Multi(OpenJaw \o ThreeLegs, Group(1, 0, 0)),
    Multi(OneWay("HAN", "SGN", 8) \o OneWay("SGN", "NRT", 7), Group(1, 0, 0)),
    Multi(OneWay("SGN", NoCode, 7) \o OneWay("NRT", "SGN", 8), Group(1, 0, 0))}

\* The rates move while the trip is being searched for.  Past that they share
\* nothing with it: they wait until the trip is over.
RatesMoveWithSearch ==
    stage' \notin {"idle", "offers"} =>
        /\ UNCHANGED <<toVnd, toUsd, stamp>>
        /\ \A t \in Converters : converter'[t] = Resting

MCSmallestUnit == [c \in Currencies |-> IF c = "VND" THEN 100 ELSE 1]
=============================================================================
