------------------------------ MODULE SearchDesk ------------------------------
(***************************************************************************)
(* The search tools as a whole: a trip's search, whose answer its thread   *)
(* converts before the agent sees it, beside the searches of others, which *)
(* share the rates.                                                        *)
(***************************************************************************)
EXTENDS FlightSearch, RateCache

CONSTANT Mine   \* the thread of the trip's search

ASSUME MineAssumption == Mine \in Converters

searchVars == <<tripVars, rateVars>>

SearchInit == TripInit /\ RateInit

\* The trip's search answers; another search does, a hotel's perhaps.
Searched(a) == Search(a) /\ Converts(Mine)

OthersSearch ==
    /\ \E t \in Converters \ {Mine} : Converts(t)
    /\ UNCHANGED tripVars

Converting(t) == ConverterNext(t) /\ UNCHANGED tripVars

\* The agent chooses from what was converted.
Chosen ==
    /\ stage = "offers"
    /\ converter[Mine].pc = "idle"
    /\ \E o \in OffersFor(ask) : \E slots \in {o.slots, <<>>} : Choose(o, slots)
    /\ UNCHANGED rateVars

Later == AfterSearch /\ UNCHANGED rateVars

SearchNext ==
    \/ \E a \in Asked : Searched(a)
    \/ OthersSearch
    \/ \E t \in Converters : Converting(t)
    \/ Chosen
    \/ Later
    \/ RatesAge /\ UNCHANGED tripVars

SearchSpec == SearchInit /\ [][SearchNext]_searchVars

\* The threads run, and every request has a timeout.
FairSearchSpec == SearchSpec /\ \A t \in Converters : WF_searchVars(Converting(t))
-----------------------------------------------------------------------------
SearchTypeOK == TripTypeOK /\ RateTypeOK
=============================================================================
