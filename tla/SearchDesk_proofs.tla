-------------------------- MODULE SearchDesk_proofs --------------------------
(***************************************************************************)
(* The rate cache for any threads, expiry and timeout, and the search desk *)
(* that is made of it and a trip: what is proved of either holds of both   *)
(* together.                                                               *)
(***************************************************************************)
EXTENDS SearchDesk, FlightSearch_proofs

-----------------------------------------------------------------------------
(* The rates *)

\* How the ages are related: a half-done refresh (ZeroQuote) may leave the VND
\* rates older than the stamp, by no more than a request takes.
RatesFollowStamp ==
    /\ toUsd <= stamp
    /\ toVnd <= stamp + FetchTimeout
    /\ \A t \in Converters :
          converter[t].pc = "fetching" => converter[t].since <= FetchTimeout

\* A search that converts has a node to convert.
NodesLeft == \A t \in Converters : converter[t].pc # "idle" => converter[t].left >= 1

RateInv == RateTypeOK /\ RatesFollowStamp /\ NodesLeft /\ RatesAreFresh

(***************************************************************************)
(* A step of one thread to a record of its own.  (update_live_rates)       *)
(***************************************************************************)
LEMMA ConverterMoves ==
    ASSUME RateTypeOK, NEW t \in Converters, NEW from, NEW step \in Converter,
           Moves(t, from, step)
    PROVE  /\ converter' \in [Converters -> Converter]
           /\ converter[t].pc = from
           /\ converter'[t] = step
           /\ \A u \in Converters : u # t => converter'[u] = converter[u]
  BY DEF RateTypeOK, Moves

(***************************************************************************)
(* A thread that reads no rate unless they are fresh or its fetch failed,  *)
(* and leaves the ages as they were, keeps the invariant.                  *)
(* (update_live_rates, process_and_convert_all)                            *)
(***************************************************************************)
LEMMA AgesStay ==
    ASSUME RateInv, NEW t \in Converters, NEW from, NEW step \in Converter,
           Moves(t, from, step), UNCHANGED <<toVnd, toUsd, stamp>>,
           step.pc = "fetching" => step.since <= FetchTimeout,
           step.pc # "idle" => step.left >= 1,
           (step.pc \in {"read_vnd", "read_usd"} /\ ~step.failed) =>
               Fresh(toVnd) /\ Fresh(toUsd)
    PROVE  RateInv'
<1>1. /\ converter' \in [Converters -> Converter]
      /\ converter'[t] = step
      /\ \A u \in Converters : u # t => converter'[u] = converter[u]
  BY ConverterMoves DEF RateInv
<1>2. RateTypeOK'
  BY <1>1 DEF RateInv, RateTypeOK
<1>3. RatesFollowStamp'
  BY <1>1 DEF RateInv, RatesFollowStamp
<1>4. RatesAreFresh'
  BY <1>1 DEF RateInv, RatesAreFresh, Fresh, Oldest
<1>5. NodesLeft'
  BY <1>1 DEF RateInv, NodesLeft
<1> QED
  BY <1>2, <1>3, <1>4, <1>5 DEF RateInv

LEMMA RateStepKeepsInv ==
    ASSUME RateAssumption, RateInv, NEW t \in Converters, Converts(t) \/ ConverterNext(t)
    PROVE  RateInv'
<1>0. /\ converter[t] \in [pc: {"idle", "update", "fetching", "read_vnd", "read_usd"},
                           left: 0..Prices, since: Age, failed: BOOLEAN]
      /\ 0 \in Age
      /\ converter[t].pc # "idle" => converter[t].left >= 1
  BY DEF RateInv, RateTypeOK, NodesLeft, Converter, RateAssumption, Age, Oldest
<1>1. CASE Converts(t)
  <2> DEFINE step == [Resting EXCEPT !.pc = "update", !.left = Prices]
  <2>1. Moves(t, "idle", step) /\ UNCHANGED <<toVnd, toUsd, stamp>>
    BY <1>1 DEF Converts
  <2>2. step.pc = "update" /\ step.left = Prices
    BY DEF Resting
  <2>3. Prices \in 0..Prices /\ Prices >= 1
    BY DEF RateAssumption
  <2>4. step \in Converter
    BY <1>0, <2>3 DEF Resting, Converter
  <2>5. step.pc = "update" /\ step.left >= 1
    BY <2>2, <2>3
  <2> HIDE DEF step
  <2> QED
    BY <2>1, <2>4, <2>5, AgesStay
<1>2. CASE RatesKept(t)
  <2> DEFINE step == [converter[t] EXCEPT !.pc = "read_vnd", !.failed = FALSE]
  <2>1. Moves(t, "update", step) /\ UNCHANGED <<toVnd, toUsd, stamp>>
    BY <1>2 DEF RatesKept
  <2>2. step \in Converter /\ step.pc = "read_vnd" /\ step.left >= 1
    BY <1>0, <2>1 DEF Converter, Moves
  <2>3. Fresh(toVnd) /\ Fresh(toUsd)
    BY <1>2 DEF RatesKept, RateInv, RateTypeOK, RatesFollowStamp, RateAssumption, Age, Oldest,
                BuiltIn, Fresh
  <2> HIDE DEF step
  <2> QED
    BY <2>1, <2>2, <2>3, AgesStay
<1>3. CASE RatesExpired(t)
  <2> DEFINE step == [converter[t] EXCEPT !.pc = "fetching", !.since = 0]
  <2>1. Moves(t, "update", step) /\ UNCHANGED <<toVnd, toUsd, stamp>>
    BY <1>3 DEF RatesExpired
  <2>2. step \in Converter /\ step.pc = "fetching" /\ step.since = 0 /\ step.left >= 1
    BY <1>0, <2>1 DEF Converter, Moves
  <2> HIDE DEF step
  <2> QED
    BY <2>1, <2>2, AgesStay DEF RateAssumption
<1>4. CASE FetchFails(t)
  <2>1. Moves(t, "fetching", AfterFailedFetch(t)) /\ UNCHANGED <<toVnd, toUsd, stamp>>
    BY <1>4 DEF FetchFails
  <2>2. /\ AfterFailedFetch(t) \in Converter /\ AfterFailedFetch(t).left >= 1
        /\ AfterFailedFetch(t).pc = "read_vnd" /\ AfterFailedFetch(t).failed
    BY <1>0, <2>1 DEF AfterFailedFetch, Converter, Moves
  <2> QED
    BY <2>1, <2>2, AgesStay
<1>5. CASE VndShown(t)
  <2> DEFINE step == [converter[t] EXCEPT !.pc = "read_usd"]
  <2>1. Moves(t, "read_vnd", step) /\ UNCHANGED <<toVnd, toUsd, stamp>>
    BY <1>5 DEF VndShown
  <2>2. /\ step \in Converter /\ step.pc = "read_usd" /\ step.left >= 1
        /\ step.failed = converter[t].failed
    BY <1>0, <2>1 DEF Converter, Moves
  <2>3. ~step.failed => Fresh(toVnd) /\ Fresh(toUsd)
    BY <2>1, <2>2 DEF Moves, RateInv, RatesAreFresh
  <2> HIDE DEF step
  <2> QED
    BY <2>1, <2>2, <2>3, AgesStay
<1>6. CASE UsdShown(t)
  <2> DEFINE next == [converter[t] EXCEPT !.pc = "update", !.left = @ - 1]
  <2>1. UNCHANGED <<toVnd, toUsd, stamp>>
    BY <1>6 DEF UsdShown
  <2>2. CASE converter[t].left = 1
    <3>1. Moves(t, "read_usd", Resting)
      BY <1>6, <2>2 DEF UsdShown
    <3>2. Resting \in Converter /\ Resting.pc = "idle"
      BY <1>0 DEF Resting, Converter, RateAssumption
    <3> QED
      BY <2>1, <3>1, <3>2, AgesStay
  <2>3. CASE converter[t].left # 1
    <3>1. Moves(t, "read_usd", next)
      BY <1>6, <2>3 DEF UsdShown
    <3>2. converter[t].left - 1 \in 0..Prices /\ converter[t].left - 1 >= 1
      BY <1>0, <2>3, <3>1 DEF Moves, RateAssumption
    <3>3. next \in Converter /\ next.pc = "update" /\ next.left >= 1
      BY <1>0, <3>2 DEF Converter
    <3> HIDE DEF next
    <3> QED
      BY <2>1, <3>1, <3>3, AgesStay
  <2> QED
    BY <2>2, <2>3
<1>7. CASE RatesFetched(t) \/ RatesDefaulted(t) \/ ZeroQuote(t)
  <2> DEFINE Now(age) == age = converter[t].since \/ age = BuiltIn
  <2>1. /\ converter[t].pc = "fetching"
        /\ converter[t].since \in 0..FetchTimeout
        /\ Now(toVnd')
        /\ \/ toUsd' = toUsd /\ stamp' = stamp
           \/ Now(toUsd') /\ stamp' = converter[t].since
    <3>1. /\ converter[t].pc = "fetching"
          /\ Now(toVnd')
          /\ \/ toUsd' = toUsd /\ stamp' = stamp
             \/ Now(toUsd') /\ stamp' = converter[t].since
      BY <1>7 DEF RatesFetched, RatesDefaulted, RatesWritten, ZeroQuote, Moves
    <3>2. converter[t].since \in 0..FetchTimeout
      BY <1>0, <3>1 DEF RateInv, RatesFollowStamp, Age, Oldest, RateAssumption
    <3> QED
      BY <3>1, <3>2
  <2>2. PICK step \in Converter :
            /\ Moves(t, "fetching", step) /\ step.pc = "read_vnd" /\ step.left >= 1
            /\ step.failed \/ Now(toUsd')
    <3>1. /\ AfterFailedFetch(t) \in Converter /\ AfterFailedFetch(t).left >= 1
          /\ AfterFailedFetch(t).pc = "read_vnd" /\ AfterFailedFetch(t).failed
      BY <1>0, <2>1 DEF AfterFailedFetch, Converter
    <3> DEFINE got == [converter[t] EXCEPT !.pc = "read_vnd", !.since = 0, !.failed = FALSE]
    <3>2. got \in Converter /\ got.pc = "read_vnd" /\ got.left >= 1
      BY <1>0, <2>1 DEF Converter
    <3>3. CASE ZeroQuote(t)
      BY <3>1, <3>3 DEF ZeroQuote
    <3>4. CASE RatesFetched(t) \/ RatesDefaulted(t)
      <4>1. Moves(t, "fetching", got) /\ Now(toUsd')
        BY <3>4 DEF RatesFetched, RatesDefaulted, RatesWritten
      <4> HIDE DEF got
      <4> QED
        BY <3>2, <4>1
    <3> QED
      BY <1>7, <3>3, <3>4
  <2>3. /\ converter' \in [Converters -> Converter]
        /\ converter'[t] = step
        /\ \A u \in Converters : u # t => converter'[u] = converter[u]
    BY <2>2, ConverterMoves DEF RateInv
  <2>4. RateTypeOK'
    <3>1. toVnd' \in Age \cup {BuiltIn} /\ toUsd' \in Age \cup {BuiltIn} /\ stamp' \in Age
      BY <2>1 DEF RateInv, RateTypeOK, RateAssumption, Age, Oldest
    <3> QED
      BY <2>3, <3>1 DEF RateTypeOK
  <2>5. RatesFollowStamp'
    BY <2>1, <2>2, <2>3 DEF RateInv, RateTypeOK, RatesFollowStamp, RateAssumption, Age, Oldest,
                            BuiltIn
  <2>6. NodesLeft'
    BY <2>2, <2>3 DEF RateInv, NodesLeft
  <2>7. Fresh(toVnd') /\ (Fresh(toUsd) => Fresh(toUsd'))
    BY <2>1 DEF Fresh, Oldest, RateAssumption
  <2>8. Now(toUsd') => Fresh(toUsd')
    BY <2>1 DEF Fresh, Oldest, RateAssumption
  <2>9. RatesAreFresh'
    BY <2>2, <2>3, <2>7, <2>8 DEF RateInv, RatesAreFresh, Fresh, Oldest
  <2> QED
    BY <2>4, <2>5, <2>6, <2>9 DEF RateInv
<1> QED
  BY <1>1, <1>2, <1>3, <1>4, <1>5, <1>6, <1>7 DEF ConverterNext

LEMMA RatesAgeKeepsInv ==
    ASSUME RateAssumption, RateInv, RatesAge
    PROVE  RateInv'
<1>1. /\ \A age \in Age : Older(age) \in Age
      /\ Older(BuiltIn) = BuiltIn
  BY DEF Age, Oldest, Older, BuiltIn, RateAssumption
<1>2. ASSUME NEW t \in Converters
      PROVE  /\ converter'[t] \in Converter
             /\ converter'[t].pc \in {"idle", "fetching"}
             /\ converter'[t].pc # "idle" => converter'[t].left >= 1
             /\ converter'[t].pc = "fetching" => converter'[t].since <= FetchTimeout
  <2>1. CASE converter[t].pc = "idle"
    BY <2>1 DEF RatesAge, RateInv, RateTypeOK
  <2>2. CASE converter[t].pc = "fetching" /\ converter[t].since < FetchTimeout
    <3> DEFINE step == [converter[t] EXCEPT !.since = @ + 1]
    <3>1. converter'[t] = step
      BY <2>2 DEF RatesAge
    <3>2. /\ converter[t] \in [pc: {"idle", "update", "fetching", "read_vnd", "read_usd"},
                               left: 0..Prices, since: Age, failed: BOOLEAN]
          /\ converter[t].left >= 1
      BY <2>2 DEF RateInv, RateTypeOK, NodesLeft, Converter
    <3>3. converter[t].since + 1 \in Age /\ converter[t].since + 1 <= FetchTimeout
      BY <2>2, <3>2 DEF Age, Oldest, RateAssumption
    <3>4. step \in Converter
      BY <3>2, <3>3 DEF Converter
    <3>5. step.pc = "fetching" /\ step.left >= 1 /\ step.since <= FetchTimeout
      BY <2>2, <3>2, <3>3
    <3> HIDE DEF step
    <3> QED
      BY <3>1, <3>4, <3>5
  <2> QED
    BY <2>1, <2>2 DEF RatesAge
<1>3. RateTypeOK'
  <2>1. toVnd' \in Age \cup {BuiltIn} /\ toUsd' \in Age \cup {BuiltIn} /\ stamp' \in Age
    BY <1>1 DEF RatesAge, RateInv, RateTypeOK
  <2>2. converter' \in [Converters -> Converter]
    BY <1>2 DEF RatesAge
  <2> QED
    BY <2>1, <2>2 DEF RateTypeOK
<1>4. RatesFollowStamp'
  <2>1. toUsd' <= stamp' /\ toVnd' <= stamp' + FetchTimeout
    BY DEF RatesAge, RateInv, RateTypeOK, RatesFollowStamp, Age, Oldest, Older,
           BuiltIn, RateAssumption
  <2> QED
    BY <1>2, <2>1 DEF RatesFollowStamp
<1>5. NodesLeft' /\ RatesAreFresh'
  BY <1>2 DEF NodesLeft, RatesAreFresh
<1> QED
  BY <1>3, <1>4, <1>5 DEF RateInv

(***************************************************************************)
(* The rates' inductive invariant, and with it: a price is shown with      *)
(* rates that the provider gave longer ago than the expiry and the timeout *)
(* allow only by a search whose own refresh has just failed, for any       *)
(* threads, expiry and timeout; built-in rates stand in where a reply      *)
(* named none.  (update_live_rates)                                        *)
(***************************************************************************)
THEOREM RatesStayFresh == RateSpec => [](RateTypeOK /\ RatesAreFresh)
<1>1. RateInit => RateInv
  <2> SUFFICES ASSUME RateInit PROVE RateInv
    OBVIOUS
  <2>1. Oldest \in Age /\ 0 \in Age /\ 0 \in 0..Prices
    BY RateAssumption DEF RateAssumption, Oldest, Age
  <2>2. Resting \in Converter /\ Resting.pc = "idle"
    BY <2>1 DEF Resting, Converter
  <2>3. RateTypeOK
    BY <2>1, <2>2 DEF RateInit, RateTypeOK
  <2>4. RatesFollowStamp
    BY <2>1, <2>2, RateAssumption DEF RateInit, RatesFollowStamp, RateAssumption, Age, Oldest, BuiltIn
  <2>5. NodesLeft /\ RatesAreFresh
    BY <2>2 DEF RateInit, NodesLeft, RatesAreFresh
  <2> QED
    BY <2>3, <2>4, <2>5 DEF RateInv
<1>2. RateInv /\ [RateNext]_rateVars => RateInv'
  <2>1. ASSUME RateInv, UNCHANGED rateVars
        PROVE  RateInv'
    BY <2>1 DEF rateVars, RateInv, RateTypeOK, RatesFollowStamp, NodesLeft, RatesAreFresh
  <2> QED
    BY <2>1, RateStepKeepsInv, RatesAgeKeepsInv, RateAssumption DEF RateNext
<1>3. RateInv => RateTypeOK /\ RatesAreFresh
  BY DEF RateInv
<1> QED
  BY <1>1, <1>2, <1>3, PTL DEF RateSpec
-----------------------------------------------------------------------------
(* The desk *)

(***************************************************************************)
(* A desk's behaviour is one of the trip: what the rates do in between     *)
(* leaves it alone.  (process_and_convert_all)                             *)
(***************************************************************************)
THEOREM DeskIsATrip == SearchSpec => TripSpec
<1>1. SearchInit => TripInit
  BY DEF SearchInit
<1>2. [SearchNext]_searchVars => [TripNext]_tripVars
  <2> SUFFICES ASSUME [SearchNext]_searchVars PROVE [TripNext]_tripVars
    OBVIOUS
  <2>1. CASE \E a \in Asked : Searched(a)
    BY <2>1 DEF Searched, TripNext
  <2>2. CASE OthersSearch \/ (RatesAge /\ UNCHANGED tripVars) \/ UNCHANGED searchVars
    BY <2>2 DEF OthersSearch, searchVars
  <2>3. CASE \E t \in Converters : Converting(t)
    BY <2>3 DEF Converting
  <2>4. CASE Chosen
    BY <2>4 DEF Chosen, TripNext
  <2>5. CASE Later
    BY <2>5 DEF Later, TripNext
  <2> QED
    BY <2>1, <2>2, <2>3, <2>4, <2>5 DEF SearchNext
<1> QED
  BY <1>1, <1>2, PTL DEF SearchSpec, TripSpec

(***************************************************************************)
(* And it is one of the rates: a trip touches them only where its search   *)
(* begins to convert.  (process_and_convert_all)                           *)
(***************************************************************************)
THEOREM DeskConvertsRates == SearchSpec => RateSpec
<1>1. SearchInit => RateInit
  BY DEF SearchInit
<1>2. [SearchNext]_searchVars => [RateNext]_rateVars
  <2> SUFFICES ASSUME [SearchNext]_searchVars PROVE [RateNext]_rateVars
    OBVIOUS
  <2>1. CASE \E a \in Asked : Searched(a)
    BY <2>1, MineAssumption DEF MineAssumption, Searched, RateNext
  <2>2. CASE OthersSearch
    BY <2>2 DEF OthersSearch, RateNext
  <2>3. CASE \E t \in Converters : Converting(t)
    BY <2>3 DEF Converting, RateNext
  <2>4. CASE Chosen \/ Later \/ UNCHANGED searchVars
    BY <2>4 DEF Chosen, Later, searchVars
  <2>5. CASE RatesAge /\ UNCHANGED tripVars
    BY <2>5 DEF RateNext
  <2> QED
    BY <2>1, <2>2, <2>3, <2>4, <2>5 DEF SearchNext
<1> QED
  BY <1>1, <1>2, PTL DEF SearchSpec, RateSpec

(***************************************************************************)
(* The types of the desk's variables.                                      *)
(***************************************************************************)
THEOREM DeskTypesHold == SearchSpec => []SearchTypeOK
<1>1. TripInv => TripTypeOK
  BY DEF TripInv
<1>2. TripTypeOK /\ RateTypeOK => SearchTypeOK
  BY DEF SearchTypeOK
<1> QED
  BY <1>1, <1>2, TripInvHolds, DeskIsATrip, DeskConvertsRates, RatesStayFresh, PTL

(***************************************************************************)
(* What the desk promises, for any searches, fares, party and number of    *)
(* searches at once.                                                       *)
(***************************************************************************)
THEOREM DeskKeepsItsPromises ==
    SearchSpec => [](SameTrip /\ RightSeat /\ ChargeIsTheFare
                       /\ NoAutoRefundNearDeparture /\ RatesAreFresh)
<1>1. TripInv => SameTrip /\ RightSeat /\ ChargeIsTheFare /\ NoAutoRefundNearDeparture
  BY TripAssumption, SearchAssumption, ResearchIsTheTrip, RefundIsEarly DEF TripInv
<1> QED
  BY <1>1, TripInvHolds, DeskIsATrip, DeskConvertsRates, RatesStayFresh, PTL
=============================================================================
