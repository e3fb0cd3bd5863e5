------------------------------ MODULE RateCache ------------------------------
(***************************************************************************)
(* The translator's cache of exchange rates, which every search refreshes  *)
(* and reads from a thread of its own, without a lock.  The rates are kept *)
(* as their ages, the time since their provider was asked for them, or as  *)
(* built-in: the constants that come with the program, which also stand in *)
(* for what a reply does not name.                                         *)
(*                                                                         *)
(* A step ends where a thread may be preempted: at a call.  The writes of  *)
(* one refresh contain none, so they happen at once; the two reads of a    *)
(* price do not.                                                           *)
(***************************************************************************)
EXTENDS Integers

CONSTANTS
    Converters,     \* threads of searches
    Prices,         \* how many nodes a search's answer has
    Expiry,         \* CACHE_EXPIRY_SECONDS
    FetchTimeout    \* the timeout of the request to the provider

ASSUME RateAssumption ==
    /\ Prices \in Nat \ {0}
    /\ Expiry \in Nat \ {0}
    /\ FetchTimeout \in Nat
    /\ FetchTimeout < Expiry

VARIABLES
    toVnd,      \* age of the rates to VND, the first that a refresh writes, or BuiltIn
    toUsd,      \* age of the rates to USD, the last that it writes, or BuiltIn
    stamp,      \* age of last_fetched
    converter   \* what each thread is doing

rateVars == <<toVnd, toUsd, stamp, converter>>

\* Ages are counted up to here: as old as this, or older.
Oldest == Expiry + FetchTimeout
Age == 0..Oldest

\* No age: one of the rates, at least, is not the provider's.
BuiltIn == -1

\* left: the nodes still to convert; since: how long the request runs;
\* failed: whether the last one did.
Converter ==
    [pc: {"idle", "update", "fetching", "read_vnd", "read_usd"},
     left: 0..Prices, since: Age, failed: BOOLEAN]

Resting == [pc |-> "idle", left |-> 0, since |-> 0, failed |-> FALSE]

RateInit ==
    /\ toVnd = BuiltIn /\ toUsd = BuiltIn /\ stamp = Oldest
    /\ converter = [t \in Converters |-> Resting]

Moves(t, from, step) ==
    /\ converter[t].pc = from
    /\ converter' = [converter EXCEPT ![t] = step]
-----------------------------------------------------------------------------
\* A search has its answer, and converts its nodes one by one.
Converts(t) ==
    /\ Moves(t, "idle", [Resting EXCEPT !.pc = "update", !.left = Prices])
    /\ UNCHANGED <<toVnd, toUsd, stamp>>

\* update_live_rates: nothing is asked for within the hour.
RatesKept(t) ==
    /\ stamp < Expiry
    /\ Moves(t, "update", [converter[t] EXCEPT !.pc = "read_vnd", !.failed = FALSE])
    /\ UNCHANGED <<toVnd, toUsd, stamp>>

RatesExpired(t) ==
    /\ stamp >= Expiry
    /\ Moves(t, "update", [converter[t] EXCEPT !.pc = "fetching", !.since = 0])
    /\ UNCHANGED <<toVnd, toUsd, stamp>>

\* Any reply of status 200 whose body is an object is written down, and counts
\* from the time before the request.
RatesWritten(t, age) ==
    /\ Moves(t, "fetching", [converter[t] EXCEPT !.pc = "read_vnd", !.since = 0, !.failed = FALSE])
    /\ toVnd' = age /\ toUsd' = age
    /\ stamp' = converter[t].since

RatesFetched(t) == RatesWritten(t, converter[t].since)

\* A reply without rates, or without the one of VND or EUR, or with a EUR of
\* zero: the built-in constants are written and counted like the provider's.
RatesDefaulted(t) == RatesWritten(t, BuiltIn)

AfterFailedFetch(t) ==
    [converter[t] EXCEPT !.pc = "read_vnd", !.since = 0, !.failed = TRUE]

\* Slip: the time of the attempt is kept, whatever came of it.
FailureStamped(t) ==
    /\ Moves(t, "fetching", AfterFailedFetch(t))
    /\ stamp' = converter[t].since
    /\ UNCHANGED <<toVnd, toUsd>>

\* Slip: the request is repeated until it succeeds.
FailureRetried(t) ==
    /\ Moves(t, "fetching", [AfterFailedFetch(t) EXCEPT !.pc = "update"])
    /\ UNCHANGED <<toVnd, toUsd, stamp>>

\* An error, a status, a timeout: the cached rates and their time stay.
FetchFails(t) ==
    /\ Moves(t, "fetching", AfterFailedFetch(t))
    /\ UNCHANGED <<toVnd, toUsd, stamp>>

\* A VND rate of zero: the division by it ends the refresh before the last
\* rate and the time are written.  The rates of EUR were written, and are the
\* built-in ones if the reply lacked them.
ZeroQuote(t) ==
    /\ Moves(t, "fetching", AfterFailedFetch(t))
    /\ toVnd' \in {converter[t].since, BuiltIn}
    /\ UNCHANGED <<toUsd, stamp>>

\* The price in VND, then the one in USD.
VndShown(t) ==
    /\ Moves(t, "read_vnd", [converter[t] EXCEPT !.pc = "read_usd"])
    /\ UNCHANGED <<toVnd, toUsd, stamp>>

UsdShown(t) ==
    /\ Moves(t, "read_usd", IF converter[t].left = 1 THEN Resting
                            ELSE [converter[t] EXCEPT !.pc = "update", !.left = @ - 1])
    /\ UNCHANGED <<toVnd, toUsd, stamp>>

Older(age) == IF age = BuiltIn \/ age = Oldest THEN age ELSE age + 1

\* Slip: no timeout.
RatesAgeUnlimited ==
    /\ \A t \in Converters : converter[t].pc \in {"idle", "fetching"}
    /\ toVnd' = Older(toVnd) /\ toUsd' = Older(toUsd) /\ stamp' = Older(stamp)
    /\ converter' = [t \in Converters |->
            IF converter[t].pc = "fetching"
            THEN [converter[t] EXCEPT !.since = @ + 1] ELSE converter[t]]

\* No request outlives its timeout, and time stands still for the steps
\* between two requests.
RatesAge ==
    /\ \A t \in Converters :
          \/ converter[t].pc = "idle"
          \/ converter[t].pc = "fetching" /\ converter[t].since < FetchTimeout
    /\ toVnd' = Older(toVnd) /\ toUsd' = Older(toUsd) /\ stamp' = Older(stamp)
    /\ converter' = [t \in Converters |->
            IF converter[t].pc = "fetching"
            THEN [converter[t] EXCEPT !.since = @ + 1] ELSE converter[t]]

ConverterNext(t) ==
    \/ RatesKept(t) \/ RatesExpired(t)
    \/ RatesFetched(t) \/ RatesDefaulted(t) \/ FetchFails(t) \/ ZeroQuote(t)
    \/ VndShown(t) \/ UsdShown(t)

RateNext == (\E t \in Converters : Converts(t) \/ ConverterNext(t)) \/ RatesAge

RateSpec == RateInit /\ [][RateNext]_rateVars
-----------------------------------------------------------------------------
RateTypeOK ==
    /\ toVnd \in Age \cup {BuiltIn} /\ toUsd \in Age \cup {BuiltIn} /\ stamp \in Age
    /\ converter \in [Converters -> Converter]

(***************************************************************************)
(* A price is shown with rates that the provider gave more than an hour,   *)
(* and the time a request may take, ago only by a search whose own attempt *)
(* to get new ones has just failed: an error, a status, a timeout or a     *)
(* zero rate is never taken for a refresh, by its own thread or by another *)
(* one.  A reply that names no rates is: what is then shown for an hour    *)
(* are the built-in ones, of which this claims nothing.                    *)
(* (update_live_rates)                                                     *)
(***************************************************************************)
Fresh(age) == age = BuiltIn \/ age < Oldest

RatesAreFresh ==
    \A t \in Converters :
        (converter[t].pc \in {"read_vnd", "read_usd"} /\ ~converter[t].failed) =>
            Fresh(toVnd) /\ Fresh(toUsd)

(***************************************************************************)
(* A search ends, though the provider of the rates may fail at every node. *)
(* (process_and_convert_all, update_live_rates)                            *)
(***************************************************************************)
SearchEnds == \A t \in Converters : converter[t].pc # "idle" ~> converter[t].pc = "idle"
=============================================================================
