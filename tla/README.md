# Travel-Bridge: verification of purchases and bookings

TLA+ models of how Travel-Bridge sells a flight: Stripe checkout and webhook,
the four-tier booking engine, cancellation, and the admin desk, all working on
the same PostgreSQL tables and on two outside ledgers (Stripe and Amadeus) that
no transaction spans; of how it books a hotel room; of what a trip's data goes
through between the search and a refund; and of the server process that runs it
all, with its event loop, its threads, its connection pool and its cache of
exchange rates. TLC checks the models on small instances; TLAPS proves every
invariant that the passing runs check, their action properties and the refinements,
some of them under conditions that it names, for all values of the constants. Liveness is left to TLC.

Paths below are relative to the repository.

## 1. The system

A voice agent (Gemini through Google's ADK) talks to a customer and calls tools.
The agent may call any tool at any time with any arguments; what protects the
customer's money is the Python code of the tools, the webhook and the admin
routes. The synchronous tool bodies run in threads (`asyncio.to_thread`), one
server process serves many sessions, and Cloud Run may run several processes.

| Component | Code | State | Operations | Talks to |
|---|---|---|---|---|
| Checkout | `tools/payment_tools.py`, `payments/stripe_client.py` | row of `payments` | `create_payment_checkout`, `check_payment_status` | Stripe, Twilio |
| Stripe webhook | `server/main.py` | `payments.status`, `processed_webhook_events` | `stripe_webhook` | called by Stripe, at least once per event |
| Booking engine | `tools/booking_tools.py` | `travel_bookings`, `payments`, `support_requests` | `confirm_flight_booking`: Tier 1 book with retries, Tier 2 rebook a comparable fare, Tier 3 refund, Tier 4 escalate | Amadeus, Stripe |
| Cancellation | `tools/booking_tools.py` | `travel_bookings` | `cancel_booking_request`, `lookup_booking` | Amadeus, Stripe |
| Admin desk | `server/admin.py`, `server/static/admin.html` | `payments`, `travel_bookings`, `support_requests` | `manual_refund`, `deny_refund`, `resolve_support_request`, queue views | Stripe |
| Support requests | `tools/support_tools.py` | `support_requests` | `request_human_support` | the desk's queue |
| Tables | `db/schema.sql` | the rows above, unique on `idempotency_key` | | |
| Connection pool | `db/database.py` | one lazily built pool per process | `get_conn`, `get_cursor` | every component |
| Hotel booking | `tools/hotel_booking_tools.py`, `tools/hotel_tools.py` | `hotel_bookings` | quote, confirm, look up, cancel | Amadeus |
| Flight search | `tools/flight_tools.py` | none | `search_flights`, `search_multi_city_flights` | Amadeus, translator |
| Fare and trip rules | parts of `booking_tools.py`, `flight_tools.py` and `stripe_client.py` | none | legs, party limits, round trips, seats, price conversion, the 24-hour / 7-day rule | |
| Voice session | `server/main.py`, `server/static/app.js` | two tasks and a queue per websocket; the browser's socket and audio | connect, stream, disconnect, reconnect in audio mode | ADK |
| Translator | `middleware/translator.py` | cache of exchange rates | refresh, convert | a rate service |
| Notifications | `notifications/` | none | text messages, itinerary mail | Twilio, SendGrid |
| Agent | `agents/orchestrator.py`, `config/tools.yaml` | none of its own | prompts, tool table | all tools |

### What is hard in it

* **No transaction spans a ledger and a table.** The engine orders at Amadeus
  and then inserts the row; refunds at Stripe and then updates; cancels at
  Amadeus, refunds at Stripe, and then updates. A crash, a database error or a
  lost reply fits between any two of these.
* **Check, then act.** `confirm_flight_booking`, `cancel_booking_request` and
  `manual_refund` each read a row in one transaction, call an outside service,
  and write in another one; no UPDATE names the status it expects to replace.
* **At-least-once, unordered delivery** of Stripe's events, several at a time.
* **Retries against a service that has no idempotency key** (Amadeus), and
  against one that does (Stripe, one key per intent and amount).
* **Several writers per row**: the webhook, the engine and the desk write
  `payments`; the engine, cancellations and the desk write `travel_bookings`.
* **Threads over unlocked state**: psycopg2's `SimpleConnectionPool` and the
  translator's dictionary of rates have no lock, and every tool and webhook runs
  in a thread of its own.
* **One event loop**: the admin handlers are coroutines that block it; a session
  is two tasks, one of which may wait for a tool that outlives the session.
* **An offer is all Tier 2 has**: it makes a new search from the itineraries and
  pricings of the offer that failed, past the search tools' own checks, after the
  agent has carried that offer through three tools as JSON.

PROJECT.json lists these hazards one by one, at the lines where they bite.

### What makes each component correct

* Checkout and webhook: nobody is charged before there is a row for the event to
  update; 'paid' means captured; a captured payment is learned of whatever
  deliveries fail; processed events have left their mark.
* Engine: no order without its payment; the order bought is the fare paid for or
  a comparable one; a confirmation that reached Amadeus ends booked, refunded or
  before a human, exactly one of these; a recorded booking is a real order.
* Cancellation: 'cancelled' only after Amadeus cancelled; a decision about the
  refund is on file and true.
* Desk: a refund on file is one Stripe made, and all of what it made; the queue
  agrees with the records.
* All: what a caller was told is so, and stays so.
* Hotel booking: a confirmed stay is on file, once.
* Searches and rules: what is searched for again is the same trip; everyone has a
  seat of his type; the charge is the fare; nothing is refunded automatically
  close to departure.
* Exchange rates: a failed refresh is not taken for a refresh (of a reply without
  rates the code does take it); a search ends.
* Connection pool: no connection in two hands, and none with somebody else's
  open transaction; nobody waits for one. Voice session: when the browser is gone
  or one task ends, so does the other, and the queue is closed.

## 2. The modules

| Module | Models | Source |
|---|---|---|
| `FlightData` | the shared tables; what Stripe and Amadeus hold; their answers | `db/schema.sql`, and the calls of `stripe_client.py` and `booking_tools.py` |
| `StripePayments` | `create_payment_checkout`, the Checkout Session, the webhook handler | `tools/payment_tools.py`, `server/main.py` |
| `BookingEngine` | `confirm_flight_booking` and its four tiers | `tools/booking_tools.py` |
| `BookingCancel` | `cancel_booking_request` | `tools/booking_tools.py` |
| `AdminDesk` | `request_human_support`, `manual_refund`, `deny_refund`, `resolve_support_request` | `tools/support_tools.py`, `server/admin.py` |
| `TravelBridge` | the composition, fairness, all properties | |
| `CustomerOutcome` | the promise of the engine, as an abstract specification | `tools/booking_tools.py:67-69` |
| `MCTravelBridge` | small values of the constants, symmetry | |
| `HotelBooking` | `confirm_hotel_booking`, `cancel_hotel_booking_request` | `tools/hotel_booking_tools.py` |
| `MCHotelBooking` | small values for `HotelBooking` | |
| `TravelBridge_proofs` | type correctness and the attempts bound | |
| `MoneyTrail_proofs` | the inductive invariant about money; no payment is lost | |
| `Records_proofs` | what the rows say and the callers are told, whatever happens | |
| `Outcome_proofs` | what becomes of a charge, under named conditions; the tables implement `CustomerOutcome` | |
| `HotelBooking_proofs` | the inductive invariant of the hotel tools | |
| `TripRules` | the rules on trips that keep no state, as operators | `tools/flight_tools.py`, `tools/booking_tools.py`, `payments/stripe_client.py` |
| `FlightSearch` | one trip's data: search, offer, charge, seats, Tier 2's search, cancellation | the same |
| `RateCache` | the exchange rates, refreshed and read by searches at once | `middleware/translator.py` |
| `SearchDesk` | a trip's search and others' searches over the shared rates | `middleware/translator.py`, `tools/flight_tools.py` |
| `MCSearchDesk` | airports, itineraries and searches for TLC | |
| `ConnectionPool` | `get_db_connection`, `release_db_connection` and the pool's own steps | `db/database.py` |
| `VoiceSession` | the websocket endpoint, its two tasks, the agent's queue | `server/main.py` |
| `ServerProcess` | loop, sessions, threads and pool together | `server/main.py`, `server/admin.py`, `db/database.py` |
| `FlightSearch_proofs` | the trip's inductive invariant | |
| `SearchDesk_proofs` | the rates' inductive invariant; the desk implements trip and rates | |
| `ServerProcess_proofs` | the pool's inductive invariant; the process implements the pool | |

`TravelBridge` composes the flight modules by sharing the variables of
`FlightData`; a component's step leaves the private variables of the others
alone. `HotelBooking` stands by itself: it shares no row, order or payment with
flights.

There are three compositions, and they share no variable. `TravelBridge` keeps
the money, the tables and the failures, with an offer as an opaque value.
`SearchDesk` keeps the contents of one offer, and no payment: that a trip is
charged, tried, rebooked and cancelled is here only the order of these steps.
`ServerProcess` keeps the threads and connections below the tools: what it calls
an error of the pool or a broken connection is a `db` fault of `TravelBridge`.

### State

A *key* is a `payments.idempotency_key`: one checkout, hence one session, one
payment intent and one offer. `payments`, `bookings` (`travel_bookings`) and
`tickets` (`support_requests`) are functions from their keys to row records, an
absent row being a record whose status is `"absent"`. `refund` in a row stands
for the pair `refund_id`, `refund_amount`, 0 for NULL. `captured`, `refunds` and
`refunded` are Stripe's ledger, `orders` is Amadeus's; no code reads these
except through the requests that the actions model. An order is named by the
call that placed it and the request that did, so two orders of one call are told
apart.

### Processes

Each element of `ConfirmCalls`, `CancelCalls`, `RefundCalls` and `SupportCalls`
is one call and runs once; a retry by the agent, the customer or the admin is
another element about the same key (`KeyOf`). `Deliveries` are the webhook
requests Stripe may have in flight at once; each is used again and again. An
instance without calls of a kind leaves that component out, except for the desk:
`resolve_support_request` and `deny_refund` are single steps without a call, and
take part in every instance.

A step of a call is one request to an outside service, or one database
transaction; between any two steps anything else may happen. A transaction is
one action, at the point where it commits. An outside request has up to four
outcomes, each an action: it took effect and answered, it was refused, it took
effect and the answer was lost (`..TimesOut`), or it took effect and its body
could not be used (`..BadReply`). After a commit the answer can still be lost
(`Answered`): the row is written and the caller hears of an error.

* `StripePayments`: `OpenSession`, `StoreCheckout` and `CheckoutFails` are the
  session, the INSERT and a failure between them; only a stored checkout has
  sent its link. `CustomerPays`, `CustomerCommits`, `MoneyArrives`,
  `MoneyFails`, `SessionExpires` are Stripe. `WebhookReads` is the SELECT on
  `processed_webhook_events`, `WebhookApplies` the UPDATE and the INSERT that
  commit together, `WebhookFails` a rollback and a 500.
* `BookingEngine`: the program counter walks through `payment`, `existing`,
  `tier1`, `tier2`, `tier3`, `record_refund`, `tier4`, `record_booking`. The
  argument checks before the first SELECT are one choice, `ConfirmRejects` or
  `ConfirmStarts`; the offer given is any offer, and `offer_hash` compares
  offers. `Listed` is how many travelers the call lists: the argument checks
  compare it with the offer's pricings, if it has any, and `Comparable` compares
  it with those of Tier 2's alternative, beside currency and threshold. Tier 2 may
  find any set of offers and takes one of the cheapest. A confirmation whose reply
  lacks `data.id` is no error: it is recorded as `UNKNOWN_ID` (`NamedAs`,
  `UnknownId`) and told as a booking, and its order cannot be cancelled by the
  tools (`AmadeusCancels`). Only a body that is not JSON, whose data is null or
  whose `associatedRecords` are empty raises (`Tier1BadReply`, `Tier2BadReply`).
  In Tier 2 a body that is JSON's null counts as no order (`Tier2TimesOut`).
* `BookingCancel`: read, DELETE, decision, UPDATE. The 24-hour / 7-day rule is
  asked of the clock again at this point, so either answer is possible here.
* `AdminDesk`: `manual_refund` is check, Stripe, one transaction over three
  tables; `deny_refund` and `resolve_support_request` are single transactions.
* `HotelBooking`: a *stay* is the idempotency key that the code derives from
  offer, guests and phone number. SELECT and INSERT of a confirmation share a
  transaction, at READ COMMITTED and with no lock, so the order at Amadeus still
  lies between the two: `NoStayYet`, `HotelOrdered`, `StayInserted`. The INSERT
  has no ON CONFLICT, so the loser of a race gets an error (`StayConflicts`);
  a reply without an id is recorded as `UNKNOWN_ID` (`HotelBadReply`).
* `FlightSearch`: `stage` goes through `offers`, `chosen`, `charged`, `tier1`,
  `tier2`, `booked`. `Search` has both tools' refusals as guards; Amadeus
  (`OffersFor`, external) answers each leg on its day, between any airports of
  its cities, and wants an adult. `Choose` takes an offer, whole or without its
  `travelerPricings`, which is what JSON through an agent may lose. `Confirm` has
  the argument checks, of a list (`Lists`) that is the party, the party with someone
  of another type in one place, the party less one, or the party and one more; the
  code compares lengths only, so the second kind passes. `Tier1GivesUp` makes the next search as
  `_tier2_fare_recheck_and_rebook` does, from nothing but the failed offer.
  `clock` counts hours UTC; a departure is local time, and the code reads it as
  UTC, so a booking has both: what is on file and when the plane takes off.
* `RateCache`: the rates are kept as their ages, the time of the last refresh as
  its age. A refresh computes, then writes four rates and the stamp; between
  those writes nothing is called, so they are one step, except that a division
  by a VND rate of zero ends it after three of them (`ZeroQuote`). A reply of
  status 200 that names no rates is a refresh to the code like any other, and
  brings back the built-in constants (`RatesDefaulted`), whose age is `BuiltIn`, as
  at the start: they are not the provider's, however new. The two reads of a price
  are two steps. A step of `SearchDesk` is one of the trip, one of the rates, or,
  where the trip's search begins to convert, one of both.
* `ConnectionPool`: `getconn` and `putconn` (external code of psycopg2, as
  `db/database.py` uses it) are taken apart at the points where CPython 3.11, the
  version of the Dockerfile, may switch threads: after a call or at a loop's
  jump, never between plain assignments. So pop, connect, roll back, append and
  the two deletions are steps; `key` and `slots` are the dictionaries `_rused`
  and `_used`. A job is one to `Transactions` database transactions of a thread.
* `VoiceSession` and `ServerProcess`: a task's step is what it does between two
  awaits; steps of the loop need the loop's own thread to rest, since an admin
  handler runs its job there. A tool's thread goes on when its session is
  cancelled; its answer then reaches nobody (`AnsweredBy`).

### The constants that choose what may go wrong

* `Faults`: `db` (a statement or the pool raises), `crash` (the thread dies with
  its process), `bad_reply`, `order_timeout`, `cancel_timeout`,
  `refund_timeout`. A refusal by Amadeus or Stripe is no fault: it is always
  possible.
* `Overlap`: whether a confirmation, or an admin refund, of a key may start while
  another one of the same key still runs. A live agent waits for a tool's
  reply before it calls again, and `manual_refund` is an `async def` that awaits
  nothing, so one server process runs one at a time: FALSE is the ordinary
  case. Parallel tool calls, a call repeated after an interruption, or a second
  instance make it TRUE. Cancellations always overlap.
* `DelayedMethods`: whether a session may complete before its money is in. The
  code asks Stripe for cards only (`payments/stripe_client.py`), FALSE, but the
  webhook handles both.

Three facts about Stripe are assumed: it refuses a refund beyond the captured
amount; a second request with the same idempotency key
(`refund-<intent>-<amount>`) answers with the first one's refund and moves no
money (Stripe keeps keys for 24 hours at least: older repeats are outside the
model); events are delivered again until a delivery is answered 200. One about
Amadeus: a live order can be cancelled once.

## 3. What TLC checks

The runs of purchases use module `MCTravelBridge` and one key, the hotel runs
`MCHotelBooking`, the searches `MCSearchDesk`.

| Run | Instance | Shows |
|---|---|---|
| `everything` | two overlapping confirmations, one cancellation, one admin refund, two webhook requests; all faults but `order_timeout` | safety whatever interleaves: `NoOrderWithoutPayment`, `MoneyTrail`, `BookingIsBacked`, `RefundsOnFileAreReal`, `CancelledIsDecided`, `ReviewHasTicket`, `AnswersAreTrue`, `BookingIsFinal` |
| `engine_retries` | two confirmations in turn, two attempts each, every fault of the engine | `OrderIsPaidFor`, `ConfirmedIsOnFile`, `NotBookedAndRefunded`, `NoPaymentLost`, `NoResurrection`, the refinement `KeepsPromise`, the liveness of `PaidIsLearned` |
| `engine_resolves` | the same, no faults but refusals | `EveryPathResolves`, `OneOrderPerCharge`, `NoTicketAfterRefund`, the liveness of `EngineResolves` |
| `refund_desk` | a delayed payment, a booking, two cancellations, a support ticket, two admin refunds in turn, two webhook requests at once | `RefundOnFileIsWhole`, `PaidIsCaptured`, `NoChargeWithoutRow`, `DecisionIsFinal` |
| `hotel` | two overlapping confirmations and two cancellations of a stay, one confirmation of a stay that wants a deposit, all faults | `StayIsBacked`, `HotelAnswersAreTrue`, `ToldOnceBookedOnce` |
| `search_desk` | sixteen searches of both forms, eight of them refused or without an answer; nine itineraries; two searches of two nodes each over one cache of rates, and every reply of the provider | `SameTrip`, `RightSeat`, `ChargeIsTheFare`, `NoAutoRefundNearDeparture`, `RatesAreFresh`, the liveness of `SearchEnds` |
| `server_process` | one session that may be connected again, one worker thread, admin handlers on the loop, a pool of one connection, jobs of one or two transactions | `NoSharedConnection`, `OwnTransaction`, the liveness of `GoneIsNoticed` and `ThreadsReturn` |

Five more runs each exhibit a state in which the code does something else than
its documentation says:

* `duplicate_order`: a confirmation repeated while the first one still runs
  places a second order that no row names, and its caller is told of it
  (`ConfirmedIsOnFile`). The tool's documentation says that reusing the key
  "safely returns the same booking".
* `unrecorded_charge`: a database error in the statement that records the
  outcome ends in `booking_exception`, and the payment is left 'paid' with
  nothing on file (`EveryPathResolves`). The engine's header says that no path
  leaves "a charge with nothing recorded about it".
* `queue_disagrees`: the UPDATE of a cancellation overwrites an admin's refund
  made since the row was read (`QueueAgrees`). `manual_refund` says that queue
  and records "never disagree".
* `hotel_duplicate`: a hotel order whose reply was lost leaves no row, and a retry
  with the same inputs places a second one (`RetryReusesStay`). The module's header
  says that it "naturally reuses the same booking".
* `local_departure`: a flight that leaves from an airport ahead of UTC is
  refunded automatically though it took off less than seven days after the
  booking (`AutoRefundIsSevenDaysOut`), because the local time on the offer is
  read as UTC. The tool's documentation says "departure was 7+ days out at booking
  time". What does hold is `NoAutoRefundNearDeparture`, which allows for the
  largest offset.

Two more things the model does because the code does have no run of their own. Two
deliveries of one event may both find it unprocessed, and the slower one then writes
'paid' over the 'refunded' that the engine has set in between: with `Deliveries`
of two, `NoResurrection` and `KeepsPromise` are violated without any fault. And a
reply of status 200 without rates replaces the rates fetched before by the constants
in the program, and counts as a refresh for an hour (`RatesDefaulted`).

### Which properties need which assumptions

The safety properties of `everything`, and `OrderIsPaidFor`, `NoPaymentLost`,
`PaidIsCaptured`, `NoChargeWithoutRow` and `DecisionIsFinal`, hold under overlap and every fault, for
any payment method and any number of webhook requests. The others are stated for
conditions under which the code is meant to work. The proofs show which of these
suffice for each one, and the last column what happens without them; everything they
do not name is allowed.

`OneAtATime`, `CardTrail` and `OneRefund` are not claims of the code but what the
claims beside them rest on; no run lists them.

| Property | Calls in turn | Cards, one webhook request | Faults excluded | Without it |
|---|---|---|---|---|
| `OneAtATime`, `ConfirmedIsOnFile` | yes | | | a second order takes the place of the first (run `duplicate_order`) |
| `CardTrail`, `NoResurrection` | | yes | | two requests that both passed the SELECT apply an event twice, and 'refunded' reads 'paid' again |
| `NotBookedAndRefunded` | yes | yes | | one call refunds while the other books |
| `EveryPathResolves` | | yes | `db`, `crash`, `bad_reply` | nothing is on file (run `unrecorded_charge`) |
| `OneOrderPerCharge` | yes | | `order_timeout`, `bad_reply`, `db`, `crash` | the engine repeats a request that timed out, and a later call one that nothing recorded |
| `NoTicketAfterRefund` | yes | yes | the same | the order whose reply was lost stays live |
| `OneRefund`, `RefundOnFileIsWhole` | yes | | `db`, `crash`, `refund_timeout` | two different amounts are two refunds at Stripe |
| `KeepsPromise` | yes | yes | none, but no admin (`RefundCalls` empty) | an admin may refund what is charged or escalated, which `CustomerOutcome` leaves out |

Besides:

* `PaidIsLearned` needs cards only: with delayed methods a late
  `checkout.session.completed` puts a paid row back to 'pending'.
* A DELETE that timed out leaves the row 'booked' for an order that is gone; every
  later cancellation fails. No property claims otherwise.
* An order request whose reply was lost is sent again: there may be a second order,
  or a live one beside a refund. Amadeus is given no idempotency key, and no
  document says that it is; `OneOrderPerCharge` and `NoTicketAfterRefund` are about
  replies that arrive.
* `CancelledIsDecided` says that there is a decision, and `DecisionIsFinal`, with two
  cancellations at once, that it is the winner's.

### Bounds

* One key. The only code that relates two keys is the pool; every statement and
  every request names one key, so what a second key adds is the interleaving of
  unrelated rows.
* Two confirmations: the shortest sequence that repeats one, which is what the
  checks of `payment` and `existing` are about. Two cancellations, and two admin
  refunds, for the same reason.
* `Attempts`: 2 in the engine's runs (one retry; the code's default allows
  more, and the attempts only differ in number), 1 where the engine is a
  neighbour.
* Offers: the fare asked for, one exactly at the threshold, one above it, one
  for another party, one in another currency. Where only refunds matter, two
  offers and a price of 3, so that partial amounts 1 and 2 and a sum that
  exceeds the price exist, plus 0 and 4 as refused inputs.
* `everything` leaves out `order_timeout` to keep the run short; `engine_retries`
  has it. `SYMMETRY` is used there and in `refund_desk`: calls of one kind, and
  webhook requests, are interchangeable, and no liveness is checked.
* Hotels: two stays, so that a refused policy occurs; two confirmations and two
  cancellations of one stay, enough for a race, a retry and a cancellation of
  either; a third call for the other stay.
* Searches: an hour of the model is twelve, so that the window is a day (2) and
  the lead a week (14). Itineraries leave on both sides of the lead, east and
  west of Greenwich, with one and two segments, from and to the two airports of
  one city. Parties have every kind of traveler, and reach the largest party
  (3) and its excess by one. The searches are one-way, there and back asked as a
  route and as legs, an open jaw, three legs, and one refused for each check.
  `Totals` are just at the half and just above one and a half of a unit.
  `Horizon` 3 is one hour past the window; the eligible case and both ways of
  missing it occur.
* Rates: two searches of two nodes each (`Prices`), so that a search refreshes
  again between two nodes, while the other one fetches or reads. The run's
  `ACTION_CONSTRAINT` (`RatesMoveWithSearch`) lets the rates move, and others
  search, only until the trip's offer is chosen and again when it is over: in
  between the two parts share no variable, and nothing new could be seen of either.
  The theorems are about `SearchSpec`, without it.
* Ages of rates are counted up to `Expiry` plus `FetchTimeout`, where they no
  longer matter; a request may take up to `FetchTimeout`, which the code has
  below the expiry (three seconds and an hour).
* The pool: `MinConns` and `MaxConns` 1 and two connections at PostgreSQL, so that
  the pool is exhausted, a surplus connection is closed, and a broken one is
  replaced. Two threads suffice for every step in the middle of another
  thread's. `SlotBound` stops new jobs when a lost entry (see below) has let
  `slots` grow beyond it: the code has no such bound.
* Nothing else is bounded: the counters of the code (attempts) are bounded by
  the code itself.

One consequence of the missing lock is in the model and in no property, since no
line of the repository denies it: when a thread pops a connection between
another one's append and its last `del`, that `del` takes the entry of the new
user, whose release then raises after its commit (`PutUnkeyed`) and whose slot is
never given back. `NoSharedConnection` and `OwnTransaction` hold even so.

`Finished` lets a behaviour end where every call has returned and every event is
processed. Deadlock is checked in every run, but in the runs of purchases it says
little, since a denial at the desk is always possible there: that no call is stuck
is what `EngineResolves` and `PaidIsLearned` show, and for the other parts
`SearchEnds`, `GoneIsNoticed` and `ThreadsReturn`.

### Fairness

`FairSpec` assumes weak fairness of the steps of a started confirmation (its
thread is scheduled, its requests have timeouts), weak fairness of deliveries
being read, and strong fairness of their commit: Stripe delivers again what was
answered 500, so a delivery that may fail any number of times is in the end
committed. Strong fairness is needed because a failing delivery disables the
commit until the event is delivered again. Nobody is assumed to buy, pay,
confirm, cancel or work the queue, and no fault is assumed to happen or to stop,
except that commits do not fail for ever.

`FairSearchSpec` assumes weak fairness of the steps of a search that converts: its
thread is scheduled and the request to the provider has a timeout. Of the trip, and
of the provider's luck, nothing is assumed. `ServerSpec` assumes weak fairness of
the steps of a job, whose statements and connects end in an answer or an error, and
strong fairness of a session's steps on the loop: the loop runs its ready callbacks
first in, first out, so that a callback is not passed over for ever by admin
handlers, which disable it only while they run. No job is assumed to start and
no client to connect or to leave.

### The abstract specification

`CustomerOutcome` is what a customer should see of a key: unpaid, charged, and
then one of booked, refunded, escalated, for good. `KeepsPromise` maps the tables
to it (`OutcomeOf`), is checked as a property of `engine_retries` and proved
(`PromiseKept`): with every fault and with cancellations, a crash at any point may
leave a charge where it is, but none takes an outcome back or makes two of them.

`SearchDesk` and `ServerProcess` are compositions whose parts have specifications of
their own: `TripSpec`, `RateSpec` and `PoolSpec` are what a desk and a process
implement, under the identity mapping, and this is proved (section 4).

## 4. What TLAPS proves

For purchases: for any keys, offers, prices, calls, lists, attempts, thresholds, set of
faults, overlap and number of webhook requests, under `DataAssumption`,
`UnknownIdAssumption` and `DeliveryAssumption` (the types of the constants, that
the null values are no values, that a call is of one kind). For trips: any
airports, cities, zones, searches, fares, party size, window and lead
(`TripAssumption`, `SearchAssumption`; a search by route has one leg, or two there
and back). For rates and pool: any number of threads and connections
(`RateAssumption`, with the timeout shorter than the expiry; `PoolAssumption`).

| Theorem | Module | Says |
|---|---|---|
| `TypeCorrect`, `TypesHold` | `TravelBridge_proofs` | `Spec => []TypeOK`, with the bound on attempts |
| `MoneyTrailHolds` | `MoneyTrail_proofs` | `Spec => []MoneyTrail` |
| `OrdersArePaid` | `MoneyTrail_proofs` | `Spec => []NoOrderWithoutPayment` |
| `PaidIsPaid`, `ChargesHaveRows` | `MoneyTrail_proofs` | `Spec => []PaidIsCaptured`, `Spec => []NoChargeWithoutRow` |
| `NoPaymentIsLost` | `MoneyTrail_proofs` | `Spec => []NoPaymentLost` |
| `BookingsAreFinal` | `Records_proofs` | `Spec => BookingIsFinal` |
| `ReviewsHaveTickets` | `Records_proofs` | `Spec => []ReviewHasTicket` |
| `RecordTrailHolds` | `Records_proofs` | `Spec => []RecordTrail` |
| `BookingsAreBacked`, `OrdersArePaidFor`, `RefundsOnFileHold`, `CancelledAreDecided` | `Records_proofs` | `BookingIsBacked`, `OrderIsPaidFor`, `RefundsOnFileAreReal`, `CancelledIsDecided`, always |
| `OneCancellationCounts`, `DecisionsAreFinal` | `Records_proofs` | `Spec => []OneCancels`, `Spec => DecisionIsFinal` |
| `AnswersHold` | `Records_proofs` | `Spec => []AnswersAreTrue` |
| `ConfirmsTakeTurns`, `ConfirmedStaysOnFile` | `Outcome_proofs` | `OneAtATime`, `ConfirmedIsOnFile`, for calls in turn |
| `CardTrailHolds`, `NoneResurrected` | `Outcome_proofs` | `CardTrail`, `NoResurrection`, for cards and one webhook request |
| `RefundsAreForGood`, `RefundedAreNotBooked` | `Outcome_proofs` | `NotBookedAndRefunded`, for both |
| `PathsResolve` | `Outcome_proofs` | `EveryPathResolves`, for cards, where nothing dies |
| `OrdersAreOnFile`, `OrdersAreSingle`, `RefundedHoldNoTicket` | `Outcome_proofs` | `OneOrderPerCharge` and `NoTicketAfterRefund`, for calls in turn whose orders are heard of |
| `OneRefundHolds`, `RefundsOnFileAreWhole` | `Outcome_proofs` | `OneRefund` and `RefundOnFileIsWhole`, for requests in turn that are written |
| `PromiseKept` | `Outcome_proofs` | `Spec => KeepsPromise`, for calls in turn, cards and no admin |
| `HotelTypesHold`, `HotelTrailHolds` | `HotelBooking_proofs` | `HotelSpec => []HotelTypeOK`, `HotelSpec => []HotelTrail` |
| `HotelInvHolds`, `StaysAreBacked`, `HotelTellsTheTruth` | `HotelBooking_proofs` | `HotelSpec => []StayIsBacked`, `HotelSpec => []HotelAnswersAreTrue` |
| `BookedOnce` | `HotelBooking_proofs` | `HotelSpec => ToldOnceBookedOnce` |
| `TripInvHolds` | `FlightSearch_proofs` | `TripSpec => []TripInv` |
| `TripStaysTheSame`, `EveryoneHasTheRightSeat` | `FlightSearch_proofs` | `TripSpec => []SameTrip`, `TripSpec => []RightSeat` |
| `ChargesAreFares`, `AutoRefundsAreEarly` | `FlightSearch_proofs` | `TripSpec => []ChargeIsTheFare`, `TripSpec => []NoAutoRefundNearDeparture` |
| `RatesStayFresh` | `SearchDesk_proofs` | `RateSpec => [](RateTypeOK /\ RatesAreFresh)` |
| `DeskIsATrip`, `DeskConvertsRates` | `SearchDesk_proofs` | `SearchSpec => TripSpec`, `SearchSpec => RateSpec` |
| `DeskTypesHold`, `DeskKeepsItsPromises` | `SearchDesk_proofs` | the types and the five safety properties of the desk |
| `PoolInvHolds`, `ConnectionsAreNotShared`, `TransactionsAreOwn` | `ServerProcess_proofs` | `PoolSpec => []NoSharedConnection`, `PoolSpec => []OwnTransaction` |
| `ServerUsesPool` | `ServerProcess_proofs` | `ServerSpec => PoolSpec` |
| `ServerTypesHold`, `ServerSharesNoConnection` | `ServerProcess_proofs` | the types and both pool properties of the process |

*Types.* `TypeOK` is not inductive: that `tries` stays within `0..Attempts` needs
`AttemptsLeft`, that a call which may still make a request has one left. The
proof takes the components one at a time, each of whose lemmas says that its
steps keep the types of its own variables and of the shared data.

*Money.* That no order exists without a captured payment cannot be shown by
itself: a confirmation orders because it read 'paid' some steps ago, the row
reads 'paid' because a delivery applied an event, the event exists because
Stripe captured, and the row exists because the link is sent after the INSERT.
`MoneyTrail` names each of these links (`CheckoutTrail`, `EventTrail`,
`PaidIsCaptured`, `CallTrail`, `NoOrderWithoutPayment`); together, and relative
to the types, they are inductive. Each component's steps keep the trail for a
reason of its own; captures only happen when nothing was captured and are never
undone, which is what carries `CallTrail` over the steps of others.

*No payment is lost.* A processed event has left its mark when it is committed;
that no other one wipes it out rests on `EventOrder`: a session that completed with
its money in was open until then, and has no other event. So this needs neither
cards nor one request at a time. Of a delayed payment, whose event is
`async_payment_succeeded`, it does not hold (see `PaidIsLearned` above).

*Who writes what.* A call's step is of one call (`OneCallActs`, `CallMoves`, and
the same for cancellations and admin requests), and each ledger and table has a
short list of writers (`OrderWriters`, `RefundWriters`, `BookingWriters`,
`PaymentWriters`, `StatusWriters`). The proofs below go through these lists and
not through the whole next-state relation again.

*Records.* Four kinds of step write `travel_bookings` (the INSERT, the
cancellation's UPDATE, the desk's refund and its denial); none changes a row's
order, removes it or takes a cancellation back. Only Tier 4 writes
'failed_needs_manual_review', together with the ticket, and no ticket is ever
deleted. What rows say of the ledgers is not inductive: a row is written from what
its call learned of Amadeus or Stripe some steps, and perhaps a crash of others,
before. `RecordTrail` adds that: a call about to record an order holds the id of one
of its own that was placed, or `UNKNOWN_ID` and a live order of its own
(`ConfirmKnows`), a cancellation past its DELETE has a
cancelled order and past its refund a decision Stripe bears out (`CancelKnows`), an
admin's request has its refund before it writes (`RefundKnows`). These stay true
while others move because ledgers only grow: an order's id is used once
(`UnusedOrders`), so that a cancelled order does not come back, and a refund stays
made (`RefundsAreCounted`). A row that says `UNKNOWN_ID` stays backed because an
order is cancelled at Amadeus by its id only, hence from a row that has it, and the
row of a key keeps the id it was inserted with: so the orders of a key without a
named row stay live (`BookingIsBacked`). `AnswersAreTrue` follows the same way, each answer
being given by a call that knows it.

*Decisions.* Two cancellations may both read 'booked' and both go to Amadeus, which
cancels a live order once: one of them gets past its DELETE (`OneCancels`), and
until it has written, the row reads 'booked'. So no other one is left to write over
its decision.

`RecordTrail`, and `OneCancels`, `HotelTrail`, `OneAtATime`, `CardTrail` and `OneRefund` below, are in
`TravelBridge` (`HotelTrail` in `HotelBooking`) and in no cfg: they are proved, and what they are for is in the runs. As
further INVARIANTs TLC finds them to hold too, `RecordTrail` in `Everything.cfg`,
`OneCancels` in `RefundDesk.cfg`, `HotelTrail` in `HotelEverything.cfg`, `OneAtATime` and `CardTrail` in `EngineRetries.cfg`, `OneRefund` in `RefundDesk.cfg`.

*Turns.* The check for a booking and the INSERT are two transactions. Without
overlap, a call past the check is the only one of its key at work, and nobody but
a confirmation inserts; so there is still no booking (`OneAtATime`), the INSERT
takes effect, and by `BookingStays` the order announced stays on file, under its id
or as `UNKNOWN_ID`, and no other caller of the key is told of one.

*Cards.* With cards and one request at a time a session has one event, and it was
processed before its payment read 'paid', and so before anything was refunded,
escalated or ordered (`CardTrail`). An event that is processed is not applied
again. So from then on neither checkout nor webhook writes the row, and only the
engine and the desk do (`NoneResurrected`). A refund by the engine is then for
good (`RefundedForGood`): no call of its key passes the payment check again, and
the one that refunded was the only one at work.

*Paths.* A call counts an attempt only in Tier 1 (`TriesCounted`), and leaves the
tiers only by recording a booking, a refund or a ticket, if no error can take it
out; each of the three stays.

*Orders.* Where every reply is heard and nothing dies in between, an order is on
file or in the hand of the call about to record it (`OrderOnFile`). Two orders of
a key would then be two hands, or a hand and a row, which `OneAtATime` excludes,
or one row with two orders.

*Refunds.* That Stripe gave back once rests on three guards at once: the desk's
check of `refund_id`, Stripe's refusal of more than the capture, and its key per
amount, under which engine, cancellation and desk ask for the whole but move the
money once. `OneRefund` says where a refund of less is known: on file, or in the
hand of the one request at work, when no request can die in between.

*The promise.* `PromiseKept` is a step simulation: `OutcomeMoves` looks at how
status and booking of a key change in a step and finds the step of
`CustomerOutcome` (a charge, a booking, a refund, an escalation) or a stutter. That
several keys never change at once, and that a booking comes to a charge only, is
what it needs of the invariants: while a call is between check and INSERT its
payment stays 'paid' (`ChargedStill`).

*The conditions.* They are on the constants, as weak as the proofs allow, and satisfied
by the runs that check the same properties: `engine_retries` (turns, cards, no
admin; every fault of the engine), `engine_resolves` (no faults), `refund_desk`
(turns, and delayed methods). What justifies them in the code: a live agent
waits for its tool's reply (turns), `create_checkout_session` asks for cards,
and Stripe sends an event again only after the last attempt failed or timed out
(one request at a time). The last is assumed of all requests, where Stripe gives it
for one event only: to assume it per event is in the plan. The faults excluded are no
claim about the code; they say where the code promises nothing.

*Hotels.* A row is backed because a call inserts only after its order exists, and
says 'cancelled' only after its order was; `HotelTrail` says this of the calls on
their way. It needs `HotelAssumption` (a call is of one kind, `UNKNOWN_ID` names
no order). `BookedOnce` follows: whoever was told of a booking left a row, and the
SELECT finds it.

*Trips.* `SameTrip` is about Tier 2's search and must be carried there from the ask.
`TripInv` follows the data: an ask that was not refused (`AskFits`); an offer whose
itineraries answer its legs one by one and whose slots are its party or lost
(`OfferFits`); a list of travelers as long as the slots, where these are there to
compare with (`ListFits`); Tier 2's search made from that offer (`AgainFits`). That
it asks for the same trip then rests on lemmas about the operators: an itinerary
that answers a leg leaves from and arrives in its cities on its day
(`ItineraryIsLeg`), counting the slots of a party by type gives the party back
(`PartyIsCounted`), and a there-and-back trip survives the form that only keeps its
first leg and second date (`ResearchHasTheLegs`). `RightSeat` follows in Tier 2
because the alternative is priced for the same party in the same order as the
chosen offer was: a list that followed the one follows the other. `BookingFits` is what a decision
leaves behind: the three inequalities from which `NoAutoRefundNearDeparture`
follows.

*Rates.* `RatesAreFresh` is not inductive: a thread skips the refresh because of the
stamp, so `RatesFollowStamp` bounds both ages by it; the VND rates may lag
by a request's time, when a quote of zero ended the refresh between the writes. It
bounds when rates were written, from a reply the code takes for a refresh, and not
that the reply named them: built-in rates (`BuiltIn`) are exempt in `Fresh`, since
the code counts a reply without rates as a refresh.

*Pool.* To show that no connection is shared one needs to know which are open
(`HeldIsOpen`), since a new connection is distinct from the open ones only; for
transactions, that a closed connection has none (`ClosedIsEmpty`) and one on its
way back was rolled back (`RolledBack`). No clause says that the two
dictionaries are right, because they need not be.

*Compositions.* Each step of a desk or of a process is a step of its part or leaves
it alone, so that the parts' invariants hold of the whole.

Only model-checked: liveness (`PaidIsLearned`, `EngineResolves`, `SearchEnds`,
`GoneIsNoticed`, `ThreadsReturn`), which rests on fairness and so on `ENABLED`, out of
the prover's reach. What the runs that expect a violation refute is, of course, not
proved either.

## 5. What is not modelled

* Request and reply contents, wording, languages, text messages and mail:
  no property is about them, and a failure there is caught and changes nothing.
* Phone and name checks of lookups and tickets, the webhook's signature, the
  admin's credentials: a failed check returns before anything is read or
  changed.
* The reference of a booking, 'UNKNOWN_REF' where the reply has none: the row then
  cannot be looked up by it, which no property is about.
* How an offer's payment policy is read from its JSON (an input of
  `HotelBooking`).
* `check_payment_status`, both lookups, the hotel search and the queue views: they
  only read.
* The construction of the pool: `init_schema` builds it at startup, before any
  request, so that the lock and the second check have nobody to exclude.
* What is said in a session: audio and text frames are neither kept nor counted.
  The page's script (`app.js`) with its reconnect in audio mode is the browser's
  state; the server sees a session that ends and another one that starts.
* The translated wording, including that leaf values such as a cabin come back to
  Amadeus in the customer's language, and the digits of converted prices.
* Currencies of three decimals, which the code does not list; fractions of a
  hundredth.
* A `departure.at` with an offset (Amadeus gives none) or that cannot be read,
  which the code takes as not eligible, as the model does a short lead.
* An offer that lost its itineraries, or part of its pricings: the model's agent
  drops all the pricings or none.
* The absorb threshold is computed in integers; the code multiplies floats, so
  the last unit of rounding is not covered.
* A missing Stripe key is refused at startup and not modelled after it.
* The agent's prompts: the model lets it call anything.
* The page of the desk (`admin.html`) only calls its routes.

## 6. Plan

Written so far, the most important behaviour first: `FlightData`,
`StripePayments`, `BookingEngine`, `BookingCancel`, `AdminDesk`, their
composition `TravelBridge` over the abstract `CustomerOutcome`, the money's
theorems, `HotelBooking` with its own; then `TripRules`, `FlightSearch` and
`RateCache` in `SearchDesk`, `ConnectionPool` and `VoiceSession` in
`ServerProcess`, each with its theorems; then `Records_proofs` and
`Outcome_proofs`. Left:

1. `KeepsPromise` with an admin at work: an abstract specification in which the desk
   may refund a charge, an escalation or a booking, and the same step simulation.
2. The order in which things are asked of the hotel tools as an abstract
   specification of a stay (asked, ordered, on file, cancelled), as
   `CustomerOutcome` is one of a charge.
3. A weaker condition than one webhook request at a time for `CardTrail`: that no
   two requests carry the same event at once.
