\* One trip: searches of every form, every offer, one rebooking, one cancellation;
\* searches of others at the same time.
SPECIFICATION FairSearchSpec
CONSTANTS
  Airports <- MCAirports
  NoCode = ""
  City <- MCCity
  Zone <- MCZone
  MaxZone = 1
  Day = 2
  MaxPartySize = 3
  MaxLegs = 3
  Window = 2
  Lead = 14
  ZeroDecimal = {"VND", "JPY"}
  Asked <- MCAsked
  Sold <- MCSold
  Totals = {50, 151}
  Currencies = {"VND", "USD"}
  SmallestUnit <- MCSmallestUnit
  Horizon = 3
  None = None
  Converters = {s1, s2}
  Mine = s1
  Prices = 2
  Expiry = 2
  FetchTimeout = 1
INVARIANTS
  SearchTypeOK
  SameTrip
  RightSeat
  ChargeIsTheFare
  NoAutoRefundNearDeparture
  RatesAreFresh
PROPERTIES
  SearchEnds
ACTION_CONSTRAINT
  RatesMoveWithSearch
