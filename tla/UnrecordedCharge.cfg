\* A database error after the engine has asked Amadeus.
SPECIFICATION Spec
CONSTANTS
  Keys = {k1}
  Offers <- MCOffers
  Fare <- MCFare
  OfferOf <- MCOfferOf
  ConfirmCalls = {c1}
  CancelCalls = {}
  RefundCalls = {}
  SupportCalls = {}
  KeyOf <- MCKeyOf
  Listed <- MCListed
  Attempts = 1
  ThresholdPercent = 10
  Faults = {"db"}
  Overlap = FALSE
  UnknownId = UnknownId
  Deliveries = {d1}
  DelayedMethods = FALSE
  NoEvent = NoEvent
INVARIANTS
  EveryPathResolves
