\* A confirmation retried while the first one still runs.
SPECIFICATION Spec
CONSTANTS
  Keys = {k1}
  Offers <- MCOffers
  Fare <- MCFare
  OfferOf <- MCOfferOf
  ConfirmCalls = {c1, c2}
  CancelCalls = {}
  RefundCalls = {}
  SupportCalls = {}
  KeyOf <- MCKeyOf
  Listed <- MCListed
  Attempts = 1
  ThresholdPercent = 10
  Faults = {}
  Overlap = TRUE
  UnknownId = UnknownId
  Deliveries = {d1}
  DelayedMethods = FALSE
  NoEvent = NoEvent
INVARIANTS
  ConfirmedIsOnFile
