\* A cancellation after an admin's refund.
SPECIFICATION Spec
CONSTANTS
  Keys = {k1}
  Offers <- MCTwoOffers
  Fare <- MCSmallFare
  OfferOf <- MCOfferOf
  ConfirmCalls = {c1}
  CancelCalls = {x1}
  RefundCalls = {a1}
  SupportCalls = {}
  KeyOf <- MCKeyOf
  Listed <- MCListed
  Attempts = 1
  ThresholdPercent = 10
  Faults = {}
  Overlap = FALSE
  UnknownId = UnknownId
  Deliveries = {d1}
  DelayedMethods = FALSE
  NoEvent = NoEvent
INVARIANTS
  QueueAgrees
