\* A delayed payment, a booking, two cancellations, two admin refunds one at a time.
SPECIFICATION Spec
CONSTANTS
  Keys = {k1}
  Offers <- MCTwoOffers
  Fare <- MCSmallFare
  OfferOf <- MCOfferOf
  ConfirmCalls = {c1}
  CancelCalls = {x1, x2}
  RefundCalls = {a1, a2}
  SupportCalls = {s1}
  KeyOf <- MCKeyOf
  Listed <- MCListed
  Attempts = 1
  ThresholdPercent = 10
  Faults = {"cancel_timeout"}
  Overlap = FALSE
  UnknownId = UnknownId
  Deliveries = {d1, d2}
  DelayedMethods = TRUE
  NoEvent = NoEvent
INVARIANTS
  RefundOnFileIsWhole
  PaidIsCaptured
  NoChargeWithoutRow
PROPERTIES
  DecisionIsFinal
SYMMETRY Interchangeable
