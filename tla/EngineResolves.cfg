\* Confirmations one after another, no faults but refusals.
SPECIFICATION FairSpec
CONSTANTS
  Keys = {k1}
  Offers <- MCOffers
  Fare <- MCFare
  OfferOf <- MCOfferOf
  ConfirmCalls = {c1, c2}
  CancelCalls = {}
  RefundCalls = {}
  SupportCalls = {}
  KeyOf <- MCKeyOf
  Listed <- MCListed
  Attempts = 2
  ThresholdPercent = 10
  Faults = {}
  Overlap = FALSE
  UnknownId = UnknownId
  Deliveries = {d1}
  DelayedMethods = FALSE
  NoEvent = NoEvent
INVARIANTS
  EveryPathResolves
  OneOrderPerCharge
  NoTicketAfterRefund
PROPERTIES
  EngineResolves
