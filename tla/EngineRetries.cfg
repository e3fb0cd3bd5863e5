\* Confirmations one after another, every fault between them.
SPECIFICATION FairSpec
CONSTANTS
  Keys = {k1}
  Offers <- MCOffers
  Fare <- MCLostFare
  OfferOf <- MCOfferOf
  ConfirmCalls = {c1, c2}
  CancelCalls = {}
  RefundCalls = {}
  SupportCalls = {}
  KeyOf <- MCKeyOf
  Listed <- MCListedOneOrTwo
  Attempts = 2
  ThresholdPercent = 10
  Faults = {"db", "crash", "bad_reply", "order_timeout", "refund_timeout"}
  Overlap = FALSE
  UnknownId = UnknownId
  Deliveries = {d1}
  DelayedMethods = FALSE
  NoEvent = NoEvent
INVARIANTS
  OrderIsPaidFor
  ConfirmedIsOnFile
  NotBookedAndRefunded
  NoPaymentLost
PROPERTIES
  NoResurrection
  KeepsPromise
  PaidIsLearned
