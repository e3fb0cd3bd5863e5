\* Every component at once, overlapping calls, every fault but order_timeout.
SPECIFICATION Spec
CONSTANTS
  Keys = {k1}
  Offers <- MCTwoOffers
  Fare <- MCSmallFare
  OfferOf <- MCOfferOf
  ConfirmCalls = {c1, c2}
  CancelCalls = {x1}
  RefundCalls = {a1}
  SupportCalls = {}
  KeyOf <- MCKeyOf
  Listed <- MCListed
  Attempts = 1
  ThresholdPercent = 10
  Faults = {"db", "crash", "bad_reply", "cancel_timeout", "refund_timeout"}
  Overlap = TRUE
  UnknownId = UnknownId
  Deliveries = {d1, d2}
  DelayedMethods = FALSE
  NoEvent = NoEvent
INVARIANTS
  TypeOK
  NoOrderWithoutPayment
  MoneyTrail
  BookingIsBacked
  RefundsOnFileAreReal
  CancelledIsDecided
  ReviewHasTicket
  AnswersAreTrue
PROPERTIES
  BookingIsFinal
SYMMETRY Interchangeable
