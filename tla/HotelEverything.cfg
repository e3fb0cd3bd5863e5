\* Overlapping confirmations and cancellations of a stay, every fault.
SPECIFICATION HotelSpec
CONSTANTS
  Stays <- MCStays
  Policy <- MCPolicy
  HotelConfirms = {c1, c2, c3}
  HotelCancels = {x1, x2}
  StayOf <- MCStayOf
  HotelFaults = {"db", "crash", "bad_reply", "order_timeout", "cancel_timeout"}
  HotelOverlap = TRUE
  UnknownId = UnknownId
  Other = c3
INVARIANTS
  HotelTypeOK
  StayIsBacked
  HotelAnswersAreTrue
PROPERTIES
  ToldOnceBookedOnce
