\* A confirmation repeated after its reply was lost.
SPECIFICATION HotelSpec
CONSTANTS
  Stays <- MCStays
  Policy <- MCPolicy
  HotelConfirms = {c1, c2, c3}
  HotelCancels = {x1, x2}
  StayOf <- MCStayOf
  HotelFaults = {"order_timeout"}
  HotelOverlap = FALSE
  UnknownId = UnknownId
  Other = c3
INVARIANTS
  RetryReusesStay
