---------------------------- MODULE MCHotelBooking ----------------------------
(***************************************************************************)
(* Small values for HotelBooking's constants: one stay that can be booked, *)
(* and one whose offer wants a deposit.                                    *)
(***************************************************************************)
EXTENDS HotelBooking

MCStays == {"room", "deposit_room"}

MCPolicy == [s \in MCStays |-> IF s = "room" THEN "GUARANTEE" ELSE "DEPOSIT"]

\* The call that wants the other room.
CONSTANT Other

MCStayOf == [c \in HotelCalls |-> IF c = Other THEN "deposit_room" ELSE "room"]
=============================================================================
