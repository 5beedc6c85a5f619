------------------------------ MODULE BookingTable ------------------------------
(***************************************************************************)
(* The table bookings under any client of the database, not only the API:  *)
(* whatever row the constraints of the migrations admit can be inserted.   *)
(* This is what the database guarantees without the service in front.      *)
(***************************************************************************)
EXTENDS Storage

CONSTANT Starts   \* values of start_at and of end_at

vars == <<now, tables>>

Init ==
  /\ now = 0
  /\ rooms = Rooms
  /\ schedules = [r \in {} |-> NULL]
  /\ bookings = [b \in {} |-> NULL]

AnyRow(room, user, start, end) ==
  [room |-> room, user |-> user, start |-> start, end |-> end,
   status |-> "active", cancelledAt |-> NULL]

InsertAny(id) ==
  /\ \E room \in Rooms, user \in Users, start, end \in Starts :
       InsertBooking(id, AnyRow(room, user, start, end))
  /\ UNCHANGED now

CancelAny(id) ==
  /\ id \in ActiveIDs
  /\ UpdateCancelled(id)
  /\ UNCHANGED now

Next == \E id \in BookingIDs : InsertAny(id) \/ CancelAny(id)

Spec == Init /\ [][Next]_vars

-----------------------------------------------------------------------------
(***************************************************************************)
(* "The 30 minute grid is built into the code and into the check           *)
(* constraint bookings_duration_30m: it cannot be bypassed at the level of *)
(* the database" (README.md).                                              *)
(***************************************************************************)
GridHeldByDatabase ==
  \A id \in DOMAIN bookings : /\ OnGrid(bookings[id].start)
                              /\ OnGrid(bookings[id].end)

=============================================================================
