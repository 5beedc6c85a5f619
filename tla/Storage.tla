------------------------------- MODULE Storage -------------------------------
(***************************************************************************)
(* The tables behind internal/storage/postgres, with the constraints that  *)
(* migrations/001_init.sql and 002_integrity_and_indexes.sql put on them.  *)
(* Every repository call of the program is one autocommitted statement, so *)
(* a statement is one atomic step; the services are the ones that put      *)
(* several statements in a row.                                            *)
(*                                                                         *)
(* A table with a unique key is a partial function from that key to the    *)
(* other columns.  Columns no property looks at (names, e-mail addresses,  *)
(* conference links, ids of schedules) are left out.                       *)
(***************************************************************************)
EXTENDS SlotGrid

CONSTANTS Users,        \* rows of the table users: never deleted
          Admins,       \* those whose role is admin
          Rooms,        \* room ids a client can name, created or not
          BookingIDs,   \* the uuids uuid.New() draws for bookings
          NULL

ASSUME StorageAssumption == /\ Admins \subseteq Users
                            /\ NULL \notin Int

VARIABLES now,          \* the wall clock, of the API and of now() in SQL
          rooms,        \* ids of the rows of table rooms
          schedules,    \* room_id -> schedule (schedules_room_unique)
          bookings      \* id -> booking (primary key)

tables == <<rooms, schedules, bookings>>

Booking == [room : Rooms, user : Users, start : Int, end : Int,
            status : {"active", "cancelled"}, cancelledAt : Nat \cup {NULL}]

StorageTypeOK ==
  /\ now \in Nat
  /\ rooms \in SUBSET Rooms
  /\ DOMAIN schedules \in SUBSET Rooms
  /\ schedules \in [DOMAIN schedules -> Schedule]
  /\ DOMAIN bookings \in SUBSET BookingIDs
  /\ bookings \in [DOMAIN bookings -> Booking]

StorageInit ==
  /\ now = 0
  /\ rooms = {}
  /\ schedules = [r \in {} |-> NULL]
  /\ bookings = [b \in {} |-> NULL]

\* A table after the row has been inserted under a new key.
InsertRow(table, key, row) ==
  [k \in DOMAIN table \cup {key} |-> IF k = key THEN row ELSE table[k]]

-----------------------------------------------------------------------------
\* The rows the partial index bookings_one_active_per_room_start_idx covers.
ActiveIDs == { id \in DOMAIN bookings : bookings[id].status = "active" }

Role(u) == IF u \in Admins THEN "admin" ELSE "user"

\* Faulty variants of the definitions below (see the mutants in PROJECT.json).
SlotTakenByAny(room, start) ==
  \E id \in DOMAIN bookings : /\ bookings[id].room = room
                              /\ bookings[id].start = start
CancelledAnew(row) == [row EXCEPT !.status = "cancelled", !.cancelledAt = now]
CancelledToggle(row) ==
  [row EXCEPT !.status = IF @ = "active" THEN "cancelled" ELSE "active",
              !.cancelledAt = IF @ = NULL THEN now ELSE @]

\* What makes an insert fail on bookings_one_active_per_room_start_idx.
SlotTaken(room, start) ==
  \E id \in ActiveIDs : /\ bookings[id].room = room
                        /\ bookings[id].start = start

\* The foreign keys and the check constraints of table bookings.
BookingConstraints(row) ==
  /\ row.room \in rooms
  /\ row.user \in Users
  /\ row.start < row.end
  /\ row.end = row.start + SlotDuration

\* insert into bookings: BookingRepository.Create.
InsertBooking(id, row) ==
  /\ id \notin DOMAIN bookings
  /\ BookingConstraints(row)
  /\ ~ SlotTaken(row.room, row.start)
  /\ bookings' = InsertRow(bookings, id, row)
  /\ UNCHANGED <<rooms, schedules>>

\* set status_id = cancelled, cancelled_at = coalesce(cancelled_at, now())
Cancelled(row) ==
  [row EXCEPT !.status = "cancelled",
              !.cancelledAt = IF @ = NULL THEN now ELSE @]

\* update bookings ... where id = $1 returning: BookingRepository.Cancel.
UpdateCancelled(id) ==
  /\ bookings' = [k \in DOMAIN bookings |->
                    IF k = id THEN Cancelled(bookings[k]) ELSE bookings[k]]
  /\ UNCHANGED <<rooms, schedules>>

-----------------------------------------------------------------------------
\* insert into rooms: RoomRepository.Create.
InsertRoom(room) ==
  /\ room \notin rooms
  /\ rooms' = rooms \cup {room}
  /\ UNCHANGED <<schedules, bookings>>

(***************************************************************************)
(* schedules_days_non_empty, schedules_days_valid, schedules_time_valid,   *)
(* schedules_start_step, schedules_end_step and the foreign key.           *)
(***************************************************************************)
ScheduleConstraints(room, s) == room \in rooms /\ ValidSchedule(s)

\* insert into schedules: ScheduleRepository.Create.
InsertSchedule(room, s) ==
  /\ ScheduleConstraints(room, s)
  /\ room \notin DOMAIN schedules
  /\ schedules' = InsertRow(schedules, room, s)
  /\ UNCHANGED <<rooms, bookings>>

=============================================================================
