-------------------------- MODULE RoomAdministration --------------------------
(***************************************************************************)
(* RoomService.Create and ScheduleService.Create with the handlers in      *)
(* front of them, which hold the check that only an admin may call them.   *)
(* One action per statement sent to the database, as in BookingService,    *)
(* and the same faults: a failing statement, a lost acknowledgement, and a *)
(* request that is abandoned while its insert is still running.            *)
(***************************************************************************)
EXTENDS Storage

CONSTANTS Procs,             \* goroutines serving these requests
          ScheduleRequests   \* bodies of schedule requests, valid or not

(***************************************************************************)
(* A body that is not JSON of the right shape never reaches the handler.   *)
(* A time that parseHHMM refuses is a number outside 0..DayLength-1.       *)
(***************************************************************************)
ASSUME RoomAdministrationAssumption ==
  /\ ScheduleRequests \subseteq
       [days : SUBSET Int, startTime : Int, endTime : Int]
  /\ NULL \notin ScheduleRequests

VARIABLES pc, call, reply

vars == <<now, rooms, schedules, bookings, pc, call, reply>>

Steps == {"idle", "InsertRoom", "LostInsertRoom",
          "Exists", "InsertSchedule", "LostInsertSchedule"}

Call == [op : {"room", "schedule"}, user : Users, room : Rooms,
         schedule : ScheduleRequests \cup {NULL}]

Codes == {"created", "INVALID_REQUEST", "FORBIDDEN", "ROOM_NOT_FOUND",
          "SCHEDULE_EXISTS", "INTERNAL_ERROR"}

ASSUME NoCodeAssumption == NULL \notin Codes

TypeOK ==
  /\ StorageTypeOK
  /\ pc \in [Procs -> Steps]
  /\ call \in [Procs -> Call \cup {NULL}]
  /\ reply \in [Procs -> Codes \cup {NULL}]

ServersInit ==
  /\ pc = [p \in Procs |-> "idle"]
  /\ call = [p \in Procs |-> NULL]
  /\ reply = [p \in Procs |-> NULL]

Init == StorageInit /\ ServersInit

-----------------------------------------------------------------------------
Goto(p, step) == pc' = [pc EXCEPT ![p] = step]

Answer(p, code) == Goto(p, "idle") /\ reply' = [reply EXCEPT ![p] = code]

Receive(p, c) == pc[p] = "idle" /\ call' = [call EXCEPT ![p] = c]

Accept(p, step) == Goto(p, step) /\ reply' = [reply EXCEPT ![p] = NULL]

\* uuid.New() for a room.
FreshRoom(room) ==
  /\ room \notin rooms
  /\ \A p \in Procs :
       pc[p] \in {"InsertRoom", "LostInsertRoom"} => call[p].room # room

(***************************************************************************)
(* PostRoomsCreate and RoomService.Create.  What is wrong with the body:   *)
(* a blank name, which is refused before the role is looked at, or a       *)
(* capacity that is not positive, which is refused after it.               *)
(***************************************************************************)
CreateRoom(p, u, room, flaw) ==
  /\ FreshRoom(room)
  /\ Receive(p, [op |-> "room", user |-> u, room |-> room, schedule |-> NULL])
  /\ \/ flaw = "name" /\ Answer(p, "INVALID_REQUEST")
     \/ flaw # "name" /\ Role(u) # "admin" /\ Answer(p, "FORBIDDEN")
     \/ flaw = "capacity" /\ Role(u) = "admin" /\ Answer(p, "INVALID_REQUEST")
     \/ flaw = "none" /\ Role(u) = "admin" /\ Accept(p, "InsertRoom")
  /\ UNCHANGED <<now, tables>>

(***************************************************************************)
(* PostRoomsRoomIdScheduleCreate and the validation in                     *)
(* ScheduleService.Create; bodyRoom is the room id in the body.            *)
(***************************************************************************)
CreateSchedule(p, u, room, bodyRoom, s) ==
  /\ Receive(p, [op |-> "schedule", user |-> u, room |-> room, schedule |-> s])
  /\ \/ Role(u) # "admin" /\ Answer(p, "FORBIDDEN")
     \/ /\ Role(u) = "admin"
        /\ bodyRoom # room \/ ~ ValidSchedule(s)
        /\ Answer(p, "INVALID_REQUEST")
     \/ /\ Role(u) = "admin"
        /\ bodyRoom = room /\ ValidSchedule(s)
        /\ Accept(p, "Exists")
  /\ UNCHANGED <<now, tables>>

\* roomRepo.Exists
Exists(p) ==
  /\ pc[p] = "Exists"
  /\ IF call[p].room \in rooms
       THEN Goto(p, "InsertSchedule") /\ UNCHANGED reply
       ELSE Answer(p, "ROOM_NOT_FOUND")
  /\ UNCHANGED <<now, tables, call>>

\* Faulty variant: insert ... on conflict (room_id) do update.
RowUpserted(p) ==
  \/ /\ pc[p] \in {"InsertRoom", "LostInsertRoom"}
     /\ InsertRoom(call[p].room)
  \/ /\ pc[p] \in {"InsertSchedule", "LostInsertSchedule"}
     /\ ScheduleConstraints(call[p].room, call[p].schedule)
     /\ schedules' = InsertRow(schedules, call[p].room, call[p].schedule)
     /\ UNCHANGED <<rooms, bookings>>

RowInserted(p) ==
  \/ /\ pc[p] \in {"InsertRoom", "LostInsertRoom"}
     /\ InsertRoom(call[p].room)
  \/ /\ pc[p] \in {"InsertSchedule", "LostInsertSchedule"}
     /\ InsertSchedule(call[p].room, call[p].schedule)

\* Faulty variant: on conflict do nothing, and nobody looks at the row count.
InsertIfAbsent(p) ==
  /\ pc[p] \in {"InsertRoom", "InsertSchedule"}
  /\ \/ RowInserted(p)
     \/ /\ pc[p] = "InsertSchedule"
        /\ call[p].room \in DOMAIN schedules
        /\ UNCHANGED tables
  /\ Answer(p, "created")
  /\ UNCHANGED <<now, call>>

\* roomRepo.Create or scheduleRepo.Create.
Insert(p) ==
  /\ pc[p] \in {"InsertRoom", "InsertSchedule"}
  /\ \/ RowInserted(p) /\ Answer(p, "created")
     \/ /\ pc[p] = "InsertSchedule"
        /\ call[p].room \in DOMAIN schedules
        /\ Answer(p, "SCHEDULE_EXISTS")
        /\ UNCHANGED tables
  /\ UNCHANGED <<now, call>>

InsertUnacknowledged(p) ==
  /\ pc[p] \in {"InsertRoom", "InsertSchedule"}
  /\ RowInserted(p)
  /\ Answer(p, "INTERNAL_ERROR")
  /\ UNCHANGED <<now, call>>

LostInsert(p) ==
  /\ pc[p] \in {"LostInsertRoom", "LostInsertSchedule"}
  /\ RowInserted(p) \/ UNCHANGED tables
  /\ Goto(p, "idle")
  /\ UNCHANGED <<now, call, reply>>

DBError(p) ==
  /\ pc[p] \in {"InsertRoom", "Exists", "InsertSchedule"}
  /\ Answer(p, "INTERNAL_ERROR")
  /\ UNCHANGED <<now, tables, call>>

Abandon(p) ==
  /\ pc[p] \in {"InsertRoom", "Exists", "InsertSchedule"}
  /\ \/ Goto(p, "idle")
     \/ pc[p] = "InsertRoom" /\ Goto(p, "LostInsertRoom")
     \/ pc[p] = "InsertSchedule" /\ Goto(p, "LostInsertSchedule")
  /\ UNCHANGED <<now, tables, call, reply>>

Serve(p) ==
  \/ \E u \in Users, room \in Rooms, flaw \in {"none", "name", "capacity"} :
       CreateRoom(p, u, room, flaw)
  \/ \E u \in Users, room, bodyRoom \in Rooms, s \in ScheduleRequests :
       CreateSchedule(p, u, room, bodyRoom, s)
  \/ Exists(p)
  \/ Insert(p)
  \/ InsertUnacknowledged(p)
  \/ LostInsert(p)
  \/ DBError(p)
  \/ Abandon(p)

Next == \E p \in Procs : Serve(p)

Spec == Init /\ [][Next]_vars

-----------------------------------------------------------------------------
Got(p, op, code) == reply[p] = code /\ call[p].op = op

(***************************************************************************)
(* An answer stays true: the schedule a client was told it created is the  *)
(* one the room has for ever, and SCHEDULE_EXISTS is only said of a room   *)
(* that has one.  The room is looked up and the schedule inserted by two   *)
(* statements, with other requests in between.                             *)
(***************************************************************************)
AnswersHold ==
  \A p \in Procs :
    /\ Got(p, "room", "created") => call[p].room \in rooms
    /\ Got(p, "schedule", "created") =>
         /\ call[p].room \in DOMAIN schedules
         /\ schedules[call[p].room] = call[p].schedule
    /\ Got(p, "schedule", "SCHEDULE_EXISTS") =>
         call[p].room \in DOMAIN schedules

(***************************************************************************)
(* Of the requests that create a schedule for one room, at most one is     *)
(* answered 201: the others raced with it and lost.                        *)
(***************************************************************************)
OneScheduleCreated ==
  \A p, q \in Procs :
    Got(p, "schedule", "created") /\ Got(q, "schedule", "created") =>
      p = q \/ call[p].room # call[q].room

(***************************************************************************)
(* "After its creation a schedule is immutable" (ScheduleService), and so  *)
(* is the set of rooms but for new ones: BookingService and SlotService    *)
(* use what they read of both in a later statement.                        *)
(***************************************************************************)
ReferenceDataStays ==
  [][/\ rooms \subseteq rooms'
     /\ \A room \in DOMAIN schedules :
          room \in DOMAIN schedules' /\ schedules'[room] = schedules[room]]_vars

=============================================================================
