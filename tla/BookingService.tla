---------------------------- MODULE BookingService ----------------------------
(***************************************************************************)
(* BookingService.Create and BookingService.Cancel, as the goroutines of   *)
(* the HTTP server run them: one action per statement sent to the          *)
(* database, with everything between two statements in the action of the   *)
(* first.  pc[p] is the statement that goroutine p is about to run.        *)
(*                                                                         *)
(* Faults.  A statement may fail before it has any effect (DBError), it    *)
(* may be committed while its answer is lost, and a request may be         *)
(* abandoned: the process dies or the client goes away, which cancels the  *)
(* context of the request.  PostgreSQL may still finish a statement whose  *)
(* caller is gone (the Lost steps).                                        *)
(*                                                                         *)
(* Rooms and schedules are created by other requests; here those are the   *)
(* environment actions AddRoom and AddSchedule.                            *)
(***************************************************************************)
EXTENDS Storage

CONSTANTS Procs,           \* goroutines serving requests
          StartTimes,      \* values of startAt in the requests
          ScheduleInputs,  \* schedules the environment creates
          MaxTime          \* bound: the clock stops here

ASSUME BookingServiceAssumption == /\ StartTimes \subseteq Int
                                   /\ ScheduleInputs \subseteq Schedule
                                   /\ MaxTime \in Nat

VARIABLES pc,      \* next statement of each goroutine
          call,    \* the request it serves, or served last
          reply    \* what the service returned, NULL while there is nothing

vars == <<now, rooms, schedules, bookings, pc, call, reply>>

Steps == {"idle", "GetSchedule", "Insert", "LostInsert",
          "GetByID", "Update", "LostUpdate"}

Call == [op : {"create", "cancel"}, user : Users, room : Rooms \cup {NULL},
         start : StartTimes \cup {NULL}, id : BookingIDs]

Codes == {"created", "ok", "INVALID_REQUEST", "FORBIDDEN", "SLOT_NOT_FOUND",
          "SLOT_ALREADY_BOOKED", "BOOKING_NOT_FOUND", "INTERNAL_ERROR"}

Reply == [code : Codes, cancelledAt : Nat \cup {NULL}]

ASSUME NullAssumption == NULL \notin Call /\ NULL \notin Reply

TypeOK ==
  /\ StorageTypeOK
  /\ pc \in [Procs -> Steps]
  /\ call \in [Procs -> Call \cup {NULL}]
  /\ reply \in [Procs -> Reply \cup {NULL}]

Init ==
  /\ StorageInit
  /\ pc = [p \in Procs |-> "idle"]
  /\ call = [p \in Procs |-> NULL]
  /\ reply = [p \in Procs |-> NULL]

-----------------------------------------------------------------------------
Goto(p, step) == pc' = [pc EXCEPT ![p] = step]

Answer(p, code) ==
  /\ Goto(p, "idle")
  /\ reply' = [reply EXCEPT ![p] = [code |-> code, cancelledAt |-> NULL]]

\* A request arrives; it is either answered at once or goes on to step.
Accept(p, c, step) ==
  /\ pc[p] = "idle"
  /\ call' = [call EXCEPT ![p] = c]
  /\ reply' = [reply EXCEPT ![p] = NULL]
  /\ Goto(p, step)

Reject(p, c, code) ==
  /\ pc[p] = "idle"
  /\ call' = [call EXCEPT ![p] = c]
  /\ Answer(p, code)

Creating(p) == pc[p] \in {"GetSchedule", "Insert", "LostInsert"}

\* uuid.New(): never an id that is in use.  Drawn when the request arrives;
\* the number of ids bounds the bookings of a run.
FreshID(id) ==
  /\ id \notin DOMAIN bookings
  /\ \A p \in Procs : Creating(p) => call[p].id # id

-----------------------------------------------------------------------------
(***************************************************************************)
(* Create(ctx, userID, role, roomID, startAt).                             *)
(***************************************************************************)
CreateCall(u, r, t, id) ==
  [op |-> "create", user |-> u, room |-> r, start |-> t, id |-> id]

Create(p, u, r, t, id) ==
  LET c == CreateCall(u, r, t, id)
  IN  /\ FreshID(id)
      /\ \/ /\ Role(u) # "user"
            /\ Reject(p, c, "FORBIDDEN")
         \/ /\ Role(u) = "user"
            /\ t < now
            /\ Reject(p, c, "INVALID_REQUEST")
         \/ /\ Role(u) = "user"
            /\ t >= now
            /\ Accept(p, c, "GetSchedule")
      /\ UNCHANGED <<now, tables>>

\* Faulty variant: any schedule will do.
ScheduleExists(room, t) == room \in DOMAIN schedules

\* Is startAt a slot of the room's schedule, as far as the read shows?
SlotExists(room, t) ==
  /\ room \in DOMAIN schedules
  /\ IsStartAtWithinSchedule(schedules[room], t)

\* scheduleRepo.GetByRoomID, then the check of startAt against the schedule.
GetSchedule(p) ==
  /\ pc[p] = "GetSchedule"
  /\ IF SlotExists(call[p].room, call[p].start)
       THEN Goto(p, "Insert") /\ UNCHANGED reply
       ELSE Answer(p, "SLOT_NOT_FOUND")
  /\ UNCHANGED <<now, tables, call>>

NewBooking(c) ==
  [room |-> c.room, user |-> c.user, start |-> c.start,
   end |-> c.start + SlotDuration, status |-> "active", cancelledAt |-> NULL]

\* bookingRepo.Create commits.
BookingInserted(p) == InsertBooking(call[p].id, NewBooking(call[p]))

Insert(p) ==
  /\ pc[p] = "Insert"
  /\ \/ BookingInserted(p) /\ Answer(p, "created")
     \/ /\ SlotTaken(call[p].room, call[p].start)
        /\ Answer(p, "SLOT_ALREADY_BOOKED")
        /\ UNCHANGED tables
  /\ UNCHANGED <<now, call>>

InsertUnacknowledged(p) ==
  /\ pc[p] = "Insert"
  /\ BookingInserted(p)
  /\ Answer(p, "INTERNAL_ERROR")
  /\ UNCHANGED <<now, call>>

\* The insert of an abandoned request, still running in the database.
LostInsert(p) ==
  /\ pc[p] = "LostInsert"
  /\ BookingInserted(p) \/ UNCHANGED tables
  /\ Goto(p, "idle")
  /\ UNCHANGED <<now, call, reply>>

-----------------------------------------------------------------------------
(***************************************************************************)
(* Cancel(ctx, userID, role, bookingID).                                   *)
(***************************************************************************)
\* Faulty variant: the two uuid arguments are swapped.
CancelCallSwapped(u, id) ==
  [op |-> "cancel", user |-> id, room |-> NULL, start |-> NULL, id |-> u]

CancelCall(u, id) ==
  [op |-> "cancel", user |-> u, room |-> NULL, start |-> NULL, id |-> id]

Cancel(p, u, id) ==
  LET c == CancelCall(u, id)
  IN  /\ \/ Role(u) # "user" /\ Reject(p, c, "FORBIDDEN")
         \/ Role(u) = "user" /\ Accept(p, c, "GetByID")
      /\ UNCHANGED <<now, tables>>

\* Faulty variant: the owner is not compared.
OwnedByAnyone(u, id) == id \in DOMAIN bookings

Owned(u, id) == id \in DOMAIN bookings /\ bookings[id].user = u

\* bookingRepo.GetByID, then the comparison of the owner.
GetByID(p) ==
  /\ pc[p] = "GetByID"
  /\ \/ /\ Owned(call[p].user, call[p].id)
        /\ Goto(p, "Update")
        /\ UNCHANGED reply
     \/ /\ ~ Owned(call[p].user, call[p].id)
        /\ Answer(p, IF call[p].id \in DOMAIN bookings
                       THEN "FORBIDDEN" ELSE "BOOKING_NOT_FOUND")
  /\ UNCHANGED <<now, tables, call>>

\* bookingRepo.Cancel: the answer shows the row as the update left it.
Update(p) ==
  LET id == call[p].id
  IN  /\ pc[p] = "Update"
      /\ UpdateCancelled(id)
      /\ IF id \in DOMAIN bookings
           THEN /\ Goto(p, "idle")
                /\ reply' = [reply EXCEPT ![p] =
                     [code |-> "ok",
                      cancelledAt |-> Cancelled(bookings[id]).cancelledAt]]
           ELSE Answer(p, "BOOKING_NOT_FOUND")
      /\ UNCHANGED <<now, call>>

UpdateUnacknowledged(p) ==
  /\ pc[p] = "Update"
  /\ UpdateCancelled(call[p].id)
  /\ Answer(p, "INTERNAL_ERROR")
  /\ UNCHANGED <<now, call>>

LostUpdate(p) ==
  /\ pc[p] = "LostUpdate"
  /\ UpdateCancelled(call[p].id) \/ UNCHANGED tables
  /\ Goto(p, "idle")
  /\ UNCHANGED <<now, call, reply>>

-----------------------------------------------------------------------------
\* Any other error of a repository call: nothing written, 500 to the client.
DBError(p) ==
  /\ pc[p] \in {"GetSchedule", "Insert", "GetByID", "Update"}
  /\ Answer(p, "INTERNAL_ERROR")
  /\ UNCHANGED <<now, tables, call>>

\* The process dies or the client is gone; a write may still be under way.
Abandon(p) ==
  /\ pc[p] \in {"GetSchedule", "Insert", "GetByID", "Update"}
  /\ \/ Goto(p, "idle")
     \/ pc[p] = "Insert" /\ Goto(p, "LostInsert")
     \/ pc[p] = "Update" /\ Goto(p, "LostUpdate")
  /\ UNCHANGED <<now, tables, call, reply>>

AddRoom(room) == InsertRoom(room) /\ UNCHANGED <<now, pc, call, reply>>

AddSchedule(room, s) ==
  InsertSchedule(room, s) /\ UNCHANGED <<now, pc, call, reply>>

Tick ==
  /\ now < MaxTime
  /\ now' = now + 1
  /\ UNCHANGED <<tables, pc, call, reply>>

Environment ==
  \/ Tick
  \/ \E room \in Rooms : AddRoom(room)
  \/ \E room \in Rooms, s \in ScheduleInputs : AddSchedule(room, s)

Serve(p) ==
  \/ \E u \in Users, r \in Rooms, t \in StartTimes, id \in BookingIDs :
       Create(p, u, r, t, id)
  \/ \E u \in Users, id \in BookingIDs : Cancel(p, u, id)
  \/ GetSchedule(p)
  \/ Insert(p)
  \/ InsertUnacknowledged(p)
  \/ LostInsert(p)
  \/ GetByID(p)
  \/ Update(p)
  \/ UpdateUnacknowledged(p)
  \/ LostUpdate(p)
  \/ DBError(p)
  \/ Abandon(p)

Next == Environment \/ \E p \in Procs : Serve(p)

Spec == Init /\ [][Next]_vars

-----------------------------------------------------------------------------
(***************************************************************************)
(* Two active bookings of a room never overlap in time.  The database      *)
(* only refuses a second booking with the same start (the partial unique   *)
(* index), so this needs the grid check of IsStartAtWithinSchedule on      *)
(* every path to the insert, and an index that covers every active row.    *)
(***************************************************************************)
NoOverlap ==
  \A a, b \in ActiveIDs :
    a # b /\ bookings[a].room = bookings[b].room =>
      \/ bookings[a].end <= bookings[b].start
      \/ bookings[b].end <= bookings[a].start

(***************************************************************************)
(* Every booking ever stored is one of the slots GenerateSlotsForDate      *)
(* makes for its day from the schedule the room has now.  The check of     *)
(* Create and the generator of the slot list are two algorithms, and       *)
(* Create reads the schedule before it inserts: a booking outside the      *)
(* generated slots would block time that no list shows as taken.           *)
(***************************************************************************)
EveryBookingIsASlot ==
  \A id \in DOMAIN bookings :
    LET b == bookings[id]
    IN  /\ b.room \in DOMAIN schedules
        /\ b.start \in GenerateSlotsForDate(schedules[b.room], b.start)

(***************************************************************************)
(* An answer a client has received stays true whatever other requests do:  *)
(* a booking answered 201 is stored as requested, and the cancelled_at     *)
(* Cancel returns (bookingToAPI leaves it out of the answer) is the one of *)
(* the row for ever, so that repeating the cancel gives the same booking.  *)
(***************************************************************************)
RepliesHold ==
  \A p \in Procs :
    reply[p] # NULL =>
      /\ reply[p].code = "created" =>
           /\ call[p].id \in DOMAIN bookings
           /\ bookings[call[p].id].room = call[p].room
           /\ bookings[call[p].id].user = call[p].user
           /\ bookings[call[p].id].start = call[p].start
      /\ reply[p].code = "ok" =>
           /\ call[p].id \in DOMAIN bookings
           /\ bookings[call[p].id].status = "cancelled"
           /\ bookings[call[p].id].cancelledAt = reply[p].cancelledAt

(***************************************************************************)
(* The life of a row: it is never deleted, moved to another room, user or  *)
(* time, or made active again, and cancelled_at never changes once set,    *)
(* although Cancel decides on a row it has read in an earlier statement.   *)
(***************************************************************************)
RowStep(old, new) ==
  /\ new.room = old.room
  /\ new.user = old.user
  /\ new.start = old.start
  /\ new.end = old.end
  /\ old.status = "cancelled" => new = old

RowsOnlyCancelled ==
  [][\A id \in DOMAIN bookings :
       id \in DOMAIN bookings' /\ RowStep(bookings[id], bookings'[id])]_vars

(***************************************************************************)
(* A booking becomes cancelled only in a step of a cancel request of its   *)
(* own user: the update has no condition on user_id, the owner was         *)
(* compared with a row read before.                                        *)
(***************************************************************************)
OnlyOwnerCancels ==
  [][\A id \in ActiveIDs :
       id \notin ActiveIDs' =>
         \E p \in Procs : /\ pc[p] \in {"Update", "LostUpdate"}
                          /\ call[p].id = id
                          /\ call[p].user = bookings[id].user]_vars

(***************************************************************************)
(* "Booking in the past is forbidden" (the comment of BookingService): no  *)
(* booking is stored once its start has passed.                            *)
(***************************************************************************)
NoBookingInPast ==
  [][\A id \in DOMAIN bookings' \ DOMAIN bookings :
       bookings'[id].start >= now]_vars

-----------------------------------------------------------------------------
(***************************************************************************)
(* The inductive invariant behind the properties above: what a goroutine   *)
(* knows between two of its statements, and what that makes of the rows.   *)
(***************************************************************************)
\* An accepted create holds an id nobody else has, drawn for a plain user.
CreatingKnows(p) ==
  Creating(p) =>
    /\ call[p] # NULL
    /\ call[p].op = "create"
    /\ call[p].room \in Rooms
    /\ call[p].start \in StartTimes
    /\ call[p].user \notin Admins
    /\ call[p].id \notin DOMAIN bookings
    /\ \A q \in Procs \ {p} : Creating(q) => call[q].id # call[p].id

\* The schedule was read before; schedules are never changed or deleted.
InsertKnows(p) ==
  pc[p] \in {"Insert", "LostInsert"} => SlotExists(call[p].room, call[p].start)

CancellingKnows(p) ==
  pc[p] \in {"GetByID", "Update", "LostUpdate"} =>
    /\ call[p] # NULL
    /\ call[p].op = "cancel"
    /\ call[p].user \notin Admins

\* The owner was compared before; rows keep their user and are not deleted.
UpdateKnows(p) ==
  pc[p] \in {"Update", "LostUpdate"} => Owned(call[p].user, call[p].id)

AnswerKnows(p) ==
  /\ pc[p] # "idle" => reply[p] = NULL
  /\ reply[p] # NULL => call[p] # NULL
  /\ reply[p] # NULL /\ reply[p].code = "created" =>
       call[p].room \in Rooms /\ call[p].start \in Int

RowKnows(id) ==
  /\ SlotExists(bookings[id].room, bookings[id].start)
  /\ bookings[id].end = bookings[id].start + SlotDuration
  /\ bookings[id].user \notin Admins
  /\ bookings[id].status = "cancelled" <=> bookings[id].cancelledAt # NULL

OneActivePerRoomStart ==
  \A a, b \in ActiveIDs :
    bookings[a].room = bookings[b].room /\ bookings[a].start = bookings[b].start
      => a = b

Inv ==
  /\ TypeOK
  /\ \A r \in DOMAIN schedules : ValidSchedule(schedules[r])
  /\ \A id \in DOMAIN bookings : RowKnows(id)
  /\ OneActivePerRoomStart
  /\ \A p \in Procs : /\ CreatingKnows(p)
                      /\ InsertKnows(p)
                      /\ CancellingKnows(p)
                      /\ UpdateKnows(p)
                      /\ AnswerKnows(p)
  /\ RepliesHold

-----------------------------------------------------------------------------
(***************************************************************************)
(* The calendar that clients see through this service.                     *)
(***************************************************************************)
Told == [created |-> "booked", ok |-> "released",
         SLOT_ALREADY_BOOKED |-> "taken", INTERNAL_ERROR |-> "unknown"]

PublicAnswer(r) ==
  IF r = NULL THEN NULL
  ELSE IF r.code \in DOMAIN Told THEN Told[r.code] ELSE "refused"

Ledger == [id \in DOMAIN bookings |->
             [user |-> bookings[id].user, room |-> bookings[id].room,
              start |-> bookings[id].start]]

Calendar == INSTANCE RoomCalendar WITH
  SlotLength <- SlotDuration,
  Wishes <- Call,
  ledger <- Ledger,
  released <- DOMAIN bookings \ ActiveIDs,
  wish <- call,
  pending <- { p \in Procs : pc[p] # "idle" },
  answer <- [p \in Procs |-> PublicAnswer(reply[p])]

(***************************************************************************)
(* The service implements the calendar: whatever its statements            *)
(* interleave with, every request takes effect at one instant, a conflict  *)
(* is answered only while an overlapping booking stands, and the cancel of *)
(* one's own booking is never refused.                                     *)
(***************************************************************************)
ImplementsCalendar == Calendar!Spec

=============================================================================
