------------------------------ MODULE SlotService ------------------------------
(***************************************************************************)
(* SlotService.ListAvailableByRoomAndDate: the list of free slots is put   *)
(* together from three reads, of the room, of its schedule and of its      *)
(* active bookings, with the statements of other requests in between.      *)
(* Nothing is written, so a failing statement and an abandoned request     *)
(* only end it.                                                            *)
(***************************************************************************)
EXTENDS Storage

CONSTANTS Procs,   \* goroutines serving these requests
          Dates    \* instants of the dates asked for

VARIABLES pc, call, reply,
          generated   \* local variable slots: what the schedule allows

vars == <<now, rooms, schedules, bookings, pc, call, reply, generated>>

Steps == {"idle", "Exists", "GetSchedule", "ListActiveStarts"}

Call == [room : Rooms, date : Dates]

Codes == {"ok", "ROOM_NOT_FOUND", "INTERNAL_ERROR"}

Reply == [code : Codes, slots : SUBSET Int]

TypeOK ==
  /\ StorageTypeOK
  /\ pc \in [Procs -> Steps]
  /\ call \in [Procs -> Call \cup {NULL}]
  /\ reply \in [Procs -> Reply \cup {NULL}]
  /\ generated \in [Procs -> SUBSET Int]

ServersInit ==
  /\ pc = [p \in Procs |-> "idle"]
  /\ call = [p \in Procs |-> NULL]
  /\ reply = [p \in Procs |-> NULL]
  /\ generated = [p \in Procs |-> {}]

Init == StorageInit /\ ServersInit

-----------------------------------------------------------------------------
Goto(p, step) == pc' = [pc EXCEPT ![p] = step]

\* The local variables go out of scope.
Answer(p, code, slots) ==
  /\ Goto(p, "idle")
  /\ reply' = [reply EXCEPT ![p] = [code |-> code, slots |-> slots]]
  /\ generated' = [generated EXCEPT ![p] = {}]

ListAvailable(p, room, date) ==
  /\ pc[p] = "idle"
  /\ call' = [call EXCEPT ![p] = [room |-> room, date |-> date]]
  /\ reply' = [reply EXCEPT ![p] = NULL]
  /\ Goto(p, "Exists")
  /\ UNCHANGED <<now, tables, generated>>

\* roomRepo.Exists
Exists(p) ==
  /\ pc[p] = "Exists"
  /\ IF call[p].room \in rooms
       THEN Goto(p, "GetSchedule") /\ UNCHANGED <<reply, generated>>
       ELSE Answer(p, "ROOM_NOT_FOUND", {})
  /\ UNCHANGED <<now, tables, call>>

\* What the schedule of the room, if it has one, allows on the date.
SlotsOfDay(room, date) ==
  IF room \in DOMAIN schedules
    THEN GenerateSlotsForDate(schedules[room], date) ELSE {}

\* scheduleRepo.GetByRoomID, then GenerateSlotsForDate.
GetSchedule(p) ==
  LET slots == SlotsOfDay(call[p].room, call[p].date)
  IN  /\ pc[p] = "GetSchedule"
      /\ \/ slots = {} /\ Answer(p, "ok", {})
         \/ /\ slots # {}
            /\ generated' = [generated EXCEPT ![p] = slots]
            /\ Goto(p, "ListActiveStarts")
            /\ UNCHANGED reply
      /\ UNCHANGED <<now, tables, call>>

\* Faulty variant: cancelled bookings count.
AnyStartsBetween(room, from, to) ==
  { bookings[id].start : id \in
      { i \in DOMAIN bookings : /\ bookings[i].room = room
                                /\ bookings[i].start \in from .. to - 1 } }

\* select start_at from bookings where room, active, from <= start_at < to
ActiveStartsBetween(room, from, to) ==
  { bookings[id].start : id \in
      { i \in ActiveIDs : /\ bookings[i].room = room
                          /\ bookings[i].start \in from .. to - 1 } }

\* bookingRepo.ListActiveStartsByRoomBetween, then the subtraction.
ListActiveStarts(p) ==
  LET dayStart == TruncateToDayUTC(call[p].date)
      booked == ActiveStartsBetween(call[p].room, dayStart,
                                    dayStart + DayLength)
  IN  /\ pc[p] = "ListActiveStarts"
      /\ Answer(p, "ok", generated[p] \ booked)
      /\ UNCHANGED <<now, tables, call>>

DBError(p) ==
  /\ pc[p] # "idle"
  /\ Answer(p, "INTERNAL_ERROR", {})
  /\ UNCHANGED <<now, tables, call>>

Abandon(p) ==
  /\ pc[p] # "idle"
  /\ Goto(p, "idle")
  /\ generated' = [generated EXCEPT ![p] = {}]
  /\ UNCHANGED <<now, tables, call, reply>>

Serve(p) ==
  \/ \E room \in Rooms, date \in Dates : ListAvailable(p, room, date)
  \/ Exists(p)
  \/ GetSchedule(p)
  \/ ListActiveStarts(p)
  \/ DBError(p)
  \/ Abandon(p)

-----------------------------------------------------------------------------
\* The slots of a day that no active booking of the room overlaps in time.
FreeSlots(room, date) ==
  { t \in SlotsOfDay(room, date) :
      \A id \in ActiveIDs :
        bookings[id].room = room =>
          bookings[id].end <= t \/ t + SlotDuration <= bookings[id].start }

(***************************************************************************)
(* A list of slots is right at one instant, that of its answer: it shows   *)
(* the slots of the schedule that no active booking overlaps, although the *)
(* schedule was read earlier than the bookings and the code compares only  *)
(* the start times of the bookings that start on the same UTC day.         *)
(***************************************************************************)
ListingIsSnapshot ==
  [][\A p \in Procs :
       reply'[p] # reply[p] /\ reply'[p] # NULL /\ reply'[p].code = "ok" =>
         reply'[p].slots = FreeSlots(call[p].room, call[p].date)]_vars

=============================================================================
