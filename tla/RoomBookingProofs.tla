-------------------------- MODULE RoomBookingProofs --------------------------
(***************************************************************************)
(* Proofs about bookings, for any number of goroutines, users, rooms,      *)
(* bookings and instants, in three parts:                                  *)
(*   1. BookingService alone: the inductive invariant Inv, which says what *)
(*      a goroutine knows between its statements, and what follows from it;*)
(*   2. BookingService implements RoomCalendar: every step of the service  *)
(*      is a step of the calendar or leaves it as it is;                   *)
(*   3. the three services together: they implement BookingService, and    *)
(*      the lists of free slots are snapshots.                             *)
(***************************************************************************)
EXTENDS RoomBooking, SlotGridProofs

-----------------------------------------------------------------------------
(***************************************************************************)
(* Part 1.  BookingService.                                                *)
(***************************************************************************)
USE DEF Role

\* The parts of Inv, for one goroutine.
ProcKnows(p) == /\ CreatingKnows(p)
                /\ InsertKnows(p)
                /\ CancellingKnows(p)
                /\ UpdateKnows(p)
                /\ AnswerKnows(p)

RepliesHoldFor(p) ==
  reply[p] # NULL =>
      /\ reply[p].code = "created" =>
           /\ call[p].id \in DOMAIN bookings
           /\ bookings[call[p].id].room = call[p].room
           /\ bookings[call[p].id].user = call[p].user
           /\ bookings[call[p].id].start = call[p].start
      /\ reply[p].code = "ok" =>
           /\ call[p].id \in DOMAIN bookings
           /\ bookings[call[p].id].status = "cancelled"
           /\ bookings[call[p].id].cancelledAt = reply[p].cancelledAt

LEMMA InvParts ==
  Inv <=> /\ TypeOK
          /\ \A r \in DOMAIN schedules : ValidSchedule(schedules[r])
          /\ \A id \in DOMAIN bookings : RowKnows(id)
          /\ OneActivePerRoomStart
          /\ \A p \in Procs : ProcKnows(p) /\ RepliesHoldFor(p)
BY DEF Inv, ProcKnows, RepliesHold, RepliesHoldFor

LEMMA InitInv == Init => Inv
<1> SUFFICES ASSUME Init PROVE Inv
  OBVIOUS
<1> USE DEF Init, StorageInit
<1>1. TypeOK
  BY DEF TypeOK, StorageTypeOK, Steps
<1>2. DOMAIN schedules = {} /\ DOMAIN bookings = {} /\ ActiveIDs = {}
  BY DEF ActiveIDs
<1>3. \A p \in Procs : ProcKnows(p) /\ RepliesHoldFor(p)
  BY DEF ProcKnows, RepliesHoldFor, CreatingKnows, InsertKnows,
         CancellingKnows, UpdateKnows, AnswerKnows, Creating
<1> QED
  BY <1>1, <1>2, <1>3, InvParts DEF OneActivePerRoomStart

-----------------------------------------------------------------------------
\* Steps that leave the tables and the clock alone: the rows are as before.
LEMMA RowsUnchanged ==
  ASSUME Inv, UNCHANGED <<now, tables>>
  PROVE  /\ StorageTypeOK'
         /\ (\A r \in DOMAIN schedules : ValidSchedule(schedules[r]))'
         /\ (\A id \in DOMAIN bookings : RowKnows(id))'
         /\ OneActivePerRoomStart'
<1> USE DEF tables
<1>1. StorageTypeOK'
  BY DEF Inv, TypeOK, StorageTypeOK
<1>2. (\A id \in DOMAIN bookings : RowKnows(id))'
  BY DEF Inv, RowKnows, SlotExists
<1>3. OneActivePerRoomStart'
  BY DEF Inv, OneActivePerRoomStart, ActiveIDs
<1> QED
  BY <1>1, <1>2, <1>3 DEF Inv

\* What every step keeps of the tables.
SchedulesKept ==
  \A r \in DOMAIN schedules :
    r \in DOMAIN schedules' /\ schedules'[r] = schedules[r]

RowsKept ==
  \A id \in DOMAIN bookings :
    id \in DOMAIN bookings' /\ RowStep(bookings[id], bookings'[id])

\* A goroutine the step does not touch still knows what it knew.
LEMMA OthersKept ==
  ASSUME Inv, SchedulesKept, RowsKept, NEW q \in Procs,
         UNCHANGED <<pc[q], call[q], reply[q]>>,
         Creating(q) =>
           /\ call[q].id \notin DOMAIN bookings'
           /\ \A p \in Procs \ {q} : Creating(p)' => call'[p].id # call[q].id
  PROVE  ProcKnows(q)' /\ RepliesHoldFor(q)'
<1>1. ProcKnows(q) /\ RepliesHoldFor(q)
  BY InvParts
<1>2. CreatingKnows(q)'
  BY <1>1 DEF ProcKnows, CreatingKnows, Creating
<1>3. InsertKnows(q)'
  BY <1>1 DEF ProcKnows, InsertKnows, SlotExists, SchedulesKept
<1>4. CancellingKnows(q)' /\ AnswerKnows(q)'
  BY <1>1 DEF ProcKnows, CancellingKnows, AnswerKnows
<1>5. UpdateKnows(q)'
  BY <1>1 DEF ProcKnows, UpdateKnows, Owned, RowsKept, RowStep
<1>6. RepliesHoldFor(q)'
  BY <1>1 DEF RepliesHoldFor, RowsKept, RowStep
<1> QED
  BY <1>2, <1>3, <1>4, <1>5, <1>6 DEF ProcKnows

\* The state of the goroutines after a step of p that keeps the tables.
LEMMA ReadStep ==
  ASSUME Inv, UNCHANGED <<now, tables>>, NEW p \in Procs,
         TypeOK',
         \A q \in Procs \ {p} : UNCHANGED <<pc[q], call[q], reply[q]>>,
         ProcKnows(p)' /\ RepliesHoldFor(p)',
         Creating(p)' => /\ call'[p].id \notin DOMAIN bookings
                         /\ \A q \in Procs \ {p} :
                              Creating(q) => call[q].id # call'[p].id
  PROVE  Inv'
<1>1. ASSUME NEW q \in Procs \ {p}
      PROVE  ProcKnows(q)' /\ RepliesHoldFor(q)'
  <2>1. \A r \in Procs \ {q} : Creating(q) /\ Creating(r)' =>
          call'[r].id # call[q].id
    <3> SUFFICES ASSUME NEW r \in Procs \ {q}, Creating(q), Creating(r)'
                 PROVE  call'[r].id # call[q].id
      OBVIOUS
    <3>1. CASE r = p
      BY <3>1, <1>1
    <3>2. CASE r # p
      BY <3>2, <1>1 DEF Inv, CreatingKnows, Creating
    <3> QED
      BY <3>1, <3>2
  <2> QED
    BY <2>1, <1>1, OthersKept
       DEF SchedulesKept, RowsKept, RowStep, tables, Inv, CreatingKnows
<1>2. \A q \in Procs : ProcKnows(q)' /\ RepliesHoldFor(q)'
  BY <1>1
<1>3. RepliesHold' /\ \A q \in Procs : ProcKnows(q)'
  BY <1>2 DEF RepliesHold, RepliesHoldFor
<1> QED
  BY <1>3, RowsUnchanged DEF Inv, ProcKnows

\* What Goto and Answer do to the goroutines.
LEMMA GotoStep ==
  ASSUME TypeOK, NEW p \in Procs, NEW step \in Steps, Goto(p, step)
  PROVE  /\ pc' \in [Procs -> Steps]
         /\ pc'[p] = step
         /\ \A q \in Procs \ {p} : pc'[q] = pc[q]
BY DEF TypeOK, Goto

LEMMA ReplyStep ==
  ASSUME TypeOK, NEW p \in Procs, NEW a \in Reply \cup {NULL},
         reply' = [reply EXCEPT ![p] = a]
  PROVE  /\ reply' \in [Procs -> Reply \cup {NULL}]
         /\ reply'[p] = a
         /\ \A q \in Procs \ {p} : reply'[q] = reply[q]
BY DEF TypeOK

LEMMA AnswerStep ==
  ASSUME TypeOK, NEW p \in Procs, NEW code \in Codes, Answer(p, code)
  PROVE  /\ pc' \in [Procs -> Steps]
         /\ pc'[p] = "idle"
         /\ \A q \in Procs \ {p} : pc'[q] = pc[q]
         /\ reply' \in [Procs -> Reply \cup {NULL}]
         /\ reply'[p] # NULL
         /\ reply'[p].code = code
         /\ \A q \in Procs \ {p} : reply'[q] = reply[q]
<1> DEFINE a == [code |-> code, cancelledAt |-> NULL]
<1>1. a \in Reply /\ a.code = code /\ a # NULL
  BY NullAssumption DEF Reply
<1>2. reply' = [reply EXCEPT ![p] = a] /\ Goto(p, "idle")
  BY DEF Answer
<1> HIDE DEF a
<1>3. "idle" \in Steps
  BY DEF Steps
<1> QED
  BY <1>1, <1>2, <1>3, GotoStep, ReplyStep

LEMMA CallStep ==
  ASSUME TypeOK, NEW p \in Procs, NEW c \in Call, call' = [call EXCEPT ![p] = c]
  PROVE  /\ call' \in [Procs -> Call \cup {NULL}]
         /\ call'[p] = c
         /\ c # NULL
         /\ \A q \in Procs \ {p} : call'[q] = call[q]
BY NullAssumption DEF TypeOK

-----------------------------------------------------------------------------
LEMMA CreateInv ==
  ASSUME Inv, NEW p \in Procs, NEW u \in Users, NEW r \in Rooms,
         NEW t \in StartTimes, NEW id \in BookingIDs, Create(p, u, r, t, id)
  PROVE  Inv'
<1> DEFINE c == CreateCall(u, r, t, id)
<1>1. /\ c \in Call /\ c.op = "create" /\ c.user = u
      /\ c.room = r /\ c.start = t /\ c.id = id
  BY DEF CreateCall, Call
<1>2. TypeOK
  BY DEF Inv
<1>3. /\ FreshID(id) /\ UNCHANGED <<now, tables>> /\ pc[p] = "idle"
      /\ call' = [call EXCEPT ![p] = c]
      /\ \/ Answer(p, "FORBIDDEN")
         \/ Answer(p, "INVALID_REQUEST")
         \/ /\ reply' = [reply EXCEPT ![p] = NULL]
            /\ Goto(p, "GetSchedule")
            /\ u \notin Admins
  BY DEF Create, Reject, Accept
<1> HIDE DEF c
<1>4. /\ pc' \in [Procs -> Steps] /\ reply' \in [Procs -> Reply \cup {NULL}]
      /\ \A q \in Procs \ {p} : pc'[q] = pc[q] /\ reply'[q] = reply[q]
      /\ \/ /\ pc'[p] = "idle" /\ reply'[p] # NULL
            /\ reply'[p].code \in {"FORBIDDEN", "INVALID_REQUEST"}
         \/ pc'[p] = "GetSchedule" /\ reply'[p] = NULL /\ u \notin Admins
  BY <1>2, <1>3, AnswerStep, GotoStep, ReplyStep DEF Steps, Codes
<1>5. /\ call' \in [Procs -> Call \cup {NULL}] /\ call'[p] = c /\ c # NULL
      /\ \A q \in Procs \ {p} : call'[q] = call[q]
  BY <1>1, <1>2, <1>3, CallStep
<1>6. TypeOK'
  BY <1>3, <1>4, <1>5, RowsUnchanged DEF TypeOK
<1>7. ProcKnows(p)' /\ RepliesHoldFor(p)'
  <2>1. CreatingKnows(p)'
    <3>1. \A q \in Procs \ {p} : Creating(q)' => call'[q].id # id
      BY <1>3, <1>4, <1>5 DEF FreshID, Creating
    <3> QED
      BY <3>1, <1>1, <1>3, <1>4, <1>5 DEF CreatingKnows, Creating, tables, FreshID
  <2>2. InsertKnows(p)' /\ CancellingKnows(p)' /\ UpdateKnows(p)'
    BY <1>4 DEF InsertKnows, CancellingKnows, UpdateKnows
  <2>3. AnswerKnows(p)' /\ RepliesHoldFor(p)'
    BY <1>4, <1>5 DEF AnswerKnows, RepliesHoldFor
  <2> QED
    BY <2>1, <2>2, <2>3 DEF ProcKnows
<1>8. /\ call'[p].id \notin DOMAIN bookings
      /\ \A q \in Procs \ {p} : Creating(q) => call[q].id # call'[p].id
  BY <1>1, <1>3, <1>5 DEF FreshID
<1> QED
  BY <1>3, <1>4, <1>5, <1>6, <1>7, <1>8, ReadStep

LEMMA GetScheduleInv ==
  ASSUME Inv, NEW p \in Procs, GetSchedule(p)
  PROVE  Inv'
<1>1. TypeOK /\ ProcKnows(p) /\ RepliesHoldFor(p)
  BY InvParts
<1>2. /\ pc[p] = "GetSchedule" /\ UNCHANGED <<now, tables, call>>
      /\ \/ /\ SlotExists(call[p].room, call[p].start)
            /\ Goto(p, "Insert")
            /\ UNCHANGED reply
         \/ Answer(p, "SLOT_NOT_FOUND")
  BY DEF GetSchedule
<1>3. /\ pc' \in [Procs -> Steps] /\ reply' \in [Procs -> Reply \cup {NULL}]
      /\ \A q \in Procs \ {p} : pc'[q] = pc[q] /\ reply'[q] = reply[q]
      /\ \/ /\ pc'[p] = "Insert" /\ reply'[p] = reply[p]
            /\ SlotExists(call[p].room, call[p].start)
         \/ /\ pc'[p] = "idle" /\ reply'[p] # NULL
            /\ reply'[p].code = "SLOT_NOT_FOUND"
  BY <1>1, <1>2, AnswerStep, GotoStep DEF Steps, Codes, TypeOK
<1>4. TypeOK'
  BY <1>1, <1>2, <1>3, RowsUnchanged DEF TypeOK
<1>5. CreatingKnows(p)'
  BY <1>1, <1>2, <1>3 DEF ProcKnows, CreatingKnows, Creating, tables
<1>6. InsertKnows(p)' /\ CancellingKnows(p)' /\ UpdateKnows(p)'
  BY <1>2, <1>3 DEF InsertKnows, CancellingKnows, UpdateKnows, SlotExists, tables
<1>7. AnswerKnows(p)' /\ RepliesHoldFor(p)'
  BY <1>1, <1>2, <1>3
     DEF ProcKnows, AnswerKnows, RepliesHoldFor, CreatingKnows, Creating
<1>8. /\ call'[p].id \notin DOMAIN bookings
      /\ \A q \in Procs \ {p} : Creating(q) => call[q].id # call'[p].id
  BY <1>1, <1>2 DEF ProcKnows, CreatingKnows, Creating
<1> QED
  BY <1>2, <1>3, <1>4, <1>5, <1>6, <1>7, <1>8, ReadStep DEF ProcKnows

LEMMA CancelInv ==
  ASSUME Inv, NEW p \in Procs, NEW u \in Users, NEW id \in BookingIDs,
         Cancel(p, u, id)
  PROVE  Inv'
<1> DEFINE c == CancelCall(u, id)
<1>1. c \in Call /\ c.op = "cancel" /\ c.user = u /\ c.id = id
  BY DEF CancelCall, Call
<1>2. TypeOK
  BY DEF Inv
<1>3. /\ UNCHANGED <<now, tables>>
      /\ call' = [call EXCEPT ![p] = c]
      /\ \/ Answer(p, "FORBIDDEN")
         \/ /\ reply' = [reply EXCEPT ![p] = NULL]
            /\ Goto(p, "GetByID")
            /\ u \notin Admins
  BY DEF Cancel, Reject, Accept
<1> HIDE DEF c
<1>4. /\ pc' \in [Procs -> Steps] /\ reply' \in [Procs -> Reply \cup {NULL}]
      /\ \A q \in Procs \ {p} : pc'[q] = pc[q] /\ reply'[q] = reply[q]
      /\ \/ /\ pc'[p] = "idle" /\ reply'[p] # NULL
            /\ reply'[p].code = "FORBIDDEN"
         \/ pc'[p] = "GetByID" /\ reply'[p] = NULL /\ u \notin Admins
  BY <1>2, <1>3, AnswerStep, GotoStep, ReplyStep DEF Steps, Codes
<1>5. /\ call' \in [Procs -> Call \cup {NULL}] /\ call'[p] = c /\ c # NULL
      /\ \A q \in Procs \ {p} : call'[q] = call[q]
  BY <1>1, <1>2, <1>3, CallStep
<1>6. TypeOK'
  BY <1>3, <1>4, <1>5, RowsUnchanged DEF TypeOK
<1>7. ProcKnows(p)' /\ RepliesHoldFor(p)'
  <2>1. CreatingKnows(p)' /\ InsertKnows(p)' /\ UpdateKnows(p)'
    BY <1>4 DEF CreatingKnows, Creating, InsertKnows, UpdateKnows
  <2>2. CancellingKnows(p)'
    BY <1>1, <1>4, <1>5 DEF CancellingKnows
  <2>3. AnswerKnows(p)' /\ RepliesHoldFor(p)'
    BY <1>4, <1>5 DEF AnswerKnows, RepliesHoldFor
  <2> QED
    BY <2>1, <2>2, <2>3 DEF ProcKnows
<1>8. ~ Creating(p)'
  BY <1>4 DEF Creating
<1> QED
  BY <1>3, <1>4, <1>5, <1>6, <1>7, <1>8, ReadStep

LEMMA GetByIDInv ==
  ASSUME Inv, NEW p \in Procs, GetByID(p)
  PROVE  Inv'
<1>1. TypeOK /\ ProcKnows(p) /\ RepliesHoldFor(p)
  BY InvParts
<1>2. /\ pc[p] = "GetByID" /\ UNCHANGED <<now, tables, call>>
      /\ \/ /\ Owned(call[p].user, call[p].id)
            /\ Goto(p, "Update")
            /\ UNCHANGED reply
         \/ Answer(p, "FORBIDDEN")
         \/ Answer(p, "BOOKING_NOT_FOUND")
  BY DEF GetByID
<1>3. /\ pc' \in [Procs -> Steps] /\ reply' \in [Procs -> Reply \cup {NULL}]
      /\ \A q \in Procs \ {p} : pc'[q] = pc[q] /\ reply'[q] = reply[q]
      /\ \/ /\ pc'[p] = "Update" /\ reply'[p] = reply[p]
            /\ Owned(call[p].user, call[p].id)
         \/ /\ pc'[p] = "idle" /\ reply'[p] # NULL
            /\ reply'[p].code \in {"FORBIDDEN", "BOOKING_NOT_FOUND"}
  BY <1>1, <1>2, AnswerStep, GotoStep DEF Steps, Codes, TypeOK
<1>4. TypeOK'
  BY <1>1, <1>2, <1>3, RowsUnchanged DEF TypeOK
<1>5. CreatingKnows(p)' /\ InsertKnows(p)' /\ CancellingKnows(p)'
  BY <1>1, <1>2, <1>3
     DEF ProcKnows, CreatingKnows, Creating, InsertKnows, CancellingKnows
<1>6. UpdateKnows(p)'
  BY <1>2, <1>3 DEF UpdateKnows, Owned, tables
<1>7. AnswerKnows(p)' /\ RepliesHoldFor(p)'
  BY <1>1, <1>2, <1>3
     DEF ProcKnows, AnswerKnows, RepliesHoldFor, CancellingKnows
<1>8. ~ Creating(p)'
  BY <1>3 DEF Creating
<1> QED
  BY <1>2, <1>3, <1>4, <1>5, <1>6, <1>7, <1>8, ReadStep DEF ProcKnows

LEMMA DBErrorInv ==
  ASSUME Inv, NEW p \in Procs, DBError(p)
  PROVE  Inv'
<1>1. TypeOK /\ ProcKnows(p) /\ RepliesHoldFor(p)
  BY InvParts
<1>2. /\ pc[p] \in {"GetSchedule", "Insert", "GetByID", "Update"}
      /\ Answer(p, "INTERNAL_ERROR") /\ UNCHANGED <<now, tables, call>>
  BY DEF DBError
<1>3. /\ pc' \in [Procs -> Steps] /\ reply' \in [Procs -> Reply \cup {NULL}]
      /\ \A q \in Procs \ {p} : pc'[q] = pc[q] /\ reply'[q] = reply[q]
      /\ pc'[p] = "idle" /\ reply'[p] # NULL
      /\ reply'[p].code = "INTERNAL_ERROR"
  BY <1>1, <1>2, AnswerStep DEF Codes
<1>4. TypeOK'
  BY <1>1, <1>2, <1>3, RowsUnchanged DEF TypeOK
<1>5. ProcKnows(p)' /\ RepliesHoldFor(p)'
  <2>1. call[p] # NULL
    BY <1>1, <1>2 DEF ProcKnows, CreatingKnows, Creating, CancellingKnows
  <2> QED
    BY <2>1, <1>2, <1>3
       DEF ProcKnows, CreatingKnows, Creating, InsertKnows, CancellingKnows,
           UpdateKnows, AnswerKnows, RepliesHoldFor
<1>6. ~ Creating(p)'
  BY <1>3 DEF Creating
<1> QED
  BY <1>2, <1>3, <1>4, <1>5, <1>6, ReadStep

\* A goroutine moves on without an answer: a request is abandoned, or a
\* write of an abandoned request has no effect.
LEMMA GiveUpInv ==
  ASSUME Inv, NEW p \in Procs, UNCHANGED <<now, tables, call, reply>>,
         \/ Goto(p, "idle")
         \/ pc[p] = "Insert" /\ Goto(p, "LostInsert")
         \/ pc[p] = "Update" /\ Goto(p, "LostUpdate")
  PROVE  Inv'
<1>1. TypeOK /\ ProcKnows(p) /\ RepliesHoldFor(p)
  BY InvParts
<1>2. /\ pc' \in [Procs -> Steps]
      /\ \A q \in Procs \ {p} : pc'[q] = pc[q]
      /\ \/ pc'[p] = "idle"
         \/ pc[p] = "Insert" /\ pc'[p] = "LostInsert"
         \/ pc[p] = "Update" /\ pc'[p] = "LostUpdate"
  BY <1>1, GotoStep DEF Steps
<1>3. TypeOK'
  BY <1>1, <1>2, RowsUnchanged DEF TypeOK
<1>4. CreatingKnows(p)' /\ CancellingKnows(p)'
  BY <1>1, <1>2
     DEF ProcKnows, CreatingKnows, CancellingKnows, Creating, tables
<1>5. InsertKnows(p)' /\ UpdateKnows(p)'
  BY <1>1, <1>2 DEF ProcKnows, InsertKnows, UpdateKnows, SlotExists, Owned, tables
<1>6. AnswerKnows(p)' /\ RepliesHoldFor(p)'
  BY <1>1, <1>2 DEF ProcKnows, AnswerKnows, RepliesHoldFor, tables
<1>7. Creating(p)' =>
        /\ call'[p].id \notin DOMAIN bookings
        /\ \A q \in Procs \ {p} : Creating(q) => call[q].id # call'[p].id
  BY <1>1, <1>2 DEF ProcKnows, CreatingKnows, Creating
<1> QED
  BY <1>2, <1>3, <1>4, <1>5, <1>6, <1>7, ReadStep DEF ProcKnows

LEMMA AbandonInv ==
  ASSUME Inv, NEW p \in Procs, Abandon(p)
  PROVE  Inv'
BY GiveUpInv DEF Abandon

-----------------------------------------------------------------------------
\* The tables after the insert of an accepted booking.
LEMMA InsertedRows ==
  ASSUME Inv, NEW p \in Procs, pc[p] \in {"Insert", "LostInsert"},
         BookingInserted(p), UNCHANGED now
  PROVE  /\ StorageTypeOK'
         /\ SchedulesKept /\ RowsKept
         /\ (\A r \in DOMAIN schedules : ValidSchedule(schedules[r]))'
         /\ (\A id \in DOMAIN bookings : RowKnows(id))'
         /\ OneActivePerRoomStart'
         /\ DOMAIN bookings' = DOMAIN bookings \cup {call[p].id}
         /\ bookings'[call[p].id] = NewBooking(call[p])
         /\ call[p].id \notin DOMAIN bookings
<1> DEFINE id == call[p].id
           row == NewBooking(call[p])
<1>1. /\ call[p] \in Call /\ call[p].room \in Rooms /\ call[p].start \in Int
      /\ call[p].user \notin Admins
      /\ SlotExists(call[p].room, call[p].start)
  BY InvParts, BookingServiceAssumption
     DEF ProcKnows, CreatingKnows, Creating, InsertKnows, TypeOK
<1>2. /\ row \in Booking /\ id \in BookingIDs /\ row.status = "active"
      /\ row.room = call[p].room /\ row.start = call[p].start
      /\ row.user = call[p].user /\ row.end = row.start + SlotDuration
      /\ row.cancelledAt = NULL
  BY <1>1, SlotGridAssumption DEF Call, NewBooking, Booking
<1>3. /\ id \notin DOMAIN bookings
      /\ ~ SlotTaken(row.room, row.start)
      /\ bookings' = InsertRow(bookings, id, row)
      /\ UNCHANGED <<rooms, schedules>>
  BY DEF BookingInserted, InsertBooking
<1> HIDE DEF id, row
<1>4. /\ DOMAIN bookings' = DOMAIN bookings \cup {id}
      /\ bookings'[id] = row
      /\ \A k \in DOMAIN bookings : bookings'[k] = bookings[k]
      /\ bookings' = [k \in DOMAIN bookings' |-> bookings'[k]]
  BY <1>3 DEF InsertRow
<1>5. StorageTypeOK
  BY DEF Inv, TypeOK
<1>6. StorageTypeOK'
  BY <1>2, <1>3, <1>4, <1>5 DEF StorageTypeOK
<1>7. SchedulesKept /\ RowsKept
  BY <1>3, <1>4 DEF SchedulesKept, RowsKept, RowStep
<1>8. (\A k \in DOMAIN bookings : RowKnows(k))'
  <2> SUFFICES ASSUME NEW k \in DOMAIN bookings' PROVE RowKnows(k)'
    OBVIOUS
  <2>1. CASE k = id
    BY <2>1, <1>1, <1>2, <1>3, <1>4 DEF RowKnows, SlotExists
  <2>2. CASE k \in DOMAIN bookings
    BY <2>2, <1>3, <1>4 DEF Inv, RowKnows, SlotExists
  <2> QED
    BY <2>1, <2>2, <1>4
<1>9. OneActivePerRoomStart'
  <2>1. ActiveIDs' = ActiveIDs \cup {id}
    BY <1>2, <1>3, <1>4 DEF ActiveIDs
  <2>2. \A a \in ActiveIDs : ~ (/\ bookings[a].room = row.room
                                /\ bookings[a].start = row.start)
    BY <1>3 DEF SlotTaken
  <2>3. ActiveIDs \subseteq DOMAIN bookings
    BY DEF ActiveIDs
  <2> QED
    BY <2>1, <2>2, <2>3, <1>4 DEF Inv, OneActivePerRoomStart
<1> QED
  BY <1>3, <1>4, <1>6, <1>7, <1>8, <1>9 DEF Inv, id, row

\* Every way in which the insert of p commits.
LEMMA InsertedInv ==
  ASSUME Inv, NEW p \in Procs, pc[p] \in {"Insert", "LostInsert"},
         BookingInserted(p), UNCHANGED <<now, call>>,
         \/ Answer(p, "created")
         \/ Answer(p, "INTERNAL_ERROR")
         \/ Goto(p, "idle") /\ UNCHANGED reply
  PROVE  Inv'
<1>1. TypeOK /\ ProcKnows(p) /\ RepliesHoldFor(p)
  BY InvParts
<1>2. /\ call[p] # NULL /\ call[p].room \in Rooms /\ call[p].start \in StartTimes
      /\ call[p].id \notin DOMAIN bookings /\ reply[p] = NULL
  BY <1>1 DEF ProcKnows, CreatingKnows, Creating, AnswerKnows
<1>3. /\ pc' \in [Procs -> Steps] /\ reply' \in [Procs -> Reply \cup {NULL}]
      /\ pc'[p] = "idle"
      /\ \A q \in Procs \ {p} : pc'[q] = pc[q] /\ reply'[q] = reply[q]
      /\ \/ reply'[p] = NULL
         \/ /\ reply'[p] # NULL
            /\ reply'[p].code \in {"created", "INTERNAL_ERROR"}
  BY <1>1, <1>2, AnswerStep, GotoStep DEF Steps, Codes, TypeOK
<1>4. TypeOK'
  BY <1>1, <1>3, InsertedRows DEF TypeOK
<1>5. ProcKnows(p)'
  BY <1>2, <1>3, BookingServiceAssumption
     DEF ProcKnows, CreatingKnows, Creating, InsertKnows, CancellingKnows,
         UpdateKnows, AnswerKnows
<1>6. RepliesHoldFor(p)'
  <2>1. /\ call[p].id \in DOMAIN bookings'
        /\ bookings'[call[p].id].room = call[p].room
        /\ bookings'[call[p].id].user = call[p].user
        /\ bookings'[call[p].id].start = call[p].start
    <3>1. /\ DOMAIN bookings' = DOMAIN bookings \cup {call[p].id}
          /\ bookings'[call[p].id] = NewBooking(call[p])
      BY InsertedRows
    <3> QED
      BY <3>1 DEF NewBooking
  <2> QED
    BY <2>1, <1>3 DEF RepliesHoldFor
<1>7. ASSUME NEW q \in Procs \ {p}
      PROVE  ProcKnows(q)' /\ RepliesHoldFor(q)'
  <2>1. ProcKnows(q)
    BY InvParts
  <2>2. Creating(q) =>
          /\ call[q].id \notin DOMAIN bookings'
          /\ \A r \in Procs \ {q} : Creating(r)' => call'[r].id # call[q].id
    <3>1. DOMAIN bookings' = DOMAIN bookings \cup {call[p].id}
      BY InsertedRows
    <3>2. Creating(p)
      BY DEF Creating
    <3> QED
      BY <2>1, <3>1, <3>2, <1>3 DEF ProcKnows, CreatingKnows, Creating
  <2> QED
    BY <2>2, <1>3, InsertedRows, OthersKept
<1>8. \A q \in Procs : ProcKnows(q)' /\ RepliesHoldFor(q)'
  BY <1>5, <1>6, <1>7
<1> QED
  BY <1>4, <1>8, InsertedRows
     DEF Inv, ProcKnows, RepliesHold, RepliesHoldFor

\* The tables after the update of a cancel.
LEMMA CancelledRows ==
  ASSUME Inv, NEW id, UpdateCancelled(id), UNCHANGED now
  PROVE  /\ StorageTypeOK'
         /\ SchedulesKept /\ RowsKept
         /\ (\A r \in DOMAIN schedules : ValidSchedule(schedules[r]))'
         /\ (\A k \in DOMAIN bookings : RowKnows(k))'
         /\ OneActivePerRoomStart'
         /\ DOMAIN bookings' = DOMAIN bookings
         /\ id \in DOMAIN bookings => bookings'[id] = Cancelled(bookings[id])
         /\ ActiveIDs' = ActiveIDs \ {id}
<1>1. /\ DOMAIN bookings' = DOMAIN bookings
      /\ \A k \in DOMAIN bookings :
           bookings'[k] = IF k = id THEN Cancelled(bookings[k]) ELSE bookings[k]
      /\ bookings' = [k \in DOMAIN bookings' |-> bookings'[k]]
      /\ UNCHANGED <<rooms, schedules>>
  BY DEF UpdateCancelled
<1>2. StorageTypeOK /\ \A k \in DOMAIN bookings : RowKnows(k)
  BY DEF Inv, TypeOK
<1>3. ASSUME NEW k \in DOMAIN bookings
      PROVE  /\ Cancelled(bookings[k]) \in Booking
             /\ RowStep(bookings[k], Cancelled(bookings[k]))
             /\ Cancelled(bookings[k]).status = "cancelled"
             /\ Cancelled(bookings[k]).cancelledAt # NULL
  <2>1. bookings[k] \in Booking /\ RowKnows(k) /\ now \in Nat /\ now # NULL
    BY <1>2, StorageAssumption DEF StorageTypeOK
  <2>2. Cancelled(bookings[k]) \in Booking
    BY <2>1 DEF Cancelled, Booking
  <2>3. RowStep(bookings[k], Cancelled(bookings[k]))
    BY <2>1 DEF Cancelled, Booking, RowStep, RowKnows
  <2>4. /\ Cancelled(bookings[k]).status = "cancelled"
        /\ Cancelled(bookings[k]).cancelledAt # NULL
    BY <2>1 DEF Cancelled, Booking
  <2> QED
    BY <2>2, <2>3, <2>4
<1>4. StorageTypeOK'
  BY <1>1, <1>2, <1>3 DEF StorageTypeOK
<1>5. SchedulesKept /\ RowsKept
  BY <1>1, <1>3 DEF SchedulesKept, RowsKept, RowStep
<1>6. (\A k \in DOMAIN bookings : RowKnows(k))'
  <2> SUFFICES ASSUME NEW k \in DOMAIN bookings PROVE RowKnows(k)'
    BY <1>1
  <2>1. CASE k = id
    BY <2>1, <1>1, <1>2, <1>3 DEF RowKnows, RowStep, SlotExists
  <2>2. CASE k # id
    BY <2>2, <1>1, <1>2 DEF RowKnows, SlotExists
  <2> QED
    BY <2>1, <2>2
<1>7. ActiveIDs' = ActiveIDs \ {id}
  BY <1>1, <1>3 DEF ActiveIDs
<1>8. OneActivePerRoomStart'
  BY <1>1, <1>7 DEF Inv, OneActivePerRoomStart, ActiveIDs
<1> QED
  BY <1>1, <1>4, <1>5, <1>6, <1>7, <1>8 DEF Inv

\* Every way in which the update of p commits.
LEMMA CancelledInv ==
  ASSUME Inv, NEW p \in Procs, pc[p] \in {"Update", "LostUpdate"},
         UpdateCancelled(call[p].id), UNCHANGED <<now, call>>,
         Goto(p, "idle"),
         NEW a \in Reply \cup {NULL}, reply' = [reply EXCEPT ![p] = a],
         \/ a = NULL
         \/ a # NULL /\ a.code = "INTERNAL_ERROR"
         \/ /\ a # NULL /\ a.code = "ok"
            /\ a.cancelledAt = Cancelled(bookings[call[p].id]).cancelledAt
  PROVE  Inv'
<1>1. TypeOK /\ ProcKnows(p) /\ RepliesHoldFor(p)
  BY InvParts
<1>2. /\ call[p] # NULL /\ call[p].id \in DOMAIN bookings
  BY <1>1 DEF ProcKnows, CancellingKnows, UpdateKnows, Owned
<1>3. /\ pc' \in [Procs -> Steps] /\ reply' \in [Procs -> Reply \cup {NULL}]
      /\ pc'[p] = "idle" /\ reply'[p] = a
      /\ \A q \in Procs \ {p} : pc'[q] = pc[q] /\ reply'[q] = reply[q]
  BY <1>1, GotoStep, ReplyStep DEF Steps
<1>4. TypeOK'
  BY <1>1, <1>3, CancelledRows DEF TypeOK
<1>5. ProcKnows(p)'
  BY <1>2, <1>3
     DEF ProcKnows, CreatingKnows, Creating, InsertKnows, CancellingKnows,
         UpdateKnows, AnswerKnows
<1>6. RepliesHoldFor(p)'
  <2>1. Cancelled(bookings[call[p].id]).status = "cancelled"
    BY <1>1, <1>2 DEF Cancelled, TypeOK, StorageTypeOK, Booking
  <2> QED
    BY <2>1, <1>2, <1>3, CancelledRows DEF RepliesHoldFor
<1>7. ASSUME NEW q \in Procs \ {p}
      PROVE  ProcKnows(q)' /\ RepliesHoldFor(q)'
  <2>1. ProcKnows(q)
    BY InvParts
  <2>2. Creating(q) =>
          /\ call[q].id \notin DOMAIN bookings'
          /\ \A r \in Procs \ {q} : Creating(r)' => call'[r].id # call[q].id
    BY <2>1, <1>3, CancelledRows DEF ProcKnows, CreatingKnows, Creating
  <2> QED
    BY <2>2, <1>3, CancelledRows, OthersKept
<1>8. \A q \in Procs : ProcKnows(q)' /\ RepliesHoldFor(q)'
  BY <1>5, <1>6, <1>7
<1> QED
  BY <1>4, <1>8, CancelledRows
     DEF Inv, ProcKnows, RepliesHold, RepliesHoldFor

-----------------------------------------------------------------------------
\* Steps of the environment: every goroutine stays where it is.
LEMMA EnvironmentStep ==
  ASSUME Inv, UNCHANGED <<pc, call, reply, bookings>>, SchedulesKept,
         StorageTypeOK',
         (\A r \in DOMAIN schedules : ValidSchedule(schedules[r]))'
  PROVE  Inv'
<1>1. TypeOK'
  BY DEF Inv, TypeOK
<1>2. RowsKept
  BY DEF RowsKept, RowStep
<1>3. (\A id \in DOMAIN bookings : RowKnows(id))'
  BY DEF Inv, RowKnows, SlotExists, SchedulesKept
<1>4. OneActivePerRoomStart'
  BY DEF Inv, OneActivePerRoomStart, ActiveIDs
<1>5. ASSUME NEW q \in Procs
      PROVE  ProcKnows(q)' /\ RepliesHoldFor(q)'
  <2>1. Creating(q) =>
          /\ call[q].id \notin DOMAIN bookings'
          /\ \A p \in Procs \ {q} : Creating(p)' => call'[p].id # call[q].id
    BY DEF Inv, CreatingKnows, Creating
  <2> QED
    BY <1>2, <2>1, OthersKept
<1> QED
  BY <1>1, <1>3, <1>4, <1>5 DEF Inv, ProcKnows, RepliesHold, RepliesHoldFor

LEMMA EnvironmentInv ==
  ASSUME Inv, Environment
  PROVE  Inv'
<1>1. StorageTypeOK /\ \A r \in DOMAIN schedules : ValidSchedule(schedules[r])
  BY DEF Inv, TypeOK
<1>2. CASE Tick
  <2>1. StorageTypeOK'
    BY <1>1, <1>2 DEF Tick, tables, StorageTypeOK
  <2> QED
    BY <1>1, <1>2, <2>1, EnvironmentStep DEF Tick, tables, SchedulesKept
<1>3. ASSUME NEW r \in Rooms, AddRoom(r)
      PROVE  Inv'
  <2>1. StorageTypeOK'
    BY <1>1, <1>3 DEF AddRoom, InsertRoom, StorageTypeOK
  <2> QED
    BY <1>1, <1>3, <2>1, EnvironmentStep DEF AddRoom, InsertRoom, SchedulesKept
<1>4. ASSUME NEW r \in Rooms, NEW s \in ScheduleInputs, AddSchedule(r, s)
      PROVE  Inv'
  <2>1. /\ UNCHANGED <<now, rooms, bookings, pc, call, reply>>
        /\ r \notin DOMAIN schedules /\ ValidSchedule(s)
        /\ schedules' = InsertRow(schedules, r, s)
    BY <1>4 DEF AddSchedule, InsertSchedule, ScheduleConstraints
  <2>2. /\ DOMAIN schedules' = DOMAIN schedules \cup {r}
        /\ schedules'[r] = s
        /\ \A k \in DOMAIN schedules : schedules'[k] = schedules[k]
        /\ schedules' = [k \in DOMAIN schedules' |-> schedules'[k]]
    BY <2>1 DEF InsertRow
  <2>3. s \in Schedule
    BY BookingServiceAssumption
  <2>4. StorageTypeOK'
    BY <1>1, <2>1, <2>2, <2>3 DEF StorageTypeOK
  <2>5. SchedulesKept /\ (\A k \in DOMAIN schedules : ValidSchedule(schedules[k]))'
    BY <1>1, <2>1, <2>2 DEF SchedulesKept
  <2> QED
    BY <2>1, <2>4, <2>5, EnvironmentStep
<1> QED
  BY <1>2, <1>3, <1>4 DEF Environment

LEMMA NextInv == Inv /\ [Next]_vars => Inv'
<1> SUFFICES ASSUME Inv, [Next]_vars PROVE Inv'
  OBVIOUS
<1>1. CASE UNCHANGED vars
  <2>1. StorageTypeOK' /\ SchedulesKept /\ UNCHANGED <<pc, call, reply, bookings>>
    BY <1>1 DEF vars, Inv, TypeOK, StorageTypeOK, SchedulesKept
  <2> QED
    BY <1>1, <2>1, EnvironmentStep DEF vars, Inv
<1>2. CASE Environment
  BY <1>2, EnvironmentInv
<1>3. ASSUME NEW p \in Procs, Serve(p)
      PROVE  Inv'
  <2>1. ASSUME NEW u \in Users, NEW r \in Rooms, NEW t \in StartTimes,
               NEW id \in BookingIDs, Create(p, u, r, t, id)
        PROVE  Inv'
    BY <2>1, CreateInv
  <2>2. ASSUME NEW u \in Users, NEW id \in BookingIDs, Cancel(p, u, id)
        PROVE  Inv'
    BY <2>2, CancelInv
  <2>3. CASE GetSchedule(p)
    BY <2>3, GetScheduleInv
  <2>4. CASE Insert(p)
    <3>1. CASE BookingInserted(p) /\ Answer(p, "created")
      BY <2>4, <3>1, InsertedInv DEF Insert
    <3>2. CASE Answer(p, "SLOT_ALREADY_BOOKED") /\ UNCHANGED tables
      <4>1. ProcKnows(p) /\ TypeOK
        BY InvParts
      <4>2. /\ pc' \in [Procs -> Steps] /\ reply' \in [Procs -> Reply \cup {NULL}]
            /\ \A q \in Procs \ {p} : pc'[q] = pc[q] /\ reply'[q] = reply[q]
            /\ pc'[p] = "idle" /\ reply'[p] # NULL
            /\ reply'[p].code = "SLOT_ALREADY_BOOKED"
        BY <3>2, <4>1, AnswerStep DEF Codes
      <4>3. UNCHANGED <<now, tables, call>> /\ pc[p] = "Insert"
        BY <2>4, <3>2 DEF Insert
      <4>4. TypeOK'
        BY <4>1, <4>2, <4>3, RowsUnchanged DEF TypeOK
      <4>5. ProcKnows(p)' /\ RepliesHoldFor(p)' /\ ~ Creating(p)'
        BY <4>1, <4>2, <4>3
           DEF ProcKnows, CreatingKnows, Creating, InsertKnows, CancellingKnows,
               UpdateKnows, AnswerKnows, RepliesHoldFor
      <4> QED
        BY <4>2, <4>3, <4>4, <4>5, ReadStep
    <3> QED
      BY <2>4, <3>1, <3>2 DEF Insert
  <2>5. CASE InsertUnacknowledged(p)
    BY <2>5, InsertedInv DEF InsertUnacknowledged
  <2>6. CASE LostInsert(p)
    <3>1. CASE BookingInserted(p)
      BY <2>6, <3>1, InsertedInv DEF LostInsert
    <3>2. CASE UNCHANGED tables
      BY <2>6, <3>2, GiveUpInv DEF LostInsert
    <3> QED
      BY <2>6, <3>1, <3>2 DEF LostInsert
  <2>7. CASE GetByID(p)
    BY <2>7, GetByIDInv
  <2>8. CASE Update(p)
    <3> DEFINE a == [code |-> "ok",
                     cancelledAt |-> Cancelled(bookings[call[p].id]).cancelledAt]
    <3>1. call[p].id \in DOMAIN bookings /\ StorageTypeOK
      BY <2>8, InvParts DEF ProcKnows, UpdateKnows, Owned, Update, TypeOK
    <3>2. a \in Reply /\ a # NULL /\ a.code = "ok"
      BY <3>1, NullAssumption
         DEF StorageTypeOK, Booking, Cancelled, Reply, Codes
    <3>3. /\ pc[p] = "Update" /\ UpdateCancelled(call[p].id)
          /\ Goto(p, "idle") /\ reply' = [reply EXCEPT ![p] = a]
          /\ UNCHANGED <<now, call>>
      BY <2>8, <3>1 DEF Update
    <3>4. a.cancelledAt = Cancelled(bookings[call[p].id]).cancelledAt
      OBVIOUS
    <3> HIDE DEF a
    <3> QED
      BY <3>2, <3>3, <3>4, CancelledInv
  <2>9. CASE UpdateUnacknowledged(p)
    <3> DEFINE a == [code |-> "INTERNAL_ERROR", cancelledAt |-> NULL]
    <3>1. a \in Reply /\ a # NULL /\ a.code = "INTERNAL_ERROR"
      BY NullAssumption DEF Reply, Codes
    <3>2. /\ pc[p] = "Update" /\ UpdateCancelled(call[p].id)
          /\ Goto(p, "idle") /\ reply' = [reply EXCEPT ![p] = a]
          /\ UNCHANGED <<now, call>>
      BY <2>9 DEF UpdateUnacknowledged, Answer
    <3> HIDE DEF a
    <3> QED
      BY <3>1, <3>2, CancelledInv
  <2>10. CASE LostUpdate(p)
    <3>1. CASE UpdateCancelled(call[p].id)
      <4>1. /\ pc[p] = "LostUpdate" /\ UNCHANGED <<now, call>>
            /\ Goto(p, "idle") /\ UNCHANGED reply
        BY <2>10 DEF LostUpdate
      <4>2. reply' = [reply EXCEPT ![p] = NULL]
        BY <4>1, InvParts DEF ProcKnows, AnswerKnows, TypeOK
      <4> QED
        BY <3>1, <4>1, <4>2, CancelledInv
    <3>2. CASE UNCHANGED tables
      BY <2>10, <3>2, GiveUpInv DEF LostUpdate
    <3> QED
      BY <2>10, <3>1, <3>2 DEF LostUpdate
  <2>11. CASE DBError(p)
    BY <2>11, DBErrorInv
  <2>12. CASE Abandon(p)
    BY <2>12, AbandonInv
  <2> QED
    BY <1>3, <2>1, <2>2, <2>3, <2>4, <2>5, <2>6, <2>7, <2>8, <2>9, <2>10,
       <2>11, <2>12 DEF Serve
<1> QED
  BY <1>1, <1>2, <1>3 DEF Next

-----------------------------------------------------------------------------
(***************************************************************************)
(* The invariant: what every goroutine remembers from its earlier reads    *)
(* stays true until it acts on it, and every row was checked.              *)
(***************************************************************************)
THEOREM Invariance == Spec => []Inv
BY InitInv, NextInv, PTL DEF Spec

\* Every variable stays within its type.
THEOREM TypeCorrect == Spec => []TypeOK
<1>1. Inv => TypeOK
  BY DEF Inv
<1> QED
  BY <1>1, Invariance, PTL

(***************************************************************************)
(* Two active bookings of a room never overlap, for every slot length: the *)
(* unique start that the database enforces and the grid that the service   *)
(* enforces together are enough.                                           *)
(***************************************************************************)
THEOREM NoOverlapAlways == Spec => []NoOverlap
<1>1. Inv => NoOverlap
  <2> SUFFICES ASSUME Inv, NEW a \in ActiveIDs, NEW b \in ActiveIDs,
                      a # b, bookings[a].room = bookings[b].room
               PROVE  \/ bookings[a].end <= bookings[b].start
                      \/ bookings[b].end <= bookings[a].start
    BY DEF NoOverlap
  <2> DEFINE s == bookings[a].start
             t == bookings[b].start
  <2>1. /\ a \in DOMAIN bookings /\ b \in DOMAIN bookings
        /\ RowKnows(a) /\ RowKnows(b) /\ s # t
    BY DEF Inv, ActiveIDs, OneActivePerRoomStart
  <2>2. s \in Int /\ t \in Int
    BY <2>1 DEF Inv, TypeOK, StorageTypeOK, Booking
  <2>3. OnGrid(s) /\ OnGrid(t)
    BY <2>1 DEF RowKnows, SlotExists, IsStartAtWithinSchedule
  <2>4. bookings[a].end = s + SlotDuration /\ bookings[b].end = t + SlotDuration
    BY <2>1 DEF RowKnows
  <2> HIDE DEF s, t
  <2>5. s + SlotDuration <= t \/ t + SlotDuration <= s
    BY <2>1, <2>2, <2>3, GridApart
  <2> QED
    BY <2>4, <2>5 DEF s, t
<1> QED
  BY <1>1, Invariance, PTL

(***************************************************************************)
(* Every stored booking is one of the slots that the slot list would       *)
(* generate for its day.                                                   *)
(***************************************************************************)
THEOREM EveryBookingIsASlotAlways == Spec => []EveryBookingIsASlot
<1>1. Inv => EveryBookingIsASlot
  <2> SUFFICES ASSUME Inv, NEW id \in DOMAIN bookings
               PROVE  /\ bookings[id].room \in DOMAIN schedules
                      /\ bookings[id].start \in
                           GenerateSlotsForDate(schedules[bookings[id].room],
                                                bookings[id].start)
    BY DEF EveryBookingIsASlot
  <2> DEFINE s == schedules[bookings[id].room]
             t == bookings[id].start
  <2>1. /\ bookings[id].room \in DOMAIN schedules
        /\ IsStartAtWithinSchedule(s, t) /\ ValidSchedule(s)
    BY DEF Inv, RowKnows, SlotExists
  <2>2. s \in Schedule /\ t \in Int
    BY <2>1 DEF Inv, TypeOK, StorageTypeOK, Booking
  <2> HIDE DEF s, t
  <2>3. t \in GenerateSlotsForDate(s, t)
    BY <2>1, <2>2, WithinIsGenerated
  <2> QED
    BY <2>1, <2>3 DEF s, t
<1> QED
  BY <1>1, Invariance, PTL

\* An answer a client has received stays true.
THEOREM RepliesHoldAlways == Spec => []RepliesHold
<1>1. Inv => RepliesHold
  BY DEF Inv
<1> QED
  BY <1>1, Invariance, PTL

-----------------------------------------------------------------------------
\* The only steps that write to table bookings.
LEMMA BookingWrites ==
  ASSUME Inv, [Next]_vars
  PROVE  \/ UNCHANGED bookings
         \/ \E p \in Procs : /\ pc[p] \in {"Insert", "LostInsert"}
                             /\ BookingInserted(p)
                             /\ UNCHANGED now
         \/ \E p \in Procs : /\ pc[p] \in {"Update", "LostUpdate"}
                             /\ UpdateCancelled(call[p].id)
                             /\ UNCHANGED now
<1>1. CASE UNCHANGED vars
  BY <1>1 DEF vars
<1>2. CASE Environment
  BY <1>2 DEF Environment, Tick, AddRoom, InsertRoom, AddSchedule,
              InsertSchedule, tables
<1>3. ASSUME NEW p \in Procs, Serve(p), ~ UNCHANGED bookings
      PROVE  \/ /\ pc[p] \in {"Insert", "LostInsert"}
                /\ BookingInserted(p)
                /\ UNCHANGED now
             \/ /\ pc[p] \in {"Update", "LostUpdate"}
                /\ UpdateCancelled(call[p].id)
                /\ UNCHANGED now
  BY <1>3 DEF Serve, Create, Cancel, GetSchedule, Insert, InsertUnacknowledged,
              LostInsert, GetByID, Update, UpdateUnacknowledged, LostUpdate,
              DBError, Abandon, tables
<1> QED
  BY <1>1, <1>2, <1>3 DEF Next

(***************************************************************************)
(* Rows are never deleted, moved or made active again, and cancelled_at    *)
(* never changes once it is set.                                           *)
(***************************************************************************)
THEOREM RowsOnlyCancelledAlways == Spec => RowsOnlyCancelled
<1>1. ASSUME Inv, [Next]_vars
      PROVE  RowsKept
  <2>1. CASE UNCHANGED bookings
    BY <2>1 DEF RowsKept, RowStep
  <2>2. ASSUME NEW p \in Procs, pc[p] \in {"Insert", "LostInsert"},
               BookingInserted(p), UNCHANGED now
        PROVE  RowsKept
    BY <1>1, <2>2, InsertedRows
  <2>3. ASSUME NEW p \in Procs, pc[p] \in {"Update", "LostUpdate"},
               UpdateCancelled(call[p].id), UNCHANGED now
        PROVE  RowsKept
    BY <1>1, <2>3, CancelledRows
  <2> QED
    BY <1>1, <2>1, <2>2, <2>3, BookingWrites
<1>2. Spec => [][RowsKept]_vars
  BY <1>1, Invariance, PTL DEF Spec
<1> QED
  BY <1>2 DEF RowsKept, RowsOnlyCancelled

\* A booking is cancelled only by a cancel request of its own user.
THEOREM OnlyOwnerCancelsAlways == Spec => OnlyOwnerCancels
<1> DEFINE ByOwner ==
      \A id \in ActiveIDs :
        id \notin ActiveIDs' =>
          \E p \in Procs : /\ pc[p] \in {"Update", "LostUpdate"}
                           /\ call[p].id = id
                           /\ call[p].user = bookings[id].user
<1>1. ASSUME Inv, [Next]_vars
      PROVE  ByOwner
  <2>1. CASE UNCHANGED bookings
    BY <2>1 DEF ActiveIDs
  <2>2. ASSUME NEW p \in Procs, pc[p] \in {"Insert", "LostInsert"},
               BookingInserted(p), UNCHANGED now
        PROVE  ByOwner
    <3>1. /\ \A k \in DOMAIN bookings :
               k \in DOMAIN bookings' /\ bookings'[k] = bookings[k]
      BY <1>1, <2>2, InsertedRows
         DEF BookingInserted, InsertBooking, InsertRow
    <3> QED
      BY <3>1 DEF ActiveIDs
  <2>3. ASSUME NEW p \in Procs, pc[p] \in {"Update", "LostUpdate"},
               UpdateCancelled(call[p].id), UNCHANGED now
        PROVE  ByOwner
    <3>1. ActiveIDs' = ActiveIDs \ {call[p].id}
      BY <1>1, <2>3, CancelledRows
    <3>2. bookings[call[p].id].user = call[p].user
      BY <1>1, <2>3, InvParts DEF ProcKnows, UpdateKnows, Owned
    <3> QED
      BY <2>3, <3>1, <3>2
  <2> QED
    BY <1>1, <2>1, <2>2, <2>3, BookingWrites
<1>2. Spec => [][ByOwner]_vars
  BY <1>1, Invariance, PTL DEF Spec
<1> QED
  BY <1>2 DEF OnlyOwnerCancels

-----------------------------------------------------------------------------
(***************************************************************************)
(* Part 2.  The refinement of RoomCalendar.                                *)
(***************************************************************************)
Released == DOMAIN bookings \ ActiveIDs

Pending == { p \in Procs : pc[p] # "idle" }

Answers == [p \in Procs |-> PublicAnswer(reply[p])]

\* What the calendar sees of the tables.
LedgerUnchanged == Ledger' = Ledger /\ Released' = Released

LEMMA TablesToLedger ==
  ASSUME UNCHANGED bookings
  PROVE  LedgerUnchanged
BY DEF LedgerUnchanged, Ledger, Released, ActiveIDs

\* A goroutine that goes on without an answer.
LEMMA StillPending ==
  ASSUME Inv, UNCHANGED <<bookings, call, reply>>, NEW p \in Procs,
         pc[p] # "idle", pc'[p] # "idle",
         \A q \in Procs \ {p} : pc'[q] = pc[q]
  PROVE  UNCHANGED Calendar!vars
<1>1. Pending' = Pending
  BY DEF Pending
<1>2. Answers' = Answers
  BY DEF Answers
<1> QED
  BY <1>1, <1>2, TablesToLedger
     DEF Calendar!vars, LedgerUnchanged, Released, Pending, Answers

\* A goroutine that becomes idle: the calendar decides its request.
LEMMA Decided ==
  ASSUME Inv, NEW p \in Procs, Goto(p, "idle"),
         NEW a \in Reply \cup {NULL}, reply' = [reply EXCEPT ![p] = a]
  PROVE  Calendar!Decide(p, PublicAnswer(a))
<1>1. /\ pc'[p] = "idle" /\ reply'[p] = a
      /\ \A q \in Procs \ {p} : pc'[q] = pc[q] /\ reply'[q] = reply[q]
  BY GotoStep, ReplyStep DEF Inv, Steps
<1>2. Pending' = Pending \ {p}
  BY <1>1 DEF Pending
<1>3. Answers' = [Answers EXCEPT ![p] = PublicAnswer(a)]
  <2>1. \A q \in Procs : PublicAnswer(reply[q])' =
                          IF q = p THEN PublicAnswer(a) ELSE PublicAnswer(reply[q])
    BY <1>1 DEF PublicAnswer
  <2> QED
    BY <2>1, Zenon DEF Answers
<1> QED
  BY <1>2, <1>3 DEF Calendar!Decide, Pending, Answers

LEMMA Answered ==
  ASSUME Inv, NEW p \in Procs, NEW code \in Codes, Answer(p, code)
  PROVE  /\ code = "created" => Calendar!Decide(p, "booked")
         /\ code = "SLOT_ALREADY_BOOKED" => Calendar!Decide(p, "taken")
         /\ code = "INTERNAL_ERROR" => Calendar!Decide(p, "unknown")
         /\ code \in {"INVALID_REQUEST", "FORBIDDEN", "SLOT_NOT_FOUND",
                      "BOOKING_NOT_FOUND"} => Calendar!Decide(p, "refused")
<1> DEFINE a == [code |-> code, cancelledAt |-> NULL]
<1>1. a \in Reply /\ a # NULL /\ a.code = code
  BY NullAssumption DEF Reply
<1>2. Goto(p, "idle") /\ reply' = [reply EXCEPT ![p] = a]
  BY DEF Answer
<1> HIDE DEF a
<1>3. Calendar!Decide(p, PublicAnswer(a))
  BY <1>1, <1>2, Decided
<1>4. /\ code = "created" => PublicAnswer(a) = "booked"
      /\ code = "SLOT_ALREADY_BOOKED" => PublicAnswer(a) = "taken"
      /\ code = "INTERNAL_ERROR" => PublicAnswer(a) = "unknown"
      /\ code \in {"INVALID_REQUEST", "FORBIDDEN", "SLOT_NOT_FOUND",
                   "BOOKING_NOT_FOUND"} => PublicAnswer(a) = "refused"
  BY <1>1 DEF PublicAnswer, Told
<1> QED
  BY <1>3, <1>4

\* A goroutine that becomes idle without an answer.
LEMMA Unanswered ==
  ASSUME Inv, NEW p \in Procs, pc[p] # "idle", Goto(p, "idle"), UNCHANGED reply
  PROVE  Calendar!Decide(p, NULL)
<1>1. reply' = [reply EXCEPT ![p] = NULL]
  BY InvParts DEF ProcKnows, AnswerKnows, TypeOK
<1>2. PublicAnswer(NULL) = NULL
  BY DEF PublicAnswer, Told
<1> QED
  BY <1>1, <1>2, Decided

\* A request that arrives and is not answered at once.
LEMMA Asked ==
  ASSUME Inv, NEW p \in Procs, NEW c \in Call, NEW step \in Steps,
         step # "idle", Accept(p, c, step), UNCHANGED bookings
  PROVE  Calendar!Next
<1>1. /\ pc[p] = "idle" /\ pc'[p] = step /\ reply'[p] = NULL
      /\ call' = [call EXCEPT ![p] = c]
      /\ \A q \in Procs \ {p} : pc'[q] = pc[q] /\ reply'[q] = reply[q]
  BY GotoStep, ReplyStep DEF Accept, Inv
<1>2. Pending' = Pending \cup {p} /\ p \in Procs \ Pending
  BY <1>1 DEF Pending
<1>3. Answers' = [Answers EXCEPT ![p] = NULL]
  BY <1>1 DEF Answers, PublicAnswer
<1>4. Calendar!Ask(p, c)
  BY <1>1, <1>2, <1>3, TablesToLedger
     DEF Calendar!Ask, LedgerUnchanged, Released, Pending, Answers
<1> QED
  BY <1>2, <1>4 DEF Calendar!Next, Pending

\* A request that is rejected on arrival.
LEMMA Rejected ==
  ASSUME Inv, NEW p \in Procs, NEW c \in Call,
         NEW code \in {"INVALID_REQUEST", "FORBIDDEN"}, Reject(p, c, code),
         UNCHANGED bookings, Calendar!Refusable(c)
  PROVE  Calendar!Next
<1>1. /\ pc[p] = "idle" /\ call' = [call EXCEPT ![p] = c] /\ Answer(p, code)
  BY DEF Reject
<1>2. Calendar!Decide(p, "refused")
  BY <1>1, Answered DEF Codes
<1>3. Calendar!RefuseAtOnce(p, c)
  BY <1>1, <1>2, TablesToLedger
     DEF Calendar!RefuseAtOnce, LedgerUnchanged, Released
<1>4. p \in Procs \ Pending
  BY <1>1 DEF Pending
<1> QED
  BY <1>3, <1>4 DEF Calendar!Next, Pending

\* A pending request that is refused, or given up without an effect.
LEMMA Refused ==
  ASSUME Inv, NEW p \in Procs, pc[p] # "idle", UNCHANGED <<bookings, call>>,
         \/ Calendar!Decide(p, "refused") /\ Calendar!Refusable(call[p])
         \/ Calendar!Decide(p, "unknown")
         \/ Calendar!Decide(p, NULL)
  PROVE  Calendar!Next
<1>1. p \in Pending
  BY DEF Pending
<1>2. Calendar!Refuse(p) \/ Calendar!GiveUp(p)
  BY TablesToLedger
     DEF Calendar!Refuse, Calendar!GiveUp, LedgerUnchanged, Released
<1> QED
  BY <1>1, <1>2 DEF Calendar!Next, Pending

-----------------------------------------------------------------------------
\* Only an empty place is booked: no unreleased booking of the room overlaps
\* a grid start that no active booking of the room has.
LEMMA NothingBlocks ==
  ASSUME Inv, NEW p \in Procs, pc[p] \in {"Insert", "LostInsert"},
         ~ SlotTaken(call[p].room, call[p].start)
  PROVE  Calendar!Blocking(call[p]) = {}
<1> SUFFICES ASSUME NEW id \in DOMAIN bookings \ Released,
                    bookings[id].room = call[p].room,
                    Calendar!Overlap(bookings[id].start, call[p].start)
             PROVE  FALSE
  BY DEF Calendar!Blocking, Ledger, Released
<1> DEFINE s == bookings[id].start
           t == call[p].start
<1>1. id \in ActiveIDs /\ RowKnows(id)
  BY DEF Inv, Released
<1>2. s # t
  BY <1>1 DEF SlotTaken
<1>3. s \in Int /\ t \in Int
  BY <1>1, InvParts, BookingServiceAssumption
     DEF TypeOK, StorageTypeOK, Booking, ActiveIDs, ProcKnows, CreatingKnows,
         Creating
<1>4. OnGrid(s) /\ OnGrid(t)
  BY <1>1, InvParts
     DEF RowKnows, SlotExists, IsStartAtWithinSchedule, ProcKnows, InsertKnows
<1>5. s < t + SlotDuration /\ t < s + SlotDuration
  BY DEF Calendar!Overlap
<1> HIDE DEF s, t
<1> QED
  BY <1>2, <1>3, <1>4, <1>5, GridApart, SlotGridAssumption

LEMMA Booked ==
  ASSUME Inv, NEW p \in Procs, pc[p] \in {"Insert", "LostInsert"},
         BookingInserted(p), UNCHANGED <<now, call>>,
         \/ Calendar!Decide(p, "booked")
         \/ Calendar!Decide(p, "unknown")
         \/ Calendar!Decide(p, NULL)
  PROVE  Calendar!Next
<1>1. /\ call[p].op = "create" /\ call[p].id \notin DOMAIN bookings
      /\ DOMAIN bookings' = DOMAIN bookings \cup {call[p].id}
      /\ bookings'[call[p].id] = NewBooking(call[p])
      /\ \A id \in DOMAIN bookings : bookings'[id] = bookings[id]
  BY InvParts, InsertedRows
     DEF ProcKnows, CreatingKnows, Creating, BookingInserted, InsertBooking,
         InsertRow
<1>2. Ledger' = [id \in DOMAIN Ledger \cup {call[p].id} |->
                   IF id = call[p].id
                     THEN [user |-> call[p].user, room |-> call[p].room,
                           start |-> call[p].start]
                     ELSE Ledger[id]]
  BY <1>1 DEF Ledger, NewBooking
<1>3. Released' = Released
  BY <1>1 DEF Released, ActiveIDs, NewBooking
<1>4. Calendar!Blocking(call[p]) = {}
  BY NothingBlocks DEF BookingInserted, InsertBooking, NewBooking
<1>5. DOMAIN Ledger = DOMAIN bookings
  BY DEF Ledger
<1>6. Calendar!Book(p)
  BY <1>1, <1>2, <1>3, <1>4, <1>5
     DEF Calendar!Book, Calendar!DecideOrLose, Released
<1>7. p \in Pending
  BY DEF Pending
<1> QED
  BY <1>6, <1>7 DEF Calendar!Next, Pending

LEMMA Conflicted ==
  ASSUME Inv, NEW p \in Procs, pc[p] = "Insert",
         SlotTaken(call[p].room, call[p].start),
         UNCHANGED <<bookings, call>>, Calendar!Decide(p, "taken")
  PROVE  Calendar!Next
<1>1. PICK id \in ActiveIDs : /\ bookings[id].room = call[p].room
                              /\ bookings[id].start = call[p].start
  BY DEF SlotTaken
<1>2. bookings[id].start \in Int
  BY DEF Inv, TypeOK, StorageTypeOK, Booking, ActiveIDs
<1>3. Calendar!Overlap(bookings[id].start, call[p].start)
  BY <1>1, <1>2, SlotGridAssumption DEF Calendar!Overlap
<1>4. id \in Calendar!Blocking(call[p])
  BY <1>1, <1>3 DEF Calendar!Blocking, Ledger, ActiveIDs
<1>5. call[p].op = "create" /\ p \in Pending
  BY InvParts DEF ProcKnows, CreatingKnows, Creating, Pending
<1>6. Calendar!Conflict(p)
  BY <1>4, <1>5, TablesToLedger
     DEF Calendar!Conflict, LedgerUnchanged, Released
<1> QED
  BY <1>5, <1>6 DEF Calendar!Next, Pending

LEMMA ReleasedByOwner ==
  ASSUME Inv, NEW p \in Procs, pc[p] \in {"Update", "LostUpdate"},
         UpdateCancelled(call[p].id), UNCHANGED <<now, call>>,
         \/ Calendar!Decide(p, "released")
         \/ Calendar!Decide(p, "unknown")
         \/ Calendar!Decide(p, NULL)
  PROVE  Calendar!Next
<1>1. /\ call[p].op = "cancel" /\ Owned(call[p].user, call[p].id)
  BY InvParts DEF ProcKnows, CancellingKnows, UpdateKnows
<1>2. /\ DOMAIN bookings' = DOMAIN bookings
      /\ RowsKept
      /\ ActiveIDs' = ActiveIDs \ {call[p].id}
  BY CancelledRows
<1>3. Ledger' = Ledger
  BY <1>2 DEF Ledger, RowsKept, RowStep
<1>4. Released' = Released \cup {call[p].id}
  BY <1>1, <1>2 DEF Released, Owned
<1>5. Calendar!Own(call[p])
  BY <1>1 DEF Calendar!Own, Owned, Ledger
<1>6. Calendar!Release(p)
  BY <1>1, <1>3, <1>4, <1>5
     DEF Calendar!Release, Calendar!DecideOrLose, Released
<1>7. p \in Pending
  BY DEF Pending
<1> QED
  BY <1>6, <1>7 DEF Calendar!Next, Pending

-----------------------------------------------------------------------------
LEMMA CalendarInit == Init => Calendar!Init
BY DEF Init, StorageInit, Calendar!Init, Ledger, ActiveIDs, PublicAnswer

\* Every step of a goroutine, seen by the calendar.
LEMMA ServeStep ==
  ASSUME Inv, NEW p \in Procs, Serve(p)
  PROVE  Calendar!Next \/ UNCHANGED Calendar!vars
<1>1. ASSUME NEW u \in Users, NEW r \in Rooms, NEW t \in StartTimes,
             NEW id \in BookingIDs, Create(p, u, r, t, id)
      PROVE  Calendar!Next
  <2> DEFINE c == CreateCall(u, r, t, id)
  <2>1. c \in Call /\ Calendar!Refusable(c)
    BY DEF CreateCall, Call, Calendar!Refusable
  <2>2. /\ UNCHANGED bookings
        /\ \/ Reject(p, c, "FORBIDDEN")
           \/ Reject(p, c, "INVALID_REQUEST")
           \/ Accept(p, c, "GetSchedule")
    BY <1>1 DEF Create, tables
  <2> HIDE DEF c
  <2> QED
    BY <2>1, <2>2, Asked, Rejected DEF Steps
<1>2. ASSUME NEW u \in Users, NEW id \in BookingIDs, Cancel(p, u, id)
      PROVE  Calendar!Next
  <2> DEFINE c == CancelCall(u, id)
  <2>1. c \in Call /\ c.id = id /\ c.user = u
    BY DEF CancelCall, Call
  <2>2. /\ UNCHANGED bookings
        /\ \/ Reject(p, c, "FORBIDDEN") /\ u \in Admins
           \/ Accept(p, c, "GetByID")
    <3>1. Role(u) # "user" => u \in Admins
      BY DEF Role
    <3> QED
      BY <1>2, <3>1 DEF Cancel, tables
  <2> HIDE DEF c
  <2>3. u \in Admins => Calendar!Refusable(c)
    BY <2>1 DEF Calendar!Refusable, Calendar!Own, Ledger, Inv, RowKnows
  <2> QED
    BY <2>1, <2>2, <2>3, Asked, Rejected DEF Steps
<1>3. CASE GetSchedule(p)
  <2>1. UNCHANGED <<bookings, call>> /\ pc[p] = "GetSchedule"
    BY <1>3 DEF GetSchedule, tables
  <2>2. CASE Goto(p, "Insert") /\ UNCHANGED reply
    BY <2>1, <2>2, GotoStep, StillPending DEF Inv, Steps
  <2>3. CASE Answer(p, "SLOT_NOT_FOUND")
    <3>1. Calendar!Refusable(call[p])
      BY <2>1, InvParts
         DEF ProcKnows, CreatingKnows, Creating, Calendar!Refusable
    <3> QED
      BY <2>1, <2>3, <3>1, Answered, Refused DEF Codes
  <2> QED
    BY <1>3, <2>2, <2>3 DEF GetSchedule
<1>4. CASE Insert(p)
  <2>1. CASE BookingInserted(p) /\ Answer(p, "created")
    BY <1>4, <2>1, Answered, Booked DEF Insert, Codes
  <2>2. CASE /\ SlotTaken(call[p].room, call[p].start)
             /\ Answer(p, "SLOT_ALREADY_BOOKED")
             /\ UNCHANGED tables
    BY <1>4, <2>2, Answered, Conflicted DEF Insert, Codes, tables
  <2> QED
    BY <1>4, <2>1, <2>2 DEF Insert
<1>5. CASE InsertUnacknowledged(p)
  BY <1>5, Answered, Booked DEF InsertUnacknowledged, Codes
<1>6. CASE LostInsert(p)
  <2>1. pc[p] = "LostInsert" /\ Calendar!Decide(p, NULL) /\ UNCHANGED <<now, call>>
    BY <1>6, Unanswered DEF LostInsert
  <2>2. CASE BookingInserted(p)
    BY <2>1, <2>2, Booked
  <2>3. CASE UNCHANGED tables
    BY <2>1, <2>3, Refused DEF tables
  <2> QED
    BY <1>6, <2>2, <2>3 DEF LostInsert
<1>7. CASE GetByID(p)
  <2>1. UNCHANGED <<bookings, call>> /\ pc[p] = "GetByID"
    BY <1>7 DEF GetByID, tables
  <2>2. CASE Goto(p, "Update") /\ UNCHANGED reply
    BY <2>1, <2>2, GotoStep, StillPending DEF Inv, Steps
  <2>3. CASE /\ ~ Owned(call[p].user, call[p].id)
             /\ Answer(p, "FORBIDDEN") \/ Answer(p, "BOOKING_NOT_FOUND")
    <3>1. Calendar!Refusable(call[p])
      BY <2>3 DEF Owned, Calendar!Refusable, Calendar!Own, Ledger
    <3> QED
      BY <2>1, <2>3, <3>1, Answered, Refused DEF Codes
  <2> QED
    BY <1>7, <2>2, <2>3 DEF GetByID
<1>8. CASE Update(p)
  <2> DEFINE a == [code |-> "ok",
                   cancelledAt |-> Cancelled(bookings[call[p].id]).cancelledAt]
  <2>1. call[p].id \in DOMAIN bookings /\ StorageTypeOK
    BY <1>8, InvParts DEF ProcKnows, UpdateKnows, Owned, Update, TypeOK
  <2>2. a \in Reply /\ a # NULL /\ a.code = "ok"
    BY <2>1, NullAssumption DEF StorageTypeOK, Booking, Cancelled, Reply, Codes
  <2>3. /\ pc[p] = "Update" /\ UpdateCancelled(call[p].id)
        /\ Goto(p, "idle") /\ reply' = [reply EXCEPT ![p] = a]
        /\ UNCHANGED <<now, call>>
    BY <1>8, <2>1 DEF Update
  <2> HIDE DEF a
  <2>4. PublicAnswer(a) = "released"
    BY <2>2 DEF PublicAnswer, Told
  <2> QED
    BY <2>2, <2>3, <2>4, Decided, ReleasedByOwner
<1>9. CASE UpdateUnacknowledged(p)
  BY <1>9, Answered, ReleasedByOwner DEF UpdateUnacknowledged, Codes
<1>10. CASE LostUpdate(p)
  <2>1. pc[p] = "LostUpdate" /\ Calendar!Decide(p, NULL) /\ UNCHANGED <<now, call>>
    BY <1>10, Unanswered DEF LostUpdate
  <2>2. CASE UpdateCancelled(call[p].id)
    BY <2>1, <2>2, ReleasedByOwner
  <2>3. CASE UNCHANGED tables
    BY <2>1, <2>3, Refused DEF tables
  <2> QED
    BY <1>10, <2>2, <2>3 DEF LostUpdate
<1>11. CASE DBError(p)
  BY <1>11, Answered, Refused DEF DBError, Codes, tables
<1>12. CASE Abandon(p)
  <2>1. UNCHANGED <<bookings, call, reply>> /\ pc[p] # "idle"
    BY <1>12 DEF Abandon, tables
  <2>2. CASE Goto(p, "idle")
    BY <2>1, <2>2, Unanswered, Refused
  <2>3. CASE Goto(p, "LostInsert") \/ Goto(p, "LostUpdate")
    BY <2>1, <2>3, GotoStep, StillPending DEF Inv, Steps
  <2> QED
    BY <1>12, <2>2, <2>3 DEF Abandon
<1> QED
  BY <1>1, <1>2, <1>3, <1>4, <1>5, <1>6, <1>7, <1>8, <1>9, <1>10, <1>11,
     <1>12 DEF Serve

LEMMA CalendarStep == Inv /\ [Next]_vars => [Calendar!Next]_(Calendar!vars)
<1> SUFFICES ASSUME Inv, [Next]_vars
             PROVE  Calendar!Next \/ UNCHANGED Calendar!vars
  OBVIOUS
<1>1. ASSUME UNCHANGED <<bookings, pc, call, reply>>
      PROVE  UNCHANGED Calendar!vars
  <2>1. LedgerUnchanged /\ Pending' = Pending /\ Answers' = Answers
    BY <1>1, TablesToLedger DEF Pending, Answers
  <2> QED
    BY <1>1, <2>1 DEF Calendar!vars, LedgerUnchanged, Released, Pending, Answers
<1>2. CASE UNCHANGED vars
  BY <1>1, <1>2 DEF vars
<1>3. CASE Environment
  BY <1>1, <1>3 DEF Environment, Tick, AddRoom, InsertRoom, AddSchedule,
                    InsertSchedule, tables
<1>4. CASE \E p \in Procs : Serve(p)
  BY <1>4, ServeStep
<1> QED
  BY <1>2, <1>3, <1>4 DEF Next

(***************************************************************************)
(* The service implements the calendar: between request and answer every   *)
(* booking and every release takes effect at one instant, a booking only   *)
(* where nothing unreleased overlaps it; a conflict is answered only while *)
(* an overlapping booking stands; and the release of one's own booking is  *)
(* never refused.                                                          *)
(***************************************************************************)
THEOREM Refinement == Spec => ImplementsCalendar
BY CalendarInit, CalendarStep, Invariance, PTL
   DEF Spec, ImplementsCalendar, Calendar!Spec

-----------------------------------------------------------------------------
(***************************************************************************)
(* Part 3.  The services on one database.                                  *)
(***************************************************************************)
\* What a goroutine of the administration knows between two statements.
AdminKnows(p) ==
  /\ adminPc[p] \in {"InsertRoom", "LostInsertRoom"} =>
       adminCall[p].room \in Rooms
  /\ adminPc[p] \in {"Exists", "InsertSchedule", "LostInsertSchedule"} =>
       adminCall[p].room \in Rooms /\ adminCall[p].schedule \in ScheduleInputs

AdminInv ==
  /\ adminPc \in [AdminProcs -> Administration!Steps]
  /\ adminCall \in [AdminProcs -> Administration!Call \cup {NULL}]
  /\ \A p \in AdminProcs : AdminKnows(p)

LEMMA AdminInit == SystemInit => AdminInv
BY DEF SystemInit, Administration!ServersInit, AdminInv, AdminKnows,
       Administration!Steps

\* A goroutine that goes on with the request it has.
LEMMA AdminGoes ==
  ASSUME AdminInv, NEW p \in AdminProcs, UNCHANGED adminCall,
         NEW step \in Administration!Steps, Administration!Goto(p, step),
         \/ step = "idle"
         \/ adminPc[p] = "InsertRoom" /\ step = "LostInsertRoom"
         \/ adminPc[p] \in {"Exists", "InsertSchedule"}
              /\ step \in {"InsertSchedule", "LostInsertSchedule"}
  PROVE  AdminInv'
<1>1. /\ adminPc' \in [AdminProcs -> Administration!Steps]
      /\ adminPc'[p] = step
      /\ \A q \in AdminProcs \ {p} : adminPc'[q] = adminPc[q]
  BY DEF AdminInv, Administration!Goto
<1>2. \A q \in AdminProcs \ {p} : AdminKnows(q)'
  BY <1>1 DEF AdminInv, AdminKnows
<1>3. AdminKnows(p)'
  BY <1>1 DEF AdminInv, AdminKnows
<1> QED
  BY <1>1, <1>2, <1>3 DEF AdminInv

\* A goroutine that takes a request.
LEMMA AdminTakes ==
  ASSUME AdminInv, NEW p \in AdminProcs, NEW c \in Administration!Call,
         NEW step \in Administration!Steps, Administration!Goto(p, step),
         Administration!Receive(p, c),
         \/ step = "idle"
         \/ step = "InsertRoom"
         \/ step = "Exists" /\ c.schedule \in ScheduleInputs
  PROVE  AdminInv'
<1>1. /\ adminPc' \in [AdminProcs -> Administration!Steps]
      /\ adminPc'[p] = step
      /\ \A q \in AdminProcs \ {p} : adminPc'[q] = adminPc[q]
  BY DEF AdminInv, Administration!Goto
<1>2. /\ adminCall' \in [AdminProcs -> Administration!Call \cup {NULL}]
      /\ adminCall'[p] = c
      /\ \A q \in AdminProcs \ {p} : adminCall'[q] = adminCall[q]
  BY DEF AdminInv, Administration!Receive
<1>3. c.room \in Rooms
  BY DEF Administration!Call
<1>4. \A q \in AdminProcs \ {p} : AdminKnows(q)'
  BY <1>1, <1>2 DEF AdminInv, AdminKnows
<1>5. AdminKnows(p)'
  BY <1>1, <1>2, <1>3 DEF AdminKnows
<1> QED
  BY <1>1, <1>2, <1>4, <1>5 DEF AdminInv

LEMMA AdminServes ==
  ASSUME AdminInv, NEW p \in AdminProcs, Administration!Serve(p)
  PROVE  AdminInv'
<1> USE DEF Administration!Steps
<1>1. ASSUME NEW u \in Users, NEW room \in Rooms,
             NEW flaw \in {"none", "name", "capacity"},
             Administration!CreateRoom(p, u, room, flaw)
      PROVE  AdminInv'
  <2> DEFINE c == [op |-> "room", user |-> u, room |-> room, schedule |-> NULL]
  <2>1. c \in Administration!Call
    BY DEF Administration!Call
  <2>2. /\ Administration!Receive(p, c)
        /\ \/ Administration!Goto(p, "idle")
           \/ Administration!Goto(p, "InsertRoom")
    BY <1>1 DEF Administration!CreateRoom, Administration!Answer,
                Administration!Accept
  <2> HIDE DEF c
  <2> QED
    BY <2>1, <2>2, AdminTakes
<1>2. ASSUME NEW u \in Users, NEW room \in Rooms, NEW bodyRoom \in Rooms,
             NEW s \in ScheduleInputs,
             Administration!CreateSchedule(p, u, room, bodyRoom, s)
      PROVE  AdminInv'
  <2> DEFINE c == [op |-> "schedule", user |-> u, room |-> room, schedule |-> s]
  <2>1. c \in Administration!Call /\ c.schedule \in ScheduleInputs
    BY DEF Administration!Call
  <2>2. /\ Administration!Receive(p, c)
        /\ \/ Administration!Goto(p, "idle")
           \/ Administration!Goto(p, "Exists")
    BY <1>2 DEF Administration!CreateSchedule, Administration!Answer,
                Administration!Accept
  <2> HIDE DEF c
  <2> QED
    BY <2>1, <2>2, AdminTakes
<1>3. CASE Administration!Exists(p)
  <2>1. /\ adminPc[p] = "Exists" /\ UNCHANGED adminCall
        /\ \/ Administration!Goto(p, "idle")
           \/ Administration!Goto(p, "InsertSchedule")
    BY <1>3 DEF Administration!Exists, Administration!Answer
  <2> QED
    BY <2>1, AdminGoes
<1>4. CASE \/ Administration!Insert(p)
           \/ Administration!InsertUnacknowledged(p)
           \/ Administration!LostInsert(p)
           \/ Administration!DBError(p)
  <2>1. UNCHANGED adminCall /\ Administration!Goto(p, "idle")
    BY <1>4 DEF Administration!Insert, Administration!InsertUnacknowledged,
                Administration!LostInsert, Administration!DBError,
                Administration!Answer
  <2> QED
    BY <2>1, AdminGoes
<1>5. CASE Administration!Abandon(p)
  <2>1. /\ UNCHANGED adminCall
        /\ \/ Administration!Goto(p, "idle")
           \/ /\ adminPc[p] = "InsertRoom"
              /\ Administration!Goto(p, "LostInsertRoom")
           \/ /\ adminPc[p] = "InsertSchedule"
              /\ Administration!Goto(p, "LostInsertSchedule")
    BY <1>5 DEF Administration!Abandon
  <2> QED
    BY <2>1, AdminGoes
<1> QED
  BY <1>1, <1>2, <1>3, <1>4, <1>5 DEF Administration!Serve

LEMMA AdminNext == AdminInv /\ [SystemNext]_systemVars => AdminInv'
<1> SUFFICES ASSUME AdminInv, [SystemNext]_systemVars PROVE AdminInv'
  OBVIOUS
<1>1. CASE UNCHANGED <<adminPc, adminCall>>
  BY <1>1 DEF AdminInv, AdminKnows
<1>2. ASSUME NEW p \in AdminProcs, ServeAdmin(p)
      PROVE  AdminInv'
  BY <1>2, AdminServes DEF ServeAdmin
<1>3. \/ UNCHANGED <<adminPc, adminCall>>
      \/ \E p \in AdminProcs : ServeAdmin(p)
  BY DEF SystemNext, systemVars, ServeBooking, ServeSlots, adminServers
<1> QED
  BY <1>1, <1>2, <1>3

-----------------------------------------------------------------------------
\* A step of the administration is a step of BookingService's environment.
LEMMA AdminIsEnvironment ==
  ASSUME AdminInv, NEW p \in AdminProcs, ServeAdmin(p)
  PROVE  [Next]_vars
<1>1. UNCHANGED <<pc, call, reply>> /\ Administration!Serve(p)
  BY DEF ServeAdmin, bookingServers
<1>2. now' = now
  BY <1>1 DEF Administration!Serve, Administration!CreateRoom,
       Administration!CreateSchedule, Administration!Exists,
       Administration!Insert, Administration!InsertUnacknowledged,
       Administration!LostInsert, Administration!DBError,
       Administration!Abandon
<1>3. UNCHANGED <<rooms, schedules, bookings>> \/ Administration!RowInserted(p)
  BY <1>1 DEF Administration!Serve, Administration!CreateRoom,
       Administration!CreateSchedule, Administration!Exists,
       Administration!Insert, Administration!InsertUnacknowledged,
       Administration!LostInsert, Administration!DBError,
       Administration!Abandon, Administration!tables
<1>4. CASE UNCHANGED <<rooms, schedules, bookings>>
  BY <1>1, <1>2, <1>4 DEF vars
<1>5. CASE Administration!RowInserted(p)
  <2> DEFINE room == adminCall[p].room
             s == adminCall[p].schedule
  <2>1. \/ room \in Rooms /\ InsertRoom(room)
        \/ /\ room \in Rooms /\ s \in ScheduleInputs
           /\ InsertSchedule(room, s)
    BY <1>5 DEF Administration!RowInserted, AdminInv, AdminKnows,
         Administration!InsertRoom, InsertRoom,
         Administration!InsertSchedule, InsertSchedule,
         Administration!ScheduleConstraints, ScheduleConstraints,
         Administration!InsertRow, InsertRow,
         Administration!ValidSchedule, ValidSchedule,
         Administration!ValidDays, ValidDays, Administration!ISODays, ISODays,
         Administration!ValidWindow, ValidWindow,
         Administration!OnGrid, OnGrid, Administration!DayLength, DayLength
  <2> HIDE DEF room, s
  <2>2. Environment
    BY <1>1, <1>2, <2>1 DEF Environment, AddRoom, AddSchedule
  <2> QED
    BY <2>2 DEF Next
<1> QED
  BY <1>3, <1>4, <1>5

LEMMA SystemStep == AdminInv /\ [SystemNext]_systemVars => [Next]_vars
<1> SUFFICES ASSUME AdminInv, [SystemNext]_systemVars PROVE [Next]_vars
  OBVIOUS
<1>1. CASE UNCHANGED systemVars
  BY <1>1 DEF systemVars, bookingServers, vars
<1>2. CASE Tick /\ UNCHANGED <<adminServers, slotServers>>
  BY <1>2 DEF Next, Environment
<1>3. ASSUME NEW p \in Procs, ServeBooking(p)
      PROVE  [Next]_vars
  BY <1>3 DEF ServeBooking, Next
<1>4. ASSUME NEW p \in AdminProcs, ServeAdmin(p)
      PROVE  [Next]_vars
  BY <1>4, AdminIsEnvironment
<1>5. ASSUME NEW p \in SlotProcs, ServeSlots(p)
      PROVE  [Next]_vars
  <2>1. UNCHANGED <<now, rooms, schedules, bookings, pc, call, reply>>
    BY <1>5 DEF ServeSlots, bookingServers, Slots!Serve, Slots!ListAvailable,
         Slots!Exists, Slots!GetSchedule, Slots!ListActiveStarts,
         Slots!DBError, Slots!Abandon, Slots!tables
  <2> QED
    BY <2>1 DEF vars
<1> QED
  BY <1>1, <1>2, <1>3, <1>4, <1>5 DEF SystemNext

(***************************************************************************)
(* The system implements BookingService, whose environment is the          *)
(* administration.                                                         *)
(***************************************************************************)
THEOREM SystemImplementsBookingService == SystemSpec => ImplementsBookingService
<1>1. SystemInit => Init /\ AdminInv
  BY AdminInit DEF SystemInit
<1> QED
  BY <1>1, AdminNext, SystemStep, PTL
  DEF SystemSpec, ImplementsBookingService, Spec

\* Hence no two active bookings of a room overlap in the whole system.
THEOREM SystemNoOverlap == SystemSpec => []NoOverlap
BY SystemImplementsBookingService, NoOverlapAlways, PTL
DEF ImplementsBookingService

\* Every booking is a slot of its room's schedule, also while schedules appear.
THEOREM SystemEveryBookingIsASlot == SystemSpec => []EveryBookingIsASlot
BY SystemImplementsBookingService, EveryBookingIsASlotAlways, PTL
DEF ImplementsBookingService

\* What clients were told of their bookings stays true in the whole system.
THEOREM SystemRepliesHold == SystemSpec => []RepliesHold
BY SystemImplementsBookingService, RepliesHoldAlways, PTL
DEF ImplementsBookingService

\* And no step of the other services cancels anything.
THEOREM SystemOnlyOwnerCancels == SystemSpec => OnlyOwnerCancels
BY SystemImplementsBookingService, OnlyOwnerCancelsAlways, PTL
DEF ImplementsBookingService

\* And the whole system implements the calendar.
THEOREM SystemImplementsCalendar == SystemSpec => ImplementsCalendar
BY SystemImplementsBookingService, Refinement, PTL
DEF ImplementsBookingService

-----------------------------------------------------------------------------
(***************************************************************************)
(* Lists of free slots.  Between its last two reads a goroutine knows what *)
(* the schedule allows, and that cannot change.                            *)
(***************************************************************************)
ListCall == [room : Rooms, date : Dates]

ListKnows(p) ==
  /\ slotPc[p] # "idle" => slotCall[p] \in ListCall
  /\ slotPc[p] = "ListActiveStarts" =>
       /\ slotCall[p].room \in DOMAIN schedules
       /\ slotGenerated[p] =
            GenerateSlotsForDate(schedules[slotCall[p].room], slotCall[p].date)

ListInv ==
  /\ slotPc \in [SlotProcs -> Slots!Steps]
  /\ DOMAIN slotCall = SlotProcs
  /\ DOMAIN slotReply = SlotProcs
  /\ DOMAIN slotGenerated = SlotProcs
  /\ \A p \in SlotProcs : ListKnows(p)

LEMMA ListInit == SystemInit => ListInv
BY DEF SystemInit, Slots!ServersInit, ListInv, ListKnows, Slots!Steps

\* SlotService's copies of the operators on the grid are the grid's.
LEMMA SameGrid ==
  /\ \A s, d : Slots!GenerateSlotsForDate(s, d) = GenerateSlotsForDate(s, d)
  /\ \A t : Slots!TruncateToDayUTC(t) = TruncateToDayUTC(t)
  /\ Slots!DayLength = DayLength
  /\ Slots!ActiveIDs = ActiveIDs
BY DEF Slots!GenerateSlotsForDate, GenerateSlotsForDate,
       Slots!TruncateToDayUTC, TruncateToDayUTC, Slots!TimeOfDay, TimeOfDay,
       Slots!WeekdayToISO, WeekdayToISO, Slots!DayLength, DayLength,
       Slots!ActiveIDs, ActiveIDs

\* No step of BookingService changes or removes a schedule.
LEMMA SchedulesStay == [Next]_vars => SchedulesKept
<1> SUFFICES ASSUME [Next]_vars PROVE SchedulesKept
  OBVIOUS
<1> USE DEF SchedulesKept
<1>1. CASE UNCHANGED schedules
  BY <1>1
<1>2. ASSUME NEW room \in Rooms, NEW s \in ScheduleInputs,
             AddSchedule(room, s)
      PROVE  SchedulesKept
  BY <1>2 DEF AddSchedule, InsertSchedule, InsertRow
<1>3. ASSUME NEW room \in Rooms, AddRoom(room)
      PROVE  UNCHANGED schedules
  BY <1>3 DEF AddRoom, InsertRoom
<1>4. ASSUME NEW p \in Procs, Serve(p)
      PROVE  UNCHANGED schedules
  BY <1>4 DEF Serve, Create, GetSchedule, Insert, InsertUnacknowledged,
       LostInsert, Cancel, GetByID, Update, UpdateUnacknowledged, LostUpdate,
       DBError, Abandon, BookingInserted, InsertBooking, UpdateCancelled, tables
<1>5. ASSUME Tick PROVE UNCHANGED schedules
  BY <1>5 DEF Tick, tables
<1> QED
  BY <1>1, <1>2, <1>3, <1>4, <1>5 DEF Next, Environment, vars

LEMMA ListKept ==
  ASSUME ListInv, SchedulesKept, NEW p \in SlotProcs,
         UNCHANGED <<slotPc[p], slotCall[p], slotGenerated[p]>>
  PROVE  ListKnows(p)'
BY DEF ListInv, ListKnows, SchedulesKept

LEMMA ListServes ==
  ASSUME ListInv, NEW p \in SlotProcs, Slots!Serve(p)
  PROVE  ListInv'
<1>1. UNCHANGED schedules
  BY DEF Slots!Serve, Slots!ListAvailable, Slots!Exists, Slots!GetSchedule,
         Slots!ListActiveStarts, Slots!DBError, Slots!Abandon, Slots!tables
<1>2. /\ slotPc' \in [SlotProcs -> Slots!Steps]
      /\ DOMAIN slotCall' = SlotProcs
      /\ DOMAIN slotReply' = SlotProcs
      /\ DOMAIN slotGenerated' = SlotProcs
      /\ \A q \in SlotProcs \ {p} :
           UNCHANGED <<slotPc[q], slotCall[q], slotGenerated[q]>>
  BY DEF ListInv, Slots!Serve, Slots!ListAvailable, Slots!Exists,
         Slots!GetSchedule, Slots!ListActiveStarts, Slots!DBError,
         Slots!Abandon, Slots!Answer, Slots!Goto, Slots!Steps
<1>3. \A q \in SlotProcs \ {p} : ListKnows(q)'
  BY <1>1, <1>2, ListKept DEF SchedulesKept
<1>4. ListKnows(p)'
  <2>1. ASSUME NEW room \in Rooms, NEW date \in Dates,
               Slots!ListAvailable(p, room, date)
        PROVE  ListKnows(p)'
    BY <2>1 DEF Slots!ListAvailable, Slots!Goto, ListInv, ListKnows, ListCall
  <2>2. CASE Slots!Exists(p)
    BY <2>2 DEF Slots!Exists, Slots!Goto, Slots!Answer, ListInv, ListKnows
  <2>3. CASE Slots!GetSchedule(p)
    <3> DEFINE made == Slots!SlotsOfDay(slotCall[p].room, slotCall[p].date)
    <3>1. CASE slotPc'[p] = "idle"
      BY <3>1 DEF ListKnows
    <3>2. CASE slotPc'[p] # "idle"
      <4>1. /\ slotPc[p] # "idle" /\ UNCHANGED slotCall
            /\ slotGenerated'[p] = made /\ made # {}
        BY <2>3, <3>2 DEF Slots!GetSchedule, Slots!Answer, Slots!Goto, ListInv
      <4>2. /\ slotCall[p].room \in DOMAIN schedules
            /\ made = GenerateSlotsForDate(schedules[slotCall[p].room],
                                           slotCall[p].date)
        BY <4>1, SameGrid DEF Slots!SlotsOfDay
      <4> QED
        BY <1>1, <4>1, <4>2 DEF ListInv, ListKnows
    <3> QED
      BY <3>1, <3>2
  <2>4. CASE Slots!ListActiveStarts(p) \/ Slots!DBError(p) \/ Slots!Abandon(p)
    BY <2>4 DEF Slots!ListActiveStarts, Slots!DBError, Slots!Abandon,
                Slots!Answer, Slots!Goto, ListInv, ListKnows
  <2> QED
    BY <2>1, <2>2, <2>3, <2>4 DEF Slots!Serve
<1> QED
  BY <1>2, <1>3, <1>4 DEF ListInv

LEMMA ListNext == ListInv /\ AdminInv /\ [SystemNext]_systemVars => ListInv'
<1> SUFFICES ASSUME ListInv, AdminInv, [SystemNext]_systemVars PROVE ListInv'
  OBVIOUS
<1>1. SchedulesKept
  BY SystemStep, SchedulesStay
<1>2. CASE UNCHANGED slotServers
  BY <1>1, <1>2, ListKept DEF slotServers, ListInv
<1>3. ASSUME NEW p \in SlotProcs, ServeSlots(p)
      PROVE  ListInv'
  BY <1>3, ListServes DEF ServeSlots
<1>4. UNCHANGED slotServers \/ \E p \in SlotProcs : ServeSlots(p)
  BY DEF SystemNext, systemVars, ServeBooking, ServeAdmin
<1> QED
  BY <1>2, <1>3, <1>4

\* On the grid, the bookings that overlap a slot are those that start with it.
LEMMA FreeIsUnbooked ==
  ASSUME Inv, NEW room \in DOMAIN schedules, NEW date \in Int
  PROVE  LET day == TruncateToDayUTC(date)
             made == GenerateSlotsForDate(schedules[room], date)
         IN  made \ Slots!ActiveStartsBetween(room, day, day + DayLength)
               = Slots!FreeSlots(room, date)
<1> DEFINE day == TruncateToDayUTC(date)
           made == GenerateSlotsForDate(schedules[room], date)
           booked == Slots!ActiveStartsBetween(room, day, day + DayLength)
<1>1. /\ schedules[room] \in Schedule /\ ValidSchedule(schedules[room])
      /\ day \in Int /\ DayLength \in Nat \ {0}
  BY DayParts, DayLengthType DEF Inv, TypeOK, StorageTypeOK
<1>2. ASSUME NEW t \in made
      PROVE  t \in Int /\ OnGrid(t) /\ t \in day .. (day + DayLength) - 1
  <2>1. /\ t \in Int /\ TruncateToDayUTC(t) = day
        /\ IsStartAtWithinSchedule(schedules[room], t)
    BY <1>1, <1>2, GeneratedIsWithin
  <2> QED
    BY <1>1, <2>1, SameDay DEF IsStartAtWithinSchedule
<1>3. ASSUME NEW id \in ActiveIDs
      PROVE  /\ bookings[id].start \in Int /\ OnGrid(bookings[id].start)
             /\ bookings[id].end = bookings[id].start + SlotDuration
  BY <1>3 DEF ActiveIDs, Inv, TypeOK, StorageTypeOK, Booking, RowKnows,
              SlotExists, IsStartAtWithinSchedule
<1>4. ASSUME NEW t \in made, NEW id \in ActiveIDs
      PROVE  bookings[id].start = t <=>
               ~ (bookings[id].end <= t \/ t + SlotDuration <= bookings[id].start)
  <2> DEFINE b == bookings[id].start
  <2>1. /\ t \in Int /\ OnGrid(t) /\ b \in Int /\ OnGrid(b)
        /\ bookings[id].end = b + SlotDuration
    BY <1>2, <1>3
  <2> HIDE DEF b
  <2>2. b < t => b + SlotDuration <= t
    BY <2>1, GridApart
  <2>3. t < b => t + SlotDuration <= b
    BY <2>1, GridApart
  <2> QED
    BY <2>1, <2>2, <2>3, SlotGridAssumption DEF b
<1>5. ASSUME NEW t \in made
      PROVE  t \in booked <=> \E id \in ActiveIDs :
                                /\ bookings[id].room = room
                                /\ bookings[id].start = t
  BY <1>2, SameGrid DEF Slots!ActiveStartsBetween
<1>6. made = Slots!SlotsOfDay(room, date)
  BY SameGrid DEF Slots!SlotsOfDay
<1> HIDE DEF made, booked
<1>7. \A t \in made : t \notin booked <=> t \in Slots!FreeSlots(room, date)
  BY <1>4, <1>5, <1>6, SameGrid DEF Slots!FreeSlots
<1>8. Slots!FreeSlots(room, date) \subseteq made
  BY <1>6 DEF Slots!FreeSlots
<1>9. made \ booked = Slots!FreeSlots(room, date)
  BY <1>7, <1>8
<1> QED
  BY <1>9 DEF made, booked, day

\* The goroutine answers with a list.
ListAnswered(p) ==
  /\ slotReply'[p] # slotReply[p]
  /\ slotReply'[p] # NULL
  /\ slotReply'[p].code = "ok"

FreeSlotsOf(p) == Slots!FreeSlots(slotCall[p].room, slotCall[p].date)

LEMMA AnswerIsSnapshot ==
  ASSUME Inv, ListInv, NEW p \in SlotProcs, Slots!Serve(p), ListAnswered(p)
  PROVE  slotReply'[p].slots = FreeSlotsOf(p)
<1>1. ListKnows(p) /\ DOMAIN slotReply = SlotProcs
  BY DEF ListInv
<1>2. CASE Slots!GetSchedule(p)
  <2>1. /\ slotReply'[p].slots = {}
        /\ Slots!SlotsOfDay(slotCall[p].room, slotCall[p].date) = {}
    BY <1>1, <1>2 DEF Slots!GetSchedule, Slots!Answer, ListAnswered
  <2> QED
    BY <2>1 DEF FreeSlotsOf, Slots!FreeSlots
<1>3. CASE Slots!ListActiveStarts(p)
  <2> DEFINE room == slotCall[p].room
             date == slotCall[p].date
             day == TruncateToDayUTC(date)
  <2>1. slotPc[p] = "ListActiveStarts"
    BY <1>3 DEF Slots!ListActiveStarts
  <2>2. /\ room \in DOMAIN schedules /\ date \in Int
        /\ slotGenerated[p] = GenerateSlotsForDate(schedules[room], date)
    BY <1>1, <2>1, RoomBookingAssumption DEF ListKnows, ListCall
  <2>3. slotReply'[p].slots =
          slotGenerated[p]
            \ Slots!ActiveStartsBetween(room, day, day + DayLength)
    BY <1>1, <1>3, SameGrid DEF Slots!ListActiveStarts, Slots!Answer
  <2> HIDE DEF room, date
  <2>4. slotReply'[p].slots = Slots!FreeSlots(room, date)
    BY <2>2, <2>3, FreeIsUnbooked
  <2> QED
    BY <2>4 DEF FreeSlotsOf, room, date
<1>4. ~ \E room \in Rooms, date \in Dates : Slots!ListAvailable(p, room, date)
  BY <1>1 DEF Slots!ListAvailable, ListAnswered
<1>5. ~ Slots!Exists(p)
  BY <1>1 DEF Slots!Exists, Slots!Answer, ListAnswered
<1>6. ~ Slots!DBError(p) /\ ~ Slots!Abandon(p)
  BY <1>1 DEF Slots!DBError, Slots!Abandon, Slots!Answer, ListAnswered
<1> QED
  BY <1>2, <1>3, <1>4, <1>5, <1>6 DEF Slots!Serve

LEMMA OthersAnswerNothing ==
  ASSUME ListInv, NEW p \in SlotProcs, NEW q \in SlotProcs, p # q,
         Slots!Serve(q)
  PROVE  slotReply'[p] = slotReply[p]
BY DEF ListInv, Slots!Serve, Slots!ListAvailable, Slots!Exists,
       Slots!GetSchedule, Slots!ListActiveStarts, Slots!DBError,
       Slots!Abandon, Slots!Answer

SnapshotStep ==
  \A p \in SlotProcs :
    slotReply'[p] # slotReply[p] /\ slotReply'[p] # NULL
      /\ slotReply'[p].code = "ok" =>
        slotReply'[p].slots = Slots!FreeSlots(slotCall[p].room, slotCall[p].date)

LEMMA SnapshotNext ==
  Inv /\ ListInv /\ [SystemNext]_systemVars => SnapshotStep
<1> SUFFICES ASSUME Inv, ListInv, [SystemNext]_systemVars,
                    NEW p \in SlotProcs, ListAnswered(p)
             PROVE  slotReply'[p].slots = FreeSlotsOf(p)
  BY DEF SnapshotStep, ListAnswered, FreeSlotsOf
<1>1. UNCHANGED slotServers \/ \E q \in SlotProcs : ServeSlots(q)
  BY DEF SystemNext, systemVars, ServeBooking, ServeAdmin
<1>2. ~ UNCHANGED slotServers
  BY DEF slotServers, ListAnswered
<1>3. PICK q \in SlotProcs : Slots!Serve(q)
  BY <1>1, <1>2 DEF ServeSlots
<1>4. p = q
  BY <1>3, OthersAnswerNothing DEF ListAnswered
<1> QED
  BY <1>3, <1>4, AnswerIsSnapshot

(***************************************************************************)
(* Every list of free slots is right at the instant of its answer, for any *)
(* number of goroutines, rooms, schedules and bookings.                    *)
(***************************************************************************)
THEOREM ListsAreSnapshotsAlways == SystemSpec => ListsAreSnapshots
<1>1. SystemInit => Init /\ AdminInv /\ ListInv
  BY AdminInit, ListInit DEF SystemInit
<1>2. SnapshotStep => [SnapshotStep]_(Slots!vars)
  OBVIOUS
<1>3. SystemSpec => [][SnapshotStep]_(Slots!vars)
  BY <1>1, <1>2, InitInv, NextInv, AdminNext, ListNext, SystemStep,
     SnapshotNext, PTL DEF SystemSpec
<1> QED
  BY <1>3 DEF ListsAreSnapshots, Slots!ListingIsSnapshot, SnapshotStep

-----------------------------------------------------------------------------
(***************************************************************************)
(* What bookings are told, against the lists of free slots.  The answers   *)
(* that speak of slots come from two statements only.                      *)
(***************************************************************************)
Spoken == {"created", "SLOT_ALREADY_BOOKED", "SLOT_NOT_FOUND"}

LEMMA OnlyServedIsTold ==
  ASSUME Inv, NEW p \in Procs, NEW q \in Procs, p # q, Serve(q)
  PROVE  reply'[p] = reply[p]
<1>1. reply \in [Procs -> Reply \cup {NULL}]
  BY DEF Inv, TypeOK
<1>2. ASSUME NEW u \in Users, NEW r \in Rooms, NEW t \in StartTimes,
             NEW id \in BookingIDs, Create(q, u, r, t, id)
      PROVE  reply'[p] = reply[p]
  BY <1>1, <1>2 DEF Create, Accept, Reject, Answer
<1>3. ASSUME NEW u \in Users, NEW id \in BookingIDs, Cancel(q, u, id)
      PROVE  reply'[p] = reply[p]
  BY <1>1, <1>3 DEF Cancel, Accept, Reject, Answer
<1>4. CASE GetSchedule(q) \/ Insert(q) \/ InsertUnacknowledged(q)
           \/ LostInsert(q)
  BY <1>1, <1>4 DEF GetSchedule, Insert, InsertUnacknowledged, LostInsert,
                    Answer
<1>5. CASE GetByID(q) \/ Update(q) \/ UpdateUnacknowledged(q)
           \/ LostUpdate(q)
  BY <1>1, <1>5 DEF GetByID, Update, UpdateUnacknowledged, LostUpdate, Answer
<1>6. CASE DBError(q) \/ Abandon(q)
  BY <1>1, <1>6 DEF DBError, Abandon, Answer
<1> QED
  BY <1>2, <1>3, <1>4, <1>5, <1>6 DEF Serve

LEMMA Telling ==
  ASSUME Inv, NEW p \in Procs, Serve(p), NEW code \in Spoken, IsTold(p, code)
  PROVE  \/ /\ code = "created"
            /\ pc[p] = "Insert" /\ BookingInserted(p)
         \/ /\ code = "SLOT_ALREADY_BOOKED"
            /\ pc[p] = "Insert" /\ SlotTaken(call[p].room, call[p].start)
         \/ /\ code = "SLOT_NOT_FOUND"
            /\ pc[p] = "GetSchedule"
            /\ ~ SlotExists(call[p].room, call[p].start)
<1>1. /\ reply \in [Procs -> Reply \cup {NULL}]
      /\ reply[p] = NULL /\ reply'[p] # NULL /\ reply'[p].code = code
  BY DEF Inv, TypeOK, IsTold
<1> USE DEF Spoken, Answer
<1>2. ~ \E u \in Users, r \in Rooms, t \in StartTimes, id \in BookingIDs :
          Create(p, u, r, t, id)
  BY <1>1 DEF Create, Accept, Reject
<1>3. ~ \E u \in Users, id \in BookingIDs : Cancel(p, u, id)
  BY <1>1 DEF Cancel, Accept, Reject
<1>4. ~ InsertUnacknowledged(p) /\ ~ LostInsert(p)
  BY <1>1 DEF InsertUnacknowledged, LostInsert
<1>5. ~ GetByID(p) /\ ~ Update(p) /\ ~ UpdateUnacknowledged(p)
        /\ ~ LostUpdate(p)
  BY <1>1 DEF GetByID, Update, UpdateUnacknowledged, LostUpdate
<1>6. ~ DBError(p) /\ ~ Abandon(p)
  BY <1>1 DEF DBError, Abandon
<1>7. CASE GetSchedule(p)
  BY <1>1, <1>7 DEF GetSchedule
<1>8. CASE Insert(p)
  BY <1>1, <1>8 DEF Insert
<1> QED
  BY <1>2, <1>3, <1>4, <1>5, <1>6, <1>7, <1>8 DEF Serve

\* On the grid, the slots of a day and the free ones, by the check of Create.
LEMMA ListByCheck ==
  ASSUME Inv, NEW room, NEW start \in Int
  PROVE  /\ start \in Slots!SlotsOfDay(room, start) <=> SlotExists(room, start)
         /\ start \in Slots!FreeSlots(room, start) <=>
              SlotExists(room, start) /\ ~ SlotTaken(room, start)
<1> DEFINE day == TruncateToDayUTC(start)
           made == GenerateSlotsForDate(schedules[room], start)
<1>1. CASE room \notin DOMAIN schedules
  BY <1>1 DEF Slots!SlotsOfDay, Slots!FreeSlots, SlotExists
<1>2. CASE room \in DOMAIN schedules
  <2>1. schedules[room] \in Schedule /\ ValidSchedule(schedules[room])
    BY <1>2 DEF Inv, TypeOK, StorageTypeOK
  <2>2. start \in made <=> SlotExists(room, start)
    BY <1>2, <2>1, GeneratedIsWithin, WithinIsGenerated DEF SlotExists
  <2>3. Slots!SlotsOfDay(room, start) = made
    BY <1>2, SameGrid DEF Slots!SlotsOfDay
  <2>4. made \ Slots!ActiveStartsBetween(room, day, day + DayLength)
          = Slots!FreeSlots(room, start)
    BY <1>2, FreeIsUnbooked
  <2>5. start \in day .. (day + DayLength) - 1
    <3>1. start \in day .. day + DayLength - 1
      BY SameDay
    <3>2. day \in Int /\ DayLength \in Int
      BY DayLengthType, DayParts
    <3> HIDE DEF day
    <3> QED
      BY <3>1, <3>2
  <2>6. start \in Slots!ActiveStartsBetween(room, day, day + DayLength)
          <=> SlotTaken(room, start)
    BY <2>5, SameGrid DEF Slots!ActiveStartsBetween, SlotTaken
  <2> HIDE DEF made, day
  <2> QED
    BY <2>2, <2>3, <2>4, <2>6
<1> QED
  BY <1>1, <1>2

MatchStep ==
  \A p \in Procs :
    LET room == call[p].room
        start == call[p].start
        listed == Slots!FreeSlots(room, start)
        possible == Slots!SlotsOfDay(room, start)
    IN  /\ IsTold(p, "created") => start \in listed
        /\ IsTold(p, "SLOT_ALREADY_BOOKED") => start \in possible \ listed
        /\ IsTold(p, "SLOT_NOT_FOUND") => start \notin possible

LEMMA TellingStep ==
  ASSUME Inv, [Next]_vars, NEW p \in Procs, NEW code \in Spoken,
         IsTold(p, code)
  PROVE  Serve(p)
<1>1. ~ UNCHANGED reply
  BY DEF IsTold
<1>2. PICK q \in Procs : Serve(q)
  BY <1>1 DEF Next, vars, Environment, Tick, AddRoom, AddSchedule
<1>3. p = q
  BY <1>2, OnlyServedIsTold DEF IsTold
<1> QED
  BY <1>2, <1>3

LEMMA MatchNext == Inv /\ [Next]_vars => MatchStep
<1> SUFFICES ASSUME Inv, [Next]_vars, NEW p \in Procs, NEW code \in Spoken,
                    IsTold(p, code)
             PROVE  LET room == call[p].room
                        start == call[p].start
                        listed == Slots!FreeSlots(room, start)
                        possible == Slots!SlotsOfDay(room, start)
                    IN  /\ code = "created" => start \in listed
                        /\ code = "SLOT_ALREADY_BOOKED" =>
                             start \in possible \ listed
                        /\ code = "SLOT_NOT_FOUND" => start \notin possible
  BY DEF MatchStep, Spoken
<1> DEFINE room == call[p].room
           start == call[p].start
<1>1. Serve(p)
  BY TellingStep
<1>2. \/ /\ code = "created"
         /\ pc[p] = "Insert" /\ BookingInserted(p)
      \/ /\ code = "SLOT_ALREADY_BOOKED"
         /\ pc[p] = "Insert" /\ SlotTaken(room, start)
      \/ /\ code = "SLOT_NOT_FOUND"
         /\ pc[p] = "GetSchedule" /\ ~ SlotExists(room, start)
  BY <1>1, Telling
<1>3. start \in Int
  BY <1>2, BookingServiceAssumption DEF Inv, CreatingKnows, Creating
<1>4. pc[p] = "Insert" => SlotExists(room, start)
  BY DEF Inv, InsertKnows
<1>5. BookingInserted(p) => ~ SlotTaken(room, start)
  BY DEF BookingInserted, InsertBooking, NewBooking
<1> HIDE DEF room, start
<1>6. /\ start \in Slots!SlotsOfDay(room, start) <=> SlotExists(room, start)
      /\ start \in Slots!FreeSlots(room, start) <=>
           SlotExists(room, start) /\ ~ SlotTaken(room, start)
  BY <1>3, ListByCheck
<1>7. /\ code = "created" => start \in Slots!FreeSlots(room, start)
      /\ code = "SLOT_ALREADY_BOOKED" =>
           start \in Slots!SlotsOfDay(room, start) \ Slots!FreeSlots(room, start)
      /\ code = "SLOT_NOT_FOUND" => start \notin Slots!SlotsOfDay(room, start)
  BY <1>2, <1>4, <1>5, <1>6
<1> QED
  BY <1>7 DEF room, start

(***************************************************************************)
(* What a create request is told is what a list made at that instant       *)
(* shows, for any number of goroutines, rooms, schedules and bookings.     *)
(***************************************************************************)
THEOREM AnswersMatchListAlways == SystemSpec => AnswersMatchList
<1>1. SystemInit => Init /\ AdminInv
  BY AdminInit DEF SystemInit
<1>2. SystemSpec => [][MatchStep]_systemVars
  BY <1>1, InitInv, NextInv, AdminNext, SystemStep, MatchNext, PTL
  DEF SystemSpec
<1> QED
  BY <1>2 DEF AnswersMatchList, MatchStep

-----------------------------------------------------------------------------
(***************************************************************************)
(* A slot on a list that was answered is a slot of a schedule that stays.  *)
(***************************************************************************)
ListedKnows(l) ==
  slotReply[l] # NULL =>
    \A t \in slotReply[l].slots : SlotExists(slotCall[l].room, t)

ListedInv == \A l \in SlotProcs : ListedKnows(l)

LEMMA ListedInit == SystemInit => ListedInv
BY DEF SystemInit, Slots!ServersInit, ListedInv, ListedKnows

LEMMA ListedKept ==
  ASSUME SchedulesKept, NEW l \in SlotProcs, ListedKnows(l),
         UNCHANGED <<slotCall[l], slotReply[l]>>
  PROVE  ListedKnows(l)'
BY DEF ListedKnows, SchedulesKept, SlotExists

LEMMA ListedServes ==
  ASSUME Inv, ListInv, ListedInv, SchedulesKept, NEW l \in SlotProcs,
         Slots!Serve(l)
  PROVE  ListedKnows(l)'
<1>1. /\ DOMAIN slotReply = SlotProcs /\ DOMAIN slotCall = SlotProcs
      /\ ListKnows(l) /\ ListedKnows(l)
  BY DEF ListInv, ListedInv
<1>2. ASSUME NEW room \in Rooms, NEW date \in Dates,
             Slots!ListAvailable(l, room, date)
      PROVE  ListedKnows(l)'
  BY <1>1, <1>2 DEF Slots!ListAvailable, ListedKnows
<1>3. CASE UNCHANGED <<slotCall, slotReply>>
  BY <1>1, <1>3, ListedKept
<1>4. ASSUME NEW code, Slots!Answer(l, code, {})
      PROVE  ListedKnows(l)'
  BY <1>1, <1>4 DEF Slots!Answer, ListedKnows
<1>5. CASE Slots!ListActiveStarts(l)
  <2> DEFINE room == slotCall[l].room
             date == slotCall[l].date
  <2>1. /\ room \in DOMAIN schedules /\ date \in Int
        /\ slotGenerated[l] = GenerateSlotsForDate(schedules[room], date)
    BY <1>1, <1>5, RoomBookingAssumption
    DEF Slots!ListActiveStarts, ListKnows, ListCall
  <2>2. schedules[room] \in Schedule /\ ValidSchedule(schedules[room])
    BY <2>1 DEF Inv, TypeOK, StorageTypeOK
  <2>3. /\ UNCHANGED <<slotCall, schedules>>
        /\ slotReply'[l].slots \subseteq slotGenerated[l]
    BY <1>1, <1>5 DEF Slots!ListActiveStarts, Slots!Answer, Slots!tables
  <2> HIDE DEF room, date
  <2>4. \A t \in slotReply'[l].slots : SlotExists(room, t)
    BY <2>1, <2>2, <2>3, GeneratedIsWithin DEF SlotExists
  <2> QED
    BY <2>3, <2>4 DEF ListedKnows, SlotExists, room
<1>6. CASE Slots!Exists(l)
  BY <1>3, <1>4, <1>6 DEF Slots!Exists
<1>7. CASE Slots!GetSchedule(l)
  BY <1>3, <1>4, <1>7 DEF Slots!GetSchedule
<1>8. CASE Slots!DBError(l) \/ Slots!Abandon(l)
  BY <1>3, <1>4, <1>8 DEF Slots!DBError, Slots!Abandon
<1> QED
  BY <1>2, <1>5, <1>6, <1>7, <1>8 DEF Slots!Serve

LEMMA ListedNext ==
  Inv /\ ListInv /\ AdminInv /\ ListedInv /\ [SystemNext]_systemVars
    => ListedInv'
<1> SUFFICES ASSUME Inv, ListInv, AdminInv, ListedInv,
                    [SystemNext]_systemVars, NEW l \in SlotProcs
             PROVE  ListedKnows(l)'
  BY DEF ListedInv
<1>1. SchedulesKept
  BY SystemStep, SchedulesStay
<1>2. CASE UNCHANGED slotServers
  BY <1>1, <1>2, ListedKept DEF slotServers, ListedInv
<1>3. ASSUME NEW q \in SlotProcs, Slots!Serve(q), q # l
      PROVE  ListedKnows(l)'
  <2>1. slotCall'[l] = slotCall[l] /\ slotReply'[l] = slotReply[l]
    BY <1>3 DEF ListInv, Slots!Serve, Slots!ListAvailable, Slots!Exists,
         Slots!GetSchedule, Slots!ListActiveStarts, Slots!DBError,
         Slots!Abandon, Slots!Answer
  <2> QED
    BY <1>1, <2>1, ListedKept DEF ListedInv
<1>4. UNCHANGED slotServers \/ \E q \in SlotProcs : Slots!Serve(q)
  BY DEF SystemNext, systemVars, ServeBooking, ServeAdmin, ServeSlots
<1> QED
  BY <1>1, <1>2, <1>3, <1>4, ListedServes

KnownStep ==
  \A p \in Procs, l \in SlotProcs :
    IsTold(p, "SLOT_NOT_FOUND") /\ slotReply[l] # NULL =>
      \/ slotCall[l].room # call[p].room
      \/ call[p].start \notin slotReply[l].slots

LEMMA KnownNext == Inv /\ ListedInv /\ [Next]_vars => KnownStep
<1> SUFFICES ASSUME Inv, ListedInv, [Next]_vars,
                    NEW p \in Procs, NEW l \in SlotProcs,
                    IsTold(p, "SLOT_NOT_FOUND"), slotReply[l] # NULL,
                    slotCall[l].room = call[p].room,
                    call[p].start \in slotReply[l].slots
             PROVE  FALSE
  BY DEF KnownStep
<1>1. SlotExists(call[p].room, call[p].start)
  BY DEF ListedInv, ListedKnows
<1>2. "SLOT_NOT_FOUND" \in Spoken
  BY DEF Spoken
<1> QED
  BY <1>1, <1>2, TellingStep, Telling

(***************************************************************************)
(* A slot that a list has shown is never unknown to a later booking, for   *)
(* any number of goroutines, rooms, schedules and bookings.                *)
(***************************************************************************)
THEOREM ListedIsNeverUnknownAlways == SystemSpec => ListedIsNeverUnknown
<1>1. SystemInit => Init /\ AdminInv /\ ListInv /\ ListedInv
  BY AdminInit, ListInit, ListedInit DEF SystemInit
<1>2. SystemSpec => [][KnownStep]_systemVars
  BY <1>1, InitInv, NextInv, AdminNext, ListNext, ListedNext, SystemStep,
     KnownNext, PTL DEF SystemSpec
<1> QED
  BY <1>2 DEF ListedIsNeverUnknown, KnownStep

-----------------------------------------------------------------------------
(***************************************************************************)
(* Types.  That a list holds instants is not obvious from its action: it   *)
(* needs that the dates are instants and the stored schedules valid.       *)
(***************************************************************************)
ServersTyped ==
  /\ adminReply \in [AdminProcs -> Administration!Codes \cup {NULL}]
  /\ slotCall \in [SlotProcs -> Slots!Call \cup {NULL}]
  /\ slotReply \in [SlotProcs -> Slots!Reply \cup {NULL}]
  /\ slotGenerated \in [SlotProcs -> SUBSET Int]

LEMMA ServersTypedInit == SystemInit => ServersTyped
BY DEF SystemInit, Administration!ServersInit, Slots!ServersInit, ServersTyped

LEMMA AdminAnswersTyped ==
  ASSUME ServersTyped, NEW p \in AdminProcs, Administration!Serve(p)
  PROVE  adminReply' \in [AdminProcs -> Administration!Codes \cup {NULL}]
<1>1. ASSUME NEW code \in Administration!Codes \cup {NULL},
             adminReply' = [adminReply EXCEPT ![p] = code]
      PROVE  adminReply' \in [AdminProcs -> Administration!Codes \cup {NULL}]
  BY <1>1 DEF ServersTyped
<1>2. CASE UNCHANGED adminReply
  BY <1>2 DEF ServersTyped
<1>3. \/ UNCHANGED adminReply
      \/ \E code \in Administration!Codes \cup {NULL} :
           adminReply' = [adminReply EXCEPT ![p] = code]
  BY DEF Administration!Serve, Administration!CreateRoom,
         Administration!CreateSchedule, Administration!Exists,
         Administration!Insert, Administration!InsertUnacknowledged,
         Administration!LostInsert, Administration!DBError,
         Administration!Abandon, Administration!Answer,
         Administration!Accept, Administration!Codes
<1> QED
  BY <1>1, <1>2, <1>3

LEMMA SlotsOfDayAreInstants ==
  ASSUME Inv, NEW room, NEW date \in Int
  PROVE  Slots!SlotsOfDay(room, date) \subseteq Int
<1>1. room \in DOMAIN schedules =>
        schedules[room] \in Schedule /\ ValidSchedule(schedules[room])
  BY DEF Inv, TypeOK, StorageTypeOK
<1> QED
  BY <1>1, SameGrid, GeneratedIsWithin DEF Slots!SlotsOfDay

LEMMA ListsTyped ==
  ASSUME Inv, ListInv, ServersTyped, NEW p \in SlotProcs, Slots!Serve(p)
  PROVE  /\ slotCall' \in [SlotProcs -> Slots!Call \cup {NULL}]
         /\ slotReply' \in [SlotProcs -> Slots!Reply \cup {NULL}]
         /\ slotGenerated' \in [SlotProcs -> SUBSET Int]
<1> USE DEF ServersTyped
<1>1. ASSUME NEW room \in Rooms, NEW date \in Dates,
             Slots!ListAvailable(p, room, date)
      PROVE  /\ slotCall' \in [SlotProcs -> Slots!Call \cup {NULL}]
             /\ slotReply' \in [SlotProcs -> Slots!Reply \cup {NULL}]
             /\ slotGenerated' \in [SlotProcs -> SUBSET Int]
  BY <1>1 DEF Slots!ListAvailable, Slots!Call
<1>2. ASSUME NEW code \in Slots!Codes, NEW slots \in SUBSET Int,
             Slots!Answer(p, code, slots)
      PROVE  /\ slotReply' \in [SlotProcs -> Slots!Reply \cup {NULL}]
             /\ slotGenerated' \in [SlotProcs -> SUBSET Int]
  BY <1>2 DEF Slots!Answer, Slots!Reply
<1>3. CASE Slots!Exists(p)
  BY <1>2, <1>3 DEF Slots!Exists, Slots!Codes
<1>4. CASE Slots!GetSchedule(p)
  <2>1. slotCall[p].date \in Int
    BY <1>4, RoomBookingAssumption
    DEF Slots!GetSchedule, ListInv, ListKnows, ListCall
  <2>2. Slots!SlotsOfDay(slotCall[p].room, slotCall[p].date) \subseteq Int
    BY <2>1, SlotsOfDayAreInstants
  <2> QED
    BY <1>2, <1>4, <2>2 DEF Slots!GetSchedule, Slots!Codes
<1>5. CASE Slots!ListActiveStarts(p)
  <2>1. \A booked : slotGenerated[p] \ booked \in SUBSET Int
    OBVIOUS
  <2> QED
    BY <1>2, <1>5, <2>1 DEF Slots!ListActiveStarts, Slots!Codes
<1>6. CASE Slots!DBError(p)
  BY <1>2, <1>6 DEF Slots!DBError, Slots!Codes
<1>7. CASE Slots!Abandon(p)
  BY <1>7 DEF Slots!Abandon
<1> QED
  BY <1>1, <1>3, <1>4, <1>5, <1>6, <1>7 DEF Slots!Serve

LEMMA ServersTypedNext ==
  Inv /\ ListInv /\ ServersTyped /\ [SystemNext]_systemVars => ServersTyped'
<1> SUFFICES ASSUME Inv, ListInv, ServersTyped, [SystemNext]_systemVars
             PROVE  ServersTyped'
  OBVIOUS
<1>1. CASE UNCHANGED <<adminServers, slotServers>>
  BY <1>1 DEF adminServers, slotServers, ServersTyped
<1>2. ASSUME NEW p \in AdminProcs, ServeAdmin(p)
      PROVE  ServersTyped'
  BY <1>2, AdminAnswersTyped DEF ServeAdmin, slotServers, ServersTyped
<1>3. ASSUME NEW p \in SlotProcs, ServeSlots(p)
      PROVE  ServersTyped'
  BY <1>3, ListsTyped DEF ServeSlots, adminServers, ServersTyped
<1>4. \/ UNCHANGED <<adminServers, slotServers>>
      \/ \E p \in AdminProcs : ServeAdmin(p)
      \/ \E p \in SlotProcs : ServeSlots(p)
  BY DEF SystemNext, systemVars, ServeBooking
<1> QED
  BY <1>1, <1>2, <1>3, <1>4

\* Each service's type invariant says the same of the tables.
LEMMA SystemTypes ==
  Inv /\ AdminInv /\ ListInv /\ ServersTyped => SystemTypeOK
BY DEF Inv, TypeOK, StorageTypeOK, AdminInv, ListInv, ServersTyped,
       SystemTypeOK, Administration!TypeOK, Administration!StorageTypeOK,
       Slots!TypeOK, Slots!StorageTypeOK,
       Schedule, Administration!Schedule, Slots!Schedule,
       ISODays, Administration!ISODays, Slots!ISODays,
       Booking, Administration!Booking, Slots!Booking

(***************************************************************************)
(* Type correctness of the three services together: in particular a list   *)
(* of free slots is a set of instants, in every state of the system.       *)
(***************************************************************************)
THEOREM SystemTypeCorrect == SystemSpec => []SystemTypeOK
<1>1. SystemInit => Init /\ AdminInv /\ ListInv /\ ServersTyped
  BY AdminInit, ListInit, ServersTypedInit DEF SystemInit
<1> QED
  BY <1>1, InitInv, NextInv, AdminNext, ListNext, ServersTypedNext, SystemStep,
     SystemTypes, PTL DEF SystemSpec

=============================================================================
