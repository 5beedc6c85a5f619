----------------------- MODULE RoomAdministrationProofs -----------------------
(***************************************************************************)
(* Rooms and schedules: answers stay true, a room gets one schedule, and   *)
(* reference data stays, for any number of goroutines, rooms and bodies.   *)
(*                                                                         *)
(* The invariant says what a goroutine knows between its statements: the   *)
(* request it serves, and that a schedule it goes on with is valid.        *)
(***************************************************************************)
EXTENDS RoomAdministration, TLAPS

\* What the step, the request and the answer of one goroutine have to do
\* with one another.
Fits(step, c, r) ==
  /\ step # "idle" => c \in Call /\ r = NULL
  /\ step \in {"InsertRoom", "LostInsertRoom"} => c.op = "room"
  /\ step \in {"Exists", "InsertSchedule", "LostInsertSchedule"} =>
       /\ c.op = "schedule"
       /\ c.schedule \in ScheduleRequests /\ ValidSchedule(c.schedule)
  /\ r # NULL => c \in Call

Inv ==
  /\ TypeOK
  /\ \A p \in Procs : Fits(pc[p], call[p], reply[p])
  /\ AnswersHold
  /\ OneScheduleCreated

\* Rooms appear, and rooms get schedules; nothing goes or changes.
Grows ==
  /\ rooms \subseteq rooms'
  /\ \A room \in DOMAIN schedules :
       room \in DOMAIN schedules' /\ schedules'[room] = schedules[room]

\* That an answer is true of the tables after the step, and of a schedule
\* that is created that the room had none.
TrueThen(c, r) ==
  /\ r = "created" /\ c.op = "room" => c.room \in rooms'
  /\ r = "created" /\ c.op = "schedule" =>
       /\ c.room \notin DOMAIN schedules
       /\ c.room \in DOMAIN schedules'
       /\ schedules'[c.room] = c.schedule
  /\ r = "SCHEDULE_EXISTS" /\ c.op = "schedule" => c.room \in DOMAIN schedules'

\* The initial states satisfy the invariant.
LEMMA InitInv == Init => Inv
<1> SUFFICES ASSUME Init PROVE Inv
  OBVIOUS
<1>1. StorageTypeOK
  BY DEF Init, StorageInit, StorageTypeOK
<1>2. TypeOK
  BY <1>1 DEF Init, ServersInit, TypeOK, Steps
<1>3. \A p \in Procs : Fits(pc[p], call[p], reply[p])
  BY DEF Init, ServersInit, Fits
<1>4. AnswersHold /\ OneScheduleCreated
  BY NoCodeAssumption
  DEF Init, ServersInit, AnswersHold, OneScheduleCreated, Got, Codes
<1> QED
  BY <1>2, <1>3, <1>4 DEF Inv

\* One goroutine moves, on tables that only grow: the invariant is kept if
\* its own step, request and answer fit and the answer is true.
LEMMA Move ==
  ASSUME Inv, StorageTypeOK', Grows, NEW p \in Procs,
         NEW step \in Steps, NEW c \in Call \cup {NULL},
         NEW r \in Codes \cup {NULL},
         pc' = [pc EXCEPT ![p] = step],
         call' = [call EXCEPT ![p] = c],
         reply' = [reply EXCEPT ![p] = r],
         Fits(step, c, r), TrueThen(c, r)
  PROVE  Inv'
<1>1. /\ pc' \in [Procs -> Steps] /\ call' \in [Procs -> Call \cup {NULL}]
      /\ reply' \in [Procs -> Codes \cup {NULL}]
      /\ pc'[p] = step /\ call'[p] = c /\ reply'[p] = r
  BY DEF Inv, TypeOK
<1>2. \A q \in Procs \ {p} :
        pc'[q] = pc[q] /\ call'[q] = call[q] /\ reply'[q] = reply[q]
  BY DEF Inv, TypeOK
<1>3. TypeOK'
  BY <1>1 DEF TypeOK
<1>4. \A q \in Procs : Fits(pc'[q], call'[q], reply'[q])
  BY <1>1, <1>2 DEF Inv
<1>5. AnswersHold'
  <2> SUFFICES ASSUME NEW q \in Procs
               PROVE  /\ Got(q, "room", "created")' => call'[q].room \in rooms'
                      /\ Got(q, "schedule", "created")' =>
                           /\ call'[q].room \in DOMAIN schedules'
                           /\ schedules'[call'[q].room] = call'[q].schedule
                      /\ Got(q, "schedule", "SCHEDULE_EXISTS")' =>
                           call'[q].room \in DOMAIN schedules'
    BY DEF AnswersHold
  <2>1. CASE q = p
    BY <2>1, <1>1 DEF Got, TrueThen
  <2>2. CASE q # p
    BY <2>2, <1>2 DEF Got, Grows, Inv, AnswersHold
  <2> QED
    BY <2>1, <2>2
<1>6. OneScheduleCreated'
  <2> SUFFICES ASSUME NEW q \in Procs, NEW o \in Procs, q # o,
                      Got(q, "schedule", "created")',
                      Got(o, "schedule", "created")'
               PROVE  call'[q].room # call'[o].room
    BY DEF OneScheduleCreated
  <2>1. \A x \in Procs \ {p} : Got(x, "schedule", "created")' =>
          Got(x, "schedule", "created") /\ call'[x].room \in DOMAIN schedules
    BY <1>2 DEF Got, Inv, AnswersHold
  <2>2. Got(p, "schedule", "created")' => call'[p].room \notin DOMAIN schedules
    BY <1>1 DEF Got, TrueThen
  <2>3. CASE q = p \/ o = p
    BY <2>1, <2>2, <2>3
  <2>4. CASE q # p /\ o # p
    BY <2>1, <2>4, <1>2 DEF Inv, OneScheduleCreated
  <2> QED
    BY <2>3, <2>4
<1> QED
  BY <1>3, <1>4, <1>5, <1>6 DEF Inv

\* A goroutine that keeps its request.
LEMMA Goes ==
  ASSUME Inv, StorageTypeOK', Grows, NEW p \in Procs, UNCHANGED call,
         pc[p] # "idle",
         \/ \E code \in Codes : Answer(p, code) /\ TrueThen(call[p], code)
         \/ /\ UNCHANGED reply
            /\ \/ Goto(p, "idle")
               \/ pc[p] = "InsertRoom" /\ Goto(p, "LostInsertRoom")
               \/ pc[p] \in {"Exists", "InsertSchedule"}
                    /\ \/ Goto(p, "InsertSchedule")
                       \/ Goto(p, "LostInsertSchedule")
  PROVE  Inv'
<1>1. /\ call[p] \in Call /\ reply[p] = NULL
      /\ Fits(pc[p], call[p], reply[p])
      /\ call' = [call EXCEPT ![p] = call[p]]
  BY DEF Inv, TypeOK, Fits
<1>2. ASSUME NEW code \in Codes, Answer(p, code), TrueThen(call[p], code)
      PROVE  Inv'
  <2>1. Fits("idle", call[p], code)
    BY <1>1 DEF Fits
  <2> QED
    BY <1>1, <1>2, <2>1, Move DEF Answer, Goto, Steps
<1>3. ASSUME UNCHANGED reply, NEW step \in Steps, Goto(p, step),
             \/ step = "idle"
             \/ pc[p] = "InsertRoom" /\ step = "LostInsertRoom"
             \/ pc[p] \in {"Exists", "InsertSchedule"}
                  /\ step \in {"InsertSchedule", "LostInsertSchedule"}
      PROVE  Inv'
  <2>1. reply' = [reply EXCEPT ![p] = NULL]
    BY <1>1, <1>3 DEF Inv, TypeOK
  <2>2. Fits(step, call[p], NULL)
    BY <1>1, <1>3 DEF Fits
  <2>3. TrueThen(call[p], NULL)
    BY NoCodeAssumption DEF TrueThen, Codes
  <2> QED
    BY <1>1, <1>3, <2>1, <2>2, <2>3, Move DEF Goto
<1> QED
  BY <1>2, <1>3 DEF Steps

\* A goroutine that takes a request, on tables that stay as they are.
LEMMA Takes ==
  ASSUME Inv, UNCHANGED <<now, tables>>, NEW p \in Procs, NEW c \in Call,
         Receive(p, c),
         \/ Answer(p, "INVALID_REQUEST") \/ Answer(p, "FORBIDDEN")
         \/ c.op = "room" /\ Accept(p, "InsertRoom")
         \/ /\ c.op = "schedule" /\ c.schedule \in ScheduleRequests
            /\ ValidSchedule(c.schedule)
            /\ Accept(p, "Exists")
  PROVE  Inv'
<1>1. StorageTypeOK' /\ Grows
  BY DEF Inv, TypeOK, StorageTypeOK, Grows, tables
<1>2. ASSUME NEW code \in {"INVALID_REQUEST", "FORBIDDEN"}, Answer(p, code)
      PROVE  Inv'
  <2>1. Fits("idle", c, code) /\ TrueThen(c, code)
    BY <1>2 DEF Fits, TrueThen
  <2> QED
    BY <1>1, <1>2, <2>1, Move DEF Answer, Goto, Receive, Steps, Codes
<1>3. ASSUME NEW step \in {"InsertRoom", "Exists"}, Accept(p, step),
             step = "InsertRoom" => c.op = "room",
             step = "Exists" => /\ c.op = "schedule"
                                /\ c.schedule \in ScheduleRequests
                                /\ ValidSchedule(c.schedule)
      PROVE  Inv'
  <2>1. Fits(step, c, NULL)
    BY <1>3 DEF Fits
  <2>2. TrueThen(c, NULL)
    BY NoCodeAssumption DEF TrueThen, Codes
  <2> QED
    BY <1>1, <1>3, <2>1, <2>2, Move DEF Accept, Goto, Receive, Steps
<1> QED
  BY <1>2, <1>3

\* A body that has been validated is a row of table schedules.
LEMMA ValidIsSchedule ==
  ASSUME NEW s \in ScheduleRequests, ValidSchedule(s)
  PROVE  s \in Schedule
<1>1. s \in [days : SUBSET Int, startTime : Int, endTime : Int]
  BY RoomAdministrationAssumption
<1>2. s.days \subseteq ISODays /\ s.startTime \in Nat /\ s.endTime \in Nat
  BY SlotGridAssumption DEF ValidSchedule, ValidDays, ValidWindow, ISODays, DayLength
<1> QED
  BY <1>1, <1>2 DEF Schedule

\* What an insert does to the tables.
LEMMA RowInsertedGrows ==
  ASSUME Inv, NEW p \in Procs, RowInserted(p), UNCHANGED now
  PROVE  StorageTypeOK' /\ Grows /\ TrueThen(call[p], "created")
<1>1. StorageTypeOK /\ Fits(pc[p], call[p], reply[p])
  BY DEF Inv, TypeOK
<1>2. CASE /\ pc[p] \in {"InsertRoom", "LostInsertRoom"}
           /\ InsertRoom(call[p].room)
  <2>1. call[p] \in Call /\ call[p].op = "room" /\ call[p].room \in Rooms
    BY <1>1, <1>2 DEF Fits, Call
  <2>2. StorageTypeOK' /\ Grows
    BY <1>1, <1>2, <2>1 DEF StorageTypeOK, Grows, InsertRoom
  <2>3. TrueThen(call[p], "created")
    BY <1>2, <2>1 DEF TrueThen, InsertRoom
  <2> QED
    BY <2>2, <2>3
<1>3. CASE /\ pc[p] \in {"InsertSchedule", "LostInsertSchedule"}
           /\ InsertSchedule(call[p].room, call[p].schedule)
  <2> DEFINE room == call[p].room
             s == call[p].schedule
  <2>1. call[p].op = "schedule" /\ room \in Rooms /\ s \in Schedule
    BY <1>1, <1>3, ValidIsSchedule DEF Fits, Call
  <2>2. /\ room \notin DOMAIN schedules
        /\ schedules' = InsertRow(schedules, room, s)
        /\ UNCHANGED <<rooms, bookings>>
    BY <1>3 DEF InsertSchedule
  <2> HIDE DEF room, s
  <2>3. /\ DOMAIN schedules' = DOMAIN schedules \cup {room}
        /\ schedules'[room] = s
        /\ \A k \in DOMAIN schedules : schedules'[k] = schedules[k]
    BY <2>2 DEF InsertRow
  <2>4. schedules' \in [DOMAIN schedules' -> Schedule]
    BY <1>1, <2>1, <2>2, <2>3 DEF StorageTypeOK, InsertRow
  <2>5. StorageTypeOK' /\ Grows
    BY <1>1, <2>1, <2>2, <2>3, <2>4 DEF StorageTypeOK, Grows
  <2>6. TrueThen(call[p], "created")
    BY <2>1, <2>2, <2>3 DEF TrueThen, room, s
  <2> QED
    BY <2>5, <2>6
<1> QED
  BY <1>2, <1>3 DEF RowInserted

LEMMA TablesStay ==
  ASSUME Inv, UNCHANGED <<now, tables>>
  PROVE  StorageTypeOK' /\ Grows
BY DEF Inv, TypeOK, StorageTypeOK, Grows, tables

\* Every action keeps the invariant, and lets the tables only grow.
LEMMA ServeStep ==
  ASSUME Inv, NEW p \in Procs, Serve(p)
  PROVE  Inv' /\ Grows
<1>1. ASSUME NEW u \in Users, NEW room \in Rooms,
             NEW flaw \in {"none", "name", "capacity"},
             CreateRoom(p, u, room, flaw)
      PROVE  Inv' /\ Grows
  <2> DEFINE c == [op |-> "room", user |-> u, room |-> room, schedule |-> NULL]
  <2>1. c \in Call /\ c.op = "room"
    BY DEF Call
  <2>2. /\ UNCHANGED <<now, tables>> /\ Receive(p, c)
        /\ \/ Answer(p, "INVALID_REQUEST") \/ Answer(p, "FORBIDDEN")
           \/ Accept(p, "InsertRoom")
    BY <1>1 DEF CreateRoom
  <2> HIDE DEF c
  <2> QED
    BY <2>1, <2>2, Takes, TablesStay
<1>2. ASSUME NEW u \in Users, NEW room \in Rooms, NEW bodyRoom \in Rooms,
             NEW s \in ScheduleRequests,
             CreateSchedule(p, u, room, bodyRoom, s)
      PROVE  Inv' /\ Grows
  <2> DEFINE c == [op |-> "schedule", user |-> u, room |-> room, schedule |-> s]
  <2>1. /\ c \in Call /\ c.op = "schedule"
        /\ c.schedule = s /\ c.schedule \in ScheduleRequests
    BY DEF Call
  <2>2. /\ UNCHANGED <<now, tables>> /\ Receive(p, c)
        /\ \/ Answer(p, "INVALID_REQUEST") \/ Answer(p, "FORBIDDEN")
           \/ ValidSchedule(s) /\ Accept(p, "Exists")
    BY <1>2 DEF CreateSchedule
  <2> HIDE DEF c
  <2> QED
    BY <2>1, <2>2, Takes, TablesStay
<1>3. CASE Exists(p)
  <2>1. /\ pc[p] = "Exists" /\ UNCHANGED <<now, tables>> /\ UNCHANGED call
        /\ \/ Goto(p, "InsertSchedule") /\ UNCHANGED reply
           \/ Answer(p, "ROOM_NOT_FOUND")
    BY <1>3 DEF Exists
  <2>2. TrueThen(call[p], "ROOM_NOT_FOUND") /\ "ROOM_NOT_FOUND" \in Codes
    BY DEF TrueThen, Codes
  <2> QED
    BY <2>1, <2>2, Goes, TablesStay
<1>4. CASE Insert(p)
  <2>1. /\ UNCHANGED now /\ UNCHANGED call
        /\ pc[p] \in {"InsertRoom", "InsertSchedule"}
        /\ "created" \in Codes /\ "SCHEDULE_EXISTS" \in Codes
    BY <1>4 DEF Insert, Codes
  <2>2. CASE RowInserted(p) /\ Answer(p, "created")
    BY <2>1, <2>2, RowInsertedGrows, Goes
  <2>3. CASE /\ pc[p] = "InsertSchedule"
             /\ call[p].room \in DOMAIN schedules
             /\ Answer(p, "SCHEDULE_EXISTS")
             /\ UNCHANGED tables
    <3>1. StorageTypeOK' /\ Grows
      BY <2>1, <2>3, TablesStay
    <3>2. TrueThen(call[p], "SCHEDULE_EXISTS")
      BY <2>3, <3>1 DEF TrueThen, Grows
    <3> QED
      BY <2>1, <2>3, <3>1, <3>2, Goes
  <2> QED
    BY <1>4, <2>2, <2>3 DEF Insert
<1>5. CASE InsertUnacknowledged(p)
  <2>1. /\ UNCHANGED now /\ UNCHANGED call
        /\ pc[p] \in {"InsertRoom", "InsertSchedule"}
        /\ RowInserted(p) /\ Answer(p, "INTERNAL_ERROR")
    BY <1>5 DEF InsertUnacknowledged
  <2>2. TrueThen(call[p], "INTERNAL_ERROR") /\ "INTERNAL_ERROR" \in Codes
    BY DEF TrueThen, Codes
  <2> QED
    BY <2>1, <2>2, RowInsertedGrows, Goes
<1>6. CASE LostInsert(p)
  <2>1. /\ UNCHANGED now /\ UNCHANGED call /\ UNCHANGED reply
        /\ pc[p] # "idle" /\ Goto(p, "idle")
        /\ RowInserted(p) \/ UNCHANGED tables
    BY <1>6 DEF LostInsert
  <2>2. StorageTypeOK' /\ Grows
    BY <2>1, RowInsertedGrows, TablesStay
  <2> QED
    BY <2>1, <2>2, Goes
<1>7. CASE DBError(p)
  <2>1. /\ UNCHANGED <<now, tables>> /\ UNCHANGED call
        /\ pc[p] # "idle" /\ Answer(p, "INTERNAL_ERROR")
    BY <1>7 DEF DBError
  <2>2. TrueThen(call[p], "INTERNAL_ERROR") /\ "INTERNAL_ERROR" \in Codes
    BY DEF TrueThen, Codes
  <2> QED
    BY <2>1, <2>2, TablesStay, Goes
<1>8. CASE Abandon(p)
  <2>1. /\ UNCHANGED <<now, tables>> /\ UNCHANGED call /\ UNCHANGED reply
        /\ pc[p] # "idle"
        /\ \/ Goto(p, "idle")
           \/ pc[p] = "InsertRoom" /\ Goto(p, "LostInsertRoom")
           \/ pc[p] = "InsertSchedule" /\ Goto(p, "LostInsertSchedule")
    BY <1>8 DEF Abandon
  <2> QED
    BY <2>1, TablesStay, Goes
<1> QED
  BY <1>1, <1>2, <1>3, <1>4, <1>5, <1>6, <1>7, <1>8 DEF Serve

LEMMA StepInv == Inv /\ [Next]_vars => Inv' /\ Grows
<1> SUFFICES ASSUME Inv, [Next]_vars PROVE Inv' /\ Grows
  OBVIOUS
<1>1. CASE Next
  BY <1>1, ServeStep DEF Next
<1>2. CASE UNCHANGED vars
  BY <1>2 DEF vars, Inv, TypeOK, StorageTypeOK, AnswersHold,
              OneScheduleCreated, Got, Grows
<1> QED
  BY <1>1, <1>2

-----------------------------------------------------------------------------
\* The invariant holds in every state, in which RoomService, ScheduleService
\* and their handlers may be.
THEOREM Invariance == Spec => []Inv
<1> QED
  BY InitInv, StepInv, PTL DEF Spec

\* Type correctness of rooms, schedules and the goroutines.
THEOREM TypeCorrect == Spec => []TypeOK
<1>1. Inv => TypeOK
  BY DEF Inv
<1> QED
  BY <1>1, Invariance, PTL

\* What the clients of RoomService and ScheduleService are told stays true.
THEOREM AnswersHoldAlways == Spec => []AnswersHold
<1>1. Inv => AnswersHold
  BY DEF Inv
<1> QED
  BY <1>1, Invariance, PTL

\* At most one client is told that it created the schedule of a room.
THEOREM OneScheduleCreatedAlways == Spec => []OneScheduleCreated
<1>1. Inv => OneScheduleCreated
  BY DEF Inv
<1> QED
  BY <1>1, Invariance, PTL

\* Rooms and schedules never go or change, so that what a service has read of
\* them in an earlier statement is still so.
THEOREM ReferenceDataStaysAlways == Spec => ReferenceDataStays
<1>1. Inv /\ [Next]_vars =>
        [/\ rooms \subseteq rooms'
         /\ \A room \in DOMAIN schedules :
              room \in DOMAIN schedules' /\ schedules'[room] = schedules[room]]_vars
  BY StepInv DEF Grows
<1> QED
  BY <1>1, Invariance, PTL DEF Spec, ReferenceDataStays

=============================================================================
