------------------------------ MODULE RoomBooking ------------------------------
(***************************************************************************)
(* The services on one database: the goroutines of BookingService, those   *)
(* of RoomAdministration in place of its environment, and those of         *)
(* SlotService.  They share nothing but the tables and the clock.          *)
(***************************************************************************)
EXTENDS BookingService

CONSTANTS AdminProcs,   \* goroutines serving RoomAdministration
          SlotProcs,    \* goroutines serving SlotService
          Dates         \* dates asked for in slot lists

ASSUME RoomBookingAssumption == Dates \subseteq Int

VARIABLES adminPc, adminCall, adminReply,
          slotPc, slotCall, slotReply, slotGenerated

bookingServers == <<pc, call, reply>>
adminServers == <<adminPc, adminCall, adminReply>>
slotServers == <<slotPc, slotCall, slotReply, slotGenerated>>

systemVars == <<now, rooms, schedules, bookings,
                bookingServers, adminServers, slotServers>>

Administration == INSTANCE RoomAdministration WITH
  Procs <- AdminProcs, ScheduleRequests <- ScheduleInputs,
  pc <- adminPc, call <- adminCall, reply <- adminReply

Slots == INSTANCE SlotService WITH
  Procs <- SlotProcs,
  pc <- slotPc, call <- slotCall, reply <- slotReply,
  generated <- slotGenerated

SystemTypeOK == TypeOK /\ Administration!TypeOK /\ Slots!TypeOK

SystemInit == Init /\ Administration!ServersInit /\ Slots!ServersInit

ServeBooking(p) == Serve(p) /\ UNCHANGED <<adminServers, slotServers>>

ServeAdmin(p) ==
  Administration!Serve(p) /\ UNCHANGED <<bookingServers, slotServers>>

ServeSlots(p) ==
  Slots!Serve(p) /\ UNCHANGED <<bookingServers, adminServers>>

SystemNext ==
  \/ Tick /\ UNCHANGED <<adminServers, slotServers>>
  \/ \E p \in Procs : ServeBooking(p)
  \/ \E p \in AdminProcs : ServeAdmin(p)
  \/ \E p \in SlotProcs : ServeSlots(p)

SystemSpec == SystemInit /\ [][SystemNext]_systemVars

-----------------------------------------------------------------------------
(***************************************************************************)
(* To the booking service, the administration is the environment it was    *)
(* specified with: rooms and schedules appear, and nothing else happens to *)
(* them.  So all that holds of BookingService holds of the system.         *)
(***************************************************************************)
ImplementsBookingService == Spec

\* See SlotService: here the other services run while a list is made.
ListsAreSnapshots == Slots!ListingIsSnapshot

IsTold(p, code) ==
  reply[p] = NULL /\ reply'[p] # NULL /\ reply'[p].code = code

(***************************************************************************)
(* What a create request is told is what a list of slots made at that      *)
(* instant shows: 201 for a slot that is listed, 409 for one that is in    *)
(* the schedule but not listed, SLOT_NOT_FOUND for anything else.          *)
(* The two services use different algorithms on different reads.           *)
(***************************************************************************)
AnswersMatchList ==
  [][\A p \in Procs :
       LET room == call[p].room
           start == call[p].start
           listed == Slots!FreeSlots(room, start)
           possible == Slots!SlotsOfDay(room, start)
       IN  /\ IsTold(p, "created") => start \in listed
           /\ IsTold(p, "SLOT_ALREADY_BOOKED") => start \in possible \ listed
           /\ IsTold(p, "SLOT_NOT_FOUND") => start \notin possible]_systemVars

(***************************************************************************)
(* A slot that a client has seen in a list is a slot for ever: a request   *)
(* for it may come too late, but is never told that there is no such slot. *)
(***************************************************************************)
ListedIsNeverUnknown ==
  [][\A p \in Procs, l \in SlotProcs :
       IsTold(p, "SLOT_NOT_FOUND") /\ slotReply[l] # NULL =>
         \/ slotCall[l].room # call[p].room
         \/ call[p].start \notin slotReply[l].slots]_systemVars

=============================================================================
