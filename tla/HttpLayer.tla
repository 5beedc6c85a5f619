-------------------------------- MODULE HttpLayer --------------------------------
(***************************************************************************)
(* What a request passes on its way to a service and what comes back:      *)
(* Recover, Logging and Auth, the router and the parameter binding of the  *)
(* generated code, the decoding of the body, the handler with its own      *)
(* checks, the mapping of domain errors, and the writing of the response.  *)
(* Requests share no state here, so one at a time is followed.             *)
(*                                                                         *)
(* The services are their outcomes: what they return for an actor is       *)
(* modelled in AuthService, BookingService and the other modules.          *)
(***************************************************************************)
EXTENDS Integers, FiniteSets

CONSTANTS Users,    \* ids in valid tokens
          None

Roles == {"admin", "user"}
Actor == [user : Users, role : Roles]

Protected == {"createBooking", "listBookings", "listMy", "cancel",
              "createRoom", "listRooms", "createSchedule", "listSlots"}

\* publicPaths of the Auth middleware.
Public == {"info", "dummyLogin", "login", "register"}

Operations == Protected \cup Public

\* A path nobody serves, and a method that a path, or a public one, lacks.
Unrouted == {"noPath", "noMethod", "noPublicMethod"}

\* Operations whose wrapper binds a path or query parameter.
WithParams == {"cancel", "createSchedule", "listSlots", "listBookings"}

\* Operations whose strict handler decodes a JSON body.
WithBody == {"createBooking", "createRoom", "createSchedule",
             "dummyLogin", "login", "register"}

\* Operations whose body has an openapi_types.Email.
WithEmail == {"login", "register"}

Body == {"good", "notJSON", "badEmail", "refused"}

Request == [op : Operations \cup Unrouted,
            token : Actor \cup {None},   \* None: missing, or Parse refuses it
            paramsFit : BOOLEAN,
            body : Body]     \* refused: decoded, but the handler refuses it

DomainErrors == {"InvalidRequest", "EmailTaken", "InvalidCredentials",
                 "Forbidden", "RoomNotFound", "SlotNotFound",
                 "BookingNotFound", "SlotAlreadyBooked", "ScheduleExists"}

\* ErrorResponseErrorCode: NOT_FOUND is in the list, and nothing answers it.
ErrorCodes == {"INVALID_REQUEST", "UNAUTHORIZED", "FORBIDDEN", "NOT_FOUND",
               "ROOM_NOT_FOUND", "SLOT_NOT_FOUND", "BOOKING_NOT_FOUND",
               "SLOT_ALREADY_BOOKED", "SCHEDULE_EXISTS", "INTERNAL_ERROR"}

\* code: None for a success and for a plain text.  Messages are left out.
Response == [status : Int, code : ErrorCodes \cup {None}, json : BOOLEAN]

ASSUME HttpAssumption ==
  /\ None \notin Request \cup Response /\ None \notin Actor
  /\ None \notin DomainErrors \cup {"ok", "internal"} /\ None \notin Int

VARIABLES at,        \* the layer the request is in
          request,
          claims,    \* under ClaimsKey in the context
          outcome,   \* what the service returned, None: it was not called
          wire,      \* the response, None: there is none; the first one wins
          recorded,  \* statusRecorder.status
          broken,    \* encoding the response failed
          logged     \* the status in the log line, None: there is none

httpVars == <<at, request, claims, outcome, wire, recorded, broken, logged>>

HttpInit ==
  /\ at = "idle" /\ request = None /\ claims = None /\ outcome = None
  /\ wire = None /\ recorded = 200 /\ broken = FALSE /\ logged = None

-----------------------------------------------------------------------------
\* mapDomainError: Status
StatusOf(error) ==
  CASE error \in {"InvalidRequest", "EmailTaken"} -> 400
    [] error = "InvalidCredentials" -> 401
    [] error = "Forbidden" -> 403
    [] error \in {"RoomNotFound", "SlotNotFound", "BookingNotFound"} -> 404
    [] error \in {"SlotAlreadyBooked", "ScheduleExists"} -> 409
    [] OTHER -> 500

\* Faulty variant: the case of ErrSlotNotFound is a copy of the one before it.
CodeCopied(error) ==
  CASE error \in {"InvalidRequest", "EmailTaken"} -> "INVALID_REQUEST"
    [] error = "InvalidCredentials" -> "UNAUTHORIZED"
    [] error = "Forbidden" -> "FORBIDDEN"
    [] error \in {"RoomNotFound", "SlotNotFound"} -> "ROOM_NOT_FOUND"
    [] error = "BookingNotFound" -> "BOOKING_NOT_FOUND"
    [] error = "SlotAlreadyBooked" -> "SLOT_ALREADY_BOOKED"
    [] error = "ScheduleExists" -> "SCHEDULE_EXISTS"
    [] OTHER -> "INTERNAL_ERROR"

\* mapDomainError: Code.  A taken address has no code of its own.
CodeOf(error) ==
  CASE error \in {"InvalidRequest", "EmailTaken"} -> "INVALID_REQUEST"
    [] error = "InvalidCredentials" -> "UNAUTHORIZED"
    [] error = "Forbidden" -> "FORBIDDEN"
    [] error = "RoomNotFound" -> "ROOM_NOT_FOUND"
    [] error = "SlotNotFound" -> "SLOT_NOT_FOUND"
    [] error = "BookingNotFound" -> "BOOKING_NOT_FOUND"
    [] error = "SlotAlreadyBooked" -> "SLOT_ALREADY_BOOKED"
    [] error = "ScheduleExists" -> "SCHEDULE_EXISTS"
    [] OTHER -> "INTERNAL_ERROR"

Unlogged == UNCHANGED <<broken, logged>>

\* respond.go, and the response objects of the generated code.
JSON(status, code) == [status |-> status, code |-> code, json |-> TRUE]

\* newInternalErrorResponse, and what Recover writes.
InternalError == JSON(500, "INTERNAL_ERROR")

\* http.Error
Text(status) == [status |-> status, code |-> None, json |-> FALSE]

\* w.WriteHeader: a second call changes nothing of what the client sees.
Write(response) == wire' = IF wire = None THEN response ELSE wire

\* WriteHeader on the statusRecorder.
Send(response) == Write(response) /\ recorded' = response.status

\* Sent by a layer under Logging, which returns at once.
Refuse(response) ==
  /\ Send(response) /\ at' = "log"
  /\ UNCHANGED <<request, claims, outcome>> /\ Unlogged

Pass(next) ==
  /\ at' = next
  /\ UNCHANGED <<request, claims, outcome, wire, recorded>> /\ Unlogged

Receive(r) ==
  /\ at = "idle"
  /\ at' = "auth" /\ request' = r
  /\ UNCHANGED <<claims, outcome, wire, recorded>> /\ Unlogged

\* The middleware compares paths only.
OnPublicPath == request.op \in Public \cup {"noPublicMethod"}

\* The Auth middleware.
Auth ==
  /\ at = "auth"
  /\ \/ OnPublicPath /\ Pass("route")
     \/ /\ ~ OnPublicPath
        /\ \/ /\ request.token = None
              /\ Refuse(JSON(401, "UNAUTHORIZED"))
           \/ /\ request.token # None
              /\ claims' = request.token /\ at' = "route"
              /\ UNCHANGED <<request, outcome, wire, recorded>> /\ Unlogged

\* chi, with the routes of HandlerWithOptions.
Route ==
  /\ at = "route"
  /\ \/ request.op = "noPath" /\ Refuse(Text(404))
     \/ request.op \in {"noMethod", "noPublicMethod"} /\ Refuse(Text(405))
     \/ request.op \in Operations /\ Pass("bind")

\* ServerInterfaceWrapper: ChiServerOptions has no ErrorHandlerFunc of its own.
Bind ==
  /\ at = "bind"
  /\ IF request.op \in WithParams /\ ~ request.paramsFit
       THEN Refuse(Text(400))
       ELSE Pass("decode")

Undecodable ==
  \/ request.op \in WithBody /\ request.body = "notJSON"
  \/ request.op \in WithEmail /\ request.body = "badEmail"

\* Faulty variant: the return after the error handler is missing.
DecodeGoesOn ==
  /\ at = "decode"
  /\ at' = "handle"
  /\ IF Undecodable THEN Send(JSON(400, "INVALID_REQUEST"))
                    ELSE UNCHANGED <<wire, recorded>>
  /\ UNCHANGED <<request, claims, outcome>> /\ Unlogged

\* The strict handler's decoding, and handleStrictRequestError.
Decode ==
  /\ at = "decode"
  /\ IF Undecodable THEN Refuse(JSON(400, "INVALID_REQUEST")) ELSE Pass("handle")

-----------------------------------------------------------------------------
\* Faulty variant: the check is forgotten in PostRoomsRoomIdScheduleCreate.
RoomsOnly == {"createRoom"}

\* Operations whose handler asks for the role; the others leave it to the
\* service, or serve every role.
AdminInHandler == {"createRoom", "createSchedule"}

\* The role a service asks for, in the order it asks: before anything else.
ServiceRole(op) ==
  CASE op \in {"createBooking", "listMy", "cancel"} -> {"user"}
    [] op = "listBookings" -> {"admin"}
    [] OTHER -> Roles

\* The domain errors a service may return to an actor of the right role.
ServiceErrors(op) ==
  CASE op = "createBooking" -> {"InvalidRequest", "SlotNotFound", "SlotAlreadyBooked"}
    [] op = "listBookings" -> {"InvalidRequest"}
    [] op = "cancel" -> {"BookingNotFound", "Forbidden"}
    [] op = "createRoom" -> {"InvalidRequest"}
    [] op = "createSchedule" -> {"InvalidRequest", "RoomNotFound", "ScheduleExists"}
    [] op = "listSlots" -> {"InvalidRequest", "RoomNotFound"}
    [] op = "dummyLogin" -> {"InvalidRequest"}
    [] op = "login" -> {"InvalidCredentials"}
    [] op = "register" -> {"InvalidRequest", "EmailTaken"}
    [] OTHER -> {}

Outcomes(op) ==
  IF claims # None /\ claims.role \notin ServiceRole(op)
    THEN {"Forbidden"}
    ELSE ServiceErrors(op) \cup {"ok", "internal"}

\* What the handlers answer before they call a service.  PostRoomsCreate looks
\* at the name before the role, PostRoomsRoomIdScheduleCreate at the role
\* before the ids and days.
HandlerRefusal ==
  LET unfit == request.body = "refused"
      wrongRole == request.op \in AdminInHandler /\ claims.role # "admin"
      invalid == JSON(400, "INVALID_REQUEST")
  IN  IF request.op = "createRoom" /\ unfit THEN invalid
      ELSE IF wrongRole THEN JSON(403, "FORBIDDEN")
      ELSE IF request.op = "createSchedule" /\ unfit THEN invalid
      ELSE None

\* Faulty variant: PostRoomsRoomIdScheduleCreate has no case 409.
HandledLess(op) ==
  IF op = "createSchedule" THEN {400, 403, 404} ELSE {400, 401, 403, 404, 409}

\* The statuses the switch of a handler lets through; others become 500.
Handled(op) ==
  CASE op \in {"createBooking", "createSchedule"} -> {400, 403, 404, 409}
    [] op \in {"listBookings", "createRoom"} -> {400, 403}
    [] op = "listMy" -> {403}
    [] op = "cancel" -> {403, 404}
    [] op = "listSlots" -> {400, 404}
    [] op \in {"dummyLogin", "register"} -> {400}
    [] op = "login" -> {400, 401}
    [] OTHER -> {}

SuccessStatus(op) ==
  IF op \in {"createBooking", "createRoom", "createSchedule", "register"}
    THEN 201 ELSE 200

\* The switch on the mapped error; PostLogin makes a 400 a 401.
ErrorResponse(op, error) ==
  IF StatusOf(error) \notin Handled(op) THEN InternalError
  ELSE IF op = "login" THEN JSON(401, "UNAUTHORIZED")
  ELSE JSON(StatusOf(error), CodeOf(error))

\* The response object a handler returns.
HandlerResponse ==
  CASE outcome = "ok" -> JSON(SuccessStatus(request.op), None)
    [] outcome = None -> HandlerRefusal
    [] OTHER -> ErrorResponse(request.op, outcome)

\* The handler: it refuses, or calls its service; GetInfo has none to call.
Handle ==
  /\ at = "handle"
  /\ \/ HandlerRefusal # None /\ Pass("visit")
     \/ /\ HandlerRefusal = None
        /\ outcome' \in (IF request.op = "info" THEN {"ok"}
                                                ELSE Outcomes(request.op))
        /\ at' = "visit"
        /\ UNCHANGED <<request, claims, wire, recorded>> /\ Unlogged

\* A panic in a handler or service: Recover writes on the ResponseWriter that
\* Logging wraps, and Logging does not return.
Panic ==
  /\ at = "handle" /\ HandlerRefusal = None
  /\ Write(InternalError) /\ at' = "done"
  /\ UNCHANGED <<request, claims, outcome, recorded>> /\ Unlogged

\* Visit...Response writes the status before the body.
Visit ==
  /\ at = "visit"
  /\ Send(HandlerResponse) /\ at' = "encode"
  /\ UNCHANGED <<request, claims, outcome>> /\ Unlogged

\* Encode of the body, and handleStrictResponseError when it fails.
Encode ==
  /\ at = "encode" /\ at' = "log"
  /\ \/ broken' = FALSE /\ UNCHANGED <<wire, recorded>>
     \/ broken' = TRUE /\ Send(InternalError)
  /\ UNCHANGED <<request, claims, outcome, logged>>

\* The end of Logging.
Log ==
  /\ at = "log" /\ at' = "done"
  /\ logged' = recorded
  /\ UNCHANGED <<request, claims, outcome, wire, recorded, broken>>

NextRequest ==
  /\ at = "done"
  /\ at' = "idle" /\ request' = None /\ claims' = None /\ outcome' = None
  /\ wire' = None /\ recorded' = 200 /\ broken' = FALSE /\ logged' = None

HttpNext ==
  \/ \E r \in Request : Receive(r)
  \/ Auth \/ Route \/ Bind \/ Decode \/ Handle \/ Panic \/ Visit \/ Encode
  \/ Log \/ NextRequest

HttpSpec == HttpInit /\ [][HttpNext]_httpVars

-----------------------------------------------------------------------------
\* Whom an operation is for, from the comments of StrictServerInterface.
AllowedRoles(op) ==
  CASE op \in {"createBooking", "listMy", "cancel"} -> {"user"}
    [] op \in {"listBookings", "createRoom", "createSchedule"} -> {"admin"}
    [] OTHER -> Roles

(***************************************************************************)
(* A protected operation takes effect only for the user of a valid token   *)
(* and a role it is for, though some handlers ask for the role themselves, *)
(* some leave that to the service, and the public paths are a list apart.  *)
(***************************************************************************)
OnlyAllowedActorsAct ==
  request # None /\ request.op \in Protected /\ outcome = "ok" =>
    /\ claims # None /\ request.token = claims
    /\ claims.role \in AllowedRoles(request.op)

(***************************************************************************)
(* The client sees success exactly when the service had it: no layer that  *)
(* refused a request lets it through, no failure is reported as done.  The *)
(* log line, when there is one and the response could be encoded, has the  *)
(* status that the client saw: no layer writes a second one.               *)
(***************************************************************************)
SuccessMeansDone ==
  at = "done" =>
    /\ wire.status \in {200, 201} <=> outcome = "ok"
    /\ logged # None /\ ~ broken => logged = wire.status

\* What api.yaml lets a client read from a status and a code, in the words of
\* the services.  Its 400 of /register is for both an invalid request and an
\* address that is taken.
Meaning(status, code) ==
  CASE status \in {200, 201} /\ code = None -> {"ok"}
    [] status = 400 /\ code = "INVALID_REQUEST" -> {"InvalidRequest", "EmailTaken"}
    [] status = 401 /\ code = "UNAUTHORIZED" -> {"InvalidCredentials"}
    [] status = 403 /\ code = "FORBIDDEN" -> {"Forbidden"}
    [] status = 404 /\ code = "ROOM_NOT_FOUND" -> {"RoomNotFound"}
    [] status = 404 /\ code = "SLOT_NOT_FOUND" -> {"SlotNotFound"}
    [] status = 404 /\ code = "BOOKING_NOT_FOUND" -> {"BookingNotFound"}
    [] status = 409 /\ code = "SLOT_ALREADY_BOOKED" -> {"SlotAlreadyBooked"}
    [] status = 409 /\ code = "SCHEDULE_EXISTS" -> {"ScheduleExists"}
    [] status = 500 /\ code = "INTERNAL_ERROR" -> {"internal"}
    [] OTHER -> {}

\* The responses api.yaml lists for each operation.
Documented(op) ==
  CASE op \in {"createBooking", "createSchedule"} ->
         {201, 400, 401, 403, 404, 409, 500}
    [] op = "createRoom" -> {201, 400, 401, 403, 500}
    [] op = "listBookings" -> {200, 400, 401, 403, 500}
    [] op = "listMy" -> {200, 401, 403, 500}
    [] op = "cancel" -> {200, 401, 403, 404, 500}
    [] op = "listRooms" -> {200, 401, 500}
    [] op = "listSlots" -> {200, 400, 401, 404, 500}
    [] op = "dummyLogin" -> {200, 400, 500}
    [] op = "login" -> {200, 401, 500}
    [] op = "register" -> {201, 400, 500}
    [] OTHER -> {200}

(***************************************************************************)
(* Whatever a service returns, the status and the code tell the client     *)
(* which outcome it was, and the status is one that api.yaml lists for the *)
(* operation; only failures of the infrastructure become a 500.  The one   *)
(* exception is an address that is taken: it has status and code of an     *)
(* invalid request, and only the message differs.  Four tables must agree: *)
(* the errors of the services, the mapping with its statuses and codes,    *)
(* the cases of each handler, and api.yaml.                                *)
(***************************************************************************)
ErrorsKeepTheirMeaning ==
  at = "done" /\ outcome # None =>
    /\ outcome \in Meaning(wire.status, wire.code)
    /\ wire.status \in Documented(request.op)

=============================================================================
