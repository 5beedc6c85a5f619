# A formal model of room-booking

This directory specifies the room booking API in TLA+: the services of
`internal/service`, the repositories and tables they run on, the migrations, the
process around them, and what clients may rely on when requests run at the same
time, fail, or are cut off. TLC checks the modules on small instances; TLAPS
proves the main results for all sizes. Paths below are relative to the repository.

## The system

An HTTP server (`cmd/api/main.go`) with no state of its own serves every request
in a goroutine. Middleware and generated code admit and decode it, handlers
(`internal/transport/http`) take the user and the role from the token, call a
service (`internal/service`), and map its domain error to a status. Services call
repositories (`internal/storage/postgres`); every call is one autocommitted SQL
statement on a pooled connection. So the only shared state of requests is the
database, a service is a sequence of statements with other requests in between,
and what protects the data is the constraints of `migrations/*.sql`. Before it
serves, an instance runs the migrations in one transaction.

| component | state | operations | what makes it correct |
|---|---|---|---|
| slot grid (`slot_generator.go`, `validateScheduleWindow`) | none | generate the slots of a day, check a start, validate a schedule | generator and check agree; distinct grid starts are a slot apart; the loop ends |
| tables and repositories (`storage/postgres`, migrations 001, 002) | users, rooms, schedules, bookings | inserts, the update of cancel, reads | constraints and the partial unique index |
| booking service | requests under way | create, cancel, a user's list, the paged list of all | no overlap, bookings are slots, answers stay true, only owners cancel, lists miss nothing they owe |
| room and schedule administration | requests under way | create a room, create a schedule | one schedule per room, never changed; only admins |
| slot service | the slots generated by a list under way | list free slots | a list is a snapshot and agrees with what bookings are told |
| authentication (`auth_service.go`, `internal/auth`, `middleware/auth.go`) | users, tokens | register, login, dummy login, admit a request | one account per mailbox, a token names a user and its role |
| migrations (`migrate.go`) | applied versions, open transactions | run at start | all or nothing, several instances at once |
| server lifecycle, pool, configuration (`main.go`, `db.go`, `config.go`) | phase of the process, connections, the pool | start, serve, shut down | running requests get ten seconds; a signal ends the process |
| HTTP layer and generated API | one request | admit, route, bind, decode, handle, map errors, write, log | only those act who may; errors keep their meaning |

What is hard here, and where, is the list `hazards` of `PROJECT.json`: data read
in one statement and used in a later one; the index on equal starts that stands
for "no overlap"; commits whose acknowledgement is lost; lists made from two or
three reads; two algorithms for one grid; a unique constraint on text that has
several spellings; instances that migrate at once and die on the way; a shutdown
that gives up after ten seconds; tables of errors that must agree.

## Modules

```
SlotGrid                 pure functions of the grid
  SlotGenerator          the loop of GenerateSlotsForDate, step by step
  Storage                tables, constraints, statements
    BookingTable         the table under any SQL client
    RoomAdministration   rooms and schedules
    SlotService          lists of free slots
    BookingListing       a user's bookings; all bookings, page by page
    BookingService       create and cancel;  implements RoomCalendar
      RoomBooking        the three services together;  implements BookingService
RoomCalendar             what the booking service promises
AuthService              accounts, logins, tokens
Migrations               instances that migrate one database
ServerLifecycle          one process: start, requests, pool, stop
HttpLayer                one request from the socket to the service and back
```

- **SlotGrid.** Time is counted in ticks from a Monday midnight UTC.
  `SlotDuration` ticks make a slot and `SlotsPerDay` slots a day; with 30 and 48 a
  tick is a minute. With a slot of two ticks there are starts off the grid. A
  schedule is a set of ISO weekdays and two times of day in ticks; `parseHHMM`
  appears as the range it accepts, so a window never ends at midnight.
- **SlotGenerator.** Control points, cursor and result of the Go loop. Its
  theorem justifies that the other modules use the set `GenerateSlotsForDate`.
- **Storage.** A table with a unique key is a function from that key. Insert and
  update operators carry the check constraints, the foreign keys, the primary key
  and `SlotTaken`, the condition under which
  `bookings_one_active_per_room_start_idx` refuses a row. Names, descriptions and
  conference links are left out: no property is about them.
- **BookingService.** `pc[p]` is the statement goroutine `p` runs next:
  `Create` → `GetSchedule` → `Insert`, and `Cancel` → `GetByID` → `Update`. The
  code between two statements belongs to the action of the first. The clock and
  the role are looked at when the request arrives (`Create`, `Cancel`), as in the
  code. Faults: a statement fails (`DBError`, 500); it commits and the answer is
  lost (`InsertUnacknowledged`, `UpdateUnacknowledged`, 500); the client goes away
  or the process dies (`Abandon`), after which a write already sent may still
  commit or not (`LostInsert`, `LostUpdate`). A process that starts again finds
  the same tables and idle goroutines, so a crash is an `Abandon` of all. Rooms
  and schedules come from `AddRoom` and `AddSchedule`.
- **RoomCalendar** is the abstract specification: a ledger of bookings, the
  released ones, and for each client a wish, whether it is pending, and the
  answer. A booking is entered or released in one step between request and answer,
  never when it overlaps an unreleased booking; "taken" is only answered while one
  stands in the way; one's own booking can always be released.
- **BookingListing.** `ListMy` takes the clock and then reads; `ListAll` counts in
  one statement and reads a page in another, in no transaction. Creates and
  cancels are reduced to the statements that count: `SendInsert` fixes
  `created_at`, `CommitInsert` makes the row visible later. `PagesAt` is
  `order by created_at desc limit offset` with rows of one age in any order,
  `Offset` wraps as an int does. `told` is what clients of bookings were answered
  and `walk` what a client that reads page after page has put together; neither
  influences the system.
- **RoomAdministration.** `RoomService.Create` and `ScheduleService.Create` with
  their handlers, which hold the admin check; the same faults.
- **SlotService.** Three reads, each a step; `generated` is the local variable
  between the last two.
- **RoomBooking** puts the goroutines of the three services on one database.
- **BookingTable** has no service: any row the constraints admit.
- **AuthService.** An e-mail address is a spelling and `Normal` what
  `normalizeEmail` makes of it; bcrypt is a function `Digest`, of which nothing is
  assumed, not even that it is injective. Registration validates,
  hashes and inserts; the 23505 of `users.email` becomes `domain.ErrEmailTaken`,
  EMAIL_TAKEN in the model, which the handler answers with 400 INVALID_REQUEST and a
  message of its own (see HttpLayer). A token is its claims with an expiry;
  signatures are not forged. The faults are those of `BookingService`.
  `acknowledged` in a login is what clients knew of registrations when it was sent.
- **Migrations.** Every instance works in one transaction: `Ensure` the table,
  `Load` the versions, then `Exec` and `Record` file by file, `Commit`. Transactions
  see what is committed when their statement runs, and a statement that collides
  with an uncommitted one waits. A crash leaves its transaction with the server
  until that notices (`Abort`), or carries out a commit already sent (`LateCommit`).
  Releases differ in the files they carry; files 001 and 002 fail when run twice,
  003 does not.
- **ServerLifecycle.** The steps of `main`, the goroutine of `ListenAndServe`, and
  the connections of clients, whose requests wait for their body, for a pooled
  connection and for the database. `log.Fatalf` skips the deferred `db.Close`;
  `Shutdown` returns when no connection is left or the ten seconds are over
  (`Expire`); `db.Close` waits for connections in use. net/http and pgxpool are
  modelled from how `main` uses them.
- **HttpLayer.** `Auth` → `Route` → `Bind` → `Decode` → `Handle` → `Visit` →
  `Encode` → `Log`, with the tables of the code at each layer: public paths,
  operations with parameters and bodies, role checks of handlers and of services,
  the errors each service returns, the statuses and the codes of `mapDomainError`
  (`StatusOf`, `CodeOf`), and the cases of each handler. Messages are left out.
  A service is the set of its outcomes for the role it is called with. Requests
  share nothing in this layer, so one is followed at a time.

Operators called "Faulty variant" are not part of the specifications. They are
deliberate mistakes, each a mutated form of the definition after it, on which the
runs must fail (`mutants` in `PROJECT.json`).

## Runs

| run | configuration | shows |
|---|---|---|
| `booking_safety` | `MCBookingService.cfg` | `NoOverlap`, `EveryBookingIsASlot`, `RepliesHold`, `RowsOnlyCancelled`, `OnlyOwnerCancels` |
| `booking_calendar` | `MCBookingCalendar.cfg` | `BookingService` implements `RoomCalendar` |
| `slot_generator` | `MCSlotGenerator.cfg` | the loop ends, collects the set, agrees with the check |
| `room_administration` | `MCRoomAdministration.cfg` | one schedule per room, answers that stay true, immutable reference data |
| `room_booking` | `MCRoomBooking.cfg` | lists are snapshots; bookings are told what a list of that instant shows; a listed slot is never unknown; the system implements `BookingService` |
| `booking_listing` | `MCBookingListing.cfg` | a page never holds fewer items than its total says; a walk over the pages misses no booking that was there at its start; a user's list keeps what the user was told |
| `auth` | `MCAuthService.cfg` | one account per mailbox; a 201 stays true and its password works in every spelling; tokens name users; a login needs the password; accounts never change |
| `migrations` | `MCMigrations.cfg` | `schema_migrations` tells the schema, which is always that of a whole release and goes forward; who serves has its schema; every start ends |
| `server_lifecycle` | `MCServerLifecycle.cfg` | requests are protected while the grace lasts; an orderly exit aborts no statement; a signal ends the process; the pool cannot deadlock |
| `http_layer` | `MCHttpLayer.cfg` | only allowed actors act; success is reported exactly when there was one, to the client and in the log; status and code of an answer tell which outcome the service had (an invalid request and a taken address excepted, which differ only in their message), and the status is one `api.yaml` lists for the operation |
| `booking_in_past` | `MCBookingInPast.cfg` | a violation, see Findings |
| `grid_in_database` | `BookingTable.cfg` | a violation, see Findings |

### Bounds

- Bookings. The properties relate at most two requests and two rows, so two
  goroutines, one room and two users give every interleaving; a third booking id
  lets a slot be booked again after a cancel while another request races for it.
  `MaxTime = 1` lets the clock pass a start between two statements and gives two
  different values of `cancelled_at`. Starts are a slot, one off the grid inside
  it, and one outside the window. `MCRoomBooking` has one goroutine per service:
  each pair of services interleaves, and two goroutines of one service are the
  matter of the other runs. The calendar run has an admin among its clients.
- `MCSlotGenerator` has the program's real numbers: every window of the day, and
  every window with its last minute cut off.
- `MCBookingListing`. Pages hold two of three bookings, so that a walk takes two
  pages while rows appear late and push others over the edge; an int is below
  `IntLimit = 8` (2^63 in the program), so that page 7 of size 2 wraps to a
  negative offset; size 5 is over the maximum. One of the three bookings has a client that remembers its answers.
- `MCAuthService`. Two goroutines, two spellings of one mailbox, the address of a
  seed row, one malformed address; good, blank and overlong passwords; a token
  that expires after one tick.
- `MCMigrations`. Two instances of the newest release and one of an older one that
  had the first file only, two starts each, three sessions: a dead instance's
  transaction is still there when the instance is back and another migrates.
- `MCServerLifecycle`. Three connections over a pool of two, so that one request
  waits while two are served, and three statements, which is what the longest
  request, a list of slots, sends.
- `MCHttpLayer`. Every operation with every token, parameters, body and outcome.

Bounds written into actions: `now < MaxTime` in `Tick`, `MaxStarts` and the number
of `Sessions` in `Begin`, `MaxStatements` in `Acquire`. The sets of ids bound
bookings, rooms and users. Permutations of ids, goroutines, rooms and plain users
are a symmetry: nothing orders them. No run with a liveness property uses one.

Deadlock is checked except where the system stops: the loop of the generator ends
when it is done, `BookingTable` when its ids are used up, the migrations when
every start is, the server when the process has exited.

### Fairness

- `SlotGenerator`: weak fairness of its one thread, a sequential function that
  nothing blocks.
- `Migrations`: weak fairness of each instance's next statement and of `Abort`:
  the database answers a statement that waits for nobody, and notices in the end
  that a client is gone. No fairness for starts, commits that were sent by the
  dead, or stops.
- `ServerLifecycle`: weak fairness of `main`, which includes the timer of the ten
  seconds, and of each handler, which includes the database's answer to a statement
  and the pool's to a waiter. None for clients: one need never send the rest
  of its request, and `SignalEnds` holds all the same because of the timer.

The services are checked for safety only: nothing in the code bounds how long a
statement takes, so that a request is ever answered is not promised.

## Proofs

All theorems hold for every value of the constants under the assumptions next to
their declarations (`SlotGridAssumption`, `StorageAssumption`, ...), which TLC
evaluates in the runs.

- `SlotGridProofs`: division with remainder, and from it `GridApart` (two grid
  points are a slot apart) and `GeneratorAgreesWithCheck`.
- `SlotGeneratorProofs`: `LoopInv` is inductive: the cursor is as many slots into
  the window as have been collected. At the end this count is the quotient in the
  definition of the set, hence `LoopCollectsSlotsAlways` and, with the previous
  theorem, `LoopAgreesWithCheckAlways`.
- `RoomBookingProofs`, first part, the booking service: `Invariance` proves `Inv`.
  The properties alone are not inductive: that an insert keeps `NoOverlap` needs to
  know that the goroutine checked its start against a schedule that still stands
  (`InsertKnows`), that the rows are on the grid (`RowKnows`) and that active rows
  differ in their start (`OneActivePerRoomStart`); that an update is the owner's
  needs `UpdateKnows`; that an answer stays true needs that ids are drawn once
  (`CreatingKnows`). Then `NoOverlapAlways` follows from `GridApart`,
  `EveryBookingIsASlotAlways` from `GeneratorAgreesWithCheck`, and the two action
  properties step by step.
- Second part, the refinement: `Refinement`, `Spec => ImplementsCalendar`, by cases
  on the actions under `Inv`; the step that books needs `GridApart` again, because
  the calendar speaks of overlap and the index of equal starts.
- Third part, the system: `SystemImplementsBookingService`: every step of the three
  services together is a step of `BookingService` or leaves its variables alone,
  so `SystemNoOverlap`, `SystemEveryBookingIsASlot`, `SystemRepliesHold`,
  `SystemOnlyOwnerCancels` and `SystemImplementsCalendar` follow for the whole
  system. It needs `AdminInv`: a goroutine that inserts a schedule has validated it.
  `ListsAreSnapshotsAlways` rests on `ListInv` (between its last two reads a
  goroutine knows what the schedule of its room allows, and no step changes a
  schedule) and on `FreeIsUnbooked`: on the grid, the bookings that overlap a slot
  are those that start with it. `AnswersMatchListAlways` rests on `Telling`, which
  finds the statement each answer comes from, and on `ListByCheck`, which puts
  lists in the terms of the booking's checks. `ListedIsNeverUnknownAlways` needs
  `ListedInv`: what a list has shown is a slot of a schedule that stays.
  `SystemTypeCorrect` adds what the requests and lists of the other services are.
- `BookingListingProofs`: `Invariance` proves `Inv`, which joins the tables
  (`WritersFit`: what clients were told of rows is so) with what each goroutine
  knows (`Fits`). A total counted earlier is at most the rows there are, because
  rows are never deleted, so the page read later is at least as full as the total
  says: `PageHoldsWhatTotalSaysAlways`. It holds although the offset wraps, since a
  wrapped offset is never larger than the product it stands for, and on the next
  page of a walk it is that product or negative, which is refused (`Wrapped`).
  `WalkMissesNothingAlways` needs `WalkKnows`: of a booking the walk has not seen,
  at least as many newer ones are there as stood on the pages it has read. Rows that
  appear late only add to them, so the booking is still ahead, and the walk cannot
  have ended. `MyListKeepsPromisesAlways`: statuses go from active to cancelled, so
  what was told before the call bounds what the list shows.
- `RoomAdministrationProofs`: `AnswersHoldAlways`, `OneScheduleCreatedAlways` and
  `ReferenceDataStaysAlways`. That a second 201 for the schedule of a room is
  impossible follows from what the first one says of the table.
- `AuthServiceProofs`: `Invariance` proves `Inv`: stored addresses are normal and
  differ (`StoredNormal`, `UniqueEmails`), which is why the unique constraint on
  text makes mailboxes unique; the seed rows stand as they were; a goroutine that
  inserts holds an id nobody else has; what a login was told of is in the table.
- `MigrationsProofs`: `Invariance` proves `Inv`, whose heart is `OneMigrator`: a
  transaction that has run a file read `schema_migrations` as it still is, and
  holds the first file that is missing, which no other transaction can then run.
  So at most one transaction has anything to commit, and it commits all of a
  release. The proof covers any number of instances, releases, sessions and files.

- `ServerProofs`, first part, the process: `Invariance` proves `Inv`. For the ten
  seconds it takes `NobodyAfterGrace`: when `Shutdown` returned in time no
  connection was left, and none comes because the listener is closed
  (`ServedOnceListening`), so a closed pool finds nobody to refuse. For the exit it
  takes `EndsOnce`: only the exit itself aborts a statement, and after it nothing
  runs. `TypeCorrect` says that the pool's queue holds exactly the waiting requests,
  once each; `Joined`, `Served` and `Left` are the lemmas on that queue.
- Second part, the layers of a request: `HttpInvariance` proves `HttpInv`, which says
  for each layer what the request has when it is there: behind `Auth` the claims of
  its token unless its path is public (`ClaimsFit`), behind the handler an outcome
  that the claims allow (`OutcomeFits`), at the end one response, which is the
  handler's where a service was called (`ResponseFits`, `LogFits`).
  `OnlyAllowedActorsActAlways` then compares the role checks of handlers and
  services with the roles the API names (`RolesAgree`), and
  `ErrorsKeepTheirMeaningAlways` the tables of errors: a handler has a case for every
  error its service may return, with a status that `api.yaml` lists
  (`ErrorIsHandled`, `OthersListed`), and what the mapping makes of an error can be
  read back from status and code (`MappingMeans`). What can be read, `Meaning`, and
  what is listed, `Documented`, are written from `api.yaml` and not from the mapping;
  `Meaning` gives `ErrInvalidRequest` and `ErrEmailTaken` the same 400
  INVALID_REQUEST, as the code does and as the 400 of `/register` allows. `HttpLayer`
  writes `None` for what the other modules call `NULL`, and `HttpSpec` for its
  specification, because `ServerProofs` extends it together with
  `ServerLifecycle`.

Every invariant and every action property of the runs is a theorem. Assumed of the
constants is only what the modules state, among it that `NULL` and `None` are none
of the values they stand beside.

Model-checked only are the liveness properties: `Termination`, `StartsEnd`,
`SignalEnds`, `WaitersGoOn`. They hold under fairness, and fairness speaks of
ENABLED, which the prover does not reach; nor does it do induction over data or
RECURSIVE operators, which no module needs.

## Findings

1. `booking_service.go:16` forbids bookings in the past. The clock is compared
   before the schedule is read and the row inserted (lines 63, 67, 98); when these
   statements are slow the booking is stored, and answered 201, after its start.
2. `README.md:38` says that the 30 minute grid cannot be bypassed at the level of
   the database because of `bookings_duration_30m`. The constraint fixes the length
   of a booking, not where it starts; the grid, on which the absence of overlaps
   rests, is held by `IsStartAtWithinSchedule` alone.

Met while reading the code for the models, and stated by no run:

- `api/api.yaml:216` calls `page` in an answer the current page, starting with 1;
  `booking_handler.go:156` answers with the page of the request, also where
  `ListAll` shows page 1 in place of 0 or a negative one.
- `server.go:24-25` speaks of one uniform 400 INVALID_REQUEST; a parameter of the
  path or query that cannot be bound is answered in plain text by the default
  `ErrorHandlerFunc` of the generated code (`server.gen.go:532-536`).
- `auth_handler.go:93-96` promises 401 for a login with an e-mail of the wrong
  form; the decoding of `openapi_types.Email` refuses it first, with 400.
- `server.go:20` says that every request is logged; `Logging` is inside `Recover`
  and writes its line with no defer, so a request whose handler panics has none;
- `auth_handler.go:94-96` says that a login with an e-mail of a wrong format gets 401; the
  body is decoded before the handler, where such an address is refused with 400
  INVALID_REQUEST. `api.yaml` lists no 400 for a login, nor for the cancellation of a
  booking, whose id is refused with a 400 when it is none. `ErrorsKeepTheirMeaning`
  speaks only of requests that reached a service.

## Not modelled

- The fields that handlers and `mapper.go` copy between requests, domain objects
  and responses, and most of the generated code, which does the same: they keep no
  state, and no property is about them. Of the generated code the routing, the
  binding, the decoding and the writing of responses are in `HttpLayer` as outcomes.
- The plain list of rooms, one read that writes nothing, and
  `UserRepository.GetByID`, which nothing calls.
- The wording of the log, the encoding of responses, the
  cryptography of tokens and passwords.
