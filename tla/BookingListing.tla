----------------------------- MODULE BookingListing -----------------------------
(***************************************************************************)
(* BookingService.ListMy and BookingService.ListAll with their handlers.   *)
(* ListMy reads the clock and then the bookings; ListAll counts the rows   *)
(* with one statement and reads a page with another, in no transaction.    *)
(*                                                                         *)
(* created_at, by which pages are ordered, is the instant at which an      *)
(* insert was sent: a row may become visible later than a younger one, and *)
(* rows with the same created_at come in any order.  Creates and cancels   *)
(* are the writers around the listings, reduced to the statement that      *)
(* counts and to what their clients are told.                              *)
(***************************************************************************)
EXTENDS Storage, FiniteSetsExt

CONSTANTS Procs,            \* goroutines serving these requests
          StartTimes,       \* starts of the bookings the writers insert
          PageParams,       \* values of the parameter page; NULL when absent
          SizeParams,       \* values of the parameter pageSize
          DefaultPageSize,  \* 20 in the program
          MaxPageSize,      \* 100 in the program
          IntLimit,         \* 2^63 in the program: an int is below it
          Followed,         \* bookings whose clients' knowledge is recorded
          MaxTime           \* bound: the clock stops here

Ints == -IntLimit .. IntLimit - 1

\* A parameter that is no int does not get past the generated wrapper.
ASSUME BookingListingAssumption ==
  /\ IntLimit \in Nat \ {0} /\ MaxTime \in Nat
  /\ StartTimes \subseteq Int
  /\ Followed \subseteq BookingIDs
  /\ PageParams \cup SizeParams \subseteq Ints \cup {NULL}
  /\ DefaultPageSize \in 1 .. MaxPageSize /\ MaxPageSize \in Ints

VARIABLES createdAt,   \* column created_at of the rows of bookings
          inserting,   \* inserts sent and not committed: id -> row, createdAt
          told,        \* what the client of a booking was told last
          pc, call, reply,
          total,       \* result of the first statement of ListAll
          walk         \* the pages a client of the goroutine has put together

writers == <<rooms, schedules, bookings, createdAt, inserting, told>>
vars == <<now, writers, pc, call, reply, total, walk>>

IDs == DOMAIN bookings

Walk == [size : Int, next : Int, existing : SUBSET BookingIDs,
         seen : SUBSET BookingIDs, complete : BOOLEAN]

NoWalk == [size |-> 0, next |-> 0, existing |-> {}, seen |-> {},
           complete |-> FALSE]

Knowledge == [BookingIDs -> {"active", "cancelled", NULL}]

MyCall == [op : {"my"}, user : Users, clock : Nat, told : Knowledge]

AllCall == [op : {"all"}, user : Users, page : Ints, pageSize : Ints]

Codes == {"ok", "FORBIDDEN", "INVALID_REQUEST", "INTERNAL_ERROR"}

Steps == {"idle", "ListByUserFuture", "Count", "Page"}

TypeOK ==
  /\ StorageTypeOK /\ now <= MaxTime
  /\ createdAt \in [IDs -> 0 .. MaxTime]
  /\ DOMAIN inserting \subseteq BookingIDs \ IDs
  /\ inserting \in [DOMAIN inserting -> [row : Booking, createdAt : 0 .. MaxTime]]
  /\ told \in Knowledge
  /\ pc \in [Procs -> Steps]
  /\ call \in [Procs -> MyCall \cup AllCall \cup {NULL}]
  /\ DOMAIN reply = Procs
  /\ total \in [Procs -> 0 .. Cardinality(IDs)]
  /\ walk \in [Procs -> Walk]
  /\ \A p \in Procs :
       /\ reply[p] # NULL => reply[p].code \in Codes
       /\ pc[p] \in {"Count", "Page"} =>
            Role(call[p].user) = "admin" /\ call[p].pageSize <= MaxPageSize

Init ==
  /\ now = 0
  /\ rooms = Rooms
  /\ schedules = [r \in {} |-> NULL]
  /\ bookings = [b \in {} |-> NULL]
  /\ createdAt = [b \in {} |-> 0]
  /\ inserting = [b \in {} |-> NULL]
  /\ told = [id \in BookingIDs |-> NULL]
  /\ pc = [p \in Procs |-> "idle"]
  /\ call = [p \in Procs |-> NULL]
  /\ reply = [p \in Procs |-> NULL]
  /\ total = [p \in Procs |-> 0]
  /\ walk = [p \in Procs |-> NoWalk]

-----------------------------------------------------------------------------
(***************************************************************************)
(* The writers: BookingRepository.Create and BookingRepository.Cancel.     *)
(***************************************************************************)
listings == <<pc, call, reply, total, walk>>

Row(u, room, t) ==
  [room |-> room, user |-> u, start |-> t, end |-> t + SlotDuration,
   status |-> "active", cancelledAt |-> NULL]

\* The client of a booking is told its status, or the answer is lost.
Tell(id, status) ==
  told' \in {told} \cup
    (IF id \in Followed THEN {[told EXCEPT ![id] = status]} ELSE {})

\* The insert is sent: now() in its default is fixed here.
SendInsert(id, u, room, t) ==
  /\ id \notin IDs \cup DOMAIN inserting
  /\ told[id] = NULL
  /\ u \notin Admins
  /\ inserting' = InsertRow(inserting, id, [row |-> Row(u, room, t),
                                            createdAt |-> now])
  /\ UNCHANGED <<now, tables, createdAt, told, listings>>

Sent(id) == [i \in DOMAIN inserting \ {id} |-> inserting[i]]

\* It commits.
CommitInsert(id) ==
  /\ id \in DOMAIN inserting
  /\ InsertBooking(id, inserting[id].row)
  /\ createdAt' = InsertRow(createdAt, id, inserting[id].createdAt)
  /\ inserting' = Sent(id)
  /\ Tell(id, "active")
  /\ UNCHANGED <<now, listings>>

FailInsert(id) ==
  /\ id \in DOMAIN inserting
  /\ inserting' = Sent(id)
  /\ UNCHANGED <<now, tables, createdAt, told, listings>>

CommitCancel(id) ==
  /\ id \in IDs
  /\ UpdateCancelled(id)
  /\ Tell(id, "cancelled")
  /\ UNCHANGED <<now, createdAt, inserting, listings>>

Tick ==
  /\ now < MaxTime
  /\ now' = now + 1
  /\ UNCHANGED <<writers, listings>>

-----------------------------------------------------------------------------
Goto(p, step) == pc' = [pc EXCEPT ![p] = step]

\* A listing as the answer shows it: the ids with the status of each.
Shown(ids) == [id \in ids |-> bookings[id].status]

Answer(p, r) ==
  /\ Goto(p, "idle")
  /\ reply' = [reply EXCEPT ![p] = r]
  /\ total' = [total EXCEPT ![p] = 0]

Failure(code) == [code |-> code, items |-> Shown({})]

Receive(p, c) == pc[p] = "idle" /\ call' = [call EXCEPT ![p] = c]

Accept(p, step) ==
  Goto(p, step) /\ reply' = [reply EXCEPT ![p] = NULL] /\ UNCHANGED total

\* GetBookingsMy and ListMy: the role, then nowFn() for the statement.
ListMy(p, u) ==
  /\ Receive(p, [op |-> "my", user |-> u, clock |-> now, told |-> told])
  /\ IF Role(u) = "user" THEN Accept(p, "ListByUserFuture")
                         ELSE Answer(p, Failure("FORBIDDEN"))
  /\ UNCHANGED <<now, writers, walk>>

\* Faulty variant: start_at > now.
StrictlyFuture(u, clock) ==
  { id \in IDs : bookings[id].user = u /\ bookings[id].start > clock }

\* where user_id = $1 and start_at >= $2, cancelled bookings included
FutureOf(u, clock) ==
  { id \in IDs : bookings[id].user = u /\ bookings[id].start >= clock }

ListByUserFuture(p) ==
  /\ pc[p] = "ListByUserFuture"
  /\ Answer(p, [code |-> "ok",
                items |-> Shown(FutureOf(call[p].user, call[p].clock))])
  /\ UNCHANGED <<now, writers, call, walk>>

-----------------------------------------------------------------------------
Given(param, default) == IF param = NULL THEN default ELSE param

LeastOf(m, n) == IF m < n THEN m ELSE n

\* Faulty variant: a page that is too large is cut, not refused.
PageSizeCut(c) ==
  IF c.pageSize <= 0 THEN DefaultPageSize ELSE LeastOf(c.pageSize, MaxPageSize)

\* BookingService.ListAll takes a default for what is not positive.
Page(c) == IF c.page <= 0 THEN 1 ELSE c.page
PageSize(c) == IF c.pageSize <= 0 THEN DefaultPageSize ELSE c.pageSize

\* GetBookingsList and the checks of ListAll.
ListAll(p, u, page, pageSize) ==
  LET c == [op |-> "all", user |-> u, page |-> Given(page, 1),
            pageSize |-> Given(pageSize, DefaultPageSize)]
  IN  /\ Receive(p, c)
      /\ \/ Role(u) # "admin" /\ Answer(p, Failure("FORBIDDEN"))
         \/ /\ Role(u) = "admin" /\ PageSize(c) > MaxPageSize
            /\ Answer(p, Failure("INVALID_REQUEST"))
         \/ /\ Role(u) = "admin" /\ PageSize(c) <= MaxPageSize
            /\ Accept(p, "Count")
      /\ UNCHANGED <<now, writers, walk>>

\* select count(*) from bookings
Count(p) ==
  /\ pc[p] = "Count"
  /\ total' = [total EXCEPT ![p] = Cardinality(IDs)]
  /\ Goto(p, "Page")
  /\ UNCHANGED <<now, writers, call, reply, walk>>

\* Arithmetic of an int, which wraps around.
Wrap(n) == ((n + IntLimit) % (2 * IntLimit)) - IntLimit

\* Faulty variant: pages counted from 0.
OffsetFromZero(c) == Wrap(Page(c) * PageSize(c))

Offset(c) == Wrap((Page(c) - 1) * PageSize(c))

Precede(ids, others) == \A a \in ids, b \in others : createdAt[a] >= createdAt[b]

\* Faulty variant: cancelled bookings are not listed.
ActivePages(offset, limit) ==
  UNION { { items \in kSubset(LeastOf(limit, Cardinality(ActiveIDs \ before)),
                              ActiveIDs \ before) :
              Precede(items, (ActiveIDs \ before) \ items) } :
          before \in { ids \in kSubset(LeastOf(offset, Cardinality(ActiveIDs)),
                                       ActiveIDs) :
                         Precede(ids, ActiveIDs \ ids) } }

\* order by created_at desc limit $1 offset $2: rows of one age in any order.
PagesAt(offset, limit) ==
  UNION { { items \in kSubset(LeastOf(limit, Cardinality(IDs \ before)),
                              IDs \ before) :
              Precede(items, (IDs \ before) \ items) } :
          before \in { ids \in kSubset(LeastOf(offset, Cardinality(IDs)), IDs) :
                         Precede(ids, IDs \ ids) } }

\* What a client that reads page after page knows once it has the items.
Walked(w, c, items) ==
  LET short == Cardinality(items) < PageSize(c)
  IN  CASE Page(c) = 1 ->
             [size |-> PageSize(c), next |-> 2, existing |-> IDs,
              seen |-> items, complete |-> short]
        [] Page(c) # 1 /\ Page(c) = w.next /\ PageSize(c) = w.size
                       /\ ~ w.complete ->
             [w EXCEPT !.next = @ + 1, !.seen = @ \cup items,
                       !.complete = short]
        [] OTHER -> w

\* The page, and the answer.
SelectPage(p) ==
  /\ pc[p] = "Page"
  /\ Offset(call[p]) >= 0
  /\ \E items \in PagesAt(Offset(call[p]), PageSize(call[p])) :
       /\ Answer(p, [code |-> "ok", items |-> Shown(items),
                     total |-> total[p]])
       /\ walk' = [walk EXCEPT ![p] = Walked(@, call[p], items)]
  /\ UNCHANGED <<now, writers, call>>

\* A statement fails; one with a negative offset always does.
DBError(p) ==
  /\ pc[p] # "idle"
  /\ Answer(p, Failure("INTERNAL_ERROR"))
  /\ UNCHANGED <<now, writers, call, walk>>

Abandon(p) ==
  /\ pc[p] # "idle"
  /\ Goto(p, "idle")
  /\ total' = [total EXCEPT ![p] = 0]
  /\ UNCHANGED <<now, writers, call, reply, walk>>

Serve(p) ==
  \/ \E u \in Users : ListMy(p, u)
  \/ \E u \in Users, page \in PageParams, size \in SizeParams :
       ListAll(p, u, page, size)
  \/ ListByUserFuture(p)
  \/ Count(p)
  \/ SelectPage(p)
  \/ DBError(p)
  \/ Abandon(p)

Write ==
  \/ \E id \in BookingIDs, u \in Users, room \in Rooms, t \in StartTimes :
       SendInsert(id, u, room, t)
  \/ \E id \in BookingIDs :
       CommitInsert(id) \/ FailInsert(id) \/ CommitCancel(id)

Next == Tick \/ Write \/ \E p \in Procs : Serve(p)

Spec == Init /\ [][Next]_vars

-----------------------------------------------------------------------------
Listed(p, op) == reply[p] # NULL /\ reply[p].code = "ok" /\ call[p].op = op

(***************************************************************************)
(* Read your writes: a booking a client was told of before it asked for    *)
(* its list is on the list unless its start had passed when it asked, and  *)
(* a booking it was told is cancelled is shown cancelled (ListMy).         *)
(***************************************************************************)
MyListKeepsPromises ==
  \A p \in Procs :
    Listed(p, "my") =>
      \A id \in IDs :
        /\ call[p].told[id] # NULL
        /\ bookings[id].user = call[p].user
        /\ bookings[id].start >= call[p].clock
        => /\ id \in DOMAIN reply[p].items
           /\ call[p].told[id] = "cancelled" => reply[p].items[id] = "cancelled"

(***************************************************************************)
(* The total is never ahead of the items: rows are counted before the page *)
(* is read and are never deleted, so a page holds at least as many items   *)
(* as the total says it must, in whatever order writers interfere.         *)
(***************************************************************************)
PageHoldsWhatTotalSays ==
  \A p \in Procs :
    Listed(p, "all") =>
      Cardinality(DOMAIN reply[p].items) >=
        LeastOf(PageSize(call[p]),
                reply[p].total - (Page(call[p]) - 1) * PageSize(call[p]))

(***************************************************************************)
(* A client that reads pages 1, 2, 3, ... until one is short has seen      *)
(* every booking that was there when it read page 1, although bookings are *)
(* inserted and cancelled between its requests and may become visible out  *)
(* of order.  Of rows with the same created_at this does not hold.         *)
(***************************************************************************)
AgeIsUnique(id) == \A other \in IDs \ {id} : createdAt[other] # createdAt[id]

WalkMissesNothing ==
  \A p \in Procs :
    walk[p].complete =>
      \A id \in walk[p].existing : AgeIsUnique(id) => id \in walk[p].seen

=============================================================================
