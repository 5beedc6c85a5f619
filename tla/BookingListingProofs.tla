------------------------- MODULE BookingListingProofs -------------------------
(***************************************************************************)
(* The listings: a user's own list, pages with their total, and a walk     *)
(* through the pages, against any number of writers, for any width of an   *)
(* int and any page sizes.                                                 *)
(*                                                                         *)
(* The invariant says what holds of the tables, and what a goroutine and   *)
(* the client it serves know of them.  What they know speaks of rows that  *)
(* were there, and rows are only added and cancelled.                      *)
(***************************************************************************)
EXTENDS BookingListing, SlotGridProofs, FiniteSetTheorems

\* What a client was told of a booking, if anything, is so.
IsTrue(id, word) ==
  word # NULL =>
    /\ id \in IDs
    /\ word = "cancelled" => bookings[id].status = "cancelled"

WritersFit ==
  /\ StorageTypeOK /\ now <= MaxTime
  /\ createdAt \in [IDs -> 0 .. MaxTime]
  /\ DOMAIN inserting \subseteq BookingIDs \ IDs
  /\ inserting \in [DOMAIN inserting -> [row : Booking, createdAt : 0 .. MaxTime]]
  /\ told \in Knowledge
  /\ IsFiniteSet(IDs)
  /\ \A id \in BookingIDs : IsTrue(id, told[id])

\* MyListKeepsPromises and PageHoldsWhatTotalSays, for one answer.
Promised(c, r) ==
  \A id \in IDs :
    /\ c.told[id] # NULL
    /\ bookings[id].user = c.user
    /\ bookings[id].start >= c.clock
    => /\ id \in DOMAIN r.items
       /\ c.told[id] = "cancelled" => r.items[id] = "cancelled"

Filled(c, r) ==
  Cardinality(DOMAIN r.items) >=
    LeastOf(PageSize(c), r.total - (Page(c) - 1) * PageSize(c))

Newer(id) == { b \in IDs : createdAt[b] > createdAt[id] }

(***************************************************************************)
(* A walk goes on from page w.next.  The offset of its last page was no    *)
(* less than what an int holds, and a booking it should have seen and has  *)
(* not stands behind the pages it has read: that many newer ones precede.  *)
(***************************************************************************)
WalkKnows(w) ==
  /\ w.existing \subseteq IDs
  /\ w.next # 0 => /\ w.size \in 1 .. MaxPageSize
                   /\ w.next >= 2
                   /\ (w.next - 2) * w.size < IntLimit
  /\ \A id \in w.existing \ w.seen :
       AgeIsUnique(id) =>
         /\ ~ w.complete
         /\ Cardinality(Newer(id)) >= (w.next - 1) * w.size

\* The step, the request, the answer, the total and the walk of a goroutine.
Fits(step, c, r, t, w) ==
  /\ step \in Steps /\ c \in MyCall \cup AllCall \cup {NULL}
  /\ t \in 0 .. Cardinality(IDs) /\ w \in Walk
  /\ step = "ListByUserFuture" => c \in MyCall
  /\ step \in {"Count", "Page"} =>
       c \in AllCall /\ Role(c.user) = "admin" /\ c.pageSize <= MaxPageSize
  /\ c \in MyCall /\ (step = "ListByUserFuture" \/ r # NULL) =>
       \A id \in BookingIDs : IsTrue(id, c.told[id])
  /\ WalkKnows(w)
  /\ r # NULL =>
       /\ r.code \in Codes /\ c \in MyCall \cup AllCall
       /\ r.code = "ok" /\ c.op = "my" => Promised(c, r)
       /\ r.code = "ok" /\ c.op = "all" => Filled(c, r)

Inv ==
  /\ WritersFit
  /\ pc \in [Procs -> Steps]
  /\ call \in [Procs -> MyCall \cup AllCall \cup {NULL}]
  /\ total \in [Procs -> Int]
  /\ walk \in [Procs -> Walk]
  /\ reply = [p \in Procs |-> reply[p]]
  /\ \A p \in Procs : Fits(pc[p], call[p], reply[p], total[p], walk[p])

\* The initial states satisfy the invariant.
LEMMA InitInv == Init => Inv
<1> SUFFICES ASSUME Init PROVE Inv
  OBVIOUS
<1>1. IDs = {} /\ IsFiniteSet(IDs) /\ Cardinality(IDs) = 0
  BY FS_EmptySet DEF Init, IDs
<1>2. WritersFit
  BY <1>1, BookingListingAssumption
  DEF Init, WritersFit, StorageTypeOK, IDs, Knowledge, IsTrue
<1>3. NoWalk \in Walk /\ WalkKnows(NoWalk)
  BY DEF NoWalk, Walk, WalkKnows
<1>4. Fits("idle", NULL, NULL, 0, NoWalk)
  BY <1>1, <1>3 DEF Fits, Steps
<1> QED
  BY <1>2, <1>3, <1>4 DEF Init, Inv, Steps

-----------------------------------------------------------------------------
(***************************************************************************)
(* The writers.                                                            *)
(***************************************************************************)

\* Rows are added, and of a row only the status may change, to cancelled.
RowsKept ==
  /\ IDs \subseteq IDs'
  /\ \A id \in IDs :
       /\ createdAt'[id] = createdAt[id]
       /\ bookings'[id].user = bookings[id].user
       /\ bookings'[id].start = bookings[id].start
       /\ bookings[id].status = "cancelled" => bookings'[id].status = "cancelled"

\* Tell lets the client know, or not.
LEMMA Telling ==
  ASSUME told \in Knowledge, NEW id \in BookingIDs,
         NEW status \in {"active", "cancelled"}, Tell(id, status)
  PROVE  /\ told' \in Knowledge
         /\ told' = told \/ told' = [told EXCEPT ![id] = status]
BY DEF Tell, Knowledge

LEMMA TickFits ==
  ASSUME WritersFit, Tick
  PROVE  WritersFit' /\ RowsKept
<1>1. /\ now' = now + 1 /\ now < MaxTime /\ now \in Nat
      /\ UNCHANGED <<rooms, schedules, bookings, createdAt, inserting, told>>
  BY DEF Tick, writers, WritersFit, StorageTypeOK
<1>2. now' \in Nat /\ now' <= MaxTime
  BY <1>1, BookingListingAssumption
<1> QED
  BY <1>1, <1>2 DEF WritersFit, StorageTypeOK, IsTrue, IDs, RowsKept

LEMMA SendInsertFits ==
  ASSUME WritersFit, NEW id \in BookingIDs, NEW u \in Users, NEW room \in Rooms,
         NEW t \in StartTimes, SendInsert(id, u, room, t)
  PROVE  WritersFit' /\ RowsKept
<1> DEFINE new == [row |-> Row(u, room, t), createdAt |-> now]
<1>1. /\ UNCHANGED <<now, rooms, schedules, bookings, createdAt, told>>
      /\ inserting' = InsertRow(inserting, id, new)
      /\ id \notin IDs
  BY DEF SendInsert, tables
<1>2. Row(u, room, t) \in Booking
  BY BookingListingAssumption, SlotGridAssumption DEF Row, Booking
<1>3. now \in 0 .. MaxTime
  BY BookingListingAssumption DEF WritersFit, StorageTypeOK
<1>4. new \in [row : Booking, createdAt : 0 .. MaxTime]
  BY <1>2, <1>3
<1> HIDE DEF new
<1>5. /\ DOMAIN inserting' = DOMAIN inserting \cup {id}
      /\ inserting' \in
           [DOMAIN inserting' -> [row : Booking, createdAt : 0 .. MaxTime]]
  BY <1>1, <1>4 DEF InsertRow, WritersFit
<1> QED
  BY <1>1, <1>5 DEF WritersFit, StorageTypeOK, IsTrue, IDs, RowsKept

LEMMA SentFits ==
  ASSUME WritersFit, NEW id, inserting' = Sent(id)
  PROVE  /\ DOMAIN inserting' = DOMAIN inserting \ {id}
         /\ inserting' \in
              [DOMAIN inserting' -> [row : Booking, createdAt : 0 .. MaxTime]]
BY DEF Sent, WritersFit

LEMMA CommitInsertFits ==
  ASSUME WritersFit, NEW id \in BookingIDs, CommitInsert(id)
  PROVE  WritersFit' /\ RowsKept
<1> DEFINE row == inserting[id].row
           at == inserting[id].createdAt
<1>1. /\ id \in DOMAIN inserting /\ id \notin IDs
      /\ row \in Booking /\ at \in 0 .. MaxTime
  BY DEF CommitInsert, WritersFit
<1>2. /\ UNCHANGED <<now, rooms, schedules>>
      /\ bookings' = InsertRow(bookings, id, row)
      /\ createdAt' = InsertRow(createdAt, id, at)
      /\ inserting' = Sent(id) /\ Tell(id, "active")
  BY DEF CommitInsert, InsertBooking
<1> HIDE DEF row, at
<1>3. /\ IDs' = IDs \cup {id}
      /\ bookings' \in [IDs' -> Booking]
      /\ createdAt' \in [IDs' -> 0 .. MaxTime]
      /\ \A b \in IDs : /\ bookings'[b] = bookings[b]
                        /\ createdAt'[b] = createdAt[b]
  BY <1>1, <1>2 DEF InsertRow, IDs, WritersFit, StorageTypeOK
<1>4. IsFiniteSet(IDs')
  BY <1>3, FS_AddElement DEF WritersFit
<1>5. /\ DOMAIN inserting' = DOMAIN inserting \ {id}
      /\ inserting' \in
           [DOMAIN inserting' -> [row : Booking, createdAt : 0 .. MaxTime]]
  BY <1>2, SentFits
<1>6. /\ told' \in Knowledge
      /\ told' = told \/ told' = [told EXCEPT ![id] = "active"]
  BY <1>2, Telling DEF WritersFit
<1>7. \A b \in BookingIDs : IsTrue(b, told[b])'
  BY <1>3, <1>6 DEF IsTrue, WritersFit, Knowledge
<1>8. StorageTypeOK' /\ now' <= MaxTime
  BY <1>2, <1>3 DEF WritersFit, StorageTypeOK, IDs
<1>9. DOMAIN inserting' \subseteq BookingIDs \ IDs'
  BY <1>3, <1>5 DEF WritersFit
<1>10. RowsKept
  BY <1>3 DEF RowsKept
<1> QED
  BY <1>3, <1>4, <1>5, <1>6, <1>7, <1>8, <1>9, <1>10 DEF WritersFit

LEMMA FailInsertFits ==
  ASSUME WritersFit, NEW id \in BookingIDs, FailInsert(id)
  PROVE  WritersFit' /\ RowsKept
<1>1. /\ UNCHANGED <<now, rooms, schedules, bookings, createdAt, told>>
      /\ inserting' = Sent(id)
  BY DEF FailInsert, tables
<1>2. /\ DOMAIN inserting' = DOMAIN inserting \ {id}
      /\ inserting' \in
           [DOMAIN inserting' -> [row : Booking, createdAt : 0 .. MaxTime]]
  BY <1>1, SentFits
<1> QED
  BY <1>1, <1>2 DEF WritersFit, StorageTypeOK, IsTrue, IDs, RowsKept

LEMMA CommitCancelFits ==
  ASSUME WritersFit, NEW id \in BookingIDs, CommitCancel(id)
  PROVE  WritersFit' /\ RowsKept
<1>1. /\ id \in IDs /\ UNCHANGED <<now, rooms, schedules, createdAt, inserting>>
      /\ bookings' = [k \in IDs |-> IF k = id THEN Cancelled(bookings[k])
                                              ELSE bookings[k]]
      /\ Tell(id, "cancelled")
  BY DEF CommitCancel, UpdateCancelled, IDs
<1>2. \A row \in Booking : /\ Cancelled(row) \in Booking
                           /\ Cancelled(row).status = "cancelled"
                           /\ Cancelled(row).user = row.user
                           /\ Cancelled(row).start = row.start
  BY DEF Cancelled, Booking, WritersFit, StorageTypeOK
<1>3. /\ IDs' = IDs /\ bookings' \in [IDs' -> Booking]
      /\ bookings'[id].status = "cancelled"
      /\ \A b \in IDs :
           /\ bookings'[b].user = bookings[b].user
           /\ bookings'[b].start = bookings[b].start
           /\ bookings[b].status = "cancelled" => bookings'[b].status = "cancelled"
  BY <1>1, <1>2 DEF IDs, WritersFit, StorageTypeOK
<1>4. /\ told' \in Knowledge
      /\ told' = told \/ told' = [told EXCEPT ![id] = "cancelled"]
  BY <1>1, Telling DEF WritersFit
<1>5. \A b \in BookingIDs : IsTrue(b, told[b])'
  BY <1>1, <1>3, <1>4 DEF IsTrue, WritersFit, Knowledge
<1>6. StorageTypeOK' /\ now' <= MaxTime
  BY <1>1, <1>3 DEF WritersFit, StorageTypeOK, IDs
<1>7. RowsKept
  BY <1>1, <1>3 DEF RowsKept
<1> QED
  BY <1>1, <1>3, <1>4, <1>5, <1>6, <1>7 DEF WritersFit

-----------------------------------------------------------------------------
(***************************************************************************)
(* What a goroutine and its client know stays so while writers go on.      *)
(***************************************************************************)
LEMMA NewerGrows ==
  ASSUME WritersFit, IsFiniteSet(IDs'), RowsKept, NEW id \in IDs
  PROVE  /\ AgeIsUnique(id)' => AgeIsUnique(id)
         /\ Newer(id) \subseteq Newer(id)'
         /\ Cardinality(Newer(id)) \in Nat
         /\ Cardinality(Newer(id)') \in Nat
         /\ Cardinality(Newer(id)) <= Cardinality(Newer(id)')
<1>1. AgeIsUnique(id)' => AgeIsUnique(id)
  BY DEF AgeIsUnique, RowsKept
<1>2. Newer(id) \subseteq Newer(id)'
  BY DEF Newer, RowsKept
<1>3. Newer(id) \in SUBSET IDs /\ Newer(id)' \in SUBSET IDs'
  BY DEF Newer
<1>4. IsFiniteSet(Newer(id)) /\ IsFiniteSet(Newer(id)')
  BY <1>3, FS_Subset DEF WritersFit
<1>5. Cardinality(Newer(id)) <= Cardinality(Newer(id)')
  BY <1>2, <1>4, FS_Subset
<1> QED
  BY <1>1, <1>2, <1>4, <1>5, FS_CardinalityType

LEMMA WalkKept ==
  ASSUME WritersFit, IsFiniteSet(IDs'), RowsKept, NEW w \in Walk, WalkKnows(w)
  PROVE  WalkKnows(w)'
<1>1. w.existing \subseteq IDs /\ w.existing \subseteq IDs'
  BY DEF WalkKnows, RowsKept
<1>2. ASSUME NEW id \in w.existing \ w.seen, AgeIsUnique(id)'
      PROVE  /\ ~ w.complete
             /\ Cardinality(Newer(id)') >= (w.next - 1) * w.size
  <2> DEFINE depth == (w.next - 1) * w.size
  <2>1. depth \in Int
    BY DEF Walk
  <2>2. id \in IDs /\ AgeIsUnique(id)
    BY <1>1, <1>2, NewerGrows
  <2>3. ~ w.complete /\ Cardinality(Newer(id)) >= depth
    BY <1>2, <2>2 DEF WalkKnows
  <2> HIDE DEF depth
  <2>4. Cardinality(Newer(id)') >= depth
    BY <2>1, <2>2, <2>3, NewerGrows
  <2> QED
    BY <2>3, <2>4 DEF depth
<1> QED
  BY <1>1, <1>2 DEF WalkKnows

LEMMA FitsKept ==
  ASSUME WritersFit, WritersFit', RowsKept, NEW step, NEW c, NEW r, NEW t, NEW w,
         Fits(step, c, r, t, w)
  PROVE  Fits(step, c, r, t, w)'
<1>1. \A id \in BookingIDs : \A word : IsTrue(id, word) => IsTrue(id, word)'
  BY DEF IsTrue, RowsKept
<1>2. WalkKnows(w)'
  BY WalkKept DEF Fits, WritersFit
<1>3. t \in 0 .. Cardinality(IDs')
  <2>1. /\ Cardinality(IDs) \in Nat /\ Cardinality(IDs') \in Nat
        /\ Cardinality(IDs) <= Cardinality(IDs')
    BY FS_CardinalityType, FS_Subset DEF WritersFit, RowsKept
  <2> QED
    BY <2>1 DEF Fits
<1>4. ASSUME r # NULL, r.code = "ok", c.op = "my"
      PROVE  Promised(c, r)'
  <2>1. c \in MyCall /\ Promised(c, r)
    BY <1>4 DEF Fits, AllCall
  <2>2. \A id \in BookingIDs : c.told[id] # NULL => id \in IDs
    BY <1>4, <2>1 DEF Fits, IsTrue
  <2>3. IDs' \subseteq BookingIDs
    BY DEF WritersFit, StorageTypeOK, IDs
  <2> QED
    BY <2>1, <2>2, <2>3 DEF Promised, RowsKept
<1>5. Filled(c, r) => Filled(c, r)'
  BY DEF Filled, PageSize, Page, LeastOf
<1> QED
  BY <1>1, <1>2, <1>3, <1>4, <1>5 DEF Fits

LEMMA WriteStep ==
  ASSUME Inv, Tick \/ Write
  PROVE  Inv'
<1>1. WritersFit' /\ RowsKept
  BY TickFits, SendInsertFits, CommitInsertFits, FailInsertFits,
     CommitCancelFits DEF Inv, Write
<1>2. UNCHANGED listings
  BY DEF Tick, Write, SendInsert, CommitInsert, FailInsert, CommitCancel, writers
<1>3. \A p \in Procs : Fits(pc[p], call[p], reply[p], total[p], walk[p])'
  BY <1>1, <1>2, FitsKept DEF Inv, listings
<1> QED
  BY <1>1, <1>2, <1>3 DEF Inv, listings

-----------------------------------------------------------------------------
(***************************************************************************)
(* Pages.                                                                  *)
(***************************************************************************)
\* A subset that misses an element is smaller by one.
LEMMA MissesOne ==
  ASSUME NEW S, IsFiniteSet(S), NEW x \in S, NEW T \in SUBSET (S \ {x})
  PROVE  Cardinality(T) <= Cardinality(S) - 1
<1> DEFINE R == S \ {x}
<1>1. IsFiniteSet(R) /\ Cardinality(R) = Cardinality(S) - 1
  BY FS_RemoveElement
<1>2. T \in SUBSET R
  OBVIOUS
<1> HIDE DEF R
<1>3. Cardinality(T) <= Cardinality(R)
  BY <1>1, <1>2, FS_Subset
<1> QED
  BY <1>1, <1>3

LEMMA DisjointUnion ==
  ASSUME NEW S, IsFiniteSet(S), NEW T, IsFiniteSet(T), S \cap T = {}
  PROVE  Cardinality(S \cup T) = Cardinality(S) + Cardinality(T)
<1>1. Cardinality(S \cup T) =
        Cardinality(S) + Cardinality(T) - Cardinality(S \cap T)
  BY FS_Union
<1>2. Cardinality(S \cap T) = 0
  BY FS_EmptySet
<1>3. Cardinality(S) \in Nat /\ Cardinality(T) \in Nat
  BY FS_CardinalityType
<1> QED
  BY <1>1, <1>2, <1>3

\* The rows that are cut off before a page, and the page.
LEMMA PageParts ==
  ASSUME IsFiniteSet(IDs), NEW offset \in Nat, NEW limit \in Nat,
         NEW items \in PagesAt(offset, limit)
  PROVE  \E before \in SUBSET IDs :
           /\ Cardinality(before) = LeastOf(offset, Cardinality(IDs))
           /\ Precede(before, IDs \ before)
           /\ items \in SUBSET (IDs \ before)
           /\ Cardinality(items) =
                LeastOf(limit, Cardinality(IDs) - Cardinality(before))
           /\ Precede(items, (IDs \ before) \ items)
<1>1. PICK before \in kSubset(LeastOf(offset, Cardinality(IDs)), IDs) :
        /\ Precede(before, IDs \ before)
        /\ items \in kSubset(LeastOf(limit, Cardinality(IDs \ before)),
                             IDs \ before)
        /\ Precede(items, (IDs \ before) \ items)
  BY DEF PagesAt
<1>2. /\ before \in SUBSET IDs
      /\ Cardinality(before) = LeastOf(offset, Cardinality(IDs))
      /\ items \in SUBSET (IDs \ before)
      /\ Cardinality(items) = LeastOf(limit, Cardinality(IDs \ before))
  BY <1>1 DEF kSubset
<1>3. Cardinality(IDs \ before) = Cardinality(IDs) - Cardinality(before)
  <2>1. IDs \cap before = before
    BY <1>2
  <2>2. IsFiniteSet(before)
    BY <1>2, FS_Subset
  <2> QED
    BY <2>1, <2>2, FS_Difference
<1> QED
  BY <1>1, <1>2, <1>3

(***************************************************************************)
(* A booking of its own age, behind as many rows as the offset, that is    *)
(* not on the page stands behind the page too, and the page is full.       *)
(***************************************************************************)
LEMMA BehindThePage ==
  ASSUME WritersFit, NEW offset \in Nat, NEW limit \in Nat,
         NEW items \in PagesAt(offset, limit),
         NEW id \in IDs \ items, AgeIsUnique(id),
         Cardinality(Newer(id)) >= offset
  PROVE  /\ Cardinality(items) = limit
         /\ Cardinality(Newer(id)) >= offset + limit
<1>1. IsFiniteSet(IDs) /\ \A b \in IDs : createdAt[b] \in Int
  BY DEF WritersFit
<1>2. PICK before \in SUBSET IDs :
        /\ Cardinality(before) = LeastOf(offset, Cardinality(IDs))
        /\ Precede(before, IDs \ before)
        /\ items \in SUBSET (IDs \ before)
        /\ Cardinality(items) =
             LeastOf(limit, Cardinality(IDs) - Cardinality(before))
        /\ Precede(items, (IDs \ before) \ items)
  BY <1>1, PageParts
<1>3. Newer(id) \in SUBSET IDs /\ id \notin Newer(id)
  BY <1>1 DEF Newer
<1>4. /\ IsFiniteSet(before) /\ IsFiniteSet(items) /\ IsFiniteSet(Newer(id))
      /\ Cardinality(before) \in Nat /\ Cardinality(items) \in Nat
      /\ Cardinality(Newer(id)) \in Nat /\ Cardinality(IDs) \in Nat
  BY <1>1, <1>2, <1>3, FS_Subset, FS_CardinalityType
<1>5. id \notin before
  <2> SUFFICES ASSUME id \in before PROVE FALSE
    OBVIOUS
  <2>1. Newer(id) \subseteq before \ {id}
    BY <1>1, <1>2, <1>3 DEF Newer, Precede
  <2>2. Cardinality(Newer(id)) <= Cardinality(before) - 1
    BY <1>4, <2>1, MissesOne
  <2> QED
    BY <1>2, <1>4, <2>2 DEF LeastOf
<1>6. before \cup items \subseteq Newer(id)
  BY <1>1, <1>2, <1>5 DEF Newer, Precede, AgeIsUnique
<1>7. Cardinality(before \cup items) = Cardinality(before) + Cardinality(items)
  <2>1. before \cap items = {}
    BY <1>2
  <2> QED
    BY <1>4, <2>1, DisjointUnion
<1>8. Cardinality(before) + Cardinality(items) <= Cardinality(Newer(id))
  BY <1>4, <1>6, <1>7, FS_Subset
<1>9. Cardinality(Newer(id)) <= Cardinality(IDs) - 1
  BY <1>1, <1>3, MissesOne
<1>10. Cardinality(before) = offset /\ Cardinality(items) = limit
  BY <1>2, <1>4, <1>8, <1>9 DEF LeastOf
<1> QED
  BY <1>8, <1>10

\* A page is as long as the rows behind the offset allow.
LEMMA PageLength ==
  ASSUME IsFiniteSet(IDs), NEW offset \in Nat, NEW limit \in Nat,
         NEW items \in PagesAt(offset, limit),
         NEW t \in 0 .. Cardinality(IDs), NEW skip \in Nat, offset <= skip
  PROVE  Cardinality(items) >= LeastOf(limit, t - skip)
<1>1. PICK before \in SUBSET IDs :
        /\ Cardinality(before) = LeastOf(offset, Cardinality(IDs))
        /\ Precede(before, IDs \ before)
        /\ items \in SUBSET (IDs \ before)
        /\ Cardinality(items) =
             LeastOf(limit, Cardinality(IDs) - Cardinality(before))
        /\ Precede(items, (IDs \ before) \ items)
  BY PageParts
<1>2. Cardinality(IDs) \in Nat
  BY FS_CardinalityType
<1> QED
  BY <1>1, <1>2 DEF LeastOf

-----------------------------------------------------------------------------
\* A number is its remainder and a multiple, nothing or at least one.
LEMMA RemainderAndRest ==
  ASSUME NEW m \in Nat \ {0}, NEW a \in Nat
  PROVE  /\ a % m \in 0 .. m - 1
         /\ \E x \in Nat : a = x + (a % m) /\ (x = 0 \/ x >= m)
<1> DEFINE q == a \div m
<1>1. q \in Int /\ a % m \in 0 .. m - 1 /\ a = m * q + (a % m)
  BY DivMod
<1> HIDE DEF q
<1>2. q >= 0
  <2> SUFFICES ASSUME q < 0 PROVE FALSE
    BY <1>1
  <2>1. m * q + m <= m * 0
    BY <1>1, MulStep
  <2> QED
    BY <1>1, <2>1
<1>3. q = 0 => m * q = 0
  OBVIOUS
<1>4. q > 0 => m * q >= m
  <2> SUFFICES ASSUME q > 0 PROVE m * q >= m
    OBVIOUS
  <2>1. m * 0 + m <= m * q
    BY <1>1, MulStep
  <2> QED
    BY <1>1, <2>1
<1>5. m * q \in Int
  BY <1>1
<1>6. m * q \in Nat /\ (m * q = 0 \/ m * q >= m)
  BY <1>1, <1>2, <1>3, <1>4, <1>5
<1> QED
  BY <1>1, <1>6

(***************************************************************************)
(* The arithmetic of an int: an offset that does not come out negative is  *)
(* never too large, and it is right while it is less than 2 * IntLimit.    *)
(***************************************************************************)
LEMMA Wrapped ==
  ASSUME NEW n \in Nat
  PROVE  /\ Wrap(n) \in -IntLimit .. IntLimit - 1
         /\ Wrap(n) <= n
         /\ Wrap(n) >= 0 /\ n < 2 * IntLimit => Wrap(n) = n /\ n < IntLimit
<1>1. IntLimit \in Nat \ {0}
  BY BookingListingAssumption
<1>2. 2 * IntLimit \in Nat \ {0} /\ n + IntLimit \in Nat
  BY <1>1
<1> DEFINE rest == (n + IntLimit) % (2 * IntLimit)
<1>3. /\ rest \in 0 .. 2 * IntLimit - 1
      /\ \E x \in Nat : /\ n + IntLimit = x + rest
                        /\ x = 0 \/ x >= 2 * IntLimit
  BY <1>2, RemainderAndRest
<1>4. Wrap(n) = rest - IntLimit
  BY DEF Wrap
<1> HIDE DEF rest
<1> QED
  BY <1>1, <1>3, <1>4

\* The page and its size, after defaults, and the offset they make.
LEMMA PageTypes ==
  ASSUME NEW c \in AllCall, c.pageSize <= MaxPageSize
  PROVE  /\ Page(c) \in Nat \ {0} /\ PageSize(c) \in 1 .. MaxPageSize
         /\ MaxPageSize < IntLimit
         /\ (Page(c) - 1) * PageSize(c) \in Nat
<1>1. /\ c.page \in Int /\ c.pageSize \in Int /\ MaxPageSize \in Int
      /\ MaxPageSize < IntLimit /\ DefaultPageSize \in 1 .. MaxPageSize
  BY BookingListingAssumption DEF AllCall, Ints
<1>2. Page(c) \in Nat \ {0} /\ PageSize(c) \in 1 .. MaxPageSize
  BY <1>1 DEF Page, PageSize
<1> QED
  BY <1>1, <1>2

(***************************************************************************)
(* What the client of a walk knows after the next page.  The offset wraps  *)
(* to a negative one before it can wrap to a smaller one, since a page is  *)
(* smaller than the range of negative ints: a walk stops with an error.    *)
(***************************************************************************)
LEMMA WalkGoesOn ==
  ASSUME WritersFit, NEW c \in AllCall, c.pageSize <= MaxPageSize,
         Offset(c) >= 0, NEW items \in PagesAt(Offset(c), PageSize(c)),
         NEW w \in Walk, WalkKnows(w)
  PROVE  Walked(w, c, items) \in Walk /\ WalkKnows(Walked(w, c, items))
<1> DEFINE size == PageSize(c)
           depth == (Page(c) - 1) * size
           short == Cardinality(items) < size
<1>1. /\ Page(c) \in Nat \ {0} /\ size \in 1 .. MaxPageSize /\ depth \in Nat
      /\ MaxPageSize \in Int /\ MaxPageSize < IntLimit
      /\ IntLimit \in Nat \ {0}
  BY PageTypes, BookingListingAssumption DEF Ints
<1>2. /\ Offset(c) \in Nat /\ Offset(c) <= depth
      /\ depth < 2 * IntLimit => Offset(c) = depth /\ depth < IntLimit
  BY <1>1, Wrapped DEF Offset
<1>3. /\ items \in SUBSET IDs /\ IDs \subseteq BookingIDs
      /\ Cardinality(items) \in Nat
  <2>1. items \in SUBSET IDs
    BY DEF PagesAt, kSubset
  <2> QED
    BY <2>1, FS_Subset, FS_CardinalityType DEF WritersFit, StorageTypeOK, IDs
<1>4. ASSUME NEW id \in IDs \ items, AgeIsUnique(id), Offset(c) = depth,
             Cardinality(Newer(id)) >= depth
      PROVE  ~ short /\ Cardinality(Newer(id)) >= depth + size
  BY <1>1, <1>2, <1>4, BehindThePage
<1>5. CASE Page(c) = 1
  <2> DEFINE v == [size |-> size, next |-> 2, existing |-> IDs,
                   seen |-> items, complete |-> short]
  <2>1. Walked(w, c, items) = v
    BY <1>5 DEF Walked
  <2>2. v \in Walk
    BY <1>1, <1>3 DEF Walk
  <2>3. depth = 0 /\ Offset(c) = depth
    BY <1>1, <1>2, <1>5
  <2>4. \A id \in IDs : Cardinality(Newer(id)) \in Nat
    BY FS_Subset, FS_CardinalityType DEF WritersFit, Newer
  <2>5. \A id \in IDs \ items :
          AgeIsUnique(id) => ~ short /\ Cardinality(Newer(id)) >= size
    BY <1>1, <1>4, <2>3, <2>4
  <2>6. (2 - 2) * size < IntLimit /\ (2 - 1) * size = size
    BY <1>1
  <2>7. WalkKnows(v)
    <3>1. /\ v.existing = IDs /\ v.seen = items /\ v.size = size
          /\ v.next = 2 /\ v.complete = short
      OBVIOUS
    <3> HIDE DEF v, size, short
    <3> QED
      BY <1>1, <2>5, <2>6, <3>1 DEF WalkKnows
  <2> QED
    BY <2>1, <2>2, <2>7
<1>6. CASE Page(c) # 1 /\ Page(c) = w.next /\ size = w.size /\ ~ w.complete
  <2> DEFINE v == [w EXCEPT !.next = @ + 1, !.seen = @ \cup items,
                            !.complete = short]
  <2>1. Walked(w, c, items) = v
    BY <1>6 DEF Walked
  <2>2. /\ v \in Walk /\ v.size = size /\ v.next = Page(c) + 1
        /\ v.existing = w.existing /\ v.seen = w.seen \cup items
        /\ v.complete = short
    <3>1. /\ w.next = Page(c) /\ w.size = size /\ short \in BOOLEAN
          /\ w.seen \cup items \in SUBSET BookingIDs
      BY <1>3, <1>6 DEF Walk
    <3>2. w.next + 1 = Page(c) + 1 /\ Page(c) + 1 \in Int /\ size \in Int
      BY <1>1, <3>1
    <3> HIDE DEF size, short
    <3>3. /\ v.size = w.size /\ v.next = w.next + 1
          /\ v.existing = w.existing /\ v.seen = w.seen \cup items
      BY DEF Walk
    <3>4. v.complete = short
      BY DEF Walk
    <3>5. v \in Walk
      BY <3>1, <3>2 DEF Walk
    <3> QED
      BY <3>1, <3>2, <3>3, <3>4, <3>5
  <2>3. /\ w.next >= 2 /\ (Page(c) - 2) * size < IntLimit
        /\ w.existing \subseteq IDs
    BY <1>1, <1>6 DEF WalkKnows
  <2>4. depth = (Page(c) - 2) * size + size
    BY <1>1
  <2>5. Offset(c) = depth /\ depth < IntLimit
    <3> DEFINE last == (Page(c) - 2) * size
    <3>1. last \in Int
      BY <1>1
    <3> HIDE DEF last, depth, size
    <3>2. depth < 2 * IntLimit
      BY <1>1, <2>3, <2>4, <3>1 DEF last
    <3> QED
      BY <1>2, <3>2
  <2>6. \A id \in w.existing \ (w.seen \cup items) :
          AgeIsUnique(id) => ~ short /\ Cardinality(Newer(id)) >= depth + size
    BY <1>4, <1>6, <2>3, <2>5 DEF WalkKnows
  <2>7. /\ (v.next - 2) * v.size = depth
        /\ (v.next - 1) * v.size = depth + size
    BY <1>1, <2>2
  <2> HIDE DEF v, size, depth, short
  <2>8. WalkKnows(v)
    BY <1>1, <2>2, <2>3, <2>5, <2>6, <2>7 DEF WalkKnows
  <2> QED
    BY <2>1, <2>2, <2>8
<1>7. CASE /\ Page(c) # 1
           /\ ~ (Page(c) = w.next /\ size = w.size /\ ~ w.complete)
  BY <1>7 DEF Walked
<1> QED
  BY <1>5, <1>6, <1>7

-----------------------------------------------------------------------------
(***************************************************************************)
(* The listings.                                                           *)
(***************************************************************************)

\* One goroutine moves, and the tables stay as they are: the invariant is
\* kept if its step, request, answer, total and walk fit.
LEMMA Move ==
  ASSUME Inv, UNCHANGED <<now, writers>>, NEW p \in Procs, NEW step, NEW c,
         NEW r, NEW t, NEW w, Fits(step, c, r, t, w),
         pc' = [pc EXCEPT ![p] = step], call' = [call EXCEPT ![p] = c],
         reply' = [reply EXCEPT ![p] = r], total' = [total EXCEPT ![p] = t],
         walk' = [walk EXCEPT ![p] = w]
  PROVE  Inv'
<1>1. WritersFit' /\ RowsKept
  BY DEF Inv, writers, WritersFit, StorageTypeOK, IsTrue, IDs, RowsKept
<1>2. /\ step \in Steps /\ c \in MyCall \cup AllCall \cup {NULL} /\ w \in Walk
      /\ t \in Int
  <2>1. Cardinality(IDs) \in Nat
    BY FS_CardinalityType DEF Inv, WritersFit
  <2> QED
    BY <2>1 DEF Fits
<1>3. /\ pc' \in [Procs -> Steps] /\ total' \in [Procs -> Int]
      /\ call' \in [Procs -> MyCall \cup AllCall \cup {NULL}]
      /\ walk' \in [Procs -> Walk]
      /\ reply' = [q \in Procs |-> reply'[q]]
  BY <1>2 DEF Inv
<1>4. /\ pc'[p] = step /\ call'[p] = c /\ reply'[p] = r /\ total'[p] = t
      /\ walk'[p] = w
      /\ \A q \in Procs \ {p} :
           UNCHANGED <<pc[q], call[q], reply[q], total[q], walk[q]>>
  BY DEF Inv
<1>5. ASSUME NEW q \in Procs
      PROVE  Fits(pc[q], call[q], reply[q], total[q], walk[q])'
  <2>1. CASE q = p
    <3>1. Fits(step, c, r, t, w)'
      BY <1>1, FitsKept DEF Inv
    <3> QED
      BY <1>4, <2>1, <3>1
  <2>2. CASE q # p
    <3> DEFINE k == <<pc[q], call[q], reply[q], total[q], walk[q]>>
    <3>1. \A a1, a2, a3, a4, a5 :
            Fits(a1, a2, a3, a4, a5) => Fits(a1, a2, a3, a4, a5)'
      BY <1>1, FitsKept DEF Inv
    <3>2. Fits(pc[q], call[q], reply[q], total[q], walk[q])
      BY DEF Inv
    <3> QED
      BY <1>4, <2>2, <3>1, <3>2
  <2> QED
    BY <2>1, <2>2
<1> QED
  BY <1>1, <1>3, <1>5 DEF Inv

\* What is known of the goroutine p and its client before a step.
LEMMA Before ==
  ASSUME Inv, NEW p \in Procs
  PROVE  /\ Fits(pc[p], call[p], reply[p], total[p], walk[p])
         /\ walk[p] \in Walk /\ WalkKnows(walk[p])
         /\ pc[p] # "idle" => call[p] \in MyCall \cup AllCall
         /\ WritersFit /\ Cardinality(IDs) \in Nat
<1>1. Fits(pc[p], call[p], reply[p], total[p], walk[p]) /\ pc[p] \in Steps
  BY DEF Inv
<1>2. /\ call[p] \in MyCall \cup AllCall \cup {NULL}
      /\ pc[p] # "idle" => call[p] \in MyCall \cup AllCall
  BY <1>1 DEF Fits, Steps
<1> QED
  BY <1>1, <1>2, FS_CardinalityType DEF Inv, Fits, WritersFit

\* What a step leaves as it is, in the form that Move asks for.
LEMMA Same ==
  ASSUME Inv, NEW p \in Procs
  PROVE  /\ call' = call => call' = [call EXCEPT ![p] = call[p]]
         /\ reply' = reply => reply' = [reply EXCEPT ![p] = reply[p]]
         /\ total' = total => total' = [total EXCEPT ![p] = total[p]]
         /\ walk' = walk => walk' = [walk EXCEPT ![p] = walk[p]]
<1>1. call = [call EXCEPT ![p] = call[p]]
  BY DEF Inv
<1>2. reply = [reply EXCEPT ![p] = reply[p]]
  BY DEF Inv
<1>3. total = [total EXCEPT ![p] = total[p]]
  BY DEF Inv
<1>4. walk = [walk EXCEPT ![p] = walk[p]]
  BY DEF Inv
<1> QED
  BY <1>1, <1>2, <1>3, <1>4

\* An answer that is no list.
LEMMA FailureFits ==
  ASSUME WritersFit, NEW c \in MyCall \cup AllCall,
         c \in MyCall => \A id \in BookingIDs : IsTrue(id, c.told[id]),
         NEW code \in Codes \ {"ok"}, NEW w \in Walk, WalkKnows(w)
  PROVE  Fits("idle", c, Failure(code), 0, w)
<1>1. Cardinality(IDs) \in Nat
  BY FS_CardinalityType DEF WritersFit
<1>2. Failure(code).code = code
  BY DEF Failure
<1> QED
  BY <1>1, <1>2 DEF Fits, Steps

LEMMA ListMyStep ==
  ASSUME Inv, NEW p \in Procs, NEW u \in Users, ListMy(p, u)
  PROVE  Inv'
<1> DEFINE c == [op |-> "my", user |-> u, clock |-> now, told |-> told]
<1>1. c \in MyCall /\ c.told = told
  BY DEF Inv, WritersFit, StorageTypeOK, MyCall
<1>2. /\ UNCHANGED <<now, writers>> /\ UNCHANGED walk
      /\ call' = [call EXCEPT ![p] = c]
      /\ Accept(p, "ListByUserFuture") \/ Answer(p, Failure("FORBIDDEN"))
  BY DEF ListMy, Receive
<1> HIDE DEF c
<1>3. \A id \in BookingIDs : IsTrue(id, c.told[id])
  BY <1>1 DEF Inv, WritersFit
<1>4. CASE Accept(p, "ListByUserFuture")
  <2>1. Fits("ListByUserFuture", c, NULL, total[p], walk[p])
    BY <1>1, <1>3, Before DEF Fits, Steps
  <2>2. /\ pc' = [pc EXCEPT ![p] = "ListByUserFuture"]
        /\ call' = [call EXCEPT ![p] = c]
        /\ reply' = [reply EXCEPT ![p] = NULL]
        /\ total' = [total EXCEPT ![p] = total[p]]
        /\ walk' = [walk EXCEPT ![p] = walk[p]]
    BY <1>2, <1>4, Same DEF Accept, Goto
  <2> QED
    BY <1>2, <2>1, <2>2, Move
<1>5. CASE Answer(p, Failure("FORBIDDEN"))
  <2>1. Fits("idle", c, Failure("FORBIDDEN"), 0, walk[p])
    BY <1>1, <1>3, Before, FailureFits DEF Codes
  <2>2. /\ pc' = [pc EXCEPT ![p] = "idle"]
        /\ call' = [call EXCEPT ![p] = c]
        /\ reply' = [reply EXCEPT ![p] = Failure("FORBIDDEN")]
        /\ total' = [total EXCEPT ![p] = 0]
        /\ walk' = [walk EXCEPT ![p] = walk[p]]
    BY <1>2, <1>5, Same DEF Answer, Goto
  <2> QED
    BY <1>2, <2>1, <2>2, Move
<1> QED
  BY <1>2, <1>4, <1>5

LEMMA ListByUserFutureStep ==
  ASSUME Inv, NEW p \in Procs, ListByUserFuture(p)
  PROVE  Inv'
<1> DEFINE c == call[p]
           items == FutureOf(c.user, c.clock)
           r == [code |-> "ok", items |-> Shown(items)]
<1>1. /\ UNCHANGED <<now, writers>> /\ UNCHANGED call /\ UNCHANGED walk
      /\ pc[p] = "ListByUserFuture" /\ Answer(p, r)
  BY DEF ListByUserFuture
<1>2. /\ c \in MyCall /\ c.op = "my"
      /\ \A id \in BookingIDs : IsTrue(id, c.told[id])
  BY <1>1, Before DEF Fits, MyCall
<1>3. /\ DOMAIN r.items = items /\ r.code = "ok"
      /\ \A id \in items : r.items[id] = bookings[id].status
  BY DEF Shown
<1> HIDE DEF r
<1>4. Promised(c, r)
  BY <1>2, <1>3 DEF Promised, FutureOf, IsTrue, Inv, WritersFit, StorageTypeOK, IDs
<1>5. Fits("idle", c, r, 0, walk[p])
  BY <1>2, <1>3, <1>4, Before DEF Fits, Steps, Codes
<1>6. /\ pc' = [pc EXCEPT ![p] = "idle"]
      /\ call' = [call EXCEPT ![p] = c]
      /\ reply' = [reply EXCEPT ![p] = r]
      /\ total' = [total EXCEPT ![p] = 0]
      /\ walk' = [walk EXCEPT ![p] = walk[p]]
  BY <1>1, Same DEF Answer, Goto
<1> QED
  BY <1>1, <1>5, <1>6, Move

LEMMA ListAllStep ==
  ASSUME Inv, NEW p \in Procs, NEW u \in Users, NEW page \in PageParams,
         NEW pageSize \in SizeParams, ListAll(p, u, page, pageSize)
  PROVE  Inv'
<1> DEFINE c == [op |-> "all", user |-> u, page |-> Given(page, 1),
                 pageSize |-> Given(pageSize, DefaultPageSize)]
<1>1. Given(page, 1) \in Ints /\ Given(pageSize, DefaultPageSize) \in Ints
  <2>1. 1 \in Ints /\ DefaultPageSize \in Ints
    BY BookingListingAssumption DEF Ints
  <2> QED
    BY <2>1, BookingListingAssumption DEF Given
<1>2. c \in AllCall /\ c \notin MyCall /\ c.user = u
  BY <1>1 DEF AllCall, MyCall
<1>3. /\ UNCHANGED <<now, writers>> /\ UNCHANGED walk
      /\ call' = [call EXCEPT ![p] = c]
      /\ \/ Answer(p, Failure("FORBIDDEN")) \/ Answer(p, Failure("INVALID_REQUEST"))
         \/ /\ Role(u) = "admin" /\ PageSize(c) <= MaxPageSize
            /\ Accept(p, "Count")
  BY DEF ListAll, Receive
<1> HIDE DEF c
<1>4. ASSUME NEW code \in {"FORBIDDEN", "INVALID_REQUEST"},
             Answer(p, Failure(code))
      PROVE  Inv'
  <2>1. Fits("idle", c, Failure(code), 0, walk[p])
    BY <1>2, Before, FailureFits DEF Codes
  <2>2. /\ pc' = [pc EXCEPT ![p] = "idle"]
        /\ call' = [call EXCEPT ![p] = c]
        /\ reply' = [reply EXCEPT ![p] = Failure(code)]
        /\ total' = [total EXCEPT ![p] = 0]
        /\ walk' = [walk EXCEPT ![p] = walk[p]]
    BY <1>3, <1>4, Same DEF Answer, Goto
  <2> QED
    BY <1>3, <2>1, <2>2, Move
<1>5. CASE /\ Role(u) = "admin" /\ PageSize(c) <= MaxPageSize
           /\ Accept(p, "Count")
  <2>1. c.pageSize <= MaxPageSize
    BY <1>2, <1>5, BookingListingAssumption DEF PageSize, AllCall, Ints
  <2>2. Fits("Count", c, NULL, total[p], walk[p])
    BY <1>2, <1>5, <2>1, Before DEF Fits, Steps
  <2>3. /\ pc' = [pc EXCEPT ![p] = "Count"]
        /\ call' = [call EXCEPT ![p] = c]
        /\ reply' = [reply EXCEPT ![p] = NULL]
        /\ total' = [total EXCEPT ![p] = total[p]]
        /\ walk' = [walk EXCEPT ![p] = walk[p]]
    BY <1>3, <1>5, Same DEF Accept, Goto
  <2> QED
    BY <1>3, <2>2, <2>3, Move
<1> QED
  BY <1>3, <1>4, <1>5

LEMMA CountStep ==
  ASSUME Inv, NEW p \in Procs, Count(p)
  PROVE  Inv'
<1>1. /\ UNCHANGED <<call, reply, walk>>
      /\ pc[p] = "Count" /\ Goto(p, "Page")
      /\ total' = [total EXCEPT ![p] = Cardinality(IDs)]
  BY DEF Count
<1>2. Fits("Page", call[p], reply[p], Cardinality(IDs), walk[p])
  BY <1>1, Before DEF Fits, Steps
<1>3. /\ pc' = [pc EXCEPT ![p] = "Page"]
      /\ call' = [call EXCEPT ![p] = call[p]]
      /\ reply' = [reply EXCEPT ![p] = reply[p]]
      /\ total' = [total EXCEPT ![p] = Cardinality(IDs)]
      /\ walk' = [walk EXCEPT ![p] = walk[p]]
  BY <1>1, Same DEF Goto
<1>4. UNCHANGED <<now, writers>>
  BY DEF Count
<1> QED
  BY <1>2, <1>3, <1>4, Move

LEMMA SelectPageStep ==
  ASSUME Inv, NEW p \in Procs, SelectPage(p)
  PROVE  Inv'
<1> DEFINE c == call[p]
<1>1. PICK items \in PagesAt(Offset(c), PageSize(c)) :
        /\ Answer(p, [code |-> "ok", items |-> Shown(items), total |-> total[p]])
        /\ walk' = [walk EXCEPT ![p] = Walked(walk[p], c, items)]
  BY DEF SelectPage
<1> DEFINE r == [code |-> "ok", items |-> Shown(items), total |-> total[p]]
           w == Walked(walk[p], c, items)
<1>2. /\ UNCHANGED <<now, writers>> /\ UNCHANGED call
      /\ pc[p] = "Page" /\ Offset(c) >= 0
  BY DEF SelectPage
<1>3. /\ c \in AllCall /\ c \notin MyCall /\ c.op = "all"
      /\ c.pageSize <= MaxPageSize /\ total[p] \in 0 .. Cardinality(IDs)
  BY <1>2, Before DEF Fits, AllCall, MyCall
<1>4. w \in Walk /\ WalkKnows(w)
  BY <1>2, <1>3, Before, WalkGoesOn
<1>5. r.code = "ok" /\ DOMAIN r.items = items /\ r.total = total[p]
  BY DEF Shown
<1>6. Filled(c, r)
  <2> DEFINE skip == (Page(c) - 1) * PageSize(c)
  <2>1. skip \in Nat /\ PageSize(c) \in Nat
    BY <1>3, PageTypes, BookingListingAssumption DEF Ints
  <2>2. Offset(c) \in Nat /\ Offset(c) <= skip
    BY <1>2, <2>1, Wrapped, BookingListingAssumption DEF Offset
  <2>3. IsFiniteSet(IDs)
    BY DEF Inv, WritersFit
  <2> HIDE DEF skip
  <2>4. Cardinality(items) >= LeastOf(PageSize(c), total[p] - skip)
    BY <1>3, <2>1, <2>2, <2>3, PageLength
  <2> QED
    BY <1>5, <2>4 DEF Filled, skip
<1> HIDE DEF r, w
<1>7. Fits("idle", c, r, 0, w)
  BY <1>3, <1>4, <1>5, <1>6, Before DEF Fits, Steps, Codes
<1>8. /\ pc' = [pc EXCEPT ![p] = "idle"]
      /\ call' = [call EXCEPT ![p] = c]
      /\ reply' = [reply EXCEPT ![p] = r]
      /\ total' = [total EXCEPT ![p] = 0]
      /\ walk' = [walk EXCEPT ![p] = w]
  BY <1>1, <1>2, Same DEF Answer, Goto, r, w
<1> QED
  BY <1>2, <1>7, <1>8, Move

LEMMA DBErrorStep ==
  ASSUME Inv, NEW p \in Procs, DBError(p)
  PROVE  Inv'
<1>1. /\ UNCHANGED <<now, writers>> /\ UNCHANGED call /\ UNCHANGED walk
      /\ pc[p] # "idle" /\ Answer(p, Failure("INTERNAL_ERROR"))
  BY DEF DBError
<1>2. call[p] \in MyCall \cup AllCall
  BY <1>1, Before
<1>3. ASSUME call[p] \in MyCall
      PROVE  \A id \in BookingIDs : IsTrue(id, call[p].told[id])
  <2>1. call[p] \notin AllCall
    BY <1>3 DEF MyCall, AllCall
  <2> QED
    BY <1>1, <1>3, <2>1, Before DEF Fits, Steps
<1>4. Fits("idle", call[p], Failure("INTERNAL_ERROR"), 0, walk[p])
  BY <1>2, <1>3, Before, FailureFits DEF Codes
<1>5. /\ pc' = [pc EXCEPT ![p] = "idle"]
      /\ call' = [call EXCEPT ![p] = call[p]]
      /\ reply' = [reply EXCEPT ![p] = Failure("INTERNAL_ERROR")]
      /\ total' = [total EXCEPT ![p] = 0]
      /\ walk' = [walk EXCEPT ![p] = walk[p]]
  BY <1>1, Same DEF Answer, Goto
<1> QED
  BY <1>1, <1>4, <1>5, Move

LEMMA AbandonStep ==
  ASSUME Inv, NEW p \in Procs, Abandon(p)
  PROVE  Inv'
<1>1. /\ UNCHANGED <<call, reply, walk>>
      /\ Goto(p, "idle") /\ total' = [total EXCEPT ![p] = 0]
  BY DEF Abandon
<1>2. Fits("idle", call[p], reply[p], 0, walk[p])
  BY Before DEF Fits, Steps
<1>3. /\ pc' = [pc EXCEPT ![p] = "idle"]
      /\ call' = [call EXCEPT ![p] = call[p]]
      /\ reply' = [reply EXCEPT ![p] = reply[p]]
      /\ total' = [total EXCEPT ![p] = 0]
      /\ walk' = [walk EXCEPT ![p] = walk[p]]
  BY <1>1, Same DEF Goto
<1>4. UNCHANGED <<now, writers>>
  BY DEF Abandon
<1> QED
  BY <1>2, <1>3, <1>4, Move

LEMMA StepInv == Inv /\ [Next]_vars => Inv'
<1> SUFFICES ASSUME Inv, [Next]_vars PROVE Inv'
  OBVIOUS
<1>1. CASE Tick \/ Write
  BY <1>1, WriteStep
<1>2. ASSUME NEW p \in Procs, Serve(p)
      PROVE  Inv'
  BY <1>2, ListMyStep, ListByUserFutureStep, ListAllStep, CountStep,
     SelectPageStep, DBErrorStep, AbandonStep DEF Serve
<1>3. CASE UNCHANGED vars
  <2>1. WritersFit' /\ RowsKept
    BY <1>3 DEF vars, Inv, writers, WritersFit, StorageTypeOK, IsTrue, IDs,
                RowsKept
  <2>2. \A p \in Procs : Fits(pc[p], call[p], reply[p], total[p], walk[p])'
    BY <1>3, <2>1, FitsKept DEF Inv, vars
  <2> QED
    BY <1>3, <2>1, <2>2 DEF Inv, vars
<1> QED
  BY <1>1, <1>2, <1>3 DEF Next

-----------------------------------------------------------------------------
\* The invariant holds in every state of the listings and the writers.
THEOREM Invariance == Spec => []Inv
BY InitInv, StepInv, PTL DEF Spec

\* Type correctness: a total never exceeds the rows, only an admin's request
\* with a page size within the limit reaches the statements of ListAll.
THEOREM TypeCorrect == Spec => []TypeOK
<1>1. Inv => TypeOK
  BY DEF Inv, WritersFit, Fits, TypeOK
<1> QED
  BY <1>1, Invariance, PTL

\* ListMy: a user reads their own writes, for any number of writers.
THEOREM MyListKeepsPromisesAlways == Spec => []MyListKeepsPromises
<1>1. Inv => MyListKeepsPromises
  BY DEF Inv, Fits, MyListKeepsPromises, Promised, Listed
<1> QED
  BY <1>1, Invariance, PTL

\* ListAll: a page holds what the total says, although count and page are two
\* statements, and although the offset may wrap around.
THEOREM PageHoldsWhatTotalSaysAlways == Spec => []PageHoldsWhatTotalSays
<1>1. Inv => PageHoldsWhatTotalSays
  BY DEF Inv, Fits, PageHoldsWhatTotalSays, Filled, Listed
<1> QED
  BY <1>1, Invariance, PTL

\* ListAll, page after page: no booking that was there is missed, for any page
\* size, any number of rows and any width of an int.
THEOREM WalkMissesNothingAlways == Spec => []WalkMissesNothing
<1>1. Inv => WalkMissesNothing
  BY DEF Inv, Fits, WalkMissesNothing, WalkKnows
<1> QED
  BY <1>1, Invariance, PTL

=============================================================================
