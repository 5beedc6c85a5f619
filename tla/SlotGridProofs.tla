---------------------------- MODULE SlotGridProofs ----------------------------
(***************************************************************************)
(* Theorems about the slot grid: distances between grid points, and the    *)
(* agreement of GenerateSlotsForDate with IsStartAtWithinSchedule.         *)
(***************************************************************************)
EXTENDS SlotGrid, TLAPS

\* Division with remainder by a positive number.
LEMMA DivMod ==
  ASSUME NEW a \in Int, NEW d \in Nat \ {0}
  PROVE  /\ a \div d \in Int
         /\ a % d \in 0..(d - 1)
         /\ a = d * (a \div d) + (a % d)
OBVIOUS

\* Multiplication by a positive number keeps a gap of one.
LEMMA MulStep ==
  ASSUME NEW d \in Nat \ {0}, NEW p \in Int, NEW q \in Int, p < q
  PROVE  d * p + d <= d * q
OBVIOUS

\* Quotient and remainder are unique.
LEMMA DivUnique ==
  ASSUME NEW d \in Nat \ {0}, NEW q \in Int, NEW r \in 0..(d - 1)
  PROVE  (d * q + r) \div d = q /\ (d * q + r) % d = r
<1> DEFINE a == d * q + r
           q2 == a \div d
           r2 == a % d
<1>1. a \in Int
  OBVIOUS
<1>2. q2 \in Int /\ r2 \in 0..(d - 1) /\ a = d * q2 + r2
  BY <1>1, DivMod
<1>3. d * q + r = d * q2 + r2
  BY <1>2
<1> HIDE DEF a, q2, r2
<1>4. ~ (q < q2)
  BY <1>2, <1>3, MulStep
<1>5. ~ (q2 < q)
  BY <1>2, <1>3, MulStep
<1>6. q = q2
  BY <1>2, <1>4, <1>5
<1>7. r = r2
  BY <1>2, <1>3, <1>6
<1> QED
  BY <1>6, <1>7 DEF a, q2, r2

\* A multiple of the slot is on the grid, and only multiples are.
LEMMA GridMultiple ==
  ASSUME NEW k \in Int
  PROVE  SlotDuration * k \in Int /\ OnGrid(SlotDuration * k)
BY SlotGridAssumption, DivUnique DEF OnGrid

LEMMA GridIsMultiple ==
  ASSUME NEW t \in Int, OnGrid(t)
  PROVE  /\ t \div SlotDuration \in Int
         /\ t = SlotDuration * (t \div SlotDuration)
BY SlotGridAssumption, DivMod DEF OnGrid

LEMMA GridSum ==
  ASSUME NEW a \in Int, NEW b \in Int, OnGrid(a), OnGrid(b),
         NEW c \in Int, c = a + b \/ c = a - b
  PROVE  OnGrid(c)
<1> DEFINE p == a \div SlotDuration
           q == b \div SlotDuration
<1>1. p \in Int /\ q \in Int /\ a = SlotDuration * p /\ b = SlotDuration * q
  BY GridIsMultiple
<1> HIDE DEF p, q
<1>2. a + b = SlotDuration * (p + q) /\ a - b = SlotDuration * (p - q)
  BY <1>1, SlotGridAssumption
<1>3. OnGrid(a + b) /\ OnGrid(a - b)
  BY <1>1, <1>2, GridMultiple
<1> QED
  BY <1>3

\* Two different grid points are at least a slot apart: this is why a
\* unique start is enough to keep bookings from overlapping.
LEMMA GridApart ==
  ASSUME NEW a \in Int, NEW b \in Int, OnGrid(a), OnGrid(b), a < b
  PROVE  a + SlotDuration <= b
<1> DEFINE p == a \div SlotDuration
           q == b \div SlotDuration
<1>1. p \in Int /\ q \in Int /\ a = SlotDuration * p /\ b = SlotDuration * q
  BY GridIsMultiple
<1> HIDE DEF p, q
<1>2. p < q
  BY <1>1, MulStep, SlotGridAssumption
<1> QED
  BY <1>1, <1>2, MulStep, SlotGridAssumption

-----------------------------------------------------------------------------
LEMMA DayLengthType == DayLength \in Nat \ {0}
BY SlotGridAssumption DEF DayLength

LEMMA DayOnGrid ==
  ASSUME NEW m \in Int
  PROVE  DayLength * m \in Int /\ OnGrid(DayLength * m)
<1> DEFINE k == SlotsPerDay * m
<1>1. DayLength * m = SlotDuration * k /\ k \in Int
  BY SlotGridAssumption DEF DayLength
<1> HIDE DEF k
<1> QED
  BY <1>1, GridMultiple

\* Midnight and the time of day are the parts of an instant.
LEMMA DayParts ==
  ASSUME NEW t \in Int
  PROVE  /\ TimeOfDay(t) \in 0..(DayLength - 1)
         /\ TruncateToDayUTC(t) \in Int
         /\ t \div DayLength \in Int
         /\ TruncateToDayUTC(t) = DayLength * (t \div DayLength)
         /\ t = TruncateToDayUTC(t) + TimeOfDay(t)
         /\ OnGrid(TruncateToDayUTC(t))
<1>1. /\ t \div DayLength \in Int
      /\ t % DayLength \in 0..(DayLength - 1)
      /\ t = DayLength * (t \div DayLength) + (t % DayLength)
  BY DayLengthType, DivMod
<1>2. /\ DayLength * (t \div DayLength) \in Int
      /\ OnGrid(DayLength * (t \div DayLength))
  BY <1>1, DayOnGrid
<1> DEFINE q == t \div DayLength
           x == DayLength * q
<1>3. t = x + (t % DayLength) /\ x \in Int
  BY <1>1, <1>2
<1> HIDE DEF x
<1>4. t - (t % DayLength) = x
  BY <1>1, <1>3
<1> QED
  BY <1>1, <1>2, <1>4 DEF TimeOfDay, TruncateToDayUTC, x

\* An instant put together from a midnight and a time of day.
LEMMA DayJoin ==
  ASSUME NEW date \in Int, NEW r \in 0..(DayLength - 1)
  PROVE  LET t == TruncateToDayUTC(date) + r
         IN  /\ TimeOfDay(t) = r
             /\ TruncateToDayUTC(t) = TruncateToDayUTC(date)
             /\ WeekdayToISO(t) = WeekdayToISO(date)
<1> DEFINE m == date \div DayLength
           t == DayLength * m + r
<1>1. m \in Int /\ TruncateToDayUTC(date) = DayLength * m
  BY DayParts
<1>2. t \div DayLength = m /\ t % DayLength = r
  BY <1>1, DayLengthType, DivUnique
<1>3. DayLength * m \in Int /\ t \in Int
  BY <1>1, DayOnGrid, DayLengthType
<1>4. t - r = DayLength * m
  BY <1>3, DayLengthType
<1> QED
  BY <1>1, <1>2, <1>4 DEF TimeOfDay, TruncateToDayUTC, WeekdayToISO

\* A day is the instants with the same midnight.
LEMMA SameDay ==
  ASSUME NEW d \in Int, NEW t \in Int
  PROVE  t \in TruncateToDayUTC(d) .. TruncateToDayUTC(d) + DayLength - 1
           <=> TruncateToDayUTC(t) = TruncateToDayUTC(d)
<1> DEFINE m == TruncateToDayUTC(d)
<1>1. /\ m \in Int /\ TruncateToDayUTC(t) \in Int
      /\ t = TruncateToDayUTC(t) + TimeOfDay(t)
      /\ TimeOfDay(t) \in 0..(DayLength - 1)
      /\ DayLength \in Nat \ {0}
  BY DayParts, DayLengthType
<1>2. ASSUME t \in m .. m + DayLength - 1
      PROVE  TruncateToDayUTC(t) = m
  <2>1. t - m \in 0..(DayLength - 1) /\ m + (t - m) = t
    BY <1>1, <1>2
  <2> QED
    BY <2>1, DayJoin
<1> HIDE DEF m
<1>3. ASSUME TruncateToDayUTC(t) = m
      PROVE  t \in m .. m + DayLength - 1
  BY <1>1, <1>3
<1> QED
  BY <1>2, <1>3 DEF m

-----------------------------------------------------------------------------
\* Each start of the generated list passes the check of a booking request.
LEMMA GeneratedIsWithin ==
  ASSUME NEW s \in Schedule, ValidSchedule(s), NEW date \in Int,
         NEW t \in GenerateSlotsForDate(s, date)
  PROVE  /\ t \in Int
         /\ TruncateToDayUTC(t) = TruncateToDayUTC(date)
         /\ IsStartAtWithinSchedule(s, t)
<1> DEFINE day == TruncateToDayUTC(date)
           n == (s.endTime - s.startTime) \div SlotDuration
<1>1. /\ s.startTime \in 0..(DayLength - 1) /\ OnGrid(s.startTime)
      /\ s.endTime \in 0..(DayLength - 1) /\ OnGrid(s.endTime)
      /\ s.startTime < s.endTime
  BY DEF ValidSchedule, ValidWindow
<1>2. day \in Int /\ OnGrid(day)
  BY DayParts
<1> DEFINE w == s.endTime - s.startTime
<1>3. w \in Int /\ OnGrid(w)
  <2>1. w \in Int /\ s.endTime \in Int /\ s.startTime \in Int
    BY <1>1, DayLengthType
  <2> QED
    BY <2>1, <1>1, GridSum
<1>4. n \in Int /\ s.endTime - s.startTime = SlotDuration * n
  BY <1>3, GridIsMultiple
<1>5. PICK k \in 0..(n - 1) : t = day + s.startTime + k * SlotDuration
  BY DEF GenerateSlotsForDate
<1>6. WeekdayToISO(day) \in s.days
  BY DEF GenerateSlotsForDate
<1> DEFINE m == SlotDuration * k
<1>7. m \in Int /\ OnGrid(m) /\ t = day + s.startTime + m
  <2>1. k \in Int
    BY <1>4, <1>5
  <2>2. m \in Int /\ OnGrid(m)
    BY <2>1, GridMultiple
  <2>3. k * SlotDuration = m
    BY <2>1, SlotGridAssumption
  <2> QED
    BY <2>2, <2>3, <1>5
<1>8. 0 <= m /\ m + SlotDuration <= SlotDuration * n
  <2>1. k \in Int /\ 0 <= k /\ k < n
    BY <1>4, <1>5
  <2> QED
    BY <2>1, <1>4, MulStep, SlotGridAssumption
<1> HIDE DEF day, n, m
<1> DEFINE r == s.startTime + m
<1>9. /\ r \in 0..(DayLength - 1)
      /\ r >= s.startTime
      /\ r + SlotDuration <= s.endTime
  BY <1>1, <1>4, <1>7, <1>8, DayLengthType, SlotGridAssumption
<1>10. t = day + r /\ OnGrid(t) /\ t \in Int
  <2>1. r \in Int /\ s.startTime \in Int
    BY <1>1, <1>7, DayLengthType
  <2>2. OnGrid(r)
    BY <2>1, <1>1, <1>7, GridSum
  <2>3. t = day + r /\ t \in Int
    BY <2>1, <1>2, <1>7
  <2> HIDE DEF r
  <2> QED
    BY <2>1, <2>2, <2>3, <1>2, GridSum
<1> HIDE DEF r
<1>11. /\ TimeOfDay(t) = r
       /\ TruncateToDayUTC(t) = day
       /\ WeekdayToISO(t) = WeekdayToISO(date)
  BY <1>9, <1>10, DayJoin DEF day
<1>12. WeekdayToISO(day) = WeekdayToISO(date)
  <2>1. 0 \in 0..(DayLength - 1) /\ day + 0 = day
    BY <1>2, DayLengthType
  <2> QED
    BY <2>1, DayJoin DEF day
<1> QED
  BY <1>6, <1>9, <1>10, <1>11, <1>12 DEF IsStartAtWithinSchedule, day

\* Each start that passes the check of a booking request is in the list.
LEMMA WithinIsGenerated ==
  ASSUME NEW s \in Schedule, ValidSchedule(s), NEW date \in Int, NEW t \in Int,
         TruncateToDayUTC(t) = TruncateToDayUTC(date),
         IsStartAtWithinSchedule(s, t)
  PROVE  t \in GenerateSlotsForDate(s, date)
<1> DEFINE day == TruncateToDayUTC(date)
           r == TimeOfDay(t)
           n == (s.endTime - s.startTime) \div SlotDuration
           k == (r - s.startTime) \div SlotDuration
<1>1. /\ s.startTime \in 0..(DayLength - 1) /\ OnGrid(s.startTime)
      /\ s.endTime \in 0..(DayLength - 1) /\ OnGrid(s.endTime)
  BY DEF ValidSchedule, ValidWindow
<1>2. /\ day \in Int /\ OnGrid(day) /\ OnGrid(t)
      /\ r \in 0..(DayLength - 1) /\ t = day + r
      /\ r >= s.startTime /\ r + SlotDuration <= s.endTime
  BY DayParts DEF IsStartAtWithinSchedule
<1>3. WeekdayToISO(day) \in s.days
  <2>1. WeekdayToISO(t) = WeekdayToISO(date)
    BY <1>2, DayJoin
  <2>2. 0 \in 0..(DayLength - 1) /\ day + 0 = day
    BY <1>2, DayLengthType
  <2>3. WeekdayToISO(day) = WeekdayToISO(date)
    BY <2>2, DayJoin
  <2> QED
    BY <2>1, <2>3 DEF IsStartAtWithinSchedule
<1>4. n \in Int /\ s.endTime - s.startTime = SlotDuration * n
  <2> DEFINE w == s.endTime - s.startTime
  <2>1. w \in Int /\ s.endTime \in Int /\ s.startTime \in Int
    BY <1>1, DayLengthType
  <2>2. OnGrid(w)
    BY <2>1, <1>1, GridSum
  <2> QED
    BY <2>1, <2>2, GridIsMultiple
<1>5. k \in Int /\ r - s.startTime = SlotDuration * k
  <2> DEFINE x == r - s.startTime
  <2>1. r \in Int /\ s.startTime \in Int /\ x \in Int
    BY <1>1, <1>2, DayLengthType
  <2>2. r = t - day
    BY <2>1, <1>2
  <2>3. OnGrid(r)
    BY <2>1, <2>2, <1>2, GridSum
  <2>4. OnGrid(x)
    BY <2>1, <2>3, <1>1, GridSum
  <2> QED
    BY <2>1, <2>4, GridIsMultiple
<1> HIDE DEF day, r, n, k
<1>6. 0 <= k
  <2>1. 0 <= SlotDuration * k
    BY <1>1, <1>2, <1>5, DayLengthType
  <2>2. k < 0 => SlotDuration * k + SlotDuration <= SlotDuration * 0
    BY <1>5, MulStep, SlotGridAssumption
  <2> QED
    BY <2>1, <2>2, <1>5, SlotGridAssumption
<1>7. k <= n - 1
  <2>1. SlotDuration * k + SlotDuration <= SlotDuration * n
    BY <1>1, <1>2, <1>4, <1>5, DayLengthType, SlotGridAssumption
  <2>2. n < k => SlotDuration * n + SlotDuration <= SlotDuration * k
    BY <1>4, <1>5, MulStep, SlotGridAssumption
  <2>3. SlotDuration * k \in Int /\ SlotDuration * n \in Int
    BY <1>4, <1>5, GridMultiple
  <2>4. n # k
    BY <2>1, <2>3, SlotGridAssumption
  <2>5. ~ (n < k)
    BY <2>1, <2>2, <2>3, SlotGridAssumption
  <2> QED
    BY <2>4, <2>5, <1>4, <1>5
<1>8. t = day + s.startTime + k * SlotDuration
  <2>1. k * SlotDuration = SlotDuration * k /\ SlotDuration * k \in Int
    BY <1>5, GridMultiple, SlotGridAssumption
  <2> QED
    BY <2>1, <1>1, <1>2, <1>5, DayLengthType
<1>9. k \in 0..(n - 1)
  BY <1>4, <1>5, <1>6, <1>7
<1> QED
  BY <1>3, <1>8, <1>9 DEF GenerateSlotsForDate, day, n

(***************************************************************************)
(* The slot list and the check of a booking request agree: for every       *)
(* schedule that ScheduleService.Create accepts and every date, the list   *)
(* GenerateSlotsForDate returns is exactly the instants of that UTC day    *)
(* IsStartAtWithinSchedule lets POST /bookings/create book.                *)
(***************************************************************************)
THEOREM GeneratorAgreesWithCheck ==
  ASSUME NEW s \in Schedule, ValidSchedule(s), NEW date \in Int
  PROVE  GenerateSlotsForDate(s, date) =
           { t \in Int : /\ TruncateToDayUTC(t) = TruncateToDayUTC(date)
                         /\ IsStartAtWithinSchedule(s, t) }
BY GeneratedIsWithin, WithinIsGenerated

=============================================================================
