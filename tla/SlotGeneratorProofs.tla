-------------------------- MODULE SlotGeneratorProofs --------------------------
(***************************************************************************)
(* The loop of GenerateSlotsForDate collects the set that SlotGrid says,   *)
(* for every slot length, schedule and date.                               *)
(***************************************************************************)
EXTENDS SlotGenerator, SlotGridProofs

\* The k-th multiple of the slot, counted from the start of the window.
At(k) == WindowStart + k * SlotDuration

LEMMA AtStep ==
  ASSUME TypeOK, NEW k \in Int
  PROVE  /\ WindowStart \in Int /\ WindowEnd \in Int
         /\ At(k) \in Int
         /\ At(k + 1) = At(k) + SlotDuration
<1>1. TruncateToDayUTC(date) \in Int
  BY DayParts DEF TypeOK
<1>2. WindowStart \in Int /\ WindowEnd \in Int
  BY <1>1 DEF TypeOK, Schedule, WindowStart, WindowEnd
<1> DEFINE m == k * SlotDuration
           n == (k + 1) * SlotDuration
<1>3. m \in Int /\ n = m + SlotDuration
  BY SlotGridAssumption
<1> HIDE DEF m, n
<1>4. WindowStart + n = (WindowStart + m) + SlotDuration
  BY <1>2, <1>3, SlotGridAssumption
<1> QED
  BY <1>2, <1>3, <1>4 DEF At, m, n

LEMMA AtMonotone ==
  ASSUME TypeOK, NEW j \in Int, NEW k \in Int, j < k
  PROVE  At(j) + SlotDuration <= At(k)
<1>1. SlotDuration * j + SlotDuration <= SlotDuration * k
  BY MulStep, SlotGridAssumption
<1> DEFINE x == SlotDuration * j
           y == SlotDuration * k
<1>2. /\ x \in Int /\ y \in Int
      /\ j * SlotDuration = x /\ k * SlotDuration = y
  BY SlotGridAssumption
<1> HIDE DEF x, y
<1>3. x + SlotDuration <= y
  BY <1>1 DEF x, y
<1>4. WindowStart \in Int
  BY AtStep
<1> QED
  BY <1>2, <1>3, <1>4, SlotGridAssumption DEF At

-----------------------------------------------------------------------------
LEMMA LoopInit == Init => LoopInv
<1> SUFFICES ASSUME Init PROVE LoopInv
  OBVIOUS
<1>1. TypeOK /\ Len(slots) = 0
  BY SlotGeneratorAssumption DEF Init, TypeOK
<1> QED
  BY <1>1 DEF Init, LoopInv

LEMMA LoopNext == LoopInv /\ [Next]_vars => LoopInv'
<1> SUFFICES ASSUME LoopInv, [Next]_vars PROVE LoopInv'
  OBVIOUS
<1> DEFINE n == Len(slots)
<1>1. TypeOK /\ n \in Nat
  BY DEF LoopInv, TypeOK
<1>2. /\ WindowStart \in Int /\ WindowEnd \in Int
      /\ At(n) \in Int /\ At(n + 1) = At(n) + SlotDuration
  BY <1>1, AtStep
<1>3. CASE UNCHANGED vars
  BY <1>3 DEF vars, LoopInv, TypeOK, WindowStart, WindowEnd
<1>4. CASE OffDay
  BY <1>4 DEF OffDay, LoopInv, TypeOK, WindowStart, WindowEnd
<1>5. CASE EnterLoop
  <2>1. slots = << >> /\ cursor' = WindowStart /\ 0 * SlotDuration = 0
    BY <1>5, SlotGridAssumption DEF EnterLoop, LoopInv
  <2>2. TypeOK'
    BY <1>1, <1>2, <1>5, <2>1 DEF EnterLoop, TypeOK
  <2>3. UNCHANGED <<WindowStart, WindowEnd>>
    BY <1>5 DEF EnterLoop, WindowStart, WindowEnd
  <2>4. Len(slots') = 0 /\ slots' = << >>
    BY <1>5, <2>1 DEF EnterLoop
  <2> QED
    BY <1>2, <1>5, <2>1, <2>2, <2>3, <2>4 DEF EnterLoop, LoopInv
<1>6. CASE AppendSlot
  <2>1. /\ pc = "loop" /\ cursor = At(n) /\ cursor + SlotDuration <= WindowEnd
        /\ slots' = Append(slots, cursor) /\ cursor' = cursor + SlotDuration
        /\ UNCHANGED <<schedule, date, pc>>
    BY <1>6 DEF AppendSlot, SlotFits, LoopInv, At
  <2>2. UNCHANGED <<WindowStart, WindowEnd>>
    BY <2>1 DEF WindowStart, WindowEnd
  <2>3. /\ TypeOK' /\ Len(slots') = n + 1
        /\ slots'[n + 1] = At(n)
        /\ \A k \in 1..n : slots'[k] = slots[k]
    BY <1>1, <1>2, <2>1, SlotGridAssumption DEF TypeOK
  <2>4. cursor' = At(n + 1) /\ At(n + 1) <= WindowEnd
    BY <1>2, <2>1
  <2>5. \A k \in 1..(n + 1) : slots'[k] = WindowStart + (k - 1) * SlotDuration
    <3> SUFFICES ASSUME NEW k \in 1..(n + 1)
                 PROVE  slots'[k] = WindowStart + (k - 1) * SlotDuration
      OBVIOUS
    <3>1. CASE k \in 1..n
      BY <3>1, <2>3 DEF LoopInv
    <3>2. CASE k = n + 1
      <4>1. k - 1 = n
        BY <3>2, <1>1
      <4> QED
        BY <3>2, <4>1, <2>3 DEF At
    <3> QED
      BY <3>1, <3>2, <1>1
  <2>6. /\ pc' = "loop"
        /\ WeekdayToISO(TruncateToDayUTC(date')) \in schedule'.days
    BY <2>1 DEF LoopInv
  <2> HIDE DEF n
  <2> QED
    BY <2>1, <2>2, <2>3, <2>4, <2>5, <2>6 DEF LoopInv, At
<1>7. CASE LeaveLoop
  <2>1. /\ pc = "loop" /\ cursor = At(n) /\ pc' = "done"
        /\ cursor >= WindowEnd \/ ~ (cursor + SlotDuration <= WindowEnd)
        /\ UNCHANGED <<schedule, date, cursor, slots>>
    BY <1>7 DEF LeaveLoop, SlotFits, LoopInv, At
  <2>2. UNCHANGED <<WindowStart, WindowEnd>>
    BY <2>1 DEF WindowStart, WindowEnd
  <2>3. At(n) + SlotDuration > WindowEnd
    BY <2>1, <1>2, SlotGridAssumption
  <2>4. TypeOK'
    BY <1>1, <2>1 DEF TypeOK
  <2> QED
    BY <2>1, <2>2, <2>3, <2>4 DEF LoopInv, At
<1> QED
  BY <1>3, <1>4, <1>5, <1>6, <1>7 DEF Next

\* The invariant of the loop.
THEOREM LoopInvariance == Spec => []LoopInv
BY LoopInit, LoopNext, PTL DEF Spec

-----------------------------------------------------------------------------
\* A number between two neighbouring multiples, and one below zero.
LEMMA DivBounds ==
  ASSUME NEW d \in Nat \ {0}, NEW n \in Int, NEW a \in Int,
         d * n <= a, a < d * n + d
  PROVE  a \div d = n
<1> DEFINE m == d * n
           r == a - m
<1>1. m \in Int
  OBVIOUS
<1>2. r \in 0..(d - 1) /\ m + r = a
  BY <1>1
<1> HIDE DEF r
<1> QED
  BY <1>2, DivUnique

LEMMA DivNegative ==
  ASSUME NEW d \in Nat \ {0}, NEW a \in Int, a < 0
  PROVE  a \div d < 0
<1> DEFINE q == a \div d
           m == d * q
<1>1. q \in Int /\ a % d \in 0..(d - 1) /\ a = m + (a % d)
  BY DivMod
<1>2. m \in Int /\ (q >= 0 => m >= 0)
  BY <1>1
<1> HIDE DEF m, q
<1>3. ~ (q >= 0)
  BY <1>1, <1>2
<1> QED
  BY <1>1, <1>3 DEF q

\* How many slots the loop has collected when it stops.
LEMMA LoopCount ==
  ASSUME LoopInv, pc = "done",
         WeekdayToISO(TruncateToDayUTC(date)) \in schedule.days
  PROVE  0..((schedule.endTime - schedule.startTime) \div SlotDuration - 1)
           = 0..(Len(slots) - 1)
<1> DEFINE n == Len(slots)
           len == schedule.endTime - schedule.startTime
           q == len \div SlotDuration
           m == SlotDuration * n
<1>1. TypeOK /\ n \in Nat /\ len \in Int
  BY DEF LoopInv, TypeOK, Schedule
<1>2. /\ q \in Int /\ len % SlotDuration \in 0..(SlotDuration - 1)
      /\ len = SlotDuration * q + (len % SlotDuration)
  BY <1>1, DivMod, SlotGridAssumption
<1>3. /\ WindowStart \in Int /\ WindowEnd \in Int
      /\ len = WindowEnd - WindowStart
  <2>1. TruncateToDayUTC(date) \in Int
    BY <1>1, DayParts DEF TypeOK
  <2> QED
    BY <1>1, <2>1 DEF TypeOK, Schedule, WindowStart, WindowEnd
<1>4. m \in Int /\ n * SlotDuration = m
  BY <1>1, SlotGridAssumption
<1>5. WindowStart + m + SlotDuration > WindowEnd
  BY <1>4 DEF LoopInv
<1>6. n > 0 => WindowStart + m <= WindowEnd
  <2>1. n > 0 => slots # << >>
    BY <1>1 DEF TypeOK
  <2> QED
    BY <1>4, <2>1 DEF LoopInv
<1>7. m <= len /\ len < m + SlotDuration => q = n
  BY <1>1, DivBounds, SlotGridAssumption
<1>8. len < 0 => q < 0
  BY <1>1, DivNegative, SlotGridAssumption
<1>9. n = 0 => m = 0
  BY SlotGridAssumption
<1> HIDE DEF n, len, q, m
<1>10. CASE m <= len
  BY <1>1, <1>3, <1>4, <1>5, <1>7, <1>10, SlotGridAssumption DEF n, len, q
<1>11. CASE ~ (m <= len)
  <2>1. n = 0 /\ len < 0
    BY <1>1, <1>3, <1>4, <1>6, <1>9, <1>11
  <2>2. q < 0 /\ 0..(q - 1) = {} /\ 0..(n - 1) = {}
    BY <1>2, <1>8, <2>1
  <2> QED
    BY <2>2 DEF n, len, q
<1> QED
  BY <1>10, <1>11

\* The slots collected, indexed from zero.
LEMMA CollectedAt ==
  ASSUME LoopInv
  PROVE  Collected = { At(k) : k \in 0..(Len(slots) - 1) }
<1> DEFINE n == Len(slots)
<1>1. TypeOK /\ n \in Nat /\ DOMAIN slots = 1..n
  BY DEF LoopInv, TypeOK
<1>2. ASSUME NEW k \in 1..n
      PROVE  k - 1 \in 0..(n - 1) /\ slots[k] = At(k - 1)
  BY <1>1, <1>2 DEF LoopInv, At
<1>3. ASSUME NEW k \in 0..(n - 1)
      PROVE  k + 1 \in 1..n /\ slots[k + 1] = At(k)
  <2>1. k + 1 \in 1..n /\ (k + 1) - 1 = k
    BY <1>1
  <2> QED
    BY <1>2, <2>1
<1> HIDE DEF n
<1>4. ASSUME NEW t \in Collected
      PROVE  t \in { At(k) : k \in 0..(n - 1) }
  BY <1>1, <1>2 DEF Collected
<1>5. ASSUME NEW t \in { At(k) : k \in 0..(n - 1) }
      PROVE  t \in Collected
  BY <1>1, <1>3 DEF Collected
<1> QED
  BY <1>4, <1>5 DEF n

LEMMA DoneCollects == LoopInv => LoopCollectsSlots
<1> SUFFICES ASSUME LoopInv, pc = "done"
             PROVE  /\ Collected = GenerateSlotsForDate(schedule, date)
                    /\ \A j, k \in DOMAIN slots :
                         j < k => slots[j] + SlotDuration <= slots[k]
  BY DEF LoopCollectsSlots
<1>1. Collected = GenerateSlotsForDate(schedule, date)
  <2>1. CASE WeekdayToISO(TruncateToDayUTC(date)) \in schedule.days
    BY <2>1, LoopCount, CollectedAt
    DEF GenerateSlotsForDate, At, WindowStart
  <2>2. CASE WeekdayToISO(TruncateToDayUTC(date)) \notin schedule.days
    <3>1. slots = << >>
      BY <2>2 DEF LoopInv
    <3> QED
      BY <2>2, <3>1 DEF GenerateSlotsForDate, Collected
  <2> QED
    BY <2>1, <2>2
<1>2. \A j, k \in DOMAIN slots : j < k => slots[j] + SlotDuration <= slots[k]
  <2> SUFFICES ASSUME NEW j \in DOMAIN slots, NEW k \in DOMAIN slots, j < k
               PROVE  slots[j] + SlotDuration <= slots[k]
    OBVIOUS
  <2>1. TypeOK /\ DOMAIN slots = 1..Len(slots) /\ Len(slots) \in Nat
    BY DEF LoopInv, TypeOK
  <2>2. slots[j] = At(j - 1) /\ slots[k] = At(k - 1)
    BY <2>1 DEF LoopInv, At
  <2>3. j - 1 \in Int /\ k - 1 \in Int /\ j - 1 < k - 1
    BY <2>1
  <2> QED
    BY <2>1, <2>2, <2>3, AtMonotone
<1> QED
  BY <1>1, <1>2

LEMMA DoneAgrees == LoopInv => LoopAgreesWithCheck
<1> SUFFICES ASSUME LoopInv, pc = "done", ValidSchedule(schedule)
             PROVE  Collected = { t \in DayOf(date) :
                                    IsStartAtWithinSchedule(schedule, t) }
  BY DEF LoopAgreesWithCheck
<1>1. schedule \in Schedule /\ date \in Int
  BY DEF LoopInv, TypeOK
<1>2. Collected = { t \in Int : /\ TruncateToDayUTC(t) = TruncateToDayUTC(date)
                                /\ IsStartAtWithinSchedule(schedule, t) }
  BY <1>1, DoneCollects, GeneratorAgreesWithCheck DEF LoopCollectsSlots
<1>3. ASSUME NEW t \in Int
      PROVE  t \in DayOf(date) <=> TruncateToDayUTC(t) = TruncateToDayUTC(date)
  BY <1>1, SameDay DEF DayOf
<1>4. DayOf(date) \subseteq Int
  BY <1>1, DayParts, DayLengthType DEF DayOf
<1> QED
  BY <1>2, <1>3, <1>4

(***************************************************************************)
(* What the loop returns, for every slot length and every window.          *)
(***************************************************************************)
THEOREM LoopCollectsSlotsAlways == Spec => []LoopCollectsSlots
BY LoopInvariance, DoneCollects, PTL

(***************************************************************************)
(* The loop and the check of Create agree on every validated schedule.     *)
(***************************************************************************)
THEOREM LoopAgreesWithCheckAlways == Spec => []LoopAgreesWithCheck
BY LoopInvariance, DoneAgrees, PTL

=============================================================================
