----------------------------- MODULE AgeProofs ------------------------------
(***************************************************************************)
(* Soundness of the range-check constraint system for every statement the  *)
(* verifier admits and every well-formed date: the three equations over    *)
(* M31 are the borrow subtraction of dates over the integers, because no   *)
(* side can wrap around the modulus, and the two lookups admit exactly the *)
(* days of the Gregorian calendar.  Then completeness: what the honest     *)
(* prover writes satisfies both systems, so prove and verify end with what *)
(* the birthdays say.  Last, soundness of the bit-decomposition system for *)
(* statements whose date keys span at most 30 bits.                        *)
(***************************************************************************)
EXTENDS Age, TLAPS

Public == [current : Date, minAge : Nat, bounds : AgeBounds]

(* An integer smaller than the modulus is its own residue, or wraps once. *)
LEMMA Residue ==
    ASSUME NEW x \in Int, -P < x, x < P
    PROVE  F(x) = IF x >= 0 THEN x ELSE x + P
BY DEF F, P

(* A residue that a small range table contains comes from that very value. *)
LEMMA InRangeOfResidue ==
    ASSUME NEW x \in Int, NEW n \in Nat, -1000000000 < x, x < P, n < 1000000000,
           InRange(n, F(x))
    PROVE  x \in 0 .. n
BY Residue DEF InRange, P

(* max_days_at is the length of the month in the Gregorian calendar. *)
LEMMA MaxDaysIsMonthLength ==
    ASSUME NEW month \in 1 .. 12, NEW year \in Nat
    PROVE  /\ MaxDaysAt(month, year) = MonthLength(year, month)
           /\ MaxDaysAt(month, year) \in 28 .. 31
<1>1. MaxDaysAt(month, year) \in 28 .. 31
  BY DEF MaxDaysAt
<1>2. CASE month = 2
  <2>1. MonthLength(year, 2) = 28 + (year \div 4) - ((year - 1) \div 4)
            - ((year \div 100) - ((year - 1) \div 100))
            + ((year \div 400) - ((year - 1) \div 400))
    BY DEF MonthLength, FirstDay
  <2>2. /\ (year \div 4) - ((year - 1) \div 4) = IF year % 4 = 0 THEN 1 ELSE 0
        /\ (year \div 100) - ((year - 1) \div 100) = IF year % 100 = 0 THEN 1 ELSE 0
        /\ (year \div 400) - ((year - 1) \div 400) = IF year % 400 = 0 THEN 1 ELSE 0
    OBVIOUS
  <2>3. (year % 100 = 0 => year % 4 = 0) /\ (year % 400 = 0 => year % 100 = 0)
    OBVIOUS
  <2>4. QED
    BY <1>1, <1>2, <2>1, <2>2, <2>3 DEF MaxDaysAt
<1>3. CASE month # 2
  BY <1>1, <1>3 DEF MaxDaysAt, MonthLength, FirstDay
<1>4. QED
  BY <1>1, <1>2, <1>3

(* The facts about an admitted statement that the arithmetic needs. *)
LEMMA CutoffFacts ==
    ASSUME NEW p \in Public, PublicValid(p)
    PROVE  /\ p.bounds.min \in Nat /\ p.bounds.max \in Nat
           /\ p.bounds.min <= p.bounds.max /\ p.bounds.max <= 4194303
           /\ p.bounds.years \in Nat /\ p.bounds.years <= 4194303
           /\ Cutoff(p).year = p.current.year - p.minAge
           /\ Cutoff(p).year \in Nat /\ Cutoff(p).year <= 4194303
           /\ Cutoff(p).month = p.current.month /\ Cutoff(p).month \in 1 .. 12
           /\ Cutoff(p).day = p.current.day /\ Cutoff(p).day \in 1 .. 31
<1>1. /\ p.current.year \in Nat /\ p.current.month \in Nat /\ p.current.day \in Nat
      /\ p.minAge \in Nat
      /\ p.bounds.min \in Nat /\ p.bounds.max \in Nat /\ p.bounds.years \in Nat
      /\ p.current \in Date
  BY SMT DEF Public, Date, AgeBounds
<1>2. /\ Cutoff(p).year = p.current.year - p.minAge
      /\ Cutoff(p).month = p.current.month /\ Cutoff(p).day = p.current.day
  BY <1>1, SMT DEF Cutoff, Date
<1>3. /\ p.bounds.min <= p.bounds.max /\ p.bounds.years <= p.bounds.max - p.bounds.min
      /\ p.bounds.max <= 4194303
  BY <1>1, SMT DEF PublicValid, BoundsValid, Span, P
<1>4. /\ p.current.year \in p.bounds.min .. p.bounds.max
      /\ p.current.month \in 1 .. 12
      /\ p.current.day \in 1 .. MaxDaysAt(p.current.month, p.current.year)
      /\ p.current.year - p.minAge >= p.bounds.min
  BY SMT DEF PublicValid, DateValid
<1>5. p.current.day \in 1 .. 31
  BY SMT, <1>1, <1>4, MaxDaysIsMonthLength
<1>6. QED
  BY <1>1, <1>2, <1>3, <1>4, <1>5, SMT

(* The calendar lookup and the valid-day lookup together admit only days   *)
(* of the calendar in a supported year.  The padding row, which holds      *)
(* index 0 and length 0, admits no day but 0.                              *)
LEMMA LookupsAdmitCalendarDates ==
    ASSUME NEW p \in Public, PublicValid(p), NEW d \in Date, WellFormed(d),
           NEW days \in MonthLengths, LookupsHold(p, d, days)
    PROVE  IsCalendarDate(d) /\ d.year \in p.bounds.min .. p.bounds.max
<1> DEFINE b == p.bounds
           i == (d.year - b.min) * 12 + d.month - 1
           rows == 12 * (b.max - b.min + 1)
<1>1. /\ b.min \in Nat /\ b.max \in Nat /\ b.min <= b.max /\ b.max <= 4194303
      /\ d.month \in 1 .. 12 /\ d.day \in 1 .. 31 /\ d.year \in Nat /\ d.year <= 65535
  BY CutoffFacts, SMT DEF WellFormed, Date
<1>2. i \in Int /\ -60000000 < i /\ i < 60000000 /\ rows \in Nat /\ 12 <= rows /\ rows < 60000000
  BY <1>1, SMT
<1>3. F(i) = IF i >= 0 THEN i ELSE i + P
  BY <1>2, Residue, SMT DEF P
<1>4. /\ days # 0 /\ d.day \in 1 .. days
  BY <1>1, SMT DEF LookupsHold, InValidDays, MonthLengths
<1>5. PICK k \in {F(i), rows} : CalendarRow(b, k) = [index |-> F(i), days |-> days]
  BY SMT DEF LookupsHold, InCalendar, MonthIndex, CalendarRows, Span
<1>6. k < rows
  <2>1. SUFFICES ASSUME ~(k < rows) PROVE FALSE
    BY SMT
  <2>2. CalendarRow(b, k) = [index |-> 0, days |-> 0]
    BY <2>1, SMT DEF CalendarRow, CalendarRows, Span
  <2>3. days = 0
    BY <1>5, <2>2, SMT
  <2>4. QED
    BY <1>4, <2>3, SMT
<1>7. k = i /\ i >= 0 /\ i < rows
  BY <1>2, <1>3, <1>5, <1>6, SMT DEF P
<1>8. days = MaxDaysAt((i % 12) + 1, b.min + (i \div 12))
  <2>1. CalendarRow(b, k) = [index |-> k, days |-> MaxDaysAt((k % 12) + 1, b.min + (k \div 12))]
    BY <1>6, SMT DEF CalendarRow, CalendarRows, Span
  <2>2. days = MaxDaysAt((k % 12) + 1, b.min + (k \div 12))
    BY <1>5, <2>1, SMT
  <2>3. QED
    BY <1>7, <2>2, SMT
<1>9. (i % 12) + 1 = d.month /\ b.min + (i \div 12) = d.year
  BY <1>1, <1>7, SMT
<1>10. d.year \in b.min .. b.max
  BY <1>1, <1>7, SMT
<1>11. days = MonthLength(d.year, d.month)
  BY SMT, <1>1, <1>8, <1>9, MaxDaysIsMonthLength
<1>12. QED
  BY <1>1, <1>4, <1>10, <1>11, SMT DEF IsCalendarDate

(* The three range-checked deltas exist only when the date is not after    *)
(* the cutoff, so the birthday count reaches the minimum age.              *)
LEMMA DeltasCompareDates ==
    ASSUME NEW p \in Public, PublicValid(p), NEW d \in Date, WellFormed(d),
           NEW db \in {0, 1}, NEW mb \in {0, 1},
           InRange(DayRange, F(Cutoff(p).day - d.day + 32 * db)),
           InRange(MonthRange, F(Cutoff(p).month - d.month - db + 16 * mb)),
           InRange(YearRange(p.bounds), F(Cutoff(p).year - d.year - mb))
    PROVE  AgeOn(d, p.current) >= p.minAge
<1> DEFINE c == Cutoff(p)
<1>1. /\ c.year = p.current.year - p.minAge /\ c.year \in Nat /\ c.year <= 4194303
      /\ c.month = p.current.month /\ c.month \in 1 .. 12
      /\ c.day = p.current.day /\ c.day \in 1 .. 31
      /\ p.bounds.years \in Nat /\ p.bounds.years <= 4194303
      /\ d.month \in 1 .. 12 /\ d.day \in 1 .. 31 /\ d.year \in Nat /\ d.year <= 65535
      /\ p.current.year \in Nat /\ p.minAge \in Nat
  BY CutoffFacts, SMT DEF WellFormed, Date, Public
<1> HIDE DEF c
<1>2. c.day - d.day + 32 * db \in 0 .. 31
  <2>1. /\ c.day - d.day + 32 * db \in Int
        /\ -1000000000 < c.day - d.day + 32 * db /\ c.day - d.day + 32 * db < P
    BY <1>1, SMTT(30) DEF P
  <2>2. InRange(31, F(c.day - d.day + 32 * db))
    BY SMT DEF DayRange, c
  <2>3. QED
    BY <2>1, <2>2, InRangeOfResidue, SMT
<1>3. c.month - d.month - db + 16 * mb \in 0 .. 15
  <2>1. c.month - d.month - db + 16 * mb \in -12 .. 27
    <3>1. c.month - d.month \in -11 .. 11
      BY <1>1, SMT
    <3>2. 16 * mb - db \in {0, -1, 16, 15}
      BY SMT
    <3>3. QED
      BY <1>1, <3>1, <3>2, SMT
  <2>2. /\ c.month - d.month - db + 16 * mb \in Int
        /\ -1000000000 < c.month - d.month - db + 16 * mb
        /\ c.month - d.month - db + 16 * mb < P
    BY <2>1, SMT DEF P
  <2>3. InRange(15, F(c.month - d.month - db + 16 * mb))
    BY SMT DEF MonthRange, c
  <2>4. QED
    BY <2>2, <2>3, InRangeOfResidue, SMT
<1>4. c.year - d.year - mb >= 0
  <2>1. /\ c.year - d.year - mb \in Int
        /\ -1000000000 < c.year - d.year - mb /\ c.year - d.year - mb < P
        /\ p.bounds.years + 1 \in Nat /\ p.bounds.years + 1 < 1000000000
    BY <1>1, SMT DEF P
  <2>2. InRange(p.bounds.years + 1, F(c.year - d.year - mb))
    BY SMT DEF YearRange, c
  <2>3. QED
    BY <2>1, <2>2, InRangeOfResidue, SMT
<1>5. CASE \/ p.current.month < d.month
           \/ p.current.month = d.month /\ p.current.day < d.day
  <2>1. mb = 1
    <3>1. SUFFICES ASSUME mb = 0 PROVE FALSE
      OBVIOUS
    <3>2. c.month - d.month - db >= 0
      BY <1>1, <1>3, <3>1, SMT
    <3>3. CASE db = 0
      <4>1. c.day >= d.day
        <5>1. 32 * db = 0
          BY <3>3, SMT
        <5>2. c.day - d.day + 0 >= 0
          BY <1>2, <5>1, SMT
        <5>3. QED
          BY <1>1, <5>2, SMT
      <4>2. QED
        BY <1>1, <1>5, <3>2, <3>3, <4>1, SMT
    <3>4. CASE db = 1
      BY <1>1, <1>5, <3>2, <3>4, SMT
    <3>5. QED
      BY <3>3, <3>4
  <2>2. c.year - d.year >= 1
    BY <1>1, <1>4, <2>1, SMT
  <2>3. AgeOn(d, p.current) = p.current.year - d.year - 1
    BY <1>5, SMT DEF AgeOn
  <2>4. QED
    BY <1>1, <2>2, <2>3, SMT
<1>6. CASE ~(\/ p.current.month < d.month
             \/ p.current.month = d.month /\ p.current.day < d.day)
  <2>1. AgeOn(d, p.current) = p.current.year - d.year - 0
    BY <1>6, SMT DEF AgeOn
  <2>2. c.year - d.year >= 0
    BY <1>1, <1>4, SMT
  <2>3. QED
    BY <1>1, <2>1, <2>2, SMT
<1>7. QED
  BY <1>5, <1>6

(* Whatever row is committed, the range-check constraints accept only      *)
(* calendar dates of holders who are old enough.                           *)
LEMMA RangeCheckIsSound ==
    ASSUME NEW p \in Public, PublicValid(p), NEW d \in Date, WellFormed(d),
           RangeCheckAccepts(p, d)
    PROVE  OldEnough(p, d)
<1>1. PICK days \in MonthLengths, db \in {0, 1}, mb \in {0, 1} :
          /\ InRange(DayRange, F(Cutoff(p).day - d.day + 32 * db))
          /\ InRange(MonthRange, F(Cutoff(p).month - d.month - db + 16 * mb))
          /\ InRange(YearRange(p.bounds), F(Cutoff(p).year - d.year - mb))
          /\ LookupsHold(p, d, days)
  BY DEF RangeCheckAccepts, RangeCheckHolds
<1>2. AgeOn(d, p.current) >= p.minAge
  BY <1>1, DeltasCompareDates
<1>3. IsCalendarDate(d) /\ d.year \in p.bounds.min .. p.bounds.max
  BY <1>1, LookupsAdmitCalendarDates
<1>4. QED
  BY <1>2, <1>3 DEF OldEnough

(* A statement that prove or verify went on with passed its validation. *)
Validated ==
    /\ public \in Publics
    /\ birth \in Births
    /\ PublicAccepted => (step = "invalid" \/ PublicValid(public))

LEMMA ValidatedInit == Init => Validated
BY DEF Init, Validated, PublicAccepted

LEMMA ValidatedStep == Validated /\ [Next]_vars => Validated'
<1> SUFFICES ASSUME Validated, [Next]_vars PROVE Validated'
  OBVIOUS
<1>1. CASE ValidatePublic
  BY <1>1 DEF ValidatePublic, GoTo, Validated, PublicAccepted
<1>2. CASE MakeWitness \/ BuildTrace \/ Commit \/ Verify
  <2>1. /\ step \notin {"start", "invalid"}
        /\ UNCHANGED <<public, birth>>
    BY <1>2 DEF MakeWitness, BuildTrace, Commit, Verify, GoTo
  <2>2. PublicValid(public)
    BY <2>1 DEF Validated, PublicAccepted
  <2>3. QED
    BY <2>1, <2>2 DEF Validated
<1>3. CASE UNCHANGED vars
  BY <1>3 DEF vars, Validated, PublicAccepted
<1>4. QED
  BY <1>1, <1>2, <1>3 DEF Next

(* The range-check strategy: in every reachable state that follows the     *)
(* validation of the statement, for all statements and all dates.          *)
THEOREM RangeCheckSound ==
    Spec => [](strategy = "range_check" => AcceptedIsOldEnough)
<1>1. Init => Validated
  BY ValidatedInit
<1>2. Validated /\ [Next]_vars => Validated'
  BY ValidatedStep
<1>3. Validated => (strategy = "range_check" => AcceptedIsOldEnough)
  <2> SUFFICES ASSUME Validated, strategy = "range_check", PublicAccepted,
                      WellFormed(birth), Accepts(strategy, public, birth)
               PROVE  OldEnough(public, birth)
    BY DEF AcceptedIsOldEnough
  <2>1. /\ public \in Public /\ birth \in Date
    BY InputsAssumption DEF Validated, Public
  <2>2. PublicValid(public)
    BY DEF Validated, PublicAccepted
  <2>3. RangeCheckAccepts(public, birth)
    BY DEF Accepts
  <2>4. QED
    BY <2>1, <2>2, <2>3, RangeCheckIsSound
<1>4. QED
  BY <1>1, <1>2, <1>3, PTL DEF Spec
----------------------------------------------------------------------------
(* Bits: a value fits the number of bits it needs.                         *)

(* A decomposition into 31 bits admits every field element. *)
ThirtyBits == 1073741824

LEMMA PowersAtMost == \A k \in 1 .. 30 : 2^k \in Nat /\ 2^k <= ThirtyBits
<1> DEFINE Small(k) == 2^k \in Nat /\ 2^k <= ThirtyBits
<1>1. Small(1) /\ Small(2) /\ Small(3) /\ Small(4) /\ Small(5) /\ Small(6) /\ Small(7)
      /\ Small(8) /\ Small(9) /\ Small(10) /\ Small(11) /\ Small(12) /\ Small(13)
      /\ Small(14) /\ Small(15) /\ Small(16) /\ Small(17) /\ Small(18) /\ Small(19)
      /\ Small(20) /\ Small(21) /\ Small(22) /\ Small(23) /\ Small(24) /\ Small(25)
      /\ Small(26) /\ Small(27) /\ Small(28) /\ Small(29) /\ Small(30)
  BY SMT DEF ThirtyBits
<1> HIDE DEF Small
<1>2. ASSUME NEW k \in 1 .. 30 PROVE Small(k)
  <2>1. k = 1 \/ k = 2 \/ k = 3 \/ k = 4 \/ k = 5 \/ k = 6 \/ k = 7 \/ k = 8 \/ k = 9
        \/ k = 10 \/ k = 11 \/ k = 12 \/ k = 13 \/ k = 14 \/ k = 15 \/ k = 16 \/ k = 17
        \/ k = 18 \/ k = 19 \/ k = 20 \/ k = 21 \/ k = 22 \/ k = 23 \/ k = 24 \/ k = 25
        \/ k = 26 \/ k = 27 \/ k = 28 \/ k = 29 \/ k = 30
    OBVIOUS
  <2>2. QED
    BY <1>1, <2>1
<1>3. QED
  BY <1>2 DEF Small

LEMMA BitsFit ==
    ASSUME NEW v \in Nat, v < P
    PROVE  /\ BitsNeeded(v) \in 1 .. 31 /\ v < 2^BitsNeeded(v) /\ 2^BitsNeeded(v) \in Nat
           /\ v < ThirtyBits => BitsNeeded(v) <= 30
<1> DEFINE Needs(k) == (k = 31 \/ v < 2^k) /\ (k = 1 \/ v >= 2^(k - 1))
<1>1. \E k \in 1 .. 31 : Needs(k)
  <2> DEFINE Below(k) == k = 31 \/ v < 2^k
  <2>1. SUFFICES ASSUME \A k \in 1 .. 31 : ~Needs(k) PROVE FALSE
    OBVIOUS
  <2>2. ~Below(1) /\ Below(31)
    <3>1. ~Needs(1)
      BY <2>1
    <3>2. QED
      BY <3>1
  <2>3. \A k \in 1 .. 30 : ~Below(k) => ~Below(k + 1)
    <3> SUFFICES ASSUME NEW k \in 1 .. 30, ~Below(k) PROVE ~Below(k + 1)
      OBVIOUS
    <3>0. 2^k \in Nat
      BY PowersAtMost, Zenon
    <3>1. k + 1 \in 1 .. 31 /\ (k + 1) - 1 = k /\ k + 1 # 1
      OBVIOUS
    <3>2. ~Needs(k + 1)
      BY <2>1, <3>1
    <3>3. v >= 2^k
      BY <3>0
    <3>4. QED
      BY <3>1, <3>2, <3>3
  <2> HIDE DEF Below
  <2>4. ~Below(2) /\ ~Below(3) /\ ~Below(4) /\ ~Below(5) /\ ~Below(6) /\ ~Below(7)
    BY <2>2, <2>3
  <2>5. ~Below(8) /\ ~Below(9) /\ ~Below(10) /\ ~Below(11) /\ ~Below(12) /\ ~Below(13)
    BY <2>3, <2>4
  <2>6. ~Below(14) /\ ~Below(15) /\ ~Below(16) /\ ~Below(17) /\ ~Below(18) /\ ~Below(19)
    BY <2>3, <2>5
  <2>7. ~Below(20) /\ ~Below(21) /\ ~Below(22) /\ ~Below(23) /\ ~Below(24) /\ ~Below(25)
    BY <2>3, <2>6
  <2>8. ~Below(26) /\ ~Below(27) /\ ~Below(28) /\ ~Below(29) /\ ~Below(30) /\ ~Below(31)
    BY <2>3, <2>7
  <2>9. QED
    BY <2>2, <2>8
<1> DEFINE n == BitsNeeded(v)
<1>2. n \in 1 .. 31 /\ Needs(n)
  BY <1>1 DEF BitsNeeded
<1> HIDE DEF n
<1>3. 2^31 = P + 1 /\ P = 2147483647
  BY SMT DEF P
<1>4. CASE n = 31
  <2>1. v >= 2^30
    BY <1>2, <1>4
  <2>2. QED
    BY <1>3, <1>4, <2>1, SMT DEF n, ThirtyBits
<1>5. CASE n # 31
  <2>1. n \in 1 .. 30 /\ v < 2^n
    BY <1>2, <1>5
  <2>2. QED
    BY <2>1, PowersAtMost, SMT DEF n, ThirtyBits
<1>6. QED
  BY <1>4, <1>5

----------------------------------------------------------------------------
(* What the honest prover writes, first for all admitted bounds whose      *)
(* calendar fits its table, then for bounds that agree.                    *)

(* An admitted statement, its cutoff and a valid date, as numbers. *)
LEMMA ValidFacts ==
    ASSUME NEW p \in Public, PublicValid(p), NEW d \in Date, DateValid(d, p.bounds)
    PROVE  /\ d.year \in Nat /\ p.bounds.min <= d.year /\ d.year <= p.bounds.max
           /\ d.month \in 1 .. 12 /\ d.day \in 1 .. 31
           /\ d.day \in 1 .. MaxDaysAt(d.month, d.year)
           /\ MaxDaysAt(d.month, d.year) \in 28 .. 31
           /\ p.bounds.min <= Cutoff(p).year /\ Cutoff(p).year <= p.bounds.max
           /\ p.bounds.max * 512 + 415 < P
<1>1. /\ d.year \in Nat /\ d.year \in p.bounds.min .. p.bounds.max
      /\ d.month \in 1 .. 12 /\ d.day \in 1 .. MaxDaysAt(d.month, d.year)
  BY DEF DateValid, Date
<1>2. MaxDaysAt(d.month, d.year) \in 28 .. 31
  BY <1>1, MaxDaysIsMonthLength
<1>3. /\ p.bounds.min \in Nat /\ p.bounds.max \in Nat
      /\ Cutoff(p).year = p.current.year - p.minAge
  BY CutoffFacts
<1>4. /\ p.current.year \in p.bounds.min .. p.bounds.max /\ p.minAge \in Nat
      /\ p.current.year - p.minAge >= p.bounds.min
      /\ MaxDateKey(p.bounds) <= P - 1
  BY DEF PublicValid, DateValid, BoundsValid, Public
<1>5. MaxDateKey(p.bounds) = p.bounds.max * 512 + 415
  BY <1>3, SMT DEF MaxDateKey, DateKey
<1>6. QED
  BY <1>1, <1>2, <1>3, <1>4, <1>5, SMT DEF P

(* A date is valid when the calendar has it in a supported year; then keys
   compare as birthdays do. *)
LEMMA ValidIsCalendar ==
    ASSUME NEW b, NEW d \in Date
    PROVE  DateValid(d, b) <=> IsCalendarDate(d) /\ d.year \in b.min .. b.max
<1>1. CASE d.month \in 1 .. 12
  <2>1. d.year \in Nat
    BY DEF Date
  <2>2. MaxDaysAt(d.month, d.year) = MonthLength(d.year, d.month)
    BY <1>1, <2>1, MaxDaysIsMonthLength
  <2>3. QED
    BY <2>2 DEF DateValid, IsCalendarDate
<1>2. CASE d.month \notin 1 .. 12
  BY <1>2 DEF DateValid, IsCalendarDate
<1>3. QED
  BY <1>1, <1>2

LEMMA KeysCompareAges ==
    ASSUME NEW p \in Public, PublicValid(p), NEW d \in Date, DateValid(d, p.bounds)
    PROVE  DateKey(d) > DateKey(Cutoff(p)) <=> ~(AgeOn(d, p.current) >= p.minAge)
<1> DEFINE c == Cutoff(p)
           Later == \/ p.current.month < d.month
                    \/ p.current.month = d.month /\ p.current.day < d.day
<1>1. /\ d.year \in Nat /\ d.month \in 1 .. 12 /\ d.day \in 1 .. 31
      /\ c.year = p.current.year - p.minAge /\ c.year \in Nat
      /\ c.month = p.current.month /\ c.month \in 1 .. 12
      /\ c.day = p.current.day /\ c.day \in 1 .. 31
      /\ p.current.year \in Nat /\ p.minAge \in Nat
  BY ValidFacts, CutoffFacts DEF Public, Date
<1>2. /\ DateKey(d) = d.year * 512 + d.month * 32 + d.day
      /\ DateKey(c) = c.year * 512 + c.month * 32 + c.day
  BY DEF DateKey
<1>3. AgeOn(d, p.current) = p.current.year - d.year - (IF Later THEN 1 ELSE 0)
  BY DEF AgeOn
<1>4. Later <=> c.month < d.month \/ (c.month = d.month /\ c.day < d.day)
  BY <1>1
<1> HIDE DEF c, Later
<1>5. AgeOn(d, p.current) >= p.minAge <=> c.year - d.year >= IF Later THEN 1 ELSE 0
  BY <1>1, <1>3, SMT
<1>6. DateKey(d) > DateKey(c) <=>
        \/ c.year < d.year
        \/ c.year = d.year /\ (c.month < d.month \/ (c.month = d.month /\ c.day < d.day))
  <2> DEFINE y == d.year
             m == d.month
             e == d.day
             y2 == c.year
             m2 == c.month
             e2 == c.day
  <2>1. /\ y \in Nat /\ m \in 1 .. 12 /\ e \in 1 .. 31
        /\ y2 \in Nat /\ m2 \in 1 .. 12 /\ e2 \in 1 .. 31
    BY <1>1
  <2>2. DateKey(d) = y * 512 + m * 32 + e /\ DateKey(c) = y2 * 512 + m2 * 32 + e2
    BY <1>2
  <2> HIDE DEF y, m, e, y2, m2, e2
  <2>3. y * 512 + m * 32 + e > y2 * 512 + m2 * 32 + e2
          <=> y2 < y \/ (y2 = y /\ (m2 < m \/ (m2 = m /\ e2 < e)))
    BY <2>1, SMT
  <2>4. QED
    BY <2>2, <2>3 DEF y, m, e, y2, m2, e2
<1>7. QED
  BY <1>1, <1>4, <1>5, <1>6, SMT DEF c

LEMMA MonthOfIndex ==
    ASSUME NEW y \in Nat, NEW m \in 1 .. 12, NEW i \in Int, i = y * 12 + m - 1
    PROVE  (i % 12) + 1 = m /\ i \div 12 = y
BY SMT

(* The calendar's table holds a row for every month of every supported age. *)
LEMMA CalendarSize ==
    ASSUME NEW p \in Public, PublicValid(p)
    PROVE  LET size == 2^CalendarLogSize(p.bounds) IN
           size \in Nat /\ (p.bounds.years + 1) * 12 < size
<1> DEFINE rows == (p.bounds.years + 1) * 12
<1>1. rows \in Nat /\ rows < P
  BY CutoffFacts, SMT DEF P
<1> HIDE DEF rows
<1>2. rows < 2^BitsNeeded(rows) /\ 2^BitsNeeded(rows) \in Nat
  BY <1>1, BitsFit
<1>3. QED
  BY <1>2 DEF CalendarLogSize, rows

LEMMA AgreeingCalendarFits ==
    ASSUME NEW p \in Public, PublicValid(p), BoundsAgree(p.bounds)
    PROVE  CalendarFits(p.bounds)
<1> DEFINE size == 2^CalendarLogSize(p.bounds)
           years == p.bounds.years
<1>1. size \in Nat /\ (years + 1) * 12 < size /\ years \in Nat
  BY CalendarSize, CutoffFacts
<1>2. CalendarRows(p.bounds) = 12 * (years + 1)
  BY DEF CalendarRows, BoundsAgree
<1> HIDE DEF size, years
<1>3. 12 * (years + 1) - 1 < size
  BY <1>1, SMT
<1>4. QED
  BY <1>2, <1>3 DEF CalendarFits, size

LEMMA HonestLookups ==
    ASSUME NEW p \in Public, PublicValid(p), CalendarFits(p.bounds), NEW d \in Date,
           DateValid(d, p.bounds)
    PROVE  LookupsHold(p, d, MaxDaysAt(d.month, d.year))
<1> DEFINE b == p.bounds
           i == MonthIndex(d, b)
           days == MaxDaysAt(d.month, d.year)
           rows == CalendarRows(b)
           size == 2^CalendarLogSize(b)
<1>1. /\ b.min \in Nat /\ b.max \in Nat /\ b.max <= 4194303
      /\ b.min <= d.year /\ d.year <= b.max /\ d.year \in Nat /\ d.month \in 1 .. 12
      /\ d.day \in 1 .. days /\ days \in 28 .. 31
  BY ValidFacts, CutoffFacts
<1>2. CalendarFits(b)
  OBVIOUS
<1> HIDE DEF b, days
<1>3. /\ rows \in Nat /\ rows < P
      /\ rows = 12 * (b.max - b.min + 1)
  BY <1>1, SMT DEF CalendarRows, Span, P
<1>4. rows - 1 < size
  BY <1>2 DEF CalendarFits
<1>5. /\ i = (d.year - b.min) * 12 + d.month - 1 /\ i \in Nat /\ i < rows
  BY <1>1, <1>3, SMT DEF MonthIndex
<1>6. (i % 12) + 1 = d.month /\ b.min + (i \div 12) = d.year
  <2> DEFINE y == d.year - b.min
             m == d.month
  <2>1. y \in Nat /\ m \in 1 .. 12 /\ i = y * 12 + m - 1 /\ i \in Int
        /\ b.min + y = d.year
    BY <1>1, <1>5
  <2> HIDE DEF y, m, i
  <2>2. (i % 12) + 1 = m /\ i \div 12 = y
    BY <2>1, MonthOfIndex
  <2>3. QED
    BY <2>1, <2>2 DEF m
<1>7. F(i) = i
  BY <1>3, <1>5, Residue, SMT DEF P
<1> HIDE DEF rows, size, i
<1>8. CalendarRow(b, i) = [index |-> i, days |-> days]
  BY <1>5, <1>6 DEF CalendarRow, rows, days
<1>9. InCalendar(b, F(i), days)
  <2>1. i < size
    <3>1. i <= rows - 1 /\ i \in Nat /\ rows \in Nat
      BY <1>3, <1>5
    <3>2. size \in Int
      BY CalendarSize DEF size, b
    <3>3. QED
      BY <1>4, <3>1, <3>2, SMT
  <2>2. QED
    BY <1>7, <1>8, <2>1 DEF InCalendar, size
<1>10. InValidDays(days, d.day)
  BY <1>1 DEF InValidDays
<1>11. QED
  BY <1>9, <1>10 DEF LookupsHold, b, i, days

(* A value of the table is its own residue. *)
LEMMA SmallResidue ==
    ASSUME NEW x \in Nat, x < P
    PROVE  F(x) = x
BY Residue, SMT DEF P

(* The year delta of the borrow subtraction counts the years by which the  *)
(* holder is older than the minimum age.                                   *)
LEMMA YearDeltaIsSurplus ==
    ASSUME NEW p \in Public, PublicValid(p), NEW d \in Date, DateValid(d, p.bounds)
    PROVE  /\ Row(p, d).yearDelta = AgeOn(d, p.current) - p.minAge
           /\ Row(p, d).yearDelta \in Int
           /\ Row(p, d).yearDelta <= Span(p.bounds)
<1> DEFINE cy == Cutoff(p).year
           cm == Cutoff(p).month
           cd == Cutoff(p).day
           y == d.year
           m == d.month
           e == d.day
           now == p.current.year
           minAge == p.minAge
           db == IF cd < e THEN 1 ELSE 0
           mb == IF cm < m + db THEN 1 ELSE 0
           span == Span(p.bounds)
<1>1. /\ cm \in 1 .. 12 /\ cd \in 1 .. 31 /\ m \in 1 .. 12 /\ e \in 1 .. 31
      /\ cy = now - minAge /\ cy \in Nat /\ now \in Nat /\ minAge \in Nat /\ y \in Nat
      /\ p.current.month = cm /\ p.current.day = cd
  BY ValidFacts, CutoffFacts DEF Public, Date
<1>2. Row(p, d).yearDelta = cy - y - mb
  BY Zenon DEF Row, Borrow
<1>3. AgeOn(d, p.current) = now - y - (IF cm < m \/ (cm = m /\ cd < e) THEN 1 ELSE 0)
  BY <1>1 DEF AgeOn
<1>4. cy - y <= span /\ span \in Nat
  <2>1. p.bounds.min <= y /\ cy <= p.bounds.max /\ p.bounds.min \in Nat /\ p.bounds.max \in Nat
        /\ p.bounds.min <= p.bounds.max
    BY ValidFacts, CutoffFacts
  <2>2. QED
    BY <1>1, <2>1 DEF Span
<1> HIDE DEF cy, cm, cd, y, m, e, now, minAge, span
<1>5. mb = IF cm < m \/ (cm = m /\ cd < e) THEN 1 ELSE 0
  BY <1>1, SMT
<1> HIDE DEF db
<1>6. mb \in {0, 1}
  BY Zenon
<1>7. cy - y - mb = (now - y - mb) - minAge /\ cy - y - mb \in Int /\ cy - y - mb <= span
  BY <1>1, <1>4, <1>6, SMT
<1>8. AgeOn(d, p.current) = now - y - mb
  BY <1>3, <1>5
<1>9. QED
  BY <1>2, <1>7, <1>8 DEF minAge, span

(* The borrow subtraction of a date that is not after the cutoff stays      *)
(* within its three tables, unless the years exceed theirs.                *)
LEMMA HonestRangeCheck ==
    ASSUME NEW p \in Public, PublicValid(p), CalendarFits(p.bounds), NEW d \in Date,
           DateValid(d, p.bounds), DateKey(d) <= DateKey(Cutoff(p)),
           Row(p, d).yearDelta <= YearRange(p.bounds)
    PROVE  RangeCheckHolds(p, d, Row(p, d))
<1> DEFINE b == p.bounds
           r == Row(p, d)
           years == b.years
           cy == Cutoff(p).year
           cm == Cutoff(p).month
           cd == Cutoff(p).day
           y == d.year
           m == d.month
           e == d.day
           db == Borrow(cd < e)
           mb == Borrow(cm < m + db)
           dd == r.dayDelta
           md == r.monthDelta
           yd == r.yearDelta
<1>1. /\ cy \in Nat /\ cm \in 1 .. 12 /\ cd \in 1 .. 31
      /\ y \in Nat /\ m \in 1 .. 12 /\ e \in 1 .. 31
      /\ b.min <= y /\ cy <= b.max /\ b.min \in Nat /\ b.max \in Nat
  BY ValidFacts, CutoffFacts, SMT
<1>2. years \in Nat /\ years + 1 < P /\ yd <= years + 1
  <2>1. years \in Nat /\ years + 1 < P
    BY CutoffFacts, SMT DEF P
  <2>2. yd <= years + 1
    BY DEF YearRange
  <2>3. QED
    BY <2>1, <2>2
<1>3. /\ r.days = MaxDaysAt(d.month, d.year)
      /\ r.dayBorrow = db /\ r.monthBorrow = mb
  BY Zenon DEF Row
<1>4. dd = cd + 32 * db - e /\ md = cm + 16 * mb - m - db /\ yd = cy - y - mb
  BY Zenon DEF Row
<1>5. y * 512 + m * 32 + e <= cy * 512 + cm * 32 + cd
  BY DEF DateKey
<1>6. LookupsHold(p, d, r.days)
  BY <1>3, HonestLookups
<1> HIDE DEF cy, cm, cd, y, m, e
<1>7. db = Borrow(cd < e) /\ mb = Borrow(cm < m + db)
  OBVIOUS
<1> HIDE DEF r, b, db, mb, years, dd, md, yd
<1>8. /\ db \in {0, 1} /\ mb \in {0, 1}
      /\ cd - e + 32 * db \in 0 .. 31
      /\ cm - m - db + 16 * mb \in 0 .. 15
      /\ cy - y - mb \in 0 .. cy - y
  <2>1. /\ cy \in Nat /\ cm \in 1 .. 12 /\ cd \in 1 .. 31
        /\ y \in Nat /\ m \in 1 .. 12 /\ e \in 1 .. 31
    BY <1>1
  <2>2. db = (IF cd < e THEN 1 ELSE 0) /\ mb = (IF cm < m + db THEN 1 ELSE 0)
    BY <1>7, Zenon DEF Borrow
  <2>3. QED
    BY <1>5, <2>1, <2>2, SMT
<1>9. /\ dd = cd - e + 32 * db /\ md = cm - m - db + 16 * mb
      /\ dd \in 0 .. 31 /\ md \in 0 .. 15
  BY <1>1, <1>4, <1>8, SMT
<1>10. yd \in 0 .. years + 1
  BY <1>1, <1>2, <1>4, <1>8, SMT
<1>11. F(dd) = dd /\ F(md) = md /\ F(yd) = yd
  <2>1. dd \in Nat /\ dd < P /\ md \in Nat /\ md < P /\ yd \in Nat /\ yd < P
    BY <1>2, <1>9, <1>10, SMT DEF P
  <2>2. QED
    BY <2>1, SmallResidue
<1>12. /\ InRange(DayRange, dd) /\ InRange(MonthRange, md) /\ InRange(YearRange(b), yd)
  <2>2. InRange(DayRange, dd) /\ InRange(MonthRange, md)
    BY <1>9 DEF InRange, DayRange, MonthRange
  <2>3. InRange(YearRange(b), yd)
    BY <1>10 DEF InRange, YearRange, years
  <2>4. QED
    BY <2>2, <2>3
<1>13. RangeCheckHolds(p, d, r)
  <2>1. r.dayDelta = F(Cutoff(p).day - d.day + 32 * r.dayBorrow)
    BY <1>3, <1>9, <1>11, Zenon DEF dd, cd, e
  <2>2. r.monthDelta = F(Cutoff(p).month - d.month - r.dayBorrow + 16 * r.monthBorrow)
    BY <1>3, <1>9, <1>11, Zenon DEF md, cm, m
  <2>3. r.yearDelta = F(Cutoff(p).year - d.year - r.monthBorrow)
    BY <1>3, <1>4, <1>11, Zenon DEF yd, cy, y
  <2>4. r.dayBorrow \in {0, 1} /\ r.monthBorrow \in {0, 1}
    BY <1>3, <1>8
  <2>5. QED
    BY <1>6, <1>12, <2>1, <2>2, <2>3, <2>4, Zenon DEF RangeCheckHolds, b, dd, md, yd
<1>14. QED
  BY <1>13 DEF r

(* Bounds that agree leave room for every year delta, in the range of its  *)
(* table and in the column of its multiplicities.                          *)
LEMMA AgreeingDeltaFits ==
    ASSUME NEW p \in Public, PublicValid(p), NEW d \in Date, DateValid(d, p.bounds),
           BoundsAgree(p.bounds)
    PROVE  /\ Row(p, d).yearDelta <= YearRange(p.bounds)
           /\ ~(Row(p, d).yearDelta >= YearColumnRows(p.bounds))
<1> DEFINE yd == Row(p, d).yearDelta
           years == p.bounds.years
           range == years + 1
           size == 2^BitsNeeded(range)
<1>1. years \in Nat /\ years + 1 < P
  BY CutoffFacts, SMT DEF P
<1>2. yd \in Int /\ yd <= years
  BY YearDeltaIsSurplus DEF BoundsAgree
<1> HIDE DEF yd, years
<1>3. range \in Nat /\ range < P
  BY <1>1, SMT
<1>4. range < size /\ size \in Nat
  <2> HIDE DEF range
  <2>1. QED
    BY <1>3, BitsFit
<1> HIDE DEF size
<1>5. yd <= range /\ ~(yd >= 2 * size)
  BY <1>1, <1>2, <1>4, SMT DEF range
<1>6. QED
  BY <1>5 DEF YearColumnRows, YearRange, yd, years, size, range

(* A value up to v decomposes into the bits that v needs. *)
LEMMA FitsItsWidth ==
    ASSUME NEW v \in Nat, v < P, NEW x \in 0 .. v
    PROVE  FitsBits(x, BitsNeeded(v))
<1>1. x \in Nat /\ x < P
  BY SMT DEF P
<1>2. F(x) = x
  BY <1>1, SmallResidue
<1>3. v < 2^BitsNeeded(v) /\ 2^BitsNeeded(v) \in Nat
  BY BitsFit
<1> DEFINE size == 2^BitsNeeded(v)
<1>4. v < size /\ size \in Nat
  BY <1>3
<1> HIDE DEF size
<1>5. F(x) < size
  BY <1>2, <1>4, SMT
<1>6. QED
  BY <1>5 DEF FitsBits, size

LEMMA HonestBits ==
    ASSUME NEW p \in Public, PublicValid(p), NEW d \in Date,
           DateValid(d, p.bounds), DateKey(d) <= DateKey(Cutoff(p))
    PROVE  /\ FitsBits(AgeSlack(p, d), SlackBits(p.bounds))
           /\ CalendarFits(p.bounds) => BitDecompositionHolds(p, d, Row(p, d))
<1> DEFINE b == p.bounds
           r == Row(p, d)
           min == b.min
           max == b.max
           cy == Cutoff(p).year
           cm == Cutoff(p).month
           cd == Cutoff(p).day
           y == d.year
           m == d.month
           e == d.day
           slack == AgeSlack(p, d)
           keys == MaxDateKey(b) - MinDateKey(b)
<1>1. /\ cy \in Nat /\ cm \in 1 .. 12 /\ cd \in 1 .. 31
      /\ y \in Nat /\ m \in 1 .. 12 /\ e \in 1 .. 31
      /\ min <= y /\ y <= max /\ min <= cy /\ cy <= max /\ min \in Nat /\ max \in Nat
      /\ max * 512 + 415 < P
  BY ValidFacts, CutoffFacts, SMT
<1>2. /\ slack = (cy * 512 + cm * 32 + cd) - (y * 512 + m * 32 + e)
      /\ y * 512 + m * 32 + e <= cy * 512 + cm * 32 + cd
  BY DEF AgeSlack, DateKey
<1>3. keys = (max * 512 + 12 * 32 + 31) - (min * 512 + 1 * 32 + 1)
  BY DEF MaxDateKey, MinDateKey, DateKey
<1>4. r.days = MaxDaysAt(d.month, d.year) /\ r.slack = slack
  BY Zenon DEF Row
<1>5. CalendarFits(b) => LookupsHold(p, d, r.days)
  BY <1>4, HonestLookups
<1> HIDE DEF r, min, max, cy, cm, cd, y, m, e, slack, keys
<1>6. keys \in Nat /\ keys < P /\ slack \in 0 .. keys
  BY <1>1, <1>2, <1>3, SMT DEF P
<1>7. FitsBits(slack, SlackBits(b))
  BY <1>6, FitsItsWidth DEF SlackBits, keys
<1>8. F(slack) = slack
  <2>1. slack \in Nat /\ slack < P
    BY <1>6, SMT DEF P
  <2>2. QED
    BY <2>1, SmallResidue
<1>9. FitsBits(y - min, YearBits(b)) /\ FitsBits(Span(b) - F(y - min), YearBits(b))
  <2> DEFINE span == max - min
             x == y - min
  <2>1. span \in Nat /\ span < P /\ x \in 0 .. span /\ span - x \in 0 .. span
    BY <1>1, SMT DEF P
  <2>2. Span(b) = span
    BY DEF Span, max, min
  <2> HIDE DEF span, x
  <2>3. x \in Nat /\ x < P
    BY <2>1, SMT DEF P
  <2>4. F(x) = x
    BY <2>3, SmallResidue
  <2>5. FitsBits(x, BitsNeeded(span)) /\ FitsBits(span - x, BitsNeeded(span))
    BY <2>1, FitsItsWidth
  <2>6. QED
    BY <2>2, <2>4, <2>5 DEF YearBits, x
<1>10. /\ FitsBits(m - 1, 4) /\ FitsBits(11 - F(m - 1), 4) /\ FitsBits(e - 1, 5)
  <2>1. /\ m - 1 \in Nat /\ m - 1 < P /\ 11 - (m - 1) \in Nat /\ 11 - (m - 1) < P
        /\ e - 1 \in Nat /\ e - 1 < P
    BY <1>1, SMT DEF P
  <2>2. F(m - 1) = m - 1 /\ F(11 - (m - 1)) = 11 - (m - 1) /\ F(e - 1) = e - 1
    BY <2>1, SmallResidue
  <2>3. F(m - 1) < 2^4 /\ F(11 - F(m - 1)) < 2^4 /\ F(e - 1) < 2^5
    BY <1>1, <2>2, SMT
  <2>4. QED
    BY <2>3 DEF FitsBits
<1>11. r.slack = F(AgeSlack(p, d)) /\ FitsBits(r.slack, SlackBits(b))
  BY <1>4, <1>7, <1>8 DEF slack
<1>12. CalendarFits(b) => BitDecompositionHolds(p, d, r)
  BY <1>5, <1>9, <1>10, <1>11, Zenon DEF BitDecompositionHolds, y, m, e, min
<1>13. QED
  BY <1>7, <1>12 DEF r, slack, b
----------------------------------------------------------------------------
(* What is known when prove and verify stand at a step: the statement was  *)
(* validated once the start is left, an early end means the holder is not  *)
(* old enough, every later step that he is, the row is the honest one, and *)
(* only bounds that disagree end in a panic or a rejection.                *)
OutcomeInv ==
    /\ public \in Publics
    /\ birth \in Births
    /\ step \in {"start", "witness", "trace", "commit", "proved"} \cup Ends
    /\ step \notin {"start", "invalid"} => PublicValid(public)
    /\ step \in {"invalid", "under_age"} /\ PublicValid(public) => ~OldEnough(public, birth)
    /\ step \notin {"start", "witness", "invalid", "under_age"} => OldEnough(public, birth)
    /\ step \in {"commit", "proved"} => row = Row(public, birth) /\ CalendarFits(public.bounds)
    /\ step \in Panics \cup {"rejected"} => ~BoundsAgree(public.bounds)
    /\ step = "rejected" =>
          AgeOn(birth, public.current) - public.minAge > YearRange(public.bounds)

(* An old-enough date in the terms the program compares. *)
LEMMA OldEnoughIsValid ==
    ASSUME NEW p \in Public, PublicValid(p), NEW d \in Date
    PROVE  OldEnough(p, d) <=>
             DateValid(d, p.bounds) /\ ~(DateKey(d) > DateKey(Cutoff(p)))
<1>1. DateValid(d, p.bounds) <=> (IsCalendarDate(d) /\ d.year \in p.bounds.min .. p.bounds.max)
  BY ValidIsCalendar
<1>2. DateValid(d, p.bounds) =>
        (DateKey(d) > DateKey(Cutoff(p)) <=> ~(AgeOn(d, p.current) >= p.minAge))
  BY KeysCompareAges
<1>3. QED
  BY <1>1, <1>2 DEF OldEnough

LEMMA KeysAreNatural ==
    ASSUME NEW p \in Public, PublicValid(p), NEW d \in Date
    PROVE  DateKey(d) \in Nat /\ DateKey(Cutoff(p)) \in Nat
<1>1. /\ d.year \in Nat /\ d.month \in Nat /\ d.day \in Nat
      /\ Cutoff(p).year \in Nat /\ Cutoff(p).month \in Nat /\ Cutoff(p).day \in Nat
  BY CutoffFacts, SMT DEF Date
<1>2. QED
  BY <1>1, SMT DEF DateKey

LEMMA OutcomeInvStep ==
    ASSUME OutcomeInv, [Next]_vars
    PROVE  OutcomeInv'
<1>1. public \in Public /\ birth \in Date
  BY InputsAssumption, Zenon DEF OutcomeInv, Public
<1>3. CASE ValidatePublic
  BY <1>3 DEF ValidatePublic, GoTo, OutcomeInv, Ends, Panics
<1>4. CASE MakeWitness
  <2>1. step = "witness" /\ PublicValid(public) /\ UNCHANGED <<public, birth, strategy, row>>
    BY <1>4 DEF MakeWitness, GoTo, OutcomeInv
  <2>2. OldEnough(public, birth) <=>
          DateValid(birth, public.bounds) /\ ~(DateKey(birth) > DateKey(Cutoff(public)))
    BY <1>1, <2>1, OldEnoughIsValid
  <2>3. OldEnough(public, birth) => FitsBits(AgeSlack(public, birth), SlackBits(public.bounds))
    <3>1. SUFFICES ASSUME OldEnough(public, birth)
                   PROVE  FitsBits(AgeSlack(public, birth), SlackBits(public.bounds))
      OBVIOUS
    <3>2. DateKey(birth) <= DateKey(Cutoff(public))
      <4> DEFINE k == DateKey(birth)
                 l == DateKey(Cutoff(public))
      <4>1. k \in Nat /\ l \in Nat /\ ~(k > l)
        BY <1>1, <2>1, <2>2, <3>1, KeysAreNatural
      <4> HIDE DEF k, l
      <4>2. k <= l
        BY <4>1, SMT
      <4>3. QED
        BY <4>2 DEF k, l
    <3>3. QED
      BY <1>1, <2>1, <2>2, <3>1, <3>2, HonestBits
  <2>4. CASE ~DateValid(birth, public.bounds)
    <3>1. step' = "invalid"
      BY <1>4, <2>4, Zenon DEF MakeWitness, GoTo
    <3>2. QED
      BY <2>1, <2>2, <2>4, <3>1 DEF OutcomeInv, Ends, Panics
  <2>5. CASE DateValid(birth, public.bounds) /\ DateKey(birth) > DateKey(Cutoff(public))
    <3>1. step' = "under_age" \/ step' = "invalid"
      BY <1>4, <2>5, Zenon DEF MakeWitness, GoTo
    <3>2. QED
      BY <2>1, <2>2, <2>5, <3>1 DEF OutcomeInv, Ends, Panics
  <2>6. CASE DateValid(birth, public.bounds) /\ ~(DateKey(birth) > DateKey(Cutoff(public)))
    <3>1. step' = "trace"
      BY <1>4, <2>2, <2>3, <2>6, Zenon DEF MakeWitness, GoTo
    <3>2. QED
      BY <2>1, <2>2, <2>6, <3>1 DEF OutcomeInv, Ends, Panics
  <2>7. QED
    BY <2>4, <2>5, <2>6
<1>5. CASE BuildTrace
  <2>1. step = "trace" /\ row' = Row(public, birth) /\ UNCHANGED <<public, birth, strategy>>
    BY <1>5 DEF BuildTrace, GoTo
  <2>2. PublicValid(public) /\ OldEnough(public, birth)
    BY <2>1 DEF OutcomeInv, Ends, Panics
  <2>3. DateValid(birth, public.bounds)
    BY <1>1, <2>2, OldEnoughIsValid
  <2>4. CASE ~CalendarFits(public.bounds)
    <3>1. step' = "calendar_panic"
      BY <1>5, <2>4, Zenon DEF BuildTrace, GoTo
    <3>2. ~BoundsAgree(public.bounds)
      BY <1>1, <2>2, <2>4, AgreeingCalendarFits
    <3>3. QED
      BY <2>1, <2>2, <3>1, <3>2 DEF OutcomeInv, Ends, Panics
  <2>5. CASE /\ CalendarFits(public.bounds)
             /\ strategy = "range_check" /\ row'.yearDelta >= YearColumnRows(public.bounds)
    <3>1. step' = "delta_panic"
      BY <1>5, <2>5, Zenon DEF BuildTrace, GoTo
    <3>2. ~BoundsAgree(public.bounds)
      BY <1>1, <2>1, <2>2, <2>3, <2>5, AgreeingDeltaFits
    <3>3. QED
      BY <2>1, <2>2, <3>1, <3>2 DEF OutcomeInv, Ends, Panics
  <2>6. CASE /\ CalendarFits(public.bounds)
             /\ ~(strategy = "range_check" /\ row'.yearDelta >= YearColumnRows(public.bounds))
    <3>1. step' = "commit"
      BY <1>5, <2>6, Zenon DEF BuildTrace, GoTo
    <3>2. QED
      BY <2>1, <2>2, <2>6, <3>1 DEF OutcomeInv, Ends, Panics
  <2>7. QED
    BY <2>4, <2>5, <2>6
<1>6. CASE Commit
  <2>1. step = "commit" /\ UNCHANGED <<public, birth, strategy, row>>
    BY <1>6 DEF Commit, GoTo
  <2>2. /\ PublicValid(public) /\ OldEnough(public, birth)
        /\ row = Row(public, birth) /\ CalendarFits(public.bounds)
    BY <2>1 DEF OutcomeInv, Ends, Panics
  <2>3. \/ step' = "proved"
        \/ step' = "partial_write_panic" /\ ~BoundsAgree(public.bounds)
    BY <1>6 DEF Commit, GoTo, BoundsAgree
  <2>4. QED
    BY <2>1, <2>2, <2>3 DEF OutcomeInv, Ends, Panics
<1>7. CASE Verify
  <2>1. step = "proved" /\ UNCHANGED <<public, birth, strategy, row>>
    BY <1>7 DEF Verify, GoTo
  <2>2. /\ PublicValid(public) /\ OldEnough(public, birth)
        /\ row = Row(public, birth) /\ CalendarFits(public.bounds)
    BY <2>1 DEF OutcomeInv, Ends, Panics
  <2>3. DateValid(birth, public.bounds) /\ DateKey(birth) <= DateKey(Cutoff(public))
    <3> DEFINE k == DateKey(birth)
               l == DateKey(Cutoff(public))
    <3>1. k \in Nat /\ l \in Nat /\ ~(k > l) /\ DateValid(birth, public.bounds)
      BY <1>1, <2>2, OldEnoughIsValid, KeysAreNatural
    <3> HIDE DEF k, l
    <3>2. k <= l
      BY <3>1, SMT
    <3>3. QED
      BY <3>1, <3>2 DEF k, l
  <2>4. BitDecompositionHolds(public, birth, row)
    BY <1>1, <2>2, <2>3, HonestBits
  <2>5. step' \in {"verified", "rejected"}
    BY <1>7 DEF Verify, GoTo
  <2>6. CASE row.yearDelta <= YearRange(public.bounds)
    <3>1. RangeCheckHolds(public, birth, row)
      BY <1>1, <2>2, <2>3, <2>6, HonestRangeCheck
    <3>2. step' = "verified"
      BY <1>7, <2>2, <2>4, <3>1 DEF Verify, GoTo
    <3>3. QED
      BY <2>1, <2>2, <3>2 DEF OutcomeInv, Ends, Panics
  <2>7. CASE ~(row.yearDelta <= YearRange(public.bounds))
    <3>1. ~BoundsAgree(public.bounds)
      BY <1>1, <2>2, <2>3, <2>7, AgreeingDeltaFits
    <3>2. AgeOn(birth, public.current) - public.minAge > YearRange(public.bounds)
      <4> DEFINE surplus == AgeOn(birth, public.current) - public.minAge
                 range == YearRange(public.bounds)
      <4>1. surplus \in Int /\ ~(surplus <= range)
        BY <1>1, <2>2, <2>3, <2>7, YearDeltaIsSurplus
      <4>2. range \in Int
        BY <1>1, <2>2, CutoffFacts DEF YearRange
      <4> HIDE DEF surplus, range
      <4>3. surplus > range
        BY <4>1, <4>2, SMT
      <4>4. QED
        BY <4>3 DEF surplus, range
    <3>3. QED
      BY <2>1, <2>2, <2>5, <3>1, <3>2 DEF OutcomeInv, Ends, Panics
  <2>8. QED
    BY <2>6, <2>7
<1>8. CASE UNCHANGED vars
  BY <1>8, Zenon DEF vars, OutcomeInv
<1>9. QED
  BY <1>3, <1>4, <1>5, <1>6, <1>7, <1>8 DEF Next

(* For every set of statements and every set of dates: prove and verify    *)
(* end early exactly for the holders who are not old enough, in either     *)
(* strategy; all others are verified unless the bounds disagree, and even  *)
(* then only the table of year deltas can reject them.                     *)
THEOREM OutcomeDecided == Spec => []OutcomeIsAge
<1>1. Init => OutcomeInv
  BY DEF Init, OutcomeInv, Ends, Panics
<1>2. OutcomeInv /\ [Next]_vars => OutcomeInv'
  BY OutcomeInvStep
<1>3. OutcomeInv => OutcomeIsAge
  BY DEF OutcomeInv, OutcomeIsAge, Ends, Panics
<1>4. QED
  BY <1>1, <1>2, <1>3, PTL DEF Spec

----------------------------------------------------------------------------
(* The bit-decomposition strategy has no range table: it relies on a late  *)
(* birth's wrapped slack having more bits than any honest one.             *)

(* The keys of the supported years span 30 bits; the spans AgeBounds::new  *)
(* makes take 16.                                                          *)
NarrowSpans ==
    \A p \in Publics :
        PublicValid(p) => MaxDateKey(p.bounds) - MinDateKey(p.bounds) < ThirtyBits

LEMMA BitsAreSound ==
    ASSUME NEW p \in Public, PublicValid(p),
           MaxDateKey(p.bounds) - MinDateKey(p.bounds) < ThirtyBits,
           NEW d \in Date, WellFormed(d), BitDecompositionAccepts(p, d)
    PROVE  OldEnough(p, d)
<1> DEFINE b == p.bounds
           keys == MaxDateKey(b) - MinDateKey(b)
           slack == AgeSlack(p, d)
           k == DateKey(d)
           l == DateKey(Cutoff(p))
           n == SlackBits(b)
<1>1. PICK days \in MonthLengths :
          /\ FitsBits(F(slack), n)
          /\ LookupsHold(p, d, days)
  BY DEF BitDecompositionAccepts, BitDecompositionHolds
<1>2. IsCalendarDate(d) /\ d.year \in b.min .. b.max
  BY <1>1, LookupsAdmitCalendarDates
<1>3. DateValid(d, b)
  BY <1>2, ValidIsCalendar
<1>4. keys \in Nat /\ keys < P /\ keys < ThirtyBits
  <2> DEFINE min == b.min
             max == b.max
  <2>1. min \in Nat /\ max \in Nat /\ min <= max
    BY CutoffFacts, SMT
  <2>2. max * 512 + 415 < P
    BY <1>3, ValidFacts, SMT
  <2>3. keys = (max * 512 + 12 * 32 + 31) - (min * 512 + 1 * 32 + 1)
    BY DEF MaxDateKey, MinDateKey, DateKey
  <2>4. keys < ThirtyBits
    OBVIOUS
  <2> HIDE DEF keys, min, max
  <2>5. QED
    BY <2>1, <2>2, <2>3, <2>4, SMT DEF P
<1> HIDE DEF keys
<1>5. n \in 1 .. 30
  <2>1. BitsNeeded(keys) \in 1 .. 31 /\ BitsNeeded(keys) <= 30
    BY <1>4, BitsFit
  <2>2. n = BitsNeeded(keys)
    BY DEF SlackBits, keys
  <2> HIDE DEF n
  <2>3. QED
    BY <2>1, <2>2
<1>6. k \in Nat /\ k <= 33554431 + 415 /\ l \in Nat /\ l < P /\ slack = l - k
  <2>1. /\ d.year \in Nat /\ d.year <= 65535 /\ d.month \in 1 .. 12 /\ d.day \in 1 .. 31
    BY SMT DEF WellFormed, Date
  <2>2. /\ Cutoff(p).year \in Nat /\ Cutoff(p).year <= b.max /\ Cutoff(p).month \in 1 .. 12
        /\ Cutoff(p).day \in 1 .. 31 /\ b.max \in Nat /\ b.max * 512 + 415 < P
    BY <1>3, ValidFacts, CutoffFacts, SMT
  <2>3. k \in Nat /\ k <= 33554431 + 415
    BY <2>1, SMT DEF DateKey
  <2>4. l \in Nat /\ l < P
    BY <2>2, SMT DEF DateKey, P
  <2>5. slack = l - k
    BY DEF AgeSlack
  <2>6. QED
    BY <2>3, <2>4, <2>5, SMT
<1> HIDE DEF slack, k, l, n
<1>7. F(slack) = IF slack >= 0 THEN slack ELSE slack + P
  BY <1>6, Residue, SMT DEF P
<1>8. F(F(slack)) = F(slack) /\ F(slack) \in Nat
  BY <1>6, <1>7, SmallResidue, SMT DEF P
<1>9. F(slack) < ThirtyBits
  <2> DEFINE size == 2^n
  <2>1. size \in Nat /\ size <= ThirtyBits
    BY <1>5, PowersAtMost
  <2>2. F(F(slack)) < size
    BY <1>1, <1>5, SMT DEF FitsBits
  <2> HIDE DEF size
  <2>3. QED
    BY <1>8, <2>1, <2>2, SMT DEF ThirtyBits
<1>10. ~(k > l)
  BY <1>6, <1>7, <1>9, SMT DEF ThirtyBits, P
<1>11. QED
  BY <1>3, <1>10, OldEnoughIsValid DEF k, l

(* Both strategies, for every set of statements with narrow spans and all  *)
(* dates: whatever row a prover commits, an accepted well-formed date is a *)
(* date of a holder who is old enough.                                     *)
THEOREM BothStrategiesSound == NarrowSpans => (Spec => []AcceptedIsOldEnough)
<1> SUFFICES ASSUME NarrowSpans
             PROVE  Spec => []AcceptedIsOldEnough
  OBVIOUS
<1>1. ASSUME Validated PROVE AcceptedIsOldEnough
  <2> SUFFICES ASSUME PublicAccepted, WellFormed(birth), Accepts(strategy, public, birth)
               PROVE  OldEnough(public, birth)
    BY DEF AcceptedIsOldEnough
  <2>1. public \in Public /\ birth \in Date /\ PublicValid(public) /\ public \in Publics
    BY <1>1, InputsAssumption DEF Validated, PublicAccepted, Public
  <2>2. CASE strategy = "range_check"
    BY <2>1, <2>2, RangeCheckIsSound DEF Accepts
  <2>3. CASE strategy # "range_check"
    <3>1. BitDecompositionAccepts(public, birth)
      BY <2>3 DEF Accepts
    <3>2. MaxDateKey(public.bounds) - MinDateKey(public.bounds) < ThirtyBits
      BY <2>1 DEF NarrowSpans
    <3>3. QED
      BY <2>1, <3>1, <3>2, BitsAreSound
  <2>4. QED
    BY <2>2, <2>3
<1>2. Init => Validated
  BY ValidatedInit
<1>3. Validated /\ [Next]_vars => Validated'
  BY ValidatedStep
<1>4. QED
  BY <1>1, <1>2, <1>3, PTL DEF Spec
=============================================================================
