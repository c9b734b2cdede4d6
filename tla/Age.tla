-------------------------------- MODULE Age ---------------------------------
(***************************************************************************)
(* The age predicate (crates/predicates/src/age): a public statement       *)
(* [current, minAge, bounds], a private date of birth, and two constraint  *)
(* systems that decide whether the holder is at least minAge years old on  *)
(* the current date: the range-check strategy (the one the pipelines use)  *)
(* and the bit-decomposition strategy.                                     *)
(*                                                                         *)
(* A constraint is an equation over the field M31, whose elements are      *)
(* 0 .. P - 1; a lookup is membership in a table.  A strategy accepts a    *)
(* date when some trace row with that date satisfies all of them.          *)
(***************************************************************************)
EXTENDS Integers

CONSTANTS
    Publics,  \* public statements
    Births    \* dates of birth: triples of u32, not always dates

Date == [year : Nat, month : Nat, day : Nat]

AgeBounds == [min : Nat, max : Nat, years : Nat]

ASSUME InputsAssumption ==
    /\ Publics \subseteq [current : Date, minAge : Nat, bounds : AgeBounds]
    /\ Births \subseteq Date

Strategies == {"range_check", "bit_decomposition"}

VARIABLES
    public,    \* the statement
    birth,     \* the holder's date of birth
    strategy,  \* which predicate is used
    row,       \* the trace row the prover committed, or NoRow
    step       \* how far prove and verify got, or how they ended

vars == <<public, birth, strategy, row, step>>

P == 2147483647   \* the modulus of M31
F(x) == x % P

(* Mutant: every fourth year is a leap year. *)
JulianDaysAt(month, year) ==
    CASE month \in {4, 6, 9, 11} -> 30
      [] month = 2 -> IF year % 4 = 0 THEN 29 ELSE 28
      [] OTHER -> 31

MaxDaysAt(month, year) ==
    CASE month \in {4, 6, 9, 11} -> 30
      [] month = 2 -> IF year % 4 = 0 /\ (year % 100 # 0 \/ year % 400 = 0) THEN 29 ELSE 28
      [] OTHER -> 31

(* How many bits a value takes; every key and difference takes at most 31. *)
BitsNeeded(value) ==
    CHOOSE k \in 1 .. 31 : (k = 31 \/ value < 2^k) /\ (k = 1 \/ value >= 2^(k - 1))

DateKey(d) == d.year * 512 + d.month * 32 + d.day

(*--------------------------------- bounds --------------------------------*)
Span(b) == b.max - b.min
MaxDateKey(b) == DateKey([year |-> b.max, month |-> 12, day |-> 31])
MinDateKey(b) == DateKey([year |-> b.min, month |-> 1, day |-> 1])

(* A date key must be a field element. *)
BoundsValid(b) ==
    /\ b.min <= b.max
    /\ b.years <= Span(b)
    /\ b.max <= P \div 512 /\ MaxDateKey(b) <= P - 1

DateValid(d, b) ==
    /\ d.year \in b.min .. b.max
    /\ d.month \in 1 .. 12
    /\ d.day \in 1 .. MaxDaysAt(d.month, d.year)

PublicValid(p) ==
    /\ BoundsValid(p.bounds)
    /\ DateValid(p.current, p.bounds)
    /\ p.minAge <= p.bounds.years
    /\ p.current.year - p.minAge >= p.bounds.min

(* The last date of birth that is old enough. *)
Cutoff(p) ==
    [year |-> p.current.year - p.minAge, month |-> p.current.month, day |-> p.current.day]

(*--------------------------------- tables --------------------------------*)
(* The two calendar columns: one row per month of the supported years,     *)
(* then zeros.                                                             *)
CalendarLogSize(b) == BitsNeeded((b.years + 1) * 12)
CalendarRows(b) == 12 * (Span(b) + 1)
MonthIndex(d, b) == (d.year - b.min) * 12 + d.month - 1

CalendarRow(b, i) ==
    IF i < CalendarRows(b)
    THEN [index |-> i, days |-> MaxDaysAt((i % 12) + 1, b.min + (i \div 12))]
    ELSE [index |-> 0, days |-> 0]

(* Index i is in row i or in the padding. *)
InCalendar(b, i, days) ==
    \E k \in {i, CalendarRows(b)} :
        /\ k < 2^CalendarLogSize(b)
        /\ CalendarRow(b, k) = [index |-> i, days |-> days]

(* Every day of every length of month; 118 of 128 rows. *)
InValidDays(days, day) ==
    (days \in 28 .. 31 /\ day \in 1 .. days) \/ (days = 0 /\ day = 0)

(* RangeCheck(n), blinded: dummy rows yield nothing, padding rows yield 0. *)
InRange(n, value) == value \in 0 .. n
DayRange == 31
MonthRange == 15

YearRange(b) == b.years + 1

(*-------------------------------- witness --------------------------------*)
AgeSlack(p, d) == DateKey(Cutoff(p)) - DateKey(d)

Borrow(condition) == IF condition THEN 1 ELSE 0

(* Mutant: a day borrow is not carried into the months. *)
RowWithoutCarry(p, d) ==
    LET c == Cutoff(p)
        dayBorrow == Borrow(c.day < d.day)
        monthBorrow == Borrow(c.month < d.month)
    IN  [days |-> MaxDaysAt(d.month, d.year),
         dayBorrow |-> dayBorrow, monthBorrow |-> monthBorrow,
         dayDelta |-> c.day + 32 * dayBorrow - d.day,
         monthDelta |-> c.month + 16 * monthBorrow - d.month,
         yearDelta |-> c.year - d.year - monthBorrow,
         slack |-> AgeSlack(p, d)]

(* What the witness-bearing row holds: the range-check columns, and the    *)
(* slack that the other strategy decomposes.  Slack and year delta wrap    *)
(* when the date is after the cutoff.                                      *)
Row(p, d) ==
    LET c == Cutoff(p)
        dayBorrow == Borrow(c.day < d.day)
        monthBorrow == Borrow(c.month < d.month + dayBorrow)
    IN  [days |-> MaxDaysAt(d.month, d.year),
         dayBorrow |-> dayBorrow, monthBorrow |-> monthBorrow,
         dayDelta |-> c.day + 32 * dayBorrow - d.day,
         monthDelta |-> c.month + 16 * monthBorrow - d.month - dayBorrow,
         yearDelta |-> c.year - d.year - monthBorrow,
         slack |-> AgeSlack(p, d)]

NoRow == [days |-> 0, dayBorrow |-> 0, monthBorrow |-> 0, dayDelta |-> 0,
          monthDelta |-> 0, yearDelta |-> 0, slack |-> 0]

(* The widths of the bit-decomposed quantities. *)
YearBits(b) == BitsNeeded(Span(b))
SlackBits(b) == BitsNeeded(MaxDateKey(b) - MinDateKey(b))

(*------------------------------- constraints -----------------------------*)
LookupsHold(p, d, days) ==
    /\ InCalendar(p.bounds, F(MonthIndex(d, p.bounds)), days)
    /\ InValidDays(days, d.day)

RangeCheckHolds(p, d, r) ==
    LET c == Cutoff(p) IN
    /\ r.dayBorrow \in {0, 1} /\ r.monthBorrow \in {0, 1}
    /\ r.dayDelta = F(c.day - d.day + 32 * r.dayBorrow)
    /\ r.monthDelta = F(c.month - d.month - r.dayBorrow + 16 * r.monthBorrow)
    /\ r.yearDelta = F(c.year - d.year - r.monthBorrow)
    /\ InRange(DayRange, r.dayDelta)
    /\ InRange(MonthRange, r.monthDelta)
    /\ InRange(YearRange(p.bounds), r.yearDelta)
    /\ LookupsHold(p, d, r.days)

(* A cell that is decomposed into n bits: any, when n is the field's width. *)
FitsBits(x, n) == n >= 31 \/ F(x) < 2^n

BitDecompositionHolds(p, d, r) ==
    LET b == p.bounds IN
    /\ FitsBits(d.year - b.min, YearBits(b))
    /\ FitsBits(Span(b) - F(d.year - b.min), YearBits(b))
    /\ FitsBits(d.month - 1, 4)
    /\ FitsBits(11 - F(d.month - 1), 4)
    /\ FitsBits(d.day - 1, 5)
    /\ r.slack = F(AgeSlack(p, d))
    /\ FitsBits(r.slack, SlackBits(b))
    /\ LookupsHold(p, d, r.days)

(* Some row with this date satisfies the constraints: the lookups leave    *)
(* five choices for the month's length, the equations fix the deltas.      *)
MonthLengths == {0} \cup 28 .. 31

RangeCheckAccepts(p, d) ==
    LET c == Cutoff(p) IN
    \E days \in MonthLengths : \E db, mb \in {0, 1} :
        RangeCheckHolds(p, d,
            [days |-> days, dayBorrow |-> db, monthBorrow |-> mb,
             dayDelta |-> F(c.day - d.day + 32 * db),
             monthDelta |-> F(c.month - d.month - db + 16 * mb),
             yearDelta |-> F(c.year - d.year - mb)])

BitDecompositionAccepts(p, d) ==
    \E days \in MonthLengths :
        BitDecompositionHolds(p, d, [days |-> days, slack |-> F(AgeSlack(p, d))])

Accepts(s, p, d) ==
    IF s = "range_check" THEN RangeCheckAccepts(p, d) ELSE BitDecompositionAccepts(p, d)
----------------------------------------------------------------------------
Init ==
    /\ public \in Publics
    /\ birth \in Births
    /\ strategy \in Strategies
    /\ row = NoRow
    /\ step = "start"

GoTo(s) == step' = s /\ UNCHANGED <<public, birth, strategy>>

(* AgePredicate::validate *)
ValidatePublic ==
    /\ step = "start"
    /\ GoTo(IF PublicValid(public) THEN "witness" ELSE "invalid")
    /\ UNCHANGED row

(* AgePredicate::witness *)
MakeWitness ==
    /\ step = "witness"
    /\ GoTo(IF ~DateValid(birth, public.bounds) THEN "invalid"
            ELSE IF DateKey(birth) > DateKey(Cutoff(public)) THEN "under_age"
            ELSE IF FitsBits(AgeSlack(public, birth), SlackBits(public.bounds)) THEN "trace"
            ELSE "invalid")
    /\ UNCHANGED row

(* The calendar must fit its log size, and the year delta the blinded      *)
(* multiplicity column of its table, which has twice the table's rows.     *)
CalendarFits(b) == CalendarRows(b) - 1 < 2^CalendarLogSize(b)
YearColumnRows(b) == 2 * 2^BitsNeeded(YearRange(b))

BuildTrace ==
    /\ step = "trace"
    /\ row' = Row(public, birth)
    /\ GoTo(IF ~CalendarFits(public.bounds) THEN "calendar_panic"
            ELSE IF strategy = "range_check" /\ row'.yearDelta >= YearColumnRows(public.bounds)
                 THEN "delta_panic"
            ELSE "commit")

(* Tables of equal range have equal ids, and a module that declares an id  *)
(* twice is asked for part of its columns, which the range-check prover    *)
(* does not support.                                                       *)
RangeIdsDistinct(b) == YearRange(b) \notin {DayRange, MonthRange}

Commit ==
    /\ step = "commit"
    /\ GoTo(IF strategy = "range_check" /\ ~RangeIdsDistinct(public.bounds)
            THEN "partial_write_panic" ELSE "proved")
    /\ UNCHANGED row

(* The verifier validates the statement again; then the prover's row must  *)
(* satisfy the constraints.                                                *)
Verify ==
    /\ step = "proved"
    /\ GoTo(IF /\ PublicValid(public)
               /\ IF strategy = "range_check"
                  THEN RangeCheckHolds(public, birth, row)
                  ELSE BitDecompositionHolds(public, birth, row)
            THEN "verified" ELSE "rejected")
    /\ UNCHANGED row

Next == ValidatePublic \/ MakeWitness \/ BuildTrace \/ Commit \/ Verify

Spec == Init /\ [][Next]_vars
----------------------------------------------------------------------------
Panics == {"calendar_panic", "delta_panic", "partial_write_panic"}

Ends == {"invalid", "under_age", "verified", "rejected"} \cup Panics

(* What the statement says, counted in days and birthdays and without      *)
(* keys, borrows or tables.  FirstDay numbers the first day of a month in  *)
(* the Gregorian calendar, years beginning in March.                       *)
FirstDay(year, month) ==
    LET y == IF month <= 2 THEN year - 1 ELSE year
        m == IF month <= 2 THEN month + 9 ELSE month - 3
    IN  365 * y + (y \div 4) - (y \div 100) + (y \div 400) + ((153 * m + 2) \div 5)

MonthLength(year, month) ==
    (IF month = 12 THEN FirstDay(year + 1, 1) ELSE FirstDay(year, month + 1))
        - FirstDay(year, month)

IsCalendarDate(d) == d.month \in 1 .. 12 /\ d.day \in 1 .. MonthLength(d.year, d.month)

AgeOn(d, current) ==
    current.year - d.year
        - IF \/ current.month < d.month
             \/ current.month = d.month /\ current.day < d.day
          THEN 1 ELSE 0

OldEnough(p, d) ==
    /\ IsCalendarDate(d)
    /\ d.year \in p.bounds.min .. p.bounds.max
    /\ AgeOn(d, p.current) >= p.minAge

(* A date as the credential format promises it: month 1..12, day 1..31, a  *)
(* year of two bytes.                                                      *)
WellFormed(d) == d.month \in 1 .. 12 /\ d.day \in 1 .. 31 /\ d.year < 65536

PublicAccepted == step \notin {"start", "invalid"}

(* Soundness of both constraint systems: whatever row a prover commits,    *)
(* a well-formed date is accepted only when it is a calendar date and the  *)
(* holder is old enough, for every statement the verifier admits.          *)
AcceptedIsOldEnough ==
    (PublicAccepted /\ WellFormed(birth) /\ Accepts(strategy, public, birth))
        => OldEnough(public, birth)

(* The supported ages are the span of the supported years, and the table   *)
(* of year deltas has a range of its own. AgeBounds::new makes such bounds; *)
(* validation admits others.                                               *)
BoundsAgree(b) == b.years = Span(b) /\ RangeIdsDistinct(b)

(* Completeness, for all bounds that validation admits: prove and verify   *)
(* end early exactly for the holders who are not old enough, and verify    *)
(* all others when the bounds agree. When they do not, tables of the wrong *)
(* size or equal ids may panic, and a holder is rejected only who is older *)
(* than the minimum age by more years than the table of year deltas has.   *)
OutcomeIsAge ==
    (step \in Ends /\ PublicValid(public)) =>
        /\ OldEnough(public, birth) <=> step \notin {"invalid", "under_age"}
        /\ step \in Panics \cup {"rejected"} => ~BoundsAgree(public.bounds)
        /\ step = "rejected" =>
              AgeOn(birth, public.current) - public.minAge > YearRange(public.bounds)
=============================================================================
