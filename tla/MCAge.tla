------------------------------- MODULE MCAge --------------------------------
(***************************************************************************)
(* Instances of Age: statements around leap days, year ends and century    *)
(* years; births at every boundary of the comparison, of the months and of *)
(* the supported years.                                                    *)
(***************************************************************************)
EXTENDS Age

D(y, m, d) == [year |-> y, month |-> m, day |-> d]
B(min, max, years) == [min |-> min, max |-> max, years |-> years]

(* PublicInput::new: 120 years back from the current year. *)
New(current, minAge) ==
    [current |-> current, minAge |-> minAge, bounds |-> B(current.year - 120, current.year, 120)]

WithBounds(current, minAge, bounds) ==
    [current |-> current, minAge |-> minAge, bounds |-> bounds]

(* Date keys of 30 bits, the most that leave a late birth's wrapped slack out of
   range; validation also admits 31. *)
WidestSafe == B(0, 2097150, 2097150)

(* Bounds that validation admits although their parts disagree: a table of year
   deltas that is too short, by one year and by more, a calendar that is too
   small, and two tables of years of the range of another table. *)
Disagreeing ==
    {WithBounds(D(2026, 5, 19), 0, B(1906, 2026, 118)),
     WithBounds(D(2026, 5, 19), 18, B(1906, 2026, 100)),
     WithBounds(D(2026, 5, 19), 18, B(1906, 2026, 18)),
     WithBounds(D(2026, 5, 19), 18, B(1996, 2026, 30)),
     WithBounds(D(2026, 5, 19), 2, B(2012, 2026, 14))}

DefaultPublics ==
    {New(D(2026, 5, 19), a) : a \in {0, 18, 120, 121}}
    \cup {New(D(2024, 2, 29), a) : a \in {18, 24, 124}}
    \cup {New(D(2020, 12, 31), 20), New(D(2021, 1, 1), 21), New(D(2026, 13, 1), 18),
          New(D(2018, 2, 28), 18), New(D(2020, 2, 28), 120)}
    \cup {WithBounds(D(2026, 5, 19), 18, b) :
             b \in {B(1990, 2030, 40), B(2030, 2020, 18), B(2000, 2020, 20), WidestSafe}}
    \cup Disagreeing

Days == {0, 1, 2, 18, 19, 20, 28, 29, 30, 31, 32}

DefaultBirths ==
    [year : {1899, 1900, 1904, 1906, 2000, 2002, 2006, 2007, 2008, 2024, 2027},
     month : {0, 1, 2, 3, 4, 5, 6, 12, 13}, day : Days]
=============================================================================
