------------------------------ MODULE FakeGlv -------------------------------
(***************************************************************************)
(* The fake-GLV arithmetic of stwo-p256: the half-GCD of (N, k), the hint  *)
(* it leaves, the selectors cut from the hint, the prepared table of a     *)
(* certificate and its rows, and the row of one chain step.                *)
(*                                                                         *)
(* A point of the curve is its discrete logarithm to the generator, an     *)
(* element of 0 .. N - 1; 0 is the point at infinity.  A half scalar has   *)
(* 2 C + 2 bits: the lowest, C chunks of two, the highest (C is 63).       *)
(***************************************************************************)
EXTENDS Integers, Sequences, FiniteSets

CONSTANTS N,   \* the order of the group
          C    \* two-bit chunks of a half scalar

Root == CHOOSE m \in 0 .. N : m * m <= N /\ N < (m + 1) * (m + 1)

(* The powers of two up to the bits of a half scalar. *)
TwoTo[n \in 0 .. 2 * C + 2] == IF n = 0 THEN 1 ELSE 2 * TwoTo[n - 1]

HalfBound == TwoTo[2 * C + 2]

ASSUME OrderAssumption ==
    /\ N \in Nat /\ C \in Nat \ {0} /\ 3 < N
    /\ \A a \in 2 .. N - 1 : N % a # 0
    /\ Root \in 2 .. N /\ Root * Root <= N
    /\ HalfBound \in Nat /\ N \div Root < HalfBound

Infinity == 0
AddPoints(a, b) == (a + b) % N
Negate(a) == (-a) % N
Times(k, a) == (k * a) % N

-----------------------------------------------------------------------------
(* precompute_lattice_v1: two rows of the extended Euclidean algorithm.    *)

LatticeStart(k) == [prev |-> [rem |-> N, s |-> 1, t |-> 0],
                    curr |-> [rem |-> k, s |-> 0, t |-> 1]]

Reduced(a, b, q) == [rem |-> a.rem - q * b.rem, s |-> a.s - q * b.s, t |-> a.t - q * b.t]

LatticeNext(l) ==
    [prev |-> l.curr, curr |-> Reduced(l.prev, l.curr, l.prev.rem \div l.curr.rem)]

ZeroHint == [s1 |-> 0, s2 |-> 0, bit |-> 0, q |-> 0]

NoHint == [ZeroHint EXCEPT !.s1 = -1]

SelectedS1(hint) == IF hint.bit = 1 THEN hint.s1 ELSE N - hint.s1

(* The rest of decompose_scalar_mod_n on the short vector (s1, s2), with the
   vector's sign changed to make s1 positive. *)
HintCandidate(k, s1, s2) ==
    LET bit == IF s2 < 0 THEN 1 ELSE 0
        mag == IF s2 < 0 THEN -s2 ELSE s2
        sel == IF bit = 1 THEN s1 ELSE N - s1
    IN  [s1 |-> s1, s2 |-> mag, bit |-> bit, q |-> (k * mag - sel) \div N]

HintFits(h) ==
    /\ h.s1 > 0 /\ h.s2 > 0 /\ h.q >= 0
    /\ h.s1 < HalfBound /\ h.s2 < HalfBound /\ h.q < HalfBound

HintOfKeepingSign(k, row) ==
    LET h == HintCandidate(k, row.rem, row.t)
    IN  IF HintFits(h) THEN h ELSE NoHint

HintOf(k, row) ==
    LET h == IF row.rem < 0 THEN HintCandidate(k, -row.rem, row.t)
             ELSE HintCandidate(k, row.rem, -row.t)
    IN  IF HintFits(h) THEN h ELSE NoHint

-----------------------------------------------------------------------------
(* The selectors: chunk i of v is the bits 2 i + 1 and 2 i + 2.            *)

Lsb(v) == v % 2
Msb(v) == v \div TwoTo[2 * C + 1]
Chunk(v, i) == (v \div TwoTo[2 * i + 1]) % 4

SelectorsOf(hint) ==
    [lsb  |-> <<Lsb(hint.s1), Lsb(hint.s2)>>,
     init |-> 2 + Msb(hint.s1) + 4 * Msb(hint.s2),
     at   |-> [i \in 0 .. C - 1 |-> Chunk(hint.s1, i) + 4 * Chunk(hint.s2, i)]]

(* The eight table points as multiples of the base P and of the hint R. *)
BaseDigits == <<<<3, -1>>, <<1, -1>>, <<1, 1>>, <<3, 1>>,
                <<3, -3>>, <<1, -3>>, <<1, 3>>, <<3, 3>>>>

(* Selector16DecodeEntry: a digit 2 c - 3 of P and one of R; a negative
   digit of P takes the opposite table point, negated. *)
Decode(sel) ==
    LET a   == 2 * (sel % 4) - 3
        b   == 2 * (sel \div 4) - 3
        neg == a < 0
        pos == IF neg THEN <<-a, -b>> ELSE <<a, b>>
    IN  [index |-> (CHOOSE i \in 1 .. 8 : BaseDigits[i] = pos) - 1, neg |-> neg]

-----------------------------------------------------------------------------
(* The prepared table of a certificate and the curve operations behind it. *)

Row(kind, op, lhs, rhs, out) == [kind |-> kind, op |-> op, lhs |-> lhs, rhs |-> rhs, out |-> out]
DoubleRow(kind, a) == Row(kind, "double", a, Infinity, AddPoints(a, a))
AddRow(kind, a, b) == Row(kind, "add", a, b, AddPoints(a, b))

OrientedHint(h, bit) == IF bit = 1 THEN Negate(h) ELSE h

Signed(pt, neg) == IF neg THEN Negate(pt) ELSE pt

TableOf(p, r, sel) ==
    LET base == [i \in 0 .. 7 |-> AddPoints(Times(BaseDigits[i + 1][1], p),
                                            Times(BaseDigits[i + 1][2], r))]
        first == Decode(sel.at[0])
    IN  [p |-> p, r |-> r, p3 |-> Times(3, p), r3 |-> Times(3, r), base |-> base,
         first |-> Signed(base[first.index], first.neg),
         table16 |-> AddPoints(Signed(base[first.index], first.neg), Times(3, r))]

EmptyTable == [p |-> 0, r |-> 0, p3 |-> 0, r3 |-> 0, base |-> [i \in 0 .. 7 |-> 0],
               first |-> 0, table16 |-> 0]

BaseKind == <<"Base0", "Base1", "Base2", "Base3", "Base4", "Base5", "Base6", "Base7">>

(* prepared_table_ec_rows_for_cert: 3 P is a constant for the generator. *)
TableRows(tab, constant3P) ==
    LET triple == IF constant3P THEN <<>>
                  ELSE <<DoubleRow("DoubleP", tab.p),
                         AddRow("AddP2P", AddPoints(tab.p, tab.p), tab.p)>>
        hintRows == <<DoubleRow("DoubleR", tab.r),
                      AddRow("AddR2R", AddPoints(tab.r, tab.r), tab.r)>>
        Left(i) == IF i \in {1, 2, 5, 6} THEN tab.p ELSE tab.p3
        Right(i) == IF i < 4 THEN Signed(tab.r, i < 2) ELSE Signed(tab.r3, i < 6)
        bases == [i \in 1 .. 8 |-> AddRow(BaseKind[i], Left(i - 1), Right(i - 1))]
    IN  triple \o hintRows \o bases \o <<AddRow("Table16", tab.first, tab.r3)>>

(* push_chain_step: four times the accumulator plus the operand. *)
StepRows(acc, operand) ==
    LET twice == AddPoints(acc, acc)
        four  == AddPoints(twice, twice)
    IN  <<DoubleRow("Chain", acc), DoubleRow("Chain", twice), AddRow("Chain", four, operand)>>

LsbCorrectionOf(tab, sel) ==
    IF sel.lsb = <<1, 1>> THEN Infinity
    ELSE IF sel.lsb = <<0, 1>> THEN Negate(tab.p)
    ELSE IF sel.lsb = <<1, 0>> THEN Negate(tab.r)
    ELSE Negate(tab.base[2])

(* The multiplications of a row take the accumulator's z to be one: they do
   not reproduce a doubling of infinity, or an addition onto it. *)
RowHasMuls(row) == ~(row.op = "add" /\ row.rhs = Infinity)
RowReproduced(row) == row.lhs = Infinity => ~RowHasMuls(row)

(* PreparedPointUseCount: how often the chain draws each table point. *)
UseCounts(sel) ==
    [i \in 0 .. 7 |->
        (IF sel.init = i THEN 1 ELSE 0)
        + (IF sel.lsb = <<0, 0>> /\ i = 2 THEN 1 ELSE 0)
        + Cardinality({j \in 0 .. C - 1 : Decode(sel.at[j]).index = i})]
=============================================================================
