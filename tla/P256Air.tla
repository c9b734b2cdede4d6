------------------------------ MODULE P256Air -------------------------------
(***************************************************************************)
(* The relations between the tables of a P-256 claim (stwo-p256).  Each    *)
(* table adds entries to named relations: a tuple with a multiplicity,     *)
(* negative where the table provides the tuple, positive where it uses it. *)
(* A proof of the claim needs every relation to sum to zero, tuple by      *)
(* tuple.  The entries are computed from the built claim, the providers    *)
(* and the users each from their own table.                                *)
(***************************************************************************)
EXTENDS P256Claim, FiniteSetsExt

(* at tells entries of one relation with the same tuple apart. *)
Entry(at, t, m) == [at |-> at, t |-> t, m |-> m]
Provide(at, t) == Entry(at, t, -1)
Use(at, t) == Entry(at, t, 1)

Balanced(entries) ==
    \A t \in {e.t : e \in entries} :
        MapThenSumSet(LAMBDA e : e.m, {e \in entries : e.t = t}) = 0

ActiveCerts == {c \in Certs : Active(c)}

-----------------------------------------------------------------------------
(* The cells of the prepared tables that hold the same point.              *)

Pin(role, cell, mult, kinds) ==
    {[role |-> role, cell |-> cell, mult |-> mult, kind |-> k] : k \in kinds}

BasePins ==
    Pin("P", "lhs", 1, {"Base1", "Base2", "Base5", "Base6", "DoubleP"})
    \cup Pin("P", "rhs", 1, {"AddP2P"})

CanonicalProviders ==
    UNION {Pin("P3", "out", -4, {"AddP2P"}),
           Pin("P3", "three", -4, {"DoubleR"}),
           Pin("R", "lhs", -3, {"DoubleR"}),
           Pin("R3", "out", -3, {"AddR2R"}),
           Pin("NegR", "neg", -2, {"DoubleR"}),
           Pin("NegR3", "neg", -2, {"AddR2R"}),
           Pin("P2", "out", -1, {"DoubleP"}),
           Pin("R2", "out", -1, {"DoubleR"})}

CanonicalUses ==
    UNION {Pin("P3", "lhs", 1, {"Base0", "Base3", "Base4", "Base7"}),
           Pin("R", "rhs", 1, {"AddR2R", "Base2", "Base3"}),
           Pin("R3", "rhs", 1, {"Base6", "Base7", "Table16"}),
           Pin("NegR", "rhs", 1, {"Base0", "Base1"}),
           Pin("NegR3", "rhs", 1, {"Base4", "Base5"}),
           Pin("P2", "lhs", 1, {"AddP2P"}),
           Pin("R2", "lhs", 1, {"AddR2R"})}

PinSchedule == BasePins \cup CanonicalProviders \cup CanonicalUses

Cell(row, cell) ==
    CASE cell = "lhs" -> row.lhs
      [] cell = "rhs" -> row.rhs
      [] cell = "out" -> row.out
      [] cell = "neg" -> Negate(IF row.kind = "DoubleR" THEN row.lhs ELSE row.out)
      [] OTHER -> 3

(* The constant 3 G stands in for the row certificate 1 does not have. *)
PinsOf(c, row) == {p \in PinSchedule : p.kind = row.kind /\ (p.cell = "three" => c = 1)}

(* CertScalarInputAirEval: as often as the certificate's cells use its base. *)
BaseProvider(c) == Entry(<<c, 0, "base">>, <<c, "P", BaseOf(c)>>, IF c = 1 THEN -4 ELSE -6)

PinEntriesOfRow(c, i) ==
    LET row == TableRowsOf(c)[i]
    IN  {Entry(<<c, i, p.cell>>, <<c, p.role, Cell(row, p.cell)>>, p.mult) : p \in PinsOf(c, row)}

PinEntries ==
    {BaseProvider(c) : c \in ActiveCerts}
    \cup UNION {UNION {PinEntriesOfRow(c, i) : i \in DOMAIN TableRowsOf(c)} : c \in Certs}

-----------------------------------------------------------------------------
(* The scalar products: setup has the ids 0 and 1, a certificate's hint an *)
(* id of its own.                                                          *)

ProductOf(id, role, value) == <<id, role, value>>
MulIdOf(c) == 1000000 + c - 1

Operands(id, a, b, q, r) ==
    {ProductOf(id, "A", a), ProductOf(id, "B", b), ProductOf(id, "Q", q), ProductOf(id, "R", r)}

(* The ids with the values the scalar tables hold. *)
ScalarUses ==
    LET quotient(u, r) == (input.s * u - r) \div N
    IN  Operands(0, input.s, setup.u[1], quotient(setup.u[1], setup.zred), setup.zred)
        \cup Operands(1, input.s, setup.u[2], quotient(setup.u[2], input.r), input.r)
        \cup UNION {Operands(MulIdOf(c), setup.u[c], hints[c].s2, hints[c].q,
                             SelectedS1(hints[c])) : c \in ActiveCerts}

(* ScalarModMul: each product computed from its two operands. *)
Product(id, a, b) == Operands(id, a, b, (a * b) \div N, (a * b) % N)

ScalarProducts ==
    Product(0, input.s, setup.u[1]) \cup Product(1, input.s, setup.u[2])
    \cup UNION {Product(MulIdOf(c), setup.u[c], hints[c].s2) : c \in ActiveCerts}

ScalarEntries ==
    {Provide("product", t) : t \in ScalarProducts} \cup {Use("scalar", t) : t \in ScalarUses}

-----------------------------------------------------------------------------
(* The operands of the chain rows, and the table points behind them.       *)

TABLE16_INDEX == 16

RowsOfKind(c, kind) == {i \in DOMAIN chains[c] : chains[c][i].kind = kind}

PointAtIndex(c, i) == IF i = TABLE16_INDEX THEN tables[c].table16 ELSE tables[c].base[i]

(* A point of the table with its index: no step number, no sign. *)
Operand(c, step, index, neg, pt) == <<c, step, index, neg, pt>>
Direct(c, index, pt) == Operand(c, 0, index, FALSE, pt)

DirectProviders ==
    UNION {{Direct(c, i, PointAtIndex(c, i)) : i \in {Selectors(c).init, TABLE16_INDEX}} :
           c \in ActiveCerts}

SignedProviders ==
    UNION {{LET d == Decode(Selectors(c).at[step])
            IN Operand(c, step, d.index, d.neg, Signed(tables[c].base[d.index], d.neg)) :
               step \in 1 .. C - 1} : c \in ActiveCerts}

DirectUses ==
    UNION {{Direct(c, Selectors(c).init, chains[c][i].operand) : i \in RowsOfKind(c, "msb")}
           \cup {Direct(c, TABLE16_INDEX, chains[c][i].operand) :
                    i \in RowsOfKind(c, "table16")} : c \in Certs}

SignedUses ==
    UNION {{LET row == chains[c][i]
                d   == Decode(Selectors(c).at[row.step])
            IN Operand(c, row.step, d.index, d.neg, row.operand) :
               i \in RowsOfKind(c, "step")} : c \in Certs}

(* The correction is computed again, from the scalar and the table. *)
ExpectedLsbCorrection(c) ==
    CASE Selectors(c).lsb = <<1, 1>> -> Infinity
      [] Selectors(c).lsb = <<0, 1>> -> Negate(BaseOf(c))
      [] Selectors(c).lsb = <<1, 0>> -> Negate(HintPoint(c))
      [] OTHER -> Negate(tables[c].base[2])

LsbProviders ==
    {Provide("lsb", <<c, Selectors(c).lsb, ExpectedLsbCorrection(c)>>) : c \in ActiveCerts}

LsbUses ==
    UNION {{Use("row", <<c, Selectors(c).lsb, chains[c][i].operand>>) :
                    i \in RowsOfKind(c, "lsb")} : c \in Certs}

OperandEntries ==
    {Provide("table", t) : t \in DirectProviders \cup SignedProviders}
    \cup {Use("chain", t) : t \in DirectUses \cup SignedUses}

(* The points a chain draws, in the order it draws them. *)
Draws(c) ==
    LET sel == Selectors(c)
    IN  <<sel.init, Decode(sel.at[0]).index>>
        \o [i \in 1 .. C - 1 |-> Decode(sel.at[C - i]).index]
        \o <<TABLE16_INDEX>>
        \o (IF sel.lsb = <<0, 0>> THEN <<2>> ELSE <<>>)

PointProviders(c) ==
    LET counts == UseCounts(Selectors(c))
    IN  {Entry(<<c, -1, i>>, <<c, i, PointAtIndex(c, i)>>,
               IF i = TABLE16_INDEX THEN -1 ELSE -counts[i]) : i \in (0 .. 7) \cup {16}}

PointEntries ==
    UNION {PointProviders(c)
           \cup {Use(<<c, n, Draws(c)[n]>>, <<c, Draws(c)[n], PointAtIndex(c, Draws(c)[n])>>) :
                    n \in DOMAIN Draws(c)} : c \in ActiveCerts}

-----------------------------------------------------------------------------
(* The chain rows, numbered through both certificates.                     *)

AllChainRows == chains[1] \o chains[2]

CertOfRow(i) == IF i <= Len(chains[1]) THEN 1 ELSE 2
FirstOfCert(i) == i = 1 \/ CertOfRow(i - 1) # CertOfRow(i)
LastOfCert(i) == i = Len(AllChainRows) \/ CertOfRow(i + 1) # CertOfRow(i)

RowsPerActiveCert == C + 2

(* FakeGlvChainScheduleEval: the row number alone fixes the kind and step. *)
ScheduledAt(i) ==
    LET local == (i - 1) % RowsPerActiveCert
    IN  CASE local = 0 -> <<"msb", 0>>
          [] local = RowsPerActiveCert - 2 -> <<"table16", 0>>
          [] local = RowsPerActiveCert - 1 -> <<"lsb", 0>>
          [] OTHER -> <<"step", RowsPerActiveCert - 2 - local>>

KeepsSchedule ==
    \A i \in DOMAIN AllChainRows :
        <<AllChainRows[i].kind, AllChainRows[i].step>> = ScheduledAt(i)

(* FakeGlvChainContinuityEval: the ends of a chain, and its rows in between. *)
ContinuityHolds ==
    \A i \in DOMAIN AllChainRows :
        LET row == AllChainRows[i] IN
        /\ FirstOfCert(i) => row.before = Infinity /\ row.after = row.operand
        /\ LastOfCert(i) => row.after = tables[CertOfRow(i)].r3

AccumulatorEntries ==
    {Provide("after", <<i, CertOfRow(i), AllChainRows[i].after>>) :
        i \in {j \in DOMAIN AllChainRows : ~LastOfCert(j)}}
    \cup {Use("before", <<i - 1, CertOfRow(i), AllChainRows[i].before>>) :
        i \in {j \in DOMAIN AllChainRows : ~FirstOfCert(j)}}

(* FakeGlvChainExpansionEval: each row as the curve operations it stands for. *)
Primitive(src, c, row) == <<src, c, row.op, row.lhs, row.rhs, row.out>>

WidthOf(row) == CASE row.kind = "msb" -> 0 [] row.kind = "lsb" -> 1 [] OTHER -> 3

StartOf(i) ==
    LET upTo[j \in 0 .. i - 1] ==
            IF j = 0 THEN Len(TablePart) ELSE upTo[j - 1] + WidthOf(AllChainRows[j])
    IN  upTo[i - 1]

ExpandedRows(row) ==
    LET twice == AddPoints(row.before, row.before)
    IN  CASE row.kind = "msb" -> <<>>
          [] row.kind = "lsb" -> <<Row("Chain", "add", row.before, row.operand, row.after)>>
          [] OTHER -> <<DoubleRow("Chain", row.before), DoubleRow("Chain", twice),
                        Row("Chain", "add", AddPoints(twice, twice), row.operand, row.after)>>

ExpansionEntries ==
    (UNION {{Provide("row", Primitive(StartOf(i) + k - 1, CertOfRow(i),
                                      ExpandedRows(AllChainRows[i])[k])) :
                k \in DOMAIN ExpandedRows(AllChainRows[i])} : i \in DOMAIN AllChainRows})
    \cup {Use("operation", Primitive(Len(TablePart) + i - 1,
                                     IF i <= Len(prims[1]) THEN 1 ELSE 2,
                                     (prims[1] \o prims[2])[i])) :
             i \in 1 .. Len(prims[1]) + Len(prims[2])}

-----------------------------------------------------------------------------
(* The multiplications, keyed by source: the curve operations, then the    *)
(* final addition, then the curve equation of the key.                     *)

Muls(src, op, a, b, out) == <<src, op, a, b, out>>
MulsOfRow(src, row) ==
    Muls(src, row.op, row.lhs, IF row.op = "double" THEN row.lhs ELSE row.rhs, row.out)

Oriented == [c \in Certs |-> OrientedHint(final.h[c], SignBit(c))]

MulProviders ==
    {MulsOfRow(i - 1, EcRows[i]) : i \in {j \in DOMAIN EcRows : RowHasMuls(EcRows[j])}}
    \cup {Muls(Len(EcRows), "final", Addends[1], Addends[2], final.x3),
          Muls(Len(EcRows) + 1, "curve", input.d, input.d, 0)}

(* A user has a source of its own number and skips an addition of infinity. *)
UsesOf(rows, offset) ==
    {MulsOfRow(offset + i - 1, rows[i]) :
        i \in {j \in DOMAIN rows : rows[j].op = "double" \/ rows[j].rhs # Infinity}}

MulUses ==
    LET chainRows == prims[1] \o prims[2]
        ladder == Len(TablePart) + Len(chainRows)
        second == IF SignBit(1) # SignBit(2) THEN Negate(Oriented[2]) ELSE Oriented[2]
    IN  UsesOf(TablePart, 0) \cup UsesOf(chainRows, Len(TablePart))
        \cup {Muls(ladder, "final", Oriented[1], second, final.x3),
              Muls(ladder + 1, "curve", input.d, input.d, 0)}

MulEntries == {Provide("mul", t) : t \in MulProviders} \cup {Use("row", t) : t \in MulUses}

-----------------------------------------------------------------------------
(* The final addition and check.                                           *)

FiniteAddends == {c \in Certs : final.h[c] # Infinity}

HintEntries ==
    (UNION {{Provide("table", <<c, TableRowsOf(c)[i].lhs>>) :
                i \in {j \in DOMAIN TableRowsOf(c) : TableRowsOf(c)[j].kind = "DoubleR"}} :
            c \in Certs})
    \cup {Use("final", <<c, Oriented[c]>>) : c \in FiniteAddends}

SignEntries ==
    {Provide("scalar", <<c, hints[c].bit>>) : c \in ActiveCerts}
    \cup {Use("final", <<c, SignBit(c)>>) : c \in FiniteAddends}

ResultEntries ==
    {Provide("final add", <<"x", final.x3>>), Use("final check", <<"x", final.rx>>),
     Provide("public", <<"r", input.r>>), Use("final check", <<"r", final.rx - final.ge * N>>)}

-----------------------------------------------------------------------------
(* A built claim can be proved: every relation between its tables sums to
   zero, certificate by certificate and source by source, the chain rows fall
   on the fixed schedule and their ends are infinity and three times the hint
   - with one certificate as with two, whatever the sign bits. *)
RelationsBalance ==
    phase = "built" =>
        /\ Balanced(PinEntries) /\ Balanced(ScalarEntries)
        /\ Balanced(OperandEntries) /\ Balanced(LsbProviders \cup LsbUses) /\ Balanced(PointEntries)
        /\ Balanced(AccumulatorEntries) /\ Balanced(ExpansionEntries)
        /\ Balanced(MulEntries) /\ Balanced(HintEntries) /\ Balanced(SignEntries)
        /\ Balanced(ResultEntries)
        /\ KeepsSchedule /\ ContinuityHolds
=============================================================================
