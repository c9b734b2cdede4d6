----------------------------- MODULE P256Claim ------------------------------
(***************************************************************************)
(* The proof claim of one P-256 signature (stwo-p256): the optional native *)
(* verification before it, then the builder step by step - the scalars,    *)
(* the half-GCD of each, the key, the prepared tables, the chain of each   *)
(* certificate, its curve operations, the final check, the final addition. *)
(*                                                                         *)
(* Certificate 1 is u1 times the generator, certificate 2 is u2 times the  *)
(* key (cert_id 0 and 1 in the code).                                      *)
(***************************************************************************)
EXTENDS FakeGlv

CONSTANTS
    W,        \* the range of a 256-bit word, 2^256 in the code
    XCoord,   \* the x coordinate of every finite point
    InverseOf,  \* the inverse of every scalar but zero
    MaxUse,   \* MAX_PREPARED_POINT_USE_COUNT
    Inputs    \* the records [z, r, s, d, path, probe] of the run

ASSUME WordAssumption ==
    /\ W \in Nat /\ N < W /\ W < 2 * N
    /\ \A i \in 1 .. N - 1 : XCoord[i] \in 0 .. W - 1 /\ XCoord[N - i] = XCoord[i]
    /\ Cardinality({XCoord[i] : i \in 1 .. N - 1}) = (N - 1) \div 2
    /\ InverseOf \in [1 .. N - 1 -> 1 .. N - 1]
    /\ \A i \in 1 .. N - 1 : (i * InverseOf[i]) % N = 1
    /\ MaxUse \in Nat /\ C + 2 <= MaxUse

ASSUME InputAssumption ==
    \A in \in Inputs :
        /\ in.z \in 0 .. W - 1 /\ in.r \in 0 .. W - 1 /\ in.s \in 0 .. W - 1
        /\ in.d \in 0 .. N - 1 /\ in.path \in {"checked", "direct"} /\ in.probe \in BOOLEAN

(* In a group of 5 or 13 points the hints of other scalars than 1 and -1 meet
   infinity in their tables too; from 49 points on none does. *)
ASSUME LargeOrderAssumption == 7 <= Root

Certs == {1, 2}

VARIABLES
    phase,    \* the next step of the builder, then "built", "probed", "refused"
    input,    \* hash, signature and key; d is the key's logarithm, 0 off the curve
    setup,    \* z reduced, u1 and u2
    cert,     \* the certificate a step is at
    lattice,  \* the two rows of its half-GCD
    hints,    \* the hints made so far
    tables,   \* the prepared tables
    walk,     \* the chain in progress: steps left and accumulator
    chains,   \* the chain rows of each certificate
    prims,    \* the curve operations of each chain
    final,    \* the final check and addition
    verdict   \* what the prover answers

vars == <<phase, input, setup, cert, lattice, hints, tables, walk, chains, prims,
          final, verdict>>

Init ==
    /\ input \in Inputs
    /\ phase = IF input.path = "checked" THEN "native" ELSE "setup"
    /\ setup = [zred |-> 0, u |-> <<0, 0>>]
    /\ cert = 1 /\ lattice = LatticeStart(0) /\ hints = <<>>
    /\ tables = <<EmptyTable, EmptyTable>>
    /\ walk = [left |-> 0, acc |-> Infinity]
    /\ chains = <<<<>>, <<>>>> /\ prims = <<<<>>, <<>>>>
    /\ final = [h |-> <<0, 0>>, r |-> 0, rx |-> 0, ge |-> 0, x3 |-> 0]
    /\ verdict = "none"

Refuse(err) ==
    /\ verdict' = err /\ phase' = "refused"
    /\ UNCHANGED <<input, setup, cert, lattice, hints, tables, walk, chains, prims, final>>

Nonzero(v) == 0 < v /\ v < N

-----------------------------------------------------------------------------
(* reference::ecdsa_verify, as the callers that check natively first run it. *)

(* x mod N: the difference of the words without its final borrow. *)
MatchesR(x, r) == x = r \/ (x - N) % W = r

EcdsaVerify(in) ==
    /\ Nonzero(in.r) /\ Nonzero(in.s) /\ in.d # 0
    /\ LET w == InverseOf[in.s]
           point == AddPoints((in.z * w) % N, Times((in.r * w) % N, in.d))
       IN  point # Infinity /\ MatchesR(XCoord[point], in.r)

NativeVerify ==
    /\ phase = "native"
    /\ IF EcdsaVerify(input)
       THEN /\ phase' = "setup"
            /\ UNCHANGED <<input, setup, cert, lattice, hints, tables, walk, chains,
                           prims, final, verdict>>
       ELSE Refuse("SignatureInvalid")

-----------------------------------------------------------------------------
(* The scalars.                                                            *)

SetupVerdict(in) ==
    IF in.r = 0 \/ in.s = 0 THEN "Zero"
    ELSE IF in.r >= N \/ in.s >= N THEN "NonCanonical" ELSE "ok"

(* DigestReductionTrace: one subtraction at most. *)
ReduceDigest(z) == IF z >= N THEN z - N ELSE z

(* ScalarSetupWitness and the certificate inputs taken from it; u2 is a
   product of two nonzero scalars. *)
SetupScalars ==
    /\ phase = "setup"
    /\ IF SetupVerdict(input) # "ok"
       THEN Refuse(SetupVerdict(input))
       ELSE LET w  == InverseOf[input.s]
                zr == ReduceDigest(input.z)
                u  == <<(zr * w) % N, (input.r * w) % N>>
            IN /\ setup' = [zred |-> zr, u |-> u]
               /\ lattice' = LatticeStart(u[1])
               /\ phase' = "lattice"
               /\ UNCHANGED <<input, cert, hints, tables, walk, chains, prims, final,
                              verdict>>

Active(c) == setup.u[c] # 0
BaseOf(c) == IF c = 1 THEN 1 ELSE input.d

InLatticeOneMore == setup.u[cert] # 0 /\ lattice.curr.rem > 0 /\ lattice.prev.rem >= Root

InLattice == setup.u[cert] # 0 /\ lattice.curr.rem >= Root

LatticeStep ==
    /\ phase = "lattice" /\ InLattice
    /\ lattice' = LatticeNext(lattice)
    /\ UNCHANGED <<phase, input, setup, cert, hints, tables, walk, chains, prims, final,
                   verdict>>

HintNow == IF setup.u[cert] = 0 THEN ZeroHint ELSE HintOf(setup.u[cert], lattice.curr)

FinishHint ==
    /\ phase = "lattice" /\ ~InLattice
    /\ IF HintNow = NoHint
       THEN Refuse("UnboundedHint")
       ELSE /\ hints' = Append(hints, HintNow)
            /\ IF cert = 1
               THEN /\ cert' = 2 /\ lattice' = LatticeStart(setup.u[2])
                    /\ UNCHANGED phase
               ELSE /\ cert' = 1 /\ phase' = "key" /\ UNCHANGED lattice
            /\ UNCHANGED <<input, setup, tables, walk, chains, prims, final, verdict>>

(* from_inputs_with_hints starts with the key; the hints are made by then. *)
CheckKey ==
    /\ phase = "key"
    /\ IF input.d = 0
       THEN Refuse("PointOffCurve")
       ELSE /\ phase' = "tables"
            /\ UNCHANGED <<input, setup, cert, lattice, hints, tables, walk, chains,
                           prims, final, verdict>>

-----------------------------------------------------------------------------
(* The tables and the chains.                                              *)

Selectors(c) == SelectorsOf(hints[c])

HintPoint(c) == OrientedHint(Times(setup.u[c], BaseOf(c)), hints[c].bit)

TableFor(c, r) == IF Active(c) THEN TableOf(BaseOf(c), r, Selectors(c)) ELSE EmptyTable

BuildTables ==
    /\ phase = "tables"
    /\ tables' = [c \in Certs |-> TableFor(c, HintPoint(c))]
    /\ phase' = "chain"
    /\ UNCHANGED <<input, setup, cert, lattice, hints, walk, chains, prims, final, verdict>>

Neighbours(r) == {AddPoints(r, 1), Negate(r), AddPoints(r, r), 1} \ {Infinity}

(* As the tests' from_inputs_with_wrong_r_for_cert: one certificate's table
   and chain are made from another hint point (there with the hints of small
   scalars, here with any). *)
BuildTablesFrom ==
    /\ phase = "tables" /\ input.probe
    /\ \E c \in {i \in Certs : Active(i)} : \E r \in Neighbours(HintPoint(c)) :
            tables' = [i \in Certs |-> TableFor(i, IF i = c THEN r ELSE HintPoint(i))]
    /\ phase' = "chain" /\ verdict' = "probe"
    /\ UNCHANGED <<input, setup, cert, lattice, hints, walk, chains, prims, final>>

(* step is the number of the chunk a "step" row takes, 0 in the other rows. *)
ChainRow(kind, operand, after) ==
    [kind |-> kind, step |-> IF kind = "step" THEN walk.left ELSE 0,
     before |-> walk.acc, operand |-> operand, after |-> after]

(* A row of the chain and its curve operations; the accumulator moves. *)
Push(kind, operand, rows) ==
    LET after == rows[Len(rows)].out
    IN  /\ chains' = [chains EXCEPT ![cert] = Append(@, ChainRow(kind, operand, after))]
        /\ prims' = [prims EXCEPT ![cert] = @ \o rows]
        /\ walk' = [left |-> walk.left - 1, acc |-> after]
        /\ UNCHANGED <<input, setup, cert, lattice, hints, tables, final, verdict>>

MsbInit ==
    /\ phase = "chain" /\ Active(cert)
    /\ LET first == tables[cert].base[Selectors(cert).init]
       IN /\ chains' = [chains EXCEPT ![cert] =
                <<[ChainRow("msb", first, first) EXCEPT !.before = Infinity]>>]
          /\ walk' = [left |-> C - 1, acc |-> first]
    /\ phase' = "steps"
    /\ UNCHANGED <<input, setup, cert, lattice, hints, tables, prims, final, verdict>>

ChainStepUnsigned ==
    /\ phase = "steps" /\ walk.left > 0
    /\ LET digit   == Decode(Selectors(cert).at[walk.left])
           operand == tables[cert].base[digit.index]
       IN Push("step", operand, StepRows(walk.acc, operand))
    /\ UNCHANGED phase

ChainStep ==
    /\ phase = "steps" /\ walk.left > 0
    /\ LET digit   == Decode(Selectors(cert).at[walk.left])
           operand == Signed(tables[cert].base[digit.index], digit.neg)
       IN Push("step", operand, StepRows(walk.acc, operand))
    /\ UNCHANGED phase

Table16Step ==
    /\ phase = "steps" /\ walk.left = 0
    /\ Push("table16", tables[cert].table16, StepRows(walk.acc, tables[cert].table16))
    /\ phase' = "lsb"

LsbCorrection ==
    /\ phase = "lsb"
    /\ LET operand == LsbCorrectionOf(tables[cert], Selectors(cert))
       IN Push("lsb", operand, <<AddRow("Chain", walk.acc, operand)>>)
    /\ phase' = "chained"

(* The chain of a zero scalar is empty; the next certificate's follows. *)
NextChain ==
    /\ \/ phase = "chained"
       \/ phase = "chain" /\ ~Active(cert)
    /\ cert' = 3 - cert
    /\ phase' = IF cert = 1 THEN "chain" ELSE IF verdict = "probe" THEN "probed" ELSE "rows"
    /\ UNCHANGED <<input, setup, lattice, hints, tables, walk, chains, prims, final, verdict>>

-----------------------------------------------------------------------------
(* The curve operations, the final check and the final addition.           *)

TableRowsOf(c) == IF Active(c) THEN TableRows(tables[c], c = 1) ELSE <<>>

(* The rows in the order of their source index: both tables, both chains. *)
TablePart == TableRowsOf(1) \o TableRowsOf(2)
EcRows == TablePart \o prims[1] \o prims[2]

(* ProjectiveRcbAirTraceClaim: each row is computed again from its
   multiplications and compared. *)
ProjectRows ==
    /\ phase = "rows"
    /\ IF \E i \in DOMAIN EcRows : ~RowReproduced(EcRows[i])
       THEN Refuse("ProjectiveOutputMismatch")
       ELSE /\ phase' = "final"
            /\ UNCHANGED <<input, setup, cert, lattice, hints, tables, walk, chains,
                           prims, final, verdict>>

ReduceXNot(x) == [x |-> x, ge |-> 0]

(* x_mod_order: one subtraction at most. *)
ReduceX(x) == IF x >= N THEN [x |-> x - N, ge |-> 1] ELSE [x |-> x, ge |-> 0]

(* FinalEcdsaCheckRow: the hints with their signs undone, their sum, its x.
   Before that the code compares the chain's r3 with the table's and refuses
   with ChainR3Mismatch: the chain's is a clone of the table's, or infinity
   in both of an inactive certificate, so a built claim cannot differ there
   and the model keeps the table's alone. *)
FinalCheck ==
    /\ phase = "final"
    /\ LET h == [c \in Certs |-> IF Active(c) THEN OrientedHint(tables[c].r, hints[c].bit)
                                 ELSE Infinity]
           r == AddPoints(h[1], h[2])
       IN IF r = Infinity THEN Refuse("InfinityFinalR")
          ELSE IF ReduceX(XCoord[r]).x # input.r THEN Refuse("SignatureRMismatch")
          ELSE /\ final' = [final EXCEPT !.h = h, !.r = r, !.rx = XCoord[r],
                                         !.ge = ReduceX(XCoord[r]).ge]
               /\ phase' = "add"
               /\ UNCHANGED <<input, setup, cert, lattice, hints, tables, walk, chains,
                              prims, verdict>>

SignBit(c) == IF Active(c) THEN hints[c].bit ELSE 1

AddendsUnoriented ==
    [c \in Certs |-> OrientedHint(final.h[c], SignBit(c))]

(* The oriented hints, the second turned once more when the signs differ. *)
Addends ==
    LET r == [c \in Certs |-> OrientedHint(final.h[c], SignBit(c))]
    IN  [r EXCEPT ![2] = IF SignBit(1) # SignBit(2) THEN Negate(@) ELSE @]

FinalAddBranch(a, b) ==
    IF a = Infinity /\ b = Infinity THEN "BothInfinity"
    ELSE IF a = Infinity THEN "R2Only"
    ELSE IF b = Infinity THEN "R1Only"
    ELSE IF a = b THEN "DoubleAdd"
    ELSE IF a = Negate(b) THEN "InverseAdd" ELSE "DistinctAdd"

FinalAddX(a, b) ==
    CASE FinalAddBranch(a, b) = "R2Only" -> XCoord[b]
      [] FinalAddBranch(a, b) = "R1Only" -> XCoord[a]
      [] OTHER -> XCoord[AddPoints(a, b)]

(* FinalAddClaim::from_hints. *)
FinalAdd ==
    /\ phase = "add"
    /\ IF FinalAddBranch(Addends[1], Addends[2]) \in {"BothInfinity", "InverseAdd"}
       THEN Refuse(FinalAddBranch(Addends[1], Addends[2]))
       ELSE /\ final' = [final EXCEPT !.x3 = FinalAddX(Addends[1], Addends[2])]
            /\ phase' = "count"
            /\ UNCHANGED <<input, setup, cert, lattice, hints, tables, walk, chains,
                           prims, verdict>>

(* PreparedPointUseCountClaim: no table point is drawn too often. *)
CountUses ==
    /\ phase = "count"
    /\ IF \E c \in Certs : Active(c) /\ \E i \in 0 .. 7 : UseCounts(Selectors(c))[i] > MaxUse
       THEN Refuse("UseCountOutOfRange")
       ELSE /\ phase' = "built" /\ verdict' = "ok"
            /\ UNCHANGED <<input, setup, cert, lattice, hints, tables, walk, chains,
                           prims, final>>

Done == phase \in {"built", "probed", "refused"} /\ UNCHANGED vars

Next ==
    \/ NativeVerify \/ SetupScalars \/ LatticeStep \/ FinishHint \/ CheckKey
    \/ BuildTables \/ BuildTablesFrom \/ MsbInit \/ ChainStep \/ Table16Step
    \/ LsbCorrection \/ NextChain \/ ProjectRows \/ FinalCheck \/ FinalAdd \/ CountUses
    \/ Done

Spec == Init /\ [][Next]_vars
-----------------------------------------------------------------------------
(***************************************************************************)
(* Properties.                                                             *)
(***************************************************************************)

(* ECDSA: both scalars in range, the key on the curve, and the x of
   z/s G + r/s Q congruent to r modulo N. *)
ValidSignature(in) ==
    /\ Nonzero(in.r) /\ Nonzero(in.s) /\ in.d # 0
    /\ LET w == InverseOf[in.s]
           point == (((in.z * w) % N) + ((((in.r * w) % N) * in.d) % N)) % N
       IN  point # Infinity /\ XCoord[point] % N = in.r

HasUnitScalar == \E c \in Certs : setup.u[c] \in {1, N - 1}

(* The half-GCD leaves a hint for every scalar: both halves and the quotient
   are below the bound, the halves are positive, and k s2 is q N plus s1 or
   its complement, as the scalar table demands. *)
HintProves(k, h) ==
    IF k = 0 THEN h = ZeroHint
    ELSE HintFits(h) /\ k * h.s2 = h.q * N + SelectedS1(h)

DecompositionFits ==
    /\ verdict # "UnboundedHint"
    /\ \A c \in DOMAIN hints : HintProves(setup.u[c], hints[c])

(* The last accumulator of a chain is three times the hint point exactly when
   the hint point is the scalar's multiple of the base with the hint's sign:
   the continuity table's last row accepts no other hint. *)
ChainBindsHint ==
    phase = "chained" =>
        (walk.acc = tables[cert].r3 <=> tables[cert].r = HintPoint(cert))

(* The curve operations a claim cannot reproduce - a doubling of infinity, an
   addition onto it - arise for the scalars 1 and -1 and for no other: there
   the prover answers ProjectiveOutputMismatch, elsewhere it goes on. *)
OnlyUnitScalarsRefused ==
    /\ verdict = "ProjectiveOutputMismatch" => HasUnitScalar
    /\ phase \in {"final", "add", "count", "built"} => ~HasUnitScalar

(* A claim is built for valid signatures only, and no later check turns a valid
   signature away except the comparison of its curve operations. *)
BuiltOnlyIfValid ==
    /\ phase = "built" => ValidSignature(input)
    /\ phase = "refused" /\ ValidSignature(input) => verdict = "ProjectiveOutputMismatch"

(* reference/ecdsa.rs:15 and :46: the native verification before a claim
   compares r with the x of the final point modulo the order. *)
ReferenceIsEcdsa ==
    input.path = "checked" /\ phase # "native" =>
        (verdict = "SignatureInvalid" <=> ~ValidSignature(input))
=============================================================================
