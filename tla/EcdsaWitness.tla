---------------------------- MODULE EcdsaWitness ----------------------------
(***************************************************************************)
(* The witness of the coprocessor's ECDSA circuits: how it is generated    *)
(* from a signature, how it is checked natively, and what the six circuit  *)
(* families require of it (eu-id-ec-coprocessor/src/ecdsa.rs).             *)
(*                                                                         *)
(* The curve y^2 = x^3 - 3x + B over the field of P elements, of prime     *)
(* order N < P, stands for P-256; Bits is the length of a ladder (256 in   *)
(* the code) and Limb, Limbs the limb width and count (13 and 20).         *)
(***************************************************************************)
EXTENDS Integers, Sequences

CONSTANTS P, B, N, Bits, Limb, Limbs,
          Gen,      \* the generator, an affine point
          Inputs    \* the records [z, r, s, q] the prover may be called with

TwoTo[i \in 0 .. Bits + Limb * Limbs] == IF i = 0 THEN 1 ELSE 2 * TwoTo[i - 1]

(* Hasse: a field has fewer than twice as many elements as its curve. *)
ASSUME CurveAssumption ==
    /\ {P, B, N, Bits, Limb, Limbs} \subseteq Nat
    /\ 1 < N /\ N < P /\ P < 2 * N
    /\ N <= TwoTo[Bits] /\ P <= TwoTo[Limb * Limbs]

ASSUME PrimeAssumption ==
    (\A d \in 2 .. N - 1 : N % d # 0) /\ (\A d \in 2 .. P - 1 : P % d # 0)

ASSUME InputsAssumption == Inputs \subseteq [z : Nat, r : Nat, s : Nat, q : Nat \X Nat]

VARIABLES
    phase,    \* the next step of generate_witness, then "made" and "checked"
    input,    \* the signature, message hash and key
    wit,      \* the witness as far as it is written
    ladder,   \* the walk in progress: whose, the bits left, the accumulator
    altered,  \* a slot of the witness was replaced after generation
    verdict,  \* what generate_witness answers
    native,   \* what verify_witness answers
    circuits  \* what verify_implemented_circuits answers

witnessVars == <<phase, input, wit, ladder, altered, verdict, native, circuits>>

(***************************************************************************)
(* The field and the curve group; the point at infinity is <<>>.           *)
(***************************************************************************)
Infinity == <<>>

Field == 0 .. P - 1

OnCurve(pt) == (pt[2] * pt[2]) % P = (pt[1] * pt[1] * pt[1] - 3 * pt[1] + B) % P

FieldInverse(a) == CHOOSE i \in 1 .. P - 1 : (a * i) % P = 1

Chord(slope, a, b) ==
    LET x == (slope * slope - a[1] - b[1]) % P
    IN  <<x, (slope * (a[1] - x) - a[2]) % P>>

AddPoints(a, b) ==
    IF a = Infinity THEN b
    ELSE IF b = Infinity THEN a
    ELSE IF a[1] # b[1] THEN Chord((b[2] - a[2]) * FieldInverse((b[1] - a[1]) % P), a, b)
    ELSE IF (a[2] + b[2]) % P = 0 THEN Infinity
    ELSE Chord((3 * a[1] * a[1] - 3) * FieldInverse((2 * a[2]) % P), a, b)

Negate(a) == IF a = Infinity THEN a ELSE <<a[1], (-a[2]) % P>>

Multiple(k, pt) ==
    LET times[i \in 0 .. k] == IF i = 0 THEN Infinity ELSE AddPoints(times[i - 1], pt)
    IN  times[k]

(* The points of the curve form a group of order N. *)
Affine == {pt \in Field \X Field : OnCurve(pt)}
Points == Affine \cup {Infinity}

ASSUME GroupAssumption ==
    /\ \A a, b \in Points : AddPoints(a, b) \in Points
    /\ \A a, b, c \in Points : AddPoints(AddPoints(a, b), c) = AddPoints(a, AddPoints(b, c))
    /\ \A a \in Points : Multiple(N, a) = Infinity
    /\ Gen \in Affine

ScalarInverse(s) == CHOOSE i \in 1 .. N - 1 : (s * i) % N = 1

(* double_256: Bits doublings. *)
Double256(pt) ==
    LET doubled[i \in 0 .. Bits] ==
            IF i = 0 THEN pt ELSE AddPoints(doubled[i - 1], doubled[i - 1])
    IN  doubled[Bits]

ScalarBit(u, bit) == (u \div TwoTo[bit]) % 2

(* limbs_13: little-endian limbs of Limb bits. *)
Limbs13(v) == [i \in 1 .. Limbs |-> (v \div TwoTo[Limb * (i - 1)]) % TwoTo[Limb]]

InputValues(in) == <<in.z, in.r, in.s, in.q[1], in.q[2]>>

-----------------------------------------------------------------------------
(* generate_witness, step by step.                                         *)

NoWitness ==
    [limbs |-> <<>>, sinv |-> 0, u |-> <<0, 0>>, quotients |-> <<0, 0, 0>>, flags |-> <<0, 0, 0>>,
     final |-> Infinity, reduction |-> <<0, 0>>, g |-> <<>>, q |-> <<>>,
     corrected |-> <<Infinity, Infinity>>, denominv |-> 0]

WitnessInit ==
    /\ phase = "parse" /\ input \in Inputs /\ wit = NoWitness
    /\ ladder = <<>> /\ altered = FALSE
    /\ verdict = "none" /\ native = "none" /\ circuits = "none"

Refuse(err) ==
    /\ verdict' = err /\ phase' = "refused"
    /\ UNCHANGED <<input, wit, ladder, altered, native, circuits>>

(* parse_scalar, parse_nonzero_scalar and parse_public_key, in their order:
   the first refusal, or "ok". *)
ParseVerdict(in) ==
    IF in.z >= N \/ in.r >= N THEN "NonCanonicalScalar"
    ELSE IF in.r = 0 THEN "ZeroScalar"
    ELSE IF in.s >= N THEN "NonCanonicalScalar"
    ELSE IF in.s = 0 THEN "ZeroScalar"
    ELSE IF in.q[1] >= P \/ in.q[2] >= P THEN "NonCanonicalCoordinate"
    ELSE IF ~OnCurve(in.q) THEN "InvalidPublicKey" ELSE "ok"

Parse ==
    /\ phase = "parse"
    /\ IF ParseVerdict(input) # "ok"
       THEN Refuse(ParseVerdict(input))
       ELSE /\ phase' = "scalars"
            /\ UNCHANGED <<input, wit, ladder, altered, verdict, native, circuits>>

(* The inverse of s, u1 = z/s and u2 = r/s with the quotients of the three
   products by N; the limbs of the five inputs. *)
Scalars ==
    /\ phase = "scalars"
    /\ LET sinv == ScalarInverse(input.s)
       IN wit' = [wit EXCEPT !.limbs = [i \in 1 .. 5 |-> Limbs13(InputValues(input)[i])],
                             !.sinv = sinv,
                             !.u = <<(input.z * sinv) % N, (input.r * sinv) % N>>,
                             !.quotients = <<(input.s * sinv) \div N, (input.z * sinv) \div N,
                                             (input.r * sinv) \div N>>]
    /\ phase' = "final"
    /\ UNCHANGED <<input, ladder, altered, verdict, native, circuits>>

ReduceNothing(x) == <<0, x>>

(* reduce_field_x_to_scalar: one subtraction of N at most. *)
ReduceX(x) == IF x >= N THEN <<1, x - N>> ELSE <<0, x>>

(* final_point and reduce_field_x_to_scalar: R = u1 G + u2 Q; none of the
   three may be the point at infinity. *)
FinalPoint ==
    /\ phase = "final"
    /\ LET u1g == Multiple(wit.u[1], Gen)
           u2q == Multiple(wit.u[2], input.q)
           r   == AddPoints(u1g, u2q)
       IN IF Infinity \in {u1g, u2q, r}
          THEN Refuse("ExceptionalTrace")
          ELSE /\ wit' = [wit EXCEPT !.reduction = ReduceX(r[1]), !.final = r]
               /\ ladder' = [of |-> "g", left |-> Bits, acc |-> Gen]
               /\ phase' = "ladder"
               /\ UNCHANGED <<input, altered, verdict, native, circuits>>

Base(owner) == IF owner = "g" THEN Gen ELSE input.q
ScalarOf(owner) == IF owner = "g" THEN wit.u[1] ELSE wit.u[2]

LadderStepUnchecked ==
    /\ phase = "ladder" /\ ladder.left > 0
    /\ LET who     == ladder.of
           doubled == AddPoints(ladder.acc, ladder.acc)
           acc     == IF ScalarBit(ScalarOf(who), ladder.left - 1) = 1
                      THEN AddPoints(doubled, Base(who)) ELSE doubled
       IN /\ ladder' = [ladder EXCEPT !.left = @ - 1, !.acc = acc]
          /\ wit' = [wit EXCEPT ![who] = Append(@, acc)]
          /\ UNCHANGED <<phase, input, altered, verdict, native, circuits>>

(* One round of write_ladder_accumulators: double, add the base when the bit
   is set, record the accumulator; it may not be the point at infinity. *)
LadderStep ==
    /\ phase = "ladder" /\ ladder.left > 0
    /\ LET who     == ladder.of
           doubled == AddPoints(ladder.acc, ladder.acc)
           acc     == IF ScalarBit(ScalarOf(who), ladder.left - 1) = 1
                      THEN AddPoints(doubled, Base(who)) ELSE doubled
       IN IF acc = Infinity
          THEN Refuse("ExceptionalTrace")
          ELSE /\ ladder' = [ladder EXCEPT !.left = @ - 1, !.acc = acc]
               /\ wit' = [wit EXCEPT ![who] = Append(@, acc)]
               /\ UNCHANGED <<phase, input, altered, verdict, native, circuits>>

(* The first walk is over: the second starts from the key. *)
NextLadder ==
    /\ phase = "ladder" /\ ladder.left = 0 /\ ladder.of = "g"
    /\ ladder' = [of |-> "q", left |-> Bits, acc |-> input.q]
    /\ UNCHANGED <<phase, input, wit, altered, verdict, native, circuits>>

(* The walks started from the base and not from infinity: 2^Bits bases are
   taken off each endpoint. *)
Corrected(owner) == AddPoints(wit[owner][Bits], Negate(Double256(Base(owner))))

(* The corrected endpoints and the inverse of the final addition's
   denominator, which an addition of equal or opposite points has not. *)
Endpoints ==
    /\ phase = "ladder" /\ ladder.left = 0 /\ ladder.of = "q"
    /\ LET a == Corrected("g")
           b == Corrected("q")
       IN IF Infinity \in {a, b} \/ a[1] = b[1]
          THEN Refuse("ExceptionalTrace")
          ELSE /\ wit' = [wit EXCEPT !.corrected = <<a, b>>,
                                    !.denominv = FieldInverse((b[1] - a[1]) % P)]
               /\ phase' = "made" /\ verdict' = "ok"
               /\ UNCHANGED <<input, ladder, altered, native, circuits>>

-----------------------------------------------------------------------------
(* A witness that is not the generated one: verify_witness and             *)
(* verify_implemented_circuits take any.                                   *)

OtherPoints(pt) == {<<pt[1], (pt[2] + 1) % P>>, Negate(pt), AddPoints(pt, pt)} \ {pt, Infinity}

(* The values a slot may hold instead: a neighbouring field element, another
   point of the curve or none of it, the other reduction of R.x. *)
Variants ==
    {[wit EXCEPT !.sinv = (@ + 1) % P], [wit EXCEPT !.denominv = (@ + 1) % P],
     [wit EXCEPT !.flags[1] = 1], [wit EXCEPT !.limbs[1][1] = @ + 1],
     [wit EXCEPT !.reduction = <<1 - @[1], @[2]>>],
     [wit EXCEPT !.reduction = <<0, wit.final[1]>>],
     [wit EXCEPT !.reduction = <<0, input.r>>]}
    \cup {[wit EXCEPT !.u[i] = (@ + 1) % P] : i \in 1 .. 2}
    \cup {[wit EXCEPT !.quotients[i] = (@ + 1) % P] : i \in 1 .. 3}
    \cup {[wit EXCEPT !.final = pt] : pt \in OtherPoints(wit.final)}
    \cup {[wit EXCEPT !.corrected[1] = pt] : pt \in OtherPoints(wit.corrected[1])}
    \cup {[wit EXCEPT !.corrected[2] = pt] : pt \in OtherPoints(wit.corrected[2])}
    \cup {[wit EXCEPT !.g[1] = pt] : pt \in OtherPoints(wit.g[1])}

Alter ==
    /\ phase = "made" /\ ~altered /\ native = "none" /\ circuits = "none"
    /\ wit' \in Variants /\ altered' = (wit' # wit)
    /\ UNCHANGED <<phase, input, ladder, verdict, native, circuits>>

(* verify_witness: the same slots as a witness generated anew, then r. *)
CheckNative ==
    /\ phase = "made" /\ native = "none"
    /\ native' = IF altered THEN "ConstraintViolation"
                 ELSE IF wit.reduction[2] # input.r THEN "FinalReduction" ELSE "ok"
    /\ UNCHANGED <<phase, input, wit, ladder, altered, verdict, circuits>>

-----------------------------------------------------------------------------
(* The six circuit families over their inputs: every output is zero.       *)

LimbValue(limbs) ==
    LET value[k \in 0 .. Limbs] ==
            IF k = 0 THEN 0 ELSE value[k - 1] + limbs[k] * TwoTo[Limb * (k - 1)]
    IN  value[Limbs]

C1InputLimbs == \A i \in 1 .. 5 : LimbValue(wit.limbs[i]) % P = InputValues(input)[i]

(* r and s as field elements have inverses; the builder refuses others. *)
C2Input == [rinv |-> FieldInverse(input.r), sinv |-> FieldInverse(input.s),
            qx2 |-> (input.q[1] * input.q[1]) % P]

C2Canonicality ==
    /\ (input.r * C2Input.rinv - 1) % P = 0
    /\ (input.s * C2Input.sinv - 1) % P = 0
    /\ (input.q[2] * input.q[2] - input.q[1] * C2Input.qx2 + 3 * input.q[1] - B) % P = 0

C3ScalarSetup ==
    /\ (input.s * wit.sinv - N * wit.quotients[1] - 1) % P = 0
    /\ (input.z * wit.sinv - N * wit.quotients[2] - wit.u[1]) % P = 0
    /\ (input.r * wit.sinv - N * wit.quotients[3] - wit.u[2]) % P = 0

(* The slope is computed by the input's builder, from the witness. *)
C11Input ==
    LET a == wit.corrected[1]
        b == wit.corrected[2]
    IN  [a |-> a, b |-> b, r |-> wit.final, denominv |-> wit.denominv,
         lambda |-> ((b[2] - a[2]) * wit.denominv) % P]

C11FinalAddNoY ==
    LET in == C11Input
    IN  /\ ((in.b[1] - in.a[1]) * in.denominv - 1) % P = 0
        /\ (in.lambda * in.lambda - in.a[1] - in.b[1] - in.r[1]) % P = 0

C11FinalAdd ==
    LET in == C11Input
    IN  /\ ((in.b[1] - in.a[1]) * in.denominv - 1) % P = 0
        /\ (in.lambda * (in.b[1] - in.a[1]) - in.b[2] + in.a[2]) % P = 0
        /\ (in.lambda * in.lambda - in.a[1] - in.b[1] - in.r[1]) % P = 0
        /\ (in.r[2] + in.a[2] - in.lambda * (in.a[1] - in.r[1])) % P = 0

(* The points of C12: both walks, both corrected endpoints, the final point. *)
C12Points == [i \in 1 .. 2 * Bits + 3 |->
                IF i <= Bits THEN wit.g[i]
                ELSE IF i <= 2 * Bits THEN wit.q[i - Bits]
                ELSE IF i <= 2 * Bits + 2 THEN wit.corrected[i - 2 * Bits]
                ELSE wit.final]

C12OnCurve == \A i \in DOMAIN C12Points : OnCurve(C12Points[i])

C14UnreducedCheck ==
    /\ wit.final[1] = wit.reduction[2]
    /\ wit.reduction[2] = input.r
    /\ wit.flags = <<0, 0, 0>>

C14FinalCheck ==
    /\ (wit.reduction[1] * wit.reduction[1] - wit.reduction[1]) % P = 0
    /\ (wit.final[1] - N * wit.reduction[1] - wit.reduction[2]) % P = 0
    /\ wit.reduction[2] = input.r
    /\ wit.flags = <<0, 0, 0>>

(* verify_implemented_circuits: the slot of the first family that fails. *)
CircuitVerdict ==
    IF ~C1InputLimbs \/ ~C2Canonicality THEN "InputLimbs"
    ELSE IF ~C3ScalarSetup THEN "ScalarInverses"
    ELSE IF ~C11FinalAdd \/ ~C12OnCurve THEN "FinalPoint"
    ELSE IF ~C14FinalCheck THEN "FinalReduction" ELSE "ok"

CheckCircuits ==
    /\ phase = "made" /\ circuits = "none"
    /\ circuits' = CircuitVerdict
    /\ UNCHANGED <<phase, input, wit, ladder, altered, verdict, native>>

(* The calls have returned; the next signature may come. *)
Finish ==
    /\ \/ phase = "refused"
       \/ phase = "made" /\ native # "none" /\ circuits # "none"
    /\ phase' = "done"
    /\ UNCHANGED <<input, wit, ladder, altered, verdict, native, circuits>>

Done == phase = "done" /\ UNCHANGED witnessVars

WitnessNext ==
        \/ Parse \/ Scalars \/ FinalPoint \/ LadderStep \/ NextLadder \/ Endpoints
        \/ Alter \/ CheckNative \/ CheckCircuits \/ Finish \/ Done

WitnessSpec == WitnessInit /\ [][WitnessNext]_witnessVars
-----------------------------------------------------------------------------
(***************************************************************************)
(* Properties.                                                             *)
(***************************************************************************)

(* The reference: ECDSA verification by repeated addition. *)
ScalarU(in) == LET w == ScalarInverse(in.s) IN <<(in.z * w) % N, (in.r * w) % N>>

ValidSignature(in) ==
    LET u == ScalarU(in)
        r == AddPoints(Multiple(u[1], Gen), Multiple(u[2], in.q))
    IN  r # Infinity /\ r[1] % N = in.r

(* The accumulator of a walk over u is a multiple of the group's order. *)
WalkMeetsInfinity(u) ==
    \E left \in 0 .. Bits - 1 : (TwoTo[Bits - left] + u \div TwoTo[left]) % N = 0

(* The inputs whose points the incomplete addition formulas cannot add. *)
Exceptional(in) ==
    LET u   == ScalarU(in)
        u1g == Multiple(u[1], Gen)
        u2q == Multiple(u[2], in.q)
    IN  \/ u[1] = 0
        \/ u1g \in {u2q, Negate(u2q)}
        \/ \E i \in 1 .. 2 : WalkMeetsInfinity(u[i])

(* A well-formed input gets no witness exactly when one of its walks or its
   final addition meets a case the formulas do not cover: a valid signature
   with such scalars is refused, and no other is. *)
OnlyExceptionalRefused ==
    /\ verdict = "ExceptionalTrace" => Exceptional(input)
    /\ verdict = "ok" => ~Exceptional(input)

(* verify_witness accepts a witness exactly when it is the generated one and
   the signature is valid: a final x above the order counts reduced. *)
NativeIsEcdsa == native # "none" => (native = "ok" <=> ~altered /\ ValidSignature(input))

(* On a generated witness the six families and verify_witness agree. *)
CircuitsAgreeWithNative ==
    ~altered /\ native # "none" /\ circuits # "none" => (circuits = "ok" <=> native = "ok")

(* Whatever witness the six families accept, its final point lies on the
   curve, is the sum of its corrected endpoints, and its x reduces to r. *)
CircuitsBindFinal ==
    circuits = "ok" =>
        /\ wit.final = AddPoints(wit.corrected[1], wit.corrected[2])
        /\ \A pt \in {wit.final, wit.corrected[1], wit.corrected[2], input.q} : OnCurve(pt)
        /\ wit.final[1] % N = input.r
=============================================================================
