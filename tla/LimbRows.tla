------------------------------ MODULE LimbRows ------------------------------
(***************************************************************************)
(* The rows that carry a scalar through the constraints of stwo-p256: the  *)
(* canonical row of a value below the order, the digest reduction, the     *)
(* product chunks with their three digits, the reduction of one product    *)
(* digit, and the rows that cut a half scalar out of its limbs.            *)
(*                                                                         *)
(* A scalar is K limbs below B (20 limbs of 13 bits), a half scalar KS     *)
(* limbs (10).  A constraint vanishes in the field of P elements (2^31 -   *)
(* 1); a range table holds what its lookups may be.  A row's carries,      *)
(* slacks and inverses are whatever satisfies its constraints.             *)
(***************************************************************************)
EXTENDS FakeGlv

CONSTANTS B,     \* the base of a limb
          K,     \* limbs of a scalar
          KS,    \* limbs of a half scalar
          TopB,  \* bound of a digest's top limb
          P      \* elements of the field

CONSTANTS LimbBits  \* B is 2^LimbBits

(* The place values of the limbs of a product. *)
Place[i \in 0 .. 2 * K] == IF i = 0 THEN 1 ELSE B * Place[i - 1]

ASSUME LimbAssumption ==
    /\ LimbBits \in 1 .. 2 * C + 2 /\ B = TwoTo[LimbBits]
    /\ K \in Nat /\ KS \in 1 .. K - 1 /\ TopB \in 1 .. B
    /\ N < TopB * Place[K - 1] /\ TopB * Place[K - 1] < 2 * N
    /\ HalfBound <= Place[KS]
    /\ P \in Nat /\ \A a \in 2 .. P - 1 : P % a # 0

Field == 0 .. P - 1
Limb == 0 .. B - 1
At == 0 .. K - 1
SmallAt == 0 .. KS - 1

Vanishes(e) == e % P = 0
Bits == {x \in Field : Vanishes(x * (x - 1))}

LimbsOf(x) == [i \in At |-> (x \div Place[i]) % B]
Order == LimbsOf(N)
ZeroLimbs == [i \in At |-> 0]

(* The sum of the first n entries of t. *)
Total(n, t) ==
    LET upTo[i \in 0 .. n] == IF i = 0 THEN 0 ELSE upTo[i - 1] + t[i - 1]
    IN  upTo[n]

LimbSum(x) == Total(K, x)

Weighted(x) == [i \in At |-> x[i] * Place[i]]
ValueOf(x) == Total(K, Weighted(x))

Into(carry, i) == IF i = 0 THEN 0 ELSE carry[i - 1]

(* add_canonical_lt_fixed_bound: value + slack + 1 is the order. *)
Canonical ==
    {x \in [At -> Limb] :
        \E carry \in [At -> Bits] :
            /\ carry[K - 1] = 0
            /\ \A i \in At : \E slack \in Limb :
                   Vanishes(x[i] + slack + (IF i = 0 THEN 1 ELSE carry[i - 1])
                            - Order[i] - B * carry[i])}

(* enforce_nonzero, on limbs that a range table bounds. *)
Invertible == {t \in 0 .. K * (B - 1) : \E inv \in Field : Vanishes(t * inv - 1)}

(* A bug: the inverse row left out. *)
NonzeroUnchecked(x) == TRUE

NonzeroRow(x) == LimbSum(x) \in Invertible

(* A bug: the carries of the digest reduction checked as bits. *)
DigestCarriesUnsigned == 0 .. 1

DigestCarries == -1 .. 1

DigestRow(z, red) ==
    /\ \A i \in At : z[i] < IF i = K - 1 THEN TopB ELSE B
    /\ red \in Canonical
    /\ \E ge \in Bits, carry \in [At -> DigestCarries] :
          /\ carry[K - 1] = 0
          /\ \A i \in At : Vanishes(z[i] - red[i] - ge * Order[i] + Into(carry, i) - B * carry[i])

-----------------------------------------------------------------------------
(* Products.  The coefficient c of a product is summed two pairs of limbs  *)
(* at a time; each chunk is committed as three digits.                     *)

FirstOf(c) == IF c < K THEN 0 ELSE c - K + 1
LastOf(c) == IF c < K THEN c ELSE K - 1
ChunkCount(c) == (LastOf(c) - FirstOf(c)) \div 2 + 1

ChunkSum(a, b, c, j) ==
    LET i == FirstOf(c) + 2 * j
    IN  a[i] * b[c - i] + (IF i < LastOf(c) THEN a[i + 1] * b[c - i - 1] ELSE 0)

TopDigits == Bits

(* finish_product_chunk_dynamic: two digits have a range table, the lowest is
   what makes the row's equation vanish. *)
ChunkDigits(v) ==
    {d \in {<<(v - B * x - B * B * t) % P, x, t>> : x \in Limb, t \in TopDigits} :
        d[1] \in Limb}

(* What ProductChunk::new writes. *)
SplitChunk(v) == <<v % B, (v \div B) % B, v \div (B * B)>>

(* The sums, over the chunks of coefficient c, of their digits: every
   choice the rows admit, and the one that is written. *)
AddDigits(s, d) == <<s[1] + d[1], s[2] + d[2], s[3] + d[3]>>

CoefficientDigits(a, b, c, exact) ==
    LET upTo[j \in 0 .. ChunkCount(c)] ==
            IF j = 0 THEN {<<0, 0, 0>>}
            ELSE LET v == ChunkSum(a, b, c, j - 1)
                 IN  {AddDigits(s, d) : s \in upTo[j - 1],
                        d \in {e \in ChunkDigits(v) : exact => e = SplitChunk(v)}}
    IN  IF c = 2 * K - 1 THEN {<<0, 0, 0>>} ELSE upTo[ChunkCount(c)]

(* split_digit_carry_bound. *)
CarryBound ==
    LET chunks == (K + 1) \div 2
        digit  == 3 * chunks * (B - 1) + chunks
        diff   == 2 * digit + (B - 1)
    IN  (diff + B - 1) \div B

(* No equation of a row is large enough to wrap around the field: chunks,
   reduction digits and the limbs of half scalars. *)
ASSUME FieldAssumption ==
    B * (2 * B + 1) < P /\ (2 * B + 1) * CarryBound < P /\ 3 * B * (C + 3) < P

(* ScalarReductionDigitEval, for one product digit: what its carry may be when
   the two digits, the result limb and the carry before leave e. *)
CarriesOut(e) == {c \in -CarryBound .. CarryBound : Vanishes(e - B * c)}

-----------------------------------------------------------------------------
(* Half scalars.                                                           *)

(* chunk_limb_contribution: a chunk counts in the limb of its first bit. *)
Contribution(h, i) ==
    LET InLimb(value, bit) ==
            IF bit \div LimbBits = i THEN value * TwoTo[bit % LimbBits] ELSE 0
    IN  InLimb(Lsb(h), 0) + InLimb(Msb(h), 2 * C + 1)
        + Total(C, [j \in 0 .. C - 1 |-> InLimb(Chunk(h, j), 2 * j + 1)])

(* The selector row binds the bits of h to small limbs; no table bounds them. *)
SelectorRows ==
    {[h |-> h, limbs |-> [i \in At |->
                IF i < KS THEN (Into(carry, i) + Contribution(h, i) - B * carry[i]) % P ELSE 0]] :
        h \in 0 .. HalfBound - 1,
        carry \in {c \in [SmallAt -> Bits] : c[KS - 1] = 0}}

(* constrain_fake_glv_scalar_general: what selected_s1 may be for s1 and the sign bit. *)
SelectedRows(s1, bit) ==
    IF bit = 1 THEN {s1}
    ELSE {[i \in At |-> (Order[i] - s1[i] - Into(borrow, i) + B * borrow[i]) % P] :
             borrow \in {c \in [At -> Bits] : c[K - 1] = 0}}

(* FakeGlvScalarHintRow::verify on an active row. *)
VerifiedHint(k, h) ==
    /\ h.s1 \in 1 .. HalfBound - 1 /\ h.s2 \in 1 .. HalfBound - 1
    /\ h.q \in 0 .. HalfBound - 1
    /\ k * h.s2 - N * h.q = SelectedS1(h)
=============================================================================
