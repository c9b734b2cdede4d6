-------------------------- MODULE P256ClaimProofs ---------------------------
(***************************************************************************)
(* The builder of a P-256 claim, for every group order N, every bound and  *)
(* every input.                                                            *)
(*                                                                         *)
(* The half-GCD of the fake-GLV hint ends with a hint that fits its        *)
(* columns and satisfies the scalar equation.  The rows of the Euclidean   *)
(* algorithm keep each remainder a combination of N and the scalar, the    *)
(* two coefficients of the scalar on different sides of zero, and their    *)
(* cross product with the remainders equal to N; the last bounds the short *)
(* vector, and with N prime it keeps the remainder from reaching zero.     *)
(*                                                                         *)
(* A claim is built for valid signatures only (ClaimInv), and the chain of *)
(* a certificate ends at three times its hint point exactly when that is   *)
(* the scalar's multiple of the base (ChainInv): the accumulator is the    *)
(* combination of base and hint by the selector digits walked so far.      *)
(*                                                                         *)
(* The curve operations a claim cannot compute again are the ones of the   *)
(* scalars 1 and -1 (RowInv): an accumulator is infinity only when its     *)
(* combination of base and hint is a multiple of the hint's own, and       *)
(* those are too long for every hint but theirs.                           *)
(*                                                                         *)
(* The relations between the tables of a built claim balance: every row of *)
(* a chain is at its place with its operand and its curve operations       *)
(* (ChainsMade), the final check and addition are made of the hints        *)
(* (FinalMade), and each tuple of a relation has one provider, as often as *)
(* the tables use it.                                                      *)
(***************************************************************************)
EXTENDS P256Air, SequenceTheorems, FiniteSetTheorems, WellFoundedInduction, TLAPS

(* The quotient and the remainder of a division. *)
LEMMA Division ==
    ASSUME NEW a \in Int, NEW b \in Nat \ {0}
    PROVE  /\ a \div b \in Int /\ a % b \in Int
           /\ a = b * (a \div b) + (a % b)
           /\ 0 <= a % b /\ a % b < b
  BY Z3

(* A product is at least each factor when the other is positive. *)
LEMMA ProductAtLeast ==
    ASSUME NEW a \in Nat, NEW b \in Nat, 1 <= a
    PROVE  a * b >= b
  BY Z3

LEMMA ProductMonotone ==
    ASSUME NEW a \in Nat, NEW b \in Nat, NEW c \in Nat, a <= b
    PROVE  a * c <= b * c
  BY Z3

LEMMA ProductStrict ==
    ASSUME NEW a \in Int, NEW b \in Int, NEW c \in Nat \ {0}, a * c < b * c
    PROVE  a < b
  BY Z3

LEMMA Distribute ==
    ASSUME NEW a \in Int, NEW b \in Int, NEW c \in Int
    PROVE  (a - b) * c = a * c - b * c
  BY Z3

LEMMA ExactDivision ==
    ASSUME NEW m \in Int, NEW b \in Nat \ {0}
    PROVE  (m * b) \div b = m /\ (m * b) % b = 0
<1> DEFINE d == (m * b) \div b
<1> DEFINE e == (m * b) % b
<1>1. m * b \in Int
  OBVIOUS
<1>2. /\ d \in Int /\ e \in Int
      /\ m * b = b * d + e /\ 0 <= e /\ e < b
  BY <1>1, Division
<1>3. (m - d) * b = e
  BY <1>2, Z3
<1> HIDE DEF d, e
<1>4. m - d < 1
  BY <1>2, <1>3, ProductStrict
<1>5. -1 < m - d
  <2>1. (-1) * b < (m - d) * b
    BY <1>2, <1>3
  <2> QED
    BY <2>1, <1>2, ProductStrict
<1>6. m = d
  BY <1>2, <1>4, <1>5
<1> QED
  BY <1>2, <1>6, <1>3 DEF d, e

-----------------------------------------------------------------------------
LEMMA OrderFacts ==
    /\ N \in Nat /\ 3 < N
    /\ Root \in Nat /\ 2 <= Root /\ Root <= N /\ Root * Root <= N
    /\ HalfBound \in Nat /\ N \div Root < HalfBound
    /\ \A a \in 2 .. N - 1 : N % a # 0
<1> HIDE DEF Root, HalfBound
<1> QED
  BY OrderAssumption

LEMMA RootBelowHalf == Root < HalfBound
<1> HIDE DEF Root, HalfBound
<1> DEFINE q == N \div Root
<1>1. /\ q \in Int /\ N % Root \in Int
      /\ N = Root * q + (N % Root) /\ N % Root < Root /\ q < HalfBound
  BY OrderFacts, Division
<1> HIDE DEF q
<1>2. Root * Root < (q + 1) * Root
  BY OrderFacts, <1>1
<1>3. Root < q + 1
  BY OrderFacts, <1>1, <1>2, ProductStrict
<1> QED
  BY OrderFacts, <1>1, <1>3

(* What N and one factor bound. *)
LEMMA FactorBound ==
    ASSUME NEW t \in Nat, NEW r \in Nat, Root <= r, t * r <= N
    PROVE  t < HalfBound
<1> HIDE DEF Root, HalfBound
<1> DEFINE q == N \div Root
<1>1. /\ q \in Int /\ N % Root \in Int
      /\ N = Root * q + (N % Root) /\ N % Root < Root /\ q < HalfBound
  BY OrderFacts, Division
<1> HIDE DEF q
<1>2. Root * t <= r * t
  BY OrderFacts, ProductMonotone
<1>3. t * Root < (q + 1) * Root
  BY OrderFacts, <1>1, <1>2
<1>4. t < q + 1
  BY OrderFacts, <1>1, <1>3, ProductStrict
<1> QED
  BY OrderFacts, <1>1, <1>4

(* N is prime: a factor of at least 2 is N itself. *)
LEMMA OnlyFactor ==
    ASSUME NEW t \in Nat, NEW r \in Nat, 2 <= r, r <= N, t * r = N
    PROVE  r = N
<1>1. N % r = 0
  <2>0. r \in Nat \ {0}
    OBVIOUS
  <2>1. (t * r) % r = 0
    BY <2>0, ExactDivision
  <2> QED
    BY <2>1
<1>2. r \notin 2 .. N - 1
  BY OrderFacts, <1>1
<1> QED
  BY OrderFacts, <1>2
-----------------------------------------------------------------------------
(* The rows of the half-GCD.                                               *)

IsRow(k, row) ==
    /\ row.rem \in Int /\ row.s \in Int /\ row.t \in Int
    /\ row.rem = row.s * N + row.t * k

(* The coefficients lie on different sides of zero, and the cross product of
   the rows is N. *)
Crossed(rp, rc, tp, tc) ==
    \/ 1 <= tc /\ tp <= 0 /\ tc * rp - tp * rc = N
    \/ tc <= -1 /\ 0 <= tp /\ tp * rc - tc * rp = N

LatticeInv(k, l) ==
    /\ IsRow(k, l.prev) /\ IsRow(k, l.curr)
    /\ 0 <= l.curr.rem /\ l.curr.rem <= k /\ l.curr.rem < l.prev.rem
    /\ Root <= l.prev.rem /\ l.prev.rem <= N
    /\ l.prev.rem = N => l.curr.rem = k
    /\ Crossed(l.prev.rem, l.curr.rem, l.prev.t, l.curr.t)

LEMMA LatticeStarts ==
    ASSUME NEW k \in 1 .. N - 1
    PROVE  LatticeInv(k, LatticeStart(k))
<1> HIDE DEF Root
<1> DEFINE l == LatticeStart(k)
<1>1. /\ l.prev.rem = N /\ l.prev.s = 1 /\ l.prev.t = 0
      /\ l.curr.rem = k /\ l.curr.s = 0 /\ l.curr.t = 1
  BY DEF LatticeStart
<1> HIDE DEF l
<1>2. IsRow(k, l.prev) /\ IsRow(k, l.curr)
  BY <1>1, OrderFacts DEF IsRow
<1>3. Crossed(l.prev.rem, l.curr.rem, l.prev.t, l.curr.t)
  BY <1>1, OrderFacts DEF Crossed
<1>4. LatticeInv(k, l)
  BY <1>1, <1>2, <1>3, OrderFacts DEF LatticeInv
<1> QED
  BY <1>4 DEF l

(* The cross product survives a reduction by any quotient of at least one. *)
LEMMA CrossedStep ==
    ASSUME NEW rp \in Int, NEW rc \in Int, NEW tp \in Int, NEW tc \in Int,
           NEW q \in Int, 1 <= q, Crossed(rp, rc, tp, tc)
    PROVE  Crossed(rc, rp - q * rc, tc, tp - q * tc)
<1>0. N \in Nat
  BY OrderFacts
<1>1. CASE 1 <= tc /\ tp <= 0 /\ tc * rp - tp * rc = N
  <2>1. q * tc >= tc
    BY <1>1, Z3
  <2>2. tp - q * tc <= -1
    BY <1>1, <2>1, Z3
  <2>3. tc * (rp - q * rc) - (tp - q * tc) * rc = N
    BY <1>1, Z3
  <2> QED
    BY <1>1, <2>2, <2>3 DEF Crossed
<1>2. CASE tc <= -1 /\ 0 <= tp /\ tp * rc - tc * rp = N
  <2>1. q * (-tc) >= -tc
    BY <1>2, Z3
  <2>2. 1 <= tp - q * tc
    BY <1>2, <2>1, Z3
  <2>3. (tp - q * tc) * rc - tc * (rp - q * rc) = N
    BY <1>2, Z3
  <2> QED
    BY <1>2, <2>2, <2>3 DEF Crossed
<1> QED
  BY <1>1, <1>2 DEF Crossed

LEMMA RowStep ==
    ASSUME NEW k \in Int, NEW a, NEW b, IsRow(k, a), IsRow(k, b), NEW q \in Int
    PROVE  IsRow(k, Reduced(a, b, q))
<1> DEFINE ra == a.rem
<1> DEFINE sa == a.s
<1> DEFINE ta == a.t
<1> DEFINE rb == b.rem
<1> DEFINE sb == b.s
<1> DEFINE tb == b.t
<1>1. /\ ra \in Int /\ sa \in Int /\ ta \in Int /\ rb \in Int /\ sb \in Int /\ tb \in Int
      /\ ra = sa * N + ta * k /\ rb = sb * N + tb * k /\ N \in Int
  BY OrderFacts DEF IsRow
<1> HIDE DEF ra, sa, ta, rb, sb, tb
<1>2. ra - q * rb = (sa - q * sb) * N + (ta - q * tb) * k
  <2>1. q * rb = (q * sb) * N + (q * tb) * k
    BY <1>1, Z3
  <2>2. (sa - q * sb) * N = sa * N - (q * sb) * N
    <3> DEFINE p == q * sb
    <3>1. sa \in Int /\ p \in Int /\ N \in Int
      BY <1>1
    <3> HIDE DEF p
    <3>2. (sa - p) * N = sa * N - p * N
      BY <3>1, Z3
    <3> QED
      BY <3>2 DEF p
  <2>3. (ta - q * tb) * k = ta * k - (q * tb) * k
    <3> DEFINE p == q * tb
    <3>1. ta \in Int /\ p \in Int /\ k \in Int
      BY <1>1
    <3> HIDE DEF p
    <3>2. (ta - p) * k = ta * k - p * k
      BY <3>1, Z3
    <3> QED
      BY <3>2 DEF p
  <2> DEFINE u == sa * N
  <2> DEFINE v == ta * k
  <2> DEFINE x == (q * sb) * N
  <2> DEFINE y == (q * tb) * k
  <2>4. u \in Int /\ v \in Int /\ x \in Int /\ y \in Int
    BY <1>1
  <2>5. ra = u + v /\ q * rb = x + y
    BY <1>1, <2>1
  <2> HIDE DEF u, v, x, y
  <2>6. ra - q * rb = (u - x) + (v - y)
    BY <2>4, <2>5
  <2> QED
    BY <2>2, <2>3, <2>6 DEF u, v, x, y
<1>3. /\ ra - q * rb \in Int /\ sa - q * sb \in Int /\ ta - q * tb \in Int
  BY <1>1
<1> QED
  BY <1>2, <1>3 DEF IsRow, Reduced, ra, sa, ta, rb, sb, tb

LEMMA LatticeSteps ==
    ASSUME NEW k \in 1 .. N - 1, NEW l, LatticeInv(k, l), Root <= l.curr.rem
    PROVE  LatticeInv(k, LatticeNext(l))
<1> HIDE DEF Root
<1> DEFINE rp == l.prev.rem
<1> DEFINE rc == l.curr.rem
<1> DEFINE q == rp \div rc
<1> DEFINE n == LatticeNext(l)
<1>1. /\ rp \in Int /\ rc \in Int /\ Root <= rc /\ rc < rp /\ rp <= N /\ rc <= k
      /\ 2 <= rc /\ k \in Int /\ k < N
  BY OrderFacts DEF LatticeInv, IsRow
<1>2. /\ q \in Int /\ rp % rc \in Int /\ rp = rc * q + (rp % rc) /\ 0 <= rp % rc /\ rp % rc < rc
  <2> HIDE DEF rp, rc
  <2>1. rc \in Nat \ {0}
    BY <1>1
  <2> QED
    BY <1>1, <2>1, Division
<1>3. /\ n.prev = l.curr
      /\ n.curr.rem = rp - q * rc
      /\ n.curr.t = l.prev.t - q * l.curr.t
      /\ n.curr = Reduced(l.prev, l.curr, q)
  BY DEF LatticeNext, Reduced
<1>4. IsRow(k, n.prev) /\ IsRow(k, n.curr)
  BY <1>1, <1>2, <1>3, RowStep DEF LatticeInv
<1>5. 1 <= q
  <2>1. CASE q <= 0
    <3> HIDE DEF q, rc, rp
    <3>1. rc * q <= 0
      BY <1>1, <1>2, <2>1, Z3
    <3> QED
      BY <3>1, <1>1, <1>2
  <2> HIDE DEF q
  <2> QED
    BY <1>2, <2>1
<1>6. l.prev.t \in Int /\ l.curr.t \in Int /\ Crossed(rp, rc, l.prev.t, l.curr.t)
  BY DEF LatticeInv, IsRow
<1>7. Crossed(rc, rp - q * rc, l.curr.t, l.prev.t - q * l.curr.t)
  <2> HIDE DEF rp, rc, q
  <2> QED
    BY <1>1, <1>2, <1>5, <1>6, CrossedStep
<1>8. Crossed(n.prev.rem, n.curr.rem, n.prev.t, n.curr.t)
  BY <1>3, <1>7
<1>9. n.prev.rem = rc /\ n.curr.rem = rp % rc
  <2>1. rp - q * rc = rp % rc
    <3> HIDE DEF rp, rc, q
    <3> QED
      BY <1>1, <1>2
  <2> QED
    BY <1>3, <2>1
<1> HIDE DEF rp, rc, q, n
<1>10. LatticeInv(k, n)
  <2>1. /\ 0 <= n.curr.rem /\ n.curr.rem <= k /\ n.curr.rem < n.prev.rem
        /\ Root <= n.prev.rem /\ n.prev.rem <= N
    BY <1>1, <1>2, <1>9, OrderFacts
  <2>2. n.prev.rem # N
    BY <1>1, <1>9, OrderFacts
  <2> QED
    BY <1>4, <1>8, <2>1, <2>2 DEF LatticeInv
<1> QED
  BY <1>10 DEF n
-----------------------------------------------------------------------------
(* The end of the half-GCD, and the hint it leaves.                        *)

(* The magnitude of the coefficient times the remainder before it is within N. *)
LEMMA CrossedBound ==
    ASSUME NEW rp \in Nat, NEW rc \in Nat, NEW tp \in Int, NEW tc \in Int, NEW m \in Nat,
           Crossed(rp, rc, tp, tc), m = tc \/ m = -tc
    PROVE  m * rp <= N /\ 1 <= m /\ (rc = 0 => m * rp = N)
<1>0. N \in Nat
  BY OrderFacts
<1>1. CASE 1 <= tc /\ tp <= 0 /\ tc * rp - tp * rc = N
  <2>1. m = tc
    BY <1>1
  <2>2. 0 <= (-tp) * rc
    BY <1>1, Z3
  <2>3. tc * rp + (-tp) * rc = N
    BY <1>1, Z3
  <2>4. rc = 0 => (-tp) * rc = 0
    OBVIOUS
  <2> QED
    BY <1>0, <1>1, <2>1, <2>2, <2>3, <2>4
<1>2. CASE tc <= -1 /\ 0 <= tp /\ tp * rc - tc * rp = N
  <2>1. m = -tc
    BY <1>2
  <2>2. 0 <= tp * rc
    BY <1>2, Z3
  <2>3. m * rp + tp * rc = N
    BY <1>2, <2>1, Z3
  <2>4. rc = 0 => tp * rc = 0
    OBVIOUS
  <2> QED
    BY <1>0, <1>2, <2>1, <2>2, <2>3, <2>4
<1> QED
  BY <1>1, <1>2 DEF Crossed

LEMMA LatticeEnds ==
    ASSUME NEW k \in 1 .. N - 1, NEW l, LatticeInv(k, l), ~(Root <= l.curr.rem),
           NEW m \in Nat, m = l.curr.t \/ m = -l.curr.t
    PROVE  /\ 1 <= l.curr.rem /\ l.curr.rem < HalfBound /\ l.curr.rem <= k
           /\ 1 <= m /\ m < HalfBound
<1> HIDE DEF Root, HalfBound
<1> DEFINE rp == l.prev.rem
<1> DEFINE rc == l.curr.rem
<1>1. /\ rp \in Nat /\ rc \in Nat /\ rc < Root /\ rc <= k /\ Root <= rp /\ rp <= N
      /\ (rp = N => rc = k) /\ Crossed(rp, rc, l.prev.t, l.curr.t)
      /\ l.prev.t \in Int /\ l.curr.t \in Int
  BY OrderFacts DEF LatticeInv, IsRow
<1> HIDE DEF rp, rc
<1>2. m * rp <= N /\ 1 <= m /\ (rc = 0 => m * rp = N)
  BY <1>1, CrossedBound
<1>3. m < HalfBound
  BY <1>1, <1>2, FactorBound
<1>4. rc # 0
  <2>1. CASE rc = 0
    <3>1. rp = N
      <4>1. 2 <= rp /\ rp \in Nat /\ rp <= N
        BY <1>1, OrderFacts
      <4>2. m * rp = N
        BY <1>2, <2>1
      <4> QED
        BY <4>1, <4>2, OnlyFactor
    <3> QED
      BY <1>1, <2>1, <3>1, OrderFacts
  <2> QED
    BY <2>1
<1>5. rc < HalfBound
  BY <1>1, OrderFacts, RootBelowHalf
<1> QED
  BY <1>1, <1>2, <1>3, <1>4, <1>5 DEF rc

LEMMA QuotientFits ==
    ASSUME NEW k \in 1 .. N - 1, NEW mag \in Nat, 1 <= mag, NEW sel \in 1 .. N - 1,
           NEW q \in Int, k * mag - sel = q * N
    PROVE  (k * mag - sel) \div N = q /\ 0 <= q /\ q < mag
<1>0. N \in Nat \ {0} /\ k \in Nat /\ sel \in Nat /\ 1 <= k /\ k < N /\ 1 <= sel /\ sel < N
  BY OrderFacts
<1>1. (q * N) \div N = q
  BY <1>0, ExactDivision
<1> DEFINE km == k * mag
<1>2. km \in Nat /\ 1 <= km
  <2>1. k * mag >= mag
    BY <1>0, ProductAtLeast
  <2> QED
    BY <1>0, <2>1
<1>3. km <= mag * N
  <2>1. k * mag <= N * mag
    BY <1>0, ProductMonotone
  <2> QED
    BY <1>0, <2>1
<1>4. km - sel = q * N
  OBVIOUS
<1> HIDE DEF km
<1>5. (-1) * N < q * N /\ q * N < mag * N
  <2> DEFINE qn == q * N
  <2> DEFINE mn == mag * N
  <2>1. mn \in Int /\ qn = km - sel /\ km <= mn
    BY <1>0, <1>3, <1>4
  <2> HIDE DEF qn, mn
  <2>2. -N < qn /\ qn < mn
    BY <1>0, <1>2, <2>1
  <2> QED
    BY <1>0, <2>2 DEF qn, mn
<1>6. -1 < q /\ q < mag
  BY <1>0, <1>5, ProductStrict
<1> QED
  BY <1>1, <1>4, <1>6 DEF km

(* The hint taken from the last row satisfies the scalar equation and fits. *)
LEMMA HintOfProves ==
    ASSUME NEW k \in 1 .. N - 1, NEW l, LatticeInv(k, l), ~(Root <= l.curr.rem)
    PROVE  HintProves(k, HintOf(k, l.curr)) /\ HintOf(k, l.curr) # NoHint
<1> HIDE DEF Root, HalfBound
<1> DEFINE rc == l.curr.rem
<1> DEFINE tc == l.curr.t
<1> DEFINE sc == l.curr.s
<1>0. N \in Nat /\ 3 < N /\ k \in Nat /\ 1 <= k /\ k < N /\ HalfBound \in Nat
  BY OrderFacts
<1>1. /\ rc \in Int /\ tc \in Int /\ sc \in Int /\ rc = sc * N + tc * k
      /\ (1 <= tc \/ tc <= -1)
  BY DEF LatticeInv, IsRow, Crossed
<1>2. ASSUME NEW m \in Nat, m = tc \/ m = -tc
      PROVE  1 <= rc /\ rc < HalfBound /\ rc <= k /\ 1 <= m /\ m < HalfBound
  BY <1>2, LatticeEnds
<1>3. 1 <= rc /\ rc < HalfBound /\ rc <= k
  BY <1>1, <1>2
<1> DEFINE h == HintCandidate(k, rc, -tc)
<1>4. ASSUME 1 <= tc
      PROVE  HintFits(h) /\ k * h.s2 = h.q * N + SelectedS1(h)
  <2>1. 1 <= tc /\ tc < HalfBound /\ tc \in Nat
    BY <1>1, <1>2, <1>4
  <2>2. k * tc - rc = (-sc) * N
    <3> HIDE DEF rc, tc, sc
    <3> QED
      BY <1>0, <1>1, Z3
  <2>3. /\ h.s1 = rc /\ h.s2 = tc /\ h.bit = 1 /\ h.q = (k * tc - rc) \div N
    BY <1>0, <1>1, <1>4 DEF HintCandidate
  <2> HIDE DEF rc, tc, sc, h
  <2>4. (k * tc - rc) \div N = -sc /\ 0 <= -sc /\ -sc < tc
    BY <1>0, <1>1, <1>3, <2>1, <2>2, QuotientFits
  <2>5. HintFits(h)
    BY <1>0, <1>1, <1>3, <2>1, <2>3, <2>4 DEF HintFits
  <2>6. k * h.s2 = h.q * N + SelectedS1(h)
    BY <1>0, <1>1, <2>2, <2>3, <2>4 DEF SelectedS1
  <2> QED
    BY <2>5, <2>6
<1>5. ASSUME tc <= -1
      PROVE  HintFits(h) /\ k * h.s2 = h.q * N + SelectedS1(h)
  <2>1. 1 <= -tc /\ -tc < HalfBound /\ -tc \in Nat
    BY <1>1, <1>2, <1>5
  <2>2. k * (-tc) - (N - rc) = (sc - 1) * N
    <3> HIDE DEF rc, tc, sc
    <3> QED
      BY <1>0, <1>1, Z3
  <2>3. /\ h.s1 = rc /\ h.s2 = -tc /\ h.bit = 0 /\ h.q = (k * (-tc) - (N - rc)) \div N
    BY <1>0, <1>1, <1>5 DEF HintCandidate
  <2> HIDE DEF rc, tc, sc, h
  <2>4. (k * (-tc) - (N - rc)) \div N = sc - 1 /\ 0 <= sc - 1 /\ sc - 1 < -tc
    BY <1>0, <1>1, <1>3, <2>1, <2>2, QuotientFits
  <2>5. HintFits(h)
    BY <1>0, <1>1, <1>3, <2>1, <2>3, <2>4 DEF HintFits
  <2>6. k * h.s2 = h.q * N + SelectedS1(h)
    BY <1>0, <1>1, <2>2, <2>3, <2>4 DEF SelectedS1
  <2> QED
    BY <2>5, <2>6
<1>6. HintFits(h) /\ k * h.s2 = h.q * N + SelectedS1(h)
  BY <1>1, <1>4, <1>5
<1>7. HintOf(k, l.curr) = h
  <2>1. ~(l.curr.rem < 0)
    BY <1>1, <1>3
  <2> QED
    BY <1>6, <2>1 DEF HintOf
<1>8. h # NoHint
  <2>1. NoHint.s1 = -1
    BY DEF NoHint, ZeroHint
  <2> QED
    BY <1>6, <2>1 DEF HintFits
<1> HIDE DEF h
<1>9. HintProves(k, h)
  BY <1>0, <1>6 DEF HintProves
<1> QED
  BY <1>7, <1>8, <1>9

-----------------------------------------------------------------------------
(* The builder around it: the half-GCD starts from the two scalars, one     *)
(* certificate after the other, and nothing else touches the hints.         *)

Scalars == setup.u[1] \in 0 .. N - 1 /\ setup.u[2] \in 0 .. N - 1

Started == phase \in {"native", "setup"} => hints = <<>> /\ cert = 1

Lattice ==
    phase = "lattice" =>
        /\ hints = IF cert = 1 THEN <<>> ELSE <<hints[1]>>
        /\ setup.u[cert] # 0 => LatticeInv(setup.u[cert], lattice)

HintsProve == \A c \in DOMAIN hints : HintProves(setup.u[c], hints[c])

HintInv ==
    /\ input \in Inputs /\ cert \in {1, 2} /\ verdict # "UnboundedHint"
    /\ Scalars /\ Started /\ Lattice /\ HintsProve

LEMMA AppendSecond ==
    ASSUME NEW a, NEW h
    PROVE  /\ DOMAIN Append(<<a>>, h) = {1, 2}
           /\ Append(<<a>>, h)[1] = a /\ Append(<<a>>, h)[2] = h
<1>1. <<a>> \in Seq({a, h}) /\ Len(<<a>>) = 1 /\ <<a>>[1] = a
  OBVIOUS
<1>2. /\ Append(<<a>>, h) \in Seq({a, h}) /\ Len(Append(<<a>>, h)) = Len(<<a>>) + 1
      /\ \A i \in 1 .. Len(<<a>>) : Append(<<a>>, h)[i] = <<a>>[i]
      /\ Append(<<a>>, h)[Len(<<a>>) + 1] = h
  BY <1>1, AppendProperties
<1>3. DOMAIN Append(<<a>>, h) = 1 .. Len(Append(<<a>>, h))
  BY <1>2, LenProperties
<1> QED
  BY <1>1, <1>2, <1>3

LEMMA InitHintInv == Init => HintInv
<1> SUFFICES ASSUME Init PROVE HintInv
  OBVIOUS
<1>1. /\ input \in Inputs /\ cert = 1 /\ verdict = "none" /\ hints = <<>>
      /\ setup.u[1] = 0 /\ setup.u[2] = 0 /\ phase # "lattice"
  BY DEF Init
<1>2. Scalars
  BY <1>1, OrderFacts DEF Scalars
<1>3. Started /\ Lattice /\ HintsProve
  BY <1>1 DEF Started, Lattice, HintsProve
<1> QED
  BY <1>1, <1>2, <1>3 DEF HintInv

(* A scalar product modulo N is a scalar. *)
LEMMA ScalarProduct ==
    ASSUME NEW a \in Int, NEW b \in Int
    PROVE  (a * b) % N \in 0 .. N - 1
<1>1. a * b \in Int /\ N \in Nat \ {0}
  BY OrderFacts
<1> QED
  BY <1>1, Division

(* A scalar that is not zero starts a half-GCD. *)
LEMMA StartsWhenActive ==
    ASSUME NEW k \in 0 .. N - 1, k # 0
    PROVE  LatticeInv(k, LatticeStart(k))
  BY OrderFacts, LatticeStarts

LEMMA SetupStep ==
    ASSUME HintInv, SetupScalars
    PROVE  HintInv'
<1>1. input \in Inputs /\ cert \in {1, 2} /\ verdict # "UnboundedHint" /\ phase = "setup"
  BY DEF HintInv, SetupScalars
<1>2. hints = <<>> /\ cert = 1
  BY <1>1 DEF HintInv, Started
<1>3. CASE SetupVerdict(input) # "ok"
  <2>1. Refuse(SetupVerdict(input))
    BY <1>3 DEF SetupScalars
  <2>2. SetupVerdict(input) # "UnboundedHint"
    BY DEF SetupVerdict
  <2> QED
    BY <2>1, <2>2 DEF Refuse, HintInv, Scalars, Started, Lattice, HintsProve
<1>4. CASE SetupVerdict(input) = "ok"
  <2> DEFINE w == InverseOf[input.s]
  <2> DEFINE zr == ReduceDigest(input.z)
  <2> DEFINE u1 == (zr * w) % N
  <2> DEFINE u2 == (input.r * w) % N
  <2>1. /\ setup'.u = <<u1, u2>> /\ lattice' = LatticeStart(u1) /\ phase' = "lattice"
        /\ UNCHANGED <<input, cert, hints, verdict>>
    BY <1>4 DEF SetupScalars
  <2>2. input.z \in Int /\ input.r \in Int /\ input.s \in Int /\ N \in Int
    BY <1>1, InputAssumption, OrderFacts
  <2>3. input.s \in 1 .. N - 1
    BY <1>1, <1>4, InputAssumption, OrderFacts DEF SetupVerdict
  <2>4. w \in Int
    BY <2>3, WordAssumption
  <2>5. zr \in Int
    BY <2>2 DEF ReduceDigest
  <2> HIDE DEF w, zr
  <2>6. u1 \in 0 .. N - 1 /\ u2 \in 0 .. N - 1
    BY <2>2, <2>4, <2>5, ScalarProduct
  <2> HIDE DEF u1, u2
  <2>7. Scalars'
    BY <2>1, <2>6 DEF Scalars
  <2>8. Started'
    BY <2>1 DEF Started
  <2>9. Lattice'
    <3>1. setup'.u[cert'] = u1
      BY <1>2, <2>1
    <3>2. u1 # 0 => LatticeInv(u1, lattice')
      BY <2>1, <2>6, StartsWhenActive
    <3> QED
      BY <1>2, <2>1, <3>1, <3>2 DEF Lattice
  <2>10. HintsProve'
    BY <1>2, <2>1 DEF HintsProve
  <2> QED
    BY <1>1, <2>1, <2>7, <2>8, <2>9, <2>10 DEF HintInv
<1> QED
  BY <1>3, <1>4

LEMMA LatticeStepKeeps ==
    ASSUME HintInv, LatticeStep
    PROVE  HintInv'
<1> DEFINE k == setup.u[cert]
<1>1. /\ phase = "lattice" /\ k # 0 /\ Root <= lattice.curr.rem
      /\ lattice' = LatticeNext(lattice)
      /\ UNCHANGED <<phase, input, setup, cert, hints, verdict>>
  BY DEF LatticeStep, InLattice
<1>2. k \in 0 .. N - 1 /\ LatticeInv(k, lattice)
  BY <1>1 DEF HintInv, Lattice, Scalars
<1> HIDE DEF k
<1>3. k \in 1 .. N - 1
  BY <1>1, <1>2, OrderFacts
<1>4. LatticeInv(k, lattice')
  BY <1>1, <1>2, <1>3, LatticeSteps
<1>5. Lattice'
  BY <1>1, <1>4 DEF Lattice, HintInv, k
<1> QED
  BY <1>1, <1>5 DEF HintInv, Scalars, Started, HintsProve

LEMMA FinishHintKeeps ==
    ASSUME HintInv, FinishHint
    PROVE  HintInv'
<1> DEFINE k == setup.u[cert]
<1> DEFINE h == HintNow
<1>1. phase = "lattice" /\ ~InLattice /\ cert \in {1, 2}
  BY DEF FinishHint, HintInv
<1>2. k \in 0 .. N - 1 /\ (k # 0 => LatticeInv(k, lattice))
  BY <1>1 DEF HintInv, Lattice, Scalars
<1>3. HintProves(k, h) /\ h # NoHint
  <2>1. CASE k = 0
    <3>1. h = ZeroHint
      BY <2>1 DEF HintNow
    <3>2. ZeroHint # NoHint
      <4>1. ZeroHint.s1 = 0 /\ NoHint.s1 = -1
        BY DEF ZeroHint, NoHint
      <4> QED
        BY <4>1
    <3> QED
      BY <2>1, <3>1, <3>2 DEF HintProves
  <2>2. CASE k # 0
    <3>1. k \in 1 .. N - 1
      BY <1>2, <2>2, OrderFacts
    <3>2. ~(Root <= lattice.curr.rem)
      BY <1>1, <2>2 DEF InLattice
    <3>3. h = HintOf(k, lattice.curr)
      BY <2>2 DEF HintNow
    <3> HIDE DEF h, k
    <3> QED
      BY <1>2, <2>2, <3>1, <3>2, <3>3, HintOfProves
  <2> QED
    BY <2>1, <2>2
<1>4. /\ hints' = Append(hints, h)
      /\ IF cert = 1 THEN /\ cert' = 2 /\ lattice' = LatticeStart(setup.u[2]) /\ phase' = phase
                      ELSE cert' = 1 /\ phase' = "key"
      /\ UNCHANGED <<input, setup, verdict>>
  BY <1>3 DEF FinishHint
<1> HIDE DEF h
<1>5. Scalars' /\ Started'
  BY <1>1, <1>4 DEF HintInv, Scalars, Started
<1>6. CASE cert = 1
  <2>1. hints = <<>>
    BY <1>1, <1>6 DEF HintInv, Lattice
  <2>2. hints' = <<h>>
    BY <1>4, <2>1
  <2>3. HintsProve'
    BY <1>3, <1>4, <1>6, <2>2 DEF HintsProve, k
  <2>4. Lattice'
    <3>1. setup.u[2] \in 0 .. N - 1
      BY DEF HintInv, Scalars
    <3>2. setup.u[2] # 0 => LatticeInv(setup.u[2], lattice')
      BY <1>4, <1>6, <3>1, StartsWhenActive
    <3> QED
      BY <1>4, <1>6, <2>2, <3>2 DEF Lattice
  <2> QED
    BY <1>4, <1>5, <1>6, <2>3, <2>4 DEF HintInv
<1>7. CASE cert = 2
  <2>1. hints = <<hints[1]>>
    BY <1>1, <1>7 DEF HintInv, Lattice
  <2>2. DOMAIN hints' = {1, 2} /\ hints'[1] = hints[1] /\ hints'[2] = h
    <3> DEFINE a == hints[1]
    <3>1. hints' = Append(<<a>>, h)
      BY <1>4, <2>1
    <3> HIDE DEF a
    <3>2. DOMAIN hints' = {1, 2} /\ hints'[1] = a /\ hints'[2] = h
      BY <3>1, AppendSecond
    <3> QED
      BY <3>2 DEF a
  <2>3. HintProves(setup.u[1], hints[1])
    <3>1. 1 \in DOMAIN hints
      BY <2>1
    <3> QED
      BY <3>1 DEF HintInv, HintsProve
  <2>4. HintsProve'
    BY <1>3, <1>4, <1>7, <2>2, <2>3 DEF HintsProve, k
  <2>5. Lattice'
    BY <1>4, <1>7 DEF Lattice
  <2> QED
    BY <1>4, <1>5, <1>7, <2>4, <2>5 DEF HintInv
<1> QED
  BY <1>1, <1>6, <1>7

(* The other steps leave the scalars and the hints alone. *)
LEMMA OtherStepKeeps ==
    ASSUME HintInv, UNCHANGED <<input, setup, hints>>, cert' \in {1, 2},
           verdict' # "UnboundedHint", phase' # "lattice",
           phase' \in {"native", "setup"} => cert' = cert /\ phase \in {"native", "setup"}
    PROVE  HintInv'
  BY DEF HintInv, Scalars, Started, Lattice, HintsProve

LEMMA NextHintInv == HintInv /\ [Next]_vars => HintInv'
<1> SUFFICES ASSUME HintInv, [Next]_vars PROVE HintInv'
  OBVIOUS
<1>0. cert \in {1, 2} /\ verdict # "UnboundedHint"
  BY DEF HintInv
<1>1. CASE NativeVerify
  <2>1. phase' \in {"setup", "refused"} /\ phase = "native" /\ cert' = cert
    BY <1>1 DEF NativeVerify, Refuse
  <2> QED
    BY <1>0, <1>1, <2>1, OtherStepKeeps DEF NativeVerify, Refuse
<1>2. CASE CheckKey
  BY <1>0, <1>2, OtherStepKeeps DEF CheckKey, Refuse
<1>3. CASE SetupScalars
  BY <1>3, SetupStep
<1>4. CASE LatticeStep
  BY <1>4, LatticeStepKeeps
<1>5. CASE FinishHint
  BY <1>5, FinishHintKeeps
<1>6. CASE BuildTables
  BY <1>0, <1>6, OtherStepKeeps DEF BuildTables
<1>7. CASE BuildTablesFrom
  BY <1>0, <1>7, OtherStepKeeps DEF BuildTablesFrom
<1>8. CASE MsbInit
  <2>1. phase' = "steps" /\ UNCHANGED <<input, setup, cert, hints, verdict>>
    BY <1>8, Zenon DEF MsbInit
  <2> QED
    BY <1>0, <2>1, OtherStepKeeps
<1>9. CASE ChainStep
  <2>1. phase = "steps" /\ UNCHANGED <<phase, input, setup, cert, hints, verdict>>
    BY <1>9, Zenon DEF ChainStep, Push
  <2> QED
    BY <1>0, <2>1, OtherStepKeeps
<1>10. CASE Table16Step
  BY <1>0, <1>10, OtherStepKeeps DEF Table16Step, Push
<1>11. CASE LsbCorrection
  BY <1>0, <1>11, OtherStepKeeps DEF LsbCorrection, Push
<1>12. CASE NextChain
  BY <1>0, <1>12, OtherStepKeeps DEF NextChain
<1>13. CASE ProjectRows
  BY <1>0, <1>13, OtherStepKeeps DEF ProjectRows, Refuse
<1>14. CASE FinalCheck
  BY <1>0, <1>14, OtherStepKeeps DEF FinalCheck, Refuse
<1>15. CASE FinalAdd
  <2>1. CASE FinalAddBranch(Addends[1], Addends[2]) \in {"BothInfinity", "InverseAdd"}
    <3>1. FinalAddBranch(Addends[1], Addends[2]) # "UnboundedHint"
      BY <2>1
    <3> QED
      BY <1>0, <1>15, <2>1, <3>1, OtherStepKeeps DEF FinalAdd, Refuse
  <2>2. CASE FinalAddBranch(Addends[1], Addends[2]) \notin {"BothInfinity", "InverseAdd"}
    BY <1>0, <1>15, <2>2, OtherStepKeeps DEF FinalAdd
  <2> QED
    BY <2>1, <2>2
<1>16. CASE CountUses
  BY <1>0, <1>16, OtherStepKeeps DEF CountUses, Refuse
<1>17. CASE Done \/ UNCHANGED vars
  BY <1>17 DEF Done, vars, HintInv, Scalars, Started, Lattice, HintsProve
<1> QED
  BY <1>1, <1>2, <1>3, <1>4, <1>5, <1>6, <1>7, <1>8, <1>9, <1>10, <1>11, <1>12,
     <1>13, <1>14, <1>15, <1>16, <1>17 DEF Next

(* decompose_scalar_mod_n: for every group order, scalar and input, the half-GCD
   of each scalar leaves a hint that fits and satisfies the scalar equation. *)
THEOREM DecompositionAlwaysFits == Spec => []DecompositionFits
<1>1. HintInv => DecompositionFits
  BY DEF HintInv, HintsProve, DecompositionFits
<1> QED
  BY <1>1, InitHintInv, NextHintInv, PTL DEF Spec
-----------------------------------------------------------------------------
(* Arithmetic modulo the order.                                            *)

LEMMA UniqueDivision ==
    ASSUME NEW b \in Nat \ {0}, NEW q \in Int, NEW r \in 0 .. b - 1
    PROVE  (q * b + r) % b = r /\ (q * b + r) \div b = q
<1> DEFINE a == q * b + r
<1>1. a \in Int /\ r \in Int /\ 0 <= r /\ r < b
  OBVIOUS
<1> DEFINE d == a \div b
           e == a % b
<1>2. d \in Int /\ e \in Int /\ a = b * d + e /\ 0 <= e /\ e < b
  BY <1>1, Division
<1>3. q * b + r = b * d + e
  BY <1>2
<1> HIDE DEF a, d, e
<1>4. (q - d) * b = e - r
  BY <1>1, <1>2, <1>3, Z3
<1>5. q - d < 1
  <2>1. (q - d) * b < 1 * b
    BY <1>1, <1>2, <1>4
  <2>2. QED
    BY <1>2, <2>1, ProductStrict
<1>6. -1 < q - d
  <2>1. (-1) * b < (q - d) * b
    BY <1>1, <1>2, <1>4
  <2>2. QED
    BY <1>2, <2>1, ProductStrict
<1>7. q = d
  BY <1>2, <1>5, <1>6
<1>8. e = r
  BY <1>1, <1>2, <1>4, <1>7
<1>9. QED
  BY <1>7, <1>8 DEF a, d, e

(* Two numbers have the same remainder when they differ by a multiple.     *)
LEMMA SameRemainder ==
    ASSUME NEW a \in Int, NEW b \in Int, NEW q \in Int, a = b + q * N
    PROVE  a % N = b % N
<1>0. N \in Nat \ {0}
  BY OrderFacts
<1> DEFINE d == b \div N
           e == b % N
<1>1. d \in Int /\ e \in Int /\ b = N * d + e /\ 0 <= e /\ e < N
  BY <1>0, Division
<1> HIDE DEF d, e
<1>2. a = (d + q) * N + e
  BY <1>0, <1>1, Z3
<1>3. d + q \in Int /\ e \in 0 .. N - 1
  BY <1>0, <1>1
<1>4. ((d + q) * N + e) % N = e
  BY <1>0, <1>3, UniqueDivision
<1>5. QED
  BY <1>2, <1>4 DEF e

(* A number is its remainder and a multiple. *)
LEMMA Remainder ==
    ASSUME NEW a \in Int
    PROVE  /\ a % N \in 0 .. N - 1 /\ a % N \in Int
           /\ \E q \in Int : a = (a % N) + q * N
<1>0. N \in Nat \ {0}
  BY OrderFacts
<1> DEFINE d == a \div N
           e == a % N
<1>1. d \in Int /\ e \in Int /\ a = N * d + e /\ 0 <= e /\ e < N
  BY <1>0, Division
<1> HIDE DEF d, e
<1>2. a = e + d * N
  BY <1>0, <1>1, Z3
<1>3. e \in 0 .. N - 1
  BY <1>0, <1>1
<1>4. QED
  BY <1>1, <1>2, <1>3 DEF e

LEMMA SmallRemainder ==
    ASSUME NEW a \in 0 .. N - 1
    PROVE  a % N = a
<1>0. N \in Nat \ {0} /\ a \in Int
  BY OrderFacts
<1>1. (0 * N + a) % N = a
  BY <1>0, UniqueDivision
<1>2. 0 * N + a = a
  BY <1>0
<1>3. QED
  BY <1>1, <1>2

(* Equal remainders differ by a multiple. *)
LEMMA EqualRemainders ==
    ASSUME NEW a \in Int, NEW b \in Int, a % N = b % N
    PROVE  \E q \in Int : a = b + q * N
<1>0. N \in Int
  BY OrderFacts
<1>1. PICK p \in Int : a = (a % N) + p * N
  BY Remainder
<1>2. PICK q \in Int : b = (b % N) + q * N
  BY Remainder
<1> DEFINE e == a % N
<1>3. e \in Int
  BY Remainder
<1>4. a = e + p * N /\ b = e + q * N
  BY <1>1, <1>2
<1> HIDE DEF e
<1>5. a = b + (p - q) * N
  BY <1>0, <1>3, <1>4, Z3
<1>6. QED
  BY <1>5

LEMMA RemainderOfProduct ==
    ASSUME NEW a \in Int, NEW b \in Int
    PROVE  ((a % N) * b) % N = (a * b) % N
<1>0. N \in Int
  BY OrderFacts
<1> DEFINE e == a % N
<1>1. e \in Int
  BY Remainder
<1>2. PICK q \in Int : a = e + q * N
  BY Remainder
<1> HIDE DEF e
<1>3. a * b = e * b + (q * b) * N
  BY <1>0, <1>1, <1>2, Z3
<1>4. a * b \in Int /\ e * b \in Int /\ q * b \in Int
  BY <1>1
<1>5. (a * b) % N = (e * b) % N
  <2> DEFINE x == a * b
             y == e * b
             z == q * b
  <2>1. x \in Int /\ y \in Int /\ z \in Int /\ x = y + z * N
    BY <1>3, <1>4
  <2> HIDE DEF x, y, z
  <2>2. x % N = y % N
    BY <2>1, SameRemainder
  <2>3. QED
    BY <2>2 DEF x, y
<1>6. QED
  BY <1>5 DEF e

LEMMA RemainderOfSum ==
    ASSUME NEW a \in Int, NEW b \in Int
    PROVE  ((a % N) + b) % N = (a + b) % N
<1>0. N \in Int
  BY OrderFacts
<1> DEFINE e == a % N
<1>1. e \in Int
  BY Remainder
<1>2. PICK q \in Int : a = e + q * N
  BY Remainder
<1> HIDE DEF e
<1>3. a + b = (e + b) + q * N
  BY <1>0, <1>1, <1>2, Z3
<1>4. (a + b) % N = (e + b) % N
  BY <1>1, <1>3, SameRemainder
<1>5. QED
  BY <1>4 DEF e

LEMMA RemainderOfNegation ==
    ASSUME NEW a \in Int
    PROVE  (-(a % N)) % N = (-a) % N
<1>0. N \in Int
  BY OrderFacts
<1> DEFINE e == a % N
<1>1. e \in Int
  BY Remainder
<1>2. PICK q \in Int : a = e + q * N
  BY Remainder
<1> HIDE DEF e
<1>3. -a = (-e) + (-q) * N
  BY <1>0, <1>1, <1>2, Z3
<1>4. (-a) % N = (-e) % N
  BY <1>1, <1>3, SameRemainder
<1>5. QED
  BY <1>4 DEF e

(* Points: the negation of a point, twice, and the sum with it.            *)
LEMMA NegateTwice ==
    ASSUME NEW a \in 0 .. N - 1
    PROVE  Negate(a) \in 0 .. N - 1 /\ Negate(Negate(a)) = a
<1>1. a \in Int /\ -a \in Int
  BY OrderFacts
<1>2. Negate(Negate(a)) = (-(-a)) % N
  BY <1>1, RemainderOfNegation DEF Negate
<1>3. QED
  BY <1>1, <1>2, Remainder, SmallRemainder DEF Negate

LEMMA NegateAndSum ==
    ASSUME NEW a \in 0 .. N - 1, NEW b \in 0 .. N - 1
    PROVE  /\ (a = Negate(b) => AddPoints(a, b) = Infinity)
           /\ (Negate(a) = b => AddPoints(a, b) = Infinity)
           /\ (Negate(a) = Infinity => a = Infinity)
<1>0. N \in Nat \ {0} /\ a \in Int /\ b \in Int /\ 0 % N = 0
  <2>1. 0 \in 0 .. N - 1
    BY OrderFacts
  <2>2. QED
    BY <2>1, OrderFacts, SmallRemainder
<1>1. a = Negate(b) => AddPoints(a, b) = Infinity
  <2> SUFFICES ASSUME a = (-b) % N PROVE (a + b) % N = 0
    BY DEF Negate, AddPoints, Infinity
  <2>1. (((-b) % N) + b) % N = ((-b) + b) % N
    <3> DEFINE minus == -b
    <3>1. minus \in Int
      BY <1>0
    <3> HIDE DEF minus
    <3>2. ((minus % N) + b) % N = (minus + b) % N
      BY <1>0, <3>1, RemainderOfSum
    <3>3. QED
      BY <3>2 DEF minus
  <2>2. (-b) + b = 0
    BY <1>0
  <2>3. QED
    BY <1>0, <2>1, <2>2
<1>2. Negate(a) = b => AddPoints(a, b) = Infinity
  <2> SUFFICES ASSUME b = (-a) % N PROVE (a + b) % N = 0
    BY DEF Negate, AddPoints, Infinity
  <2>1. (((-a) % N) + a) % N = ((-a) + a) % N
    <3> DEFINE minus == -a
    <3>1. minus \in Int
      BY <1>0
    <3> HIDE DEF minus
    <3>2. ((minus % N) + a) % N = (minus + a) % N
      BY <1>0, <3>1, RemainderOfSum
    <3>3. QED
      BY <3>2 DEF minus
  <2>2. (-a) + a = 0 /\ a + b = b + a
    BY <1>0
  <2>3. QED
    BY <1>0, <2>1, <2>2
<1>3. Negate(a) = Infinity => a = Infinity
  <2>1. Negate(Infinity) = 0
    BY <1>0 DEF Negate, Infinity
  <2>2. QED
    BY <2>1, NegateTwice DEF Infinity
<1>4. QED
  BY <1>1, <1>2, <1>3
-----------------------------------------------------------------------------
(* Validity, in the terms of the builder.                                  *)

(* The words, and the room of a use count. *)
LEMMA WordFacts ==
    /\ W \in Nat /\ N < W /\ W < 2 * N
    /\ MaxUse \in Nat /\ C + 2 <= MaxUse
BY WordAssumption

LEMMA InverseFacts ==
    ASSUME NEW a \in 1 .. N - 1
    PROVE  InverseOf[a] \in 1 .. N - 1 /\ (a * InverseOf[a]) % N = 1
BY WordAssumption

(* What an input is. *)
LEMMA InputTypes ==
    ASSUME NEW in \in Inputs
    PROVE  /\ in.z \in Int /\ 0 <= in.z /\ in.z < W /\ in.r \in Int /\ 0 <= in.r
           /\ in.s \in Int /\ 0 <= in.s /\ in.d \in 0 .. N - 1
           /\ W \in Nat /\ N \in Nat /\ N < W /\ W < 2 * N
<1> HIDE DEF Root, HalfBound
<1>1. in.z \in 0 .. W - 1 /\ in.r \in 0 .. W - 1 /\ in.s \in 0 .. W - 1 /\ in.d \in 0 .. N - 1
  BY InputAssumption
<1>2. N \in Nat
  BY OrderFacts
<1> DEFINE z == in.z
           r == in.r
           s == in.s
<1>3. z \in 0 .. W - 1 /\ r \in 0 .. W - 1 /\ s \in 0 .. W - 1
  BY <1>1
<1> HIDE DEF z, r, s
<1>4. z \in Int /\ 0 <= z /\ z < W /\ r \in Int /\ 0 <= r /\ s \in Int /\ 0 <= s
  BY <1>2, <1>3, WordFacts
<1>5. QED
  BY <1>1, <1>2, <1>4, WordFacts DEF z, r, s

(* The x coordinate of a finite point is a word. *)
LEMMA CoordinateTypes ==
    ASSUME NEW p \in 0 .. N - 1, p # Infinity
    PROVE  XCoord[p] \in Int /\ 0 <= XCoord[p] /\ XCoord[p] < W
<1>1. p \in 1 .. N - 1
  BY OrderFacts DEF Infinity
<1>2. XCoord[p] \in 0 .. W - 1 /\ W \in Nat
  BY <1>1, WordAssumption
<1>3. QED
  BY <1>2

(* One subtraction reduces a word: of the digest and of an x coordinate.   *)
LEMMA WordReduction ==
    ASSUME NEW x \in Int, 0 <= x, x < W
    PROVE  ReduceDigest(x) = x % N /\ ReduceX(x).x = x % N
<1>1. N \in Nat \ {0} /\ N < W /\ W < 2 * N /\ W \in Int
  BY OrderFacts, WordFacts
<1>2. CASE x >= N
  <2>1. x - N \in 0 .. N - 1 /\ x - N \in Int
    BY <1>1, <1>2
  <2> DEFINE y == x - N
  <2>2. x = y + 1 * N /\ y \in Int /\ y \in 0 .. N - 1 /\ 1 \in Int
    BY <1>1, <2>1
  <2> HIDE DEF y
  <2>3. x % N = y % N
    BY <2>2, SameRemainder
  <2>4. x % N = x - N
    BY <2>2, <2>3, SmallRemainder DEF y
  <2>5. QED
    BY <1>2, <2>4 DEF ReduceDigest, ReduceX
<1>3. CASE ~(x >= N)
  <2>1. x \in 0 .. N - 1
    BY <1>1, <1>3
  <2>2. x % N = x
    BY <2>1, SmallRemainder
  <2>3. QED
    BY <1>3, <2>2 DEF ReduceDigest, ReduceX
<1>4. QED
  BY <1>2, <1>3

(* The final point of a signature, from the scalars of the setup. *)
FinalPoint(in) ==
    AddPoints(Times((ReduceDigest(in.z) * InverseOf[in.s]) % N, 1),
              Times((in.r * InverseOf[in.s]) % N, in.d))

LEMMA PointTypes ==
    ASSUME NEW a \in Int, NEW b \in Int
    PROVE  Times(a, b) \in 0 .. N - 1 /\ AddPoints(a, b) \in 0 .. N - 1
BY Remainder DEF Times, AddPoints

LEMMA ScalarTypes ==
    ASSUME NEW in \in Inputs, Nonzero(in.s)
    PROVE  InverseOf[in.s] \in Int
<1>1. in.s \in 1 .. N - 1
  BY InputTypes DEF Nonzero
<1> DEFINE w == InverseOf[in.s]
<1>2. w \in 1 .. N - 1
  BY <1>1, InverseFacts
<1> HIDE DEF w
<1>3. w \in Int
  BY <1>2
<1>4. QED
  BY <1>3 DEF w

(* z w mod N is the same from the digest and from the reduced digest, and  *)
(* the final point is the sum that ECDSA, and the native verification,     *)
(* compute.                                                                *)
LEMMA FinalPointIsSum ==
    ASSUME NEW in \in Inputs, Nonzero(in.s)
    PROVE  LET w == InverseOf[in.s] IN
           /\ FinalPoint(in) = (((in.z * w) % N) + ((((in.r * w) % N) * in.d) % N)) % N
           /\ FinalPoint(in) = AddPoints((in.z * w) % N, Times((in.r * w) % N, in.d))
           /\ FinalPoint(in) \in 0 .. N - 1
<1> DEFINE w == InverseOf[in.s]
           z == in.z
           r == in.r
           d == in.d
           u1 == (z * w) % N
           u2 == (r * w) % N
<1>1. w \in Int /\ z \in Int /\ r \in Int /\ d \in Int
  BY ScalarTypes, InputTypes
<1>2. ReduceDigest(z) = z % N
  BY InputTypes, WordReduction
<1> HIDE DEF w, z, r, d
<1>3. ((z % N) * w) % N = u1
  BY <1>1, RemainderOfProduct
<1>4. z * w \in Int /\ r * w \in Int
  BY <1>1
<1>5. u1 \in 0 .. N - 1 /\ u1 \in Int /\ u2 \in Int
  BY <1>4, Remainder
<1>6. (u1 * 1) % N = u1
  <2>1. u1 * 1 = u1
    BY <1>5
  <2>2. QED
    BY <1>5, <2>1, SmallRemainder
<1>7. FinalPoint(in) = AddPoints(u1, Times(u2, d))
  BY <1>2, <1>3, <1>6 DEF FinalPoint, Times, w, z, r, d
<1>8. Times(u2, d) \in Int
  BY <1>1, <1>5, PointTypes
<1>9. FinalPoint(in) \in 0 .. N - 1
  BY <1>5, <1>7, <1>8, PointTypes
<1>10. QED
  BY <1>7, <1>9 DEF AddPoints, Times, w, z, r, d

(* A signature is valid when its scalars are in range, its key is on the   *)
(* curve, and the final check of the builder accepts its final point.      *)
LEMMA ValidMeansFinal ==
    ASSUME NEW in \in Inputs
    PROVE  ValidSignature(in) <=>
               /\ Nonzero(in.r) /\ Nonzero(in.s) /\ in.d # 0
               /\ FinalPoint(in) # Infinity
               /\ ReduceX(XCoord[FinalPoint(in)]).x = in.r
<1>1. CASE ~Nonzero(in.s)
  BY <1>1 DEF ValidSignature
<1>2. CASE Nonzero(in.s)
  <2> DEFINE p == FinalPoint(in)
  <2>1. ValidSignature(in) <=>
            /\ Nonzero(in.r) /\ Nonzero(in.s) /\ in.d # 0
            /\ p # Infinity /\ XCoord[p] % N = in.r
    BY <1>2, FinalPointIsSum, Zenon DEF ValidSignature
  <2>2. p # Infinity => ReduceX(XCoord[p]).x = XCoord[p] % N
    BY <1>2, FinalPointIsSum, CoordinateTypes, WordReduction
  <2> HIDE DEF p
  <2>3. QED
    BY <2>1, <2>2 DEF p
<1>3. QED
  BY <1>1, <1>2

(* The native verification accepts every valid signature. *)
LEMMA ValidIsVerified ==
    ASSUME NEW in \in Inputs, ValidSignature(in)
    PROVE  EcdsaVerify(in)
<1> DEFINE p == FinalPoint(in)
           x == XCoord[p]
<1>1. /\ Nonzero(in.r) /\ Nonzero(in.s) /\ in.d # 0
      /\ p # Infinity /\ ReduceX(x).x = in.r
  BY ValidMeansFinal
<1>2. x \in Int /\ 0 <= x /\ x < W
  BY <1>1, FinalPointIsSum, CoordinateTypes
<1>3. EcdsaVerify(in) <=> MatchesR(x, in.r)
  BY <1>1, FinalPointIsSum, Zenon DEF EcdsaVerify
<1> HIDE DEF p, x
<1>4. MatchesR(x, in.r)
  <2>1. N \in Nat /\ W \in Nat \ {0} /\ N < W
    BY InputTypes
  <2>2. CASE x >= N
    <3>1. in.r = x - N
      BY <1>1, <2>2 DEF ReduceX
    <3>2. x - N \in 0 .. W - 1
      BY <1>2, <2>1, <2>2
    <3>3. (0 * W + (x - N)) % W = x - N /\ 0 * W + (x - N) = x - N
      BY <2>1, <3>2, UniqueDivision
    <3>4. QED
      BY <3>1, <3>3 DEF MatchesR
  <2>3. CASE ~(x >= N)
    BY <1>1, <2>3 DEF ReduceX, MatchesR
  <2>4. QED
    BY <2>2, <2>3
<1>5. QED
  BY <1>3, <1>4
-----------------------------------------------------------------------------
(* The builder on its way: what is settled at each phase.                  *)

AfterSetup == {"lattice", "key", "tables", "chain", "steps", "lsb", "chained", "rows",
               "final", "add", "count", "built", "probed"}
AfterHints == AfterSetup \ {"lattice"}
AfterKey == AfterHints \ {"key"}
AfterTables == AfterKey \ {"tables"}
AfterChains == {"rows", "final", "add", "count", "built"}
AfterCheck == {"add", "count", "built"}

(* The scalars are the ones ECDSA multiplies with. *)
ScalarsSet ==
    phase \in AfterSetup =>
        /\ Nonzero(input.r) /\ Nonzero(input.s)
        /\ setup.u[1] = (ReduceDigest(input.z) * InverseOf[input.s]) % N
        /\ setup.u[2] = (input.r * InverseOf[input.s]) % N

BitsSet ==
    /\ phase \in AfterHints => DOMAIN hints = {1, 2}
    /\ \A c \in DOMAIN hints : hints[c].bit \in {0, 1}

KeySet == phase \in AfterKey => input.d # 0

(* Only a probe has a table from another hint point, and no probe goes on. *)
TablesSet ==
    /\ phase \in AfterTables /\ verdict # "probe" =>
          \A c \in Certs : Active(c) => tables[c].r = HintPoint(c)
    /\ phase \in AfterChains => verdict # "probe"

(* From the final check on the signature is valid, and the two hints the final
   addition gets have a finite sum. *)
FinalSet ==
    phase \in AfterCheck =>
        /\ ValidSignature(input)
        /\ \A c \in Certs : final.h[c] \in 0 .. N - 1 /\ (Active(c) \/ final.h[c] = Infinity)
        /\ AddPoints(final.h[1], final.h[2]) # Infinity

FinalShaped == "h" \in DOMAIN final

RefusedSet ==
    phase = "refused" /\ ValidSignature(input) => verdict = "ProjectiveOutputMismatch"

ClaimInv == ScalarsSet /\ BitsSet /\ KeySet /\ TablesSet /\ FinalSet /\ FinalShaped /\ RefusedSet

(* A step that leaves scalars, hints, tables and the final check alone, and
   reaches no phase whose facts are not settled, keeps all of it. *)
LEMMA PassingStep ==
    ASSUME ClaimInv, UNCHANGED <<input, setup, hints, tables, final, verdict>>,
           phase' \in AfterSetup => phase \in AfterSetup,
           phase' \in AfterHints => phase \in AfterHints,
           phase' \in AfterKey => phase \in AfterKey,
           phase' \in AfterTables => phase \in AfterTables,
           phase' \in AfterChains => phase \in AfterChains \/ verdict # "probe",
           phase' \in AfterCheck => phase \in AfterCheck,
           phase' = "refused" => phase = "refused"
    PROVE  ClaimInv'
<1>1. ScalarsSet'
  BY DEF ClaimInv, ScalarsSet
<1>2. BitsSet'
  BY DEF ClaimInv, BitsSet
<1>3. KeySet'
  BY DEF ClaimInv, KeySet
<1>4. TablesSet'
  BY DEF ClaimInv, TablesSet, Active, HintPoint, BaseOf
<1>5. FinalSet' /\ FinalShaped'
  BY DEF ClaimInv, FinalSet, FinalShaped, Active
<1>6. RefusedSet'
  BY DEF ClaimInv, RefusedSet
<1>7. QED
  BY <1>1, <1>2, <1>3, <1>4, <1>5, <1>6 DEF ClaimInv

(* A refusal is right when the signature is not valid. *)
LEMMA RefusingStep ==
    ASSUME ClaimInv, NEW err, Refuse(err),
           ValidSignature(input) => err = "ProjectiveOutputMismatch"
    PROVE  ClaimInv'
<1>1. /\ phase' = "refused" /\ verdict' = err
      /\ UNCHANGED <<input, setup, hints, tables, final>>
  BY DEF Refuse
<1>2. /\ "refused" \notin AfterSetup /\ "refused" \notin AfterHints
      /\ "refused" \notin AfterKey /\ "refused" \notin AfterTables
      /\ "refused" \notin AfterChains /\ "refused" \notin AfterCheck
  BY DEF AfterSetup, AfterHints, AfterKey, AfterTables, AfterChains, AfterCheck
<1>3. ScalarsSet' /\ BitsSet' /\ KeySet' /\ TablesSet' /\ FinalSet' /\ FinalShaped'
  BY <1>1, <1>2 DEF ClaimInv, ScalarsSet, BitsSet, KeySet, TablesSet, FinalSet, FinalShaped
<1>4. RefusedSet'
  BY <1>1 DEF RefusedSet
<1>5. QED
  BY <1>3, <1>4 DEF ClaimInv

LEMMA InitClaimInv == Init => ClaimInv
<1> SUFFICES ASSUME Init PROVE ClaimInv
  OBVIOUS
<1>1. phase \in {"native", "setup"} /\ hints = <<>>
  BY DEF Init
<1>2. /\ phase \notin AfterSetup /\ phase \notin AfterHints
      /\ phase \notin AfterKey /\ phase \notin AfterTables
      /\ phase \notin AfterChains /\ phase \notin AfterCheck /\ phase # "refused"
  BY <1>1 DEF AfterSetup, AfterHints, AfterKey, AfterTables, AfterChains, AfterCheck
<1>3. FinalShaped
  BY DEF Init, FinalShaped
<1>4. QED
  BY <1>1, <1>2, <1>3
     DEF ClaimInv, ScalarsSet, BitsSet, KeySet, TablesSet, FinalSet, RefusedSet

-----------------------------------------------------------------------------
(* One lemma for each step that settles something, or may refuse.          *)

LEMMA NativeClaim ==
    ASSUME HintInv, ClaimInv, NativeVerify
    PROVE  ClaimInv'
<1>1. CASE EcdsaVerify(input)
  <2>1. phase' = "setup" /\ UNCHANGED <<input, setup, hints, tables, final, verdict>>
    BY <1>1 DEF NativeVerify
  <2>2. QED
    BY <2>1, PassingStep
       DEF AfterSetup, AfterHints, AfterKey, AfterTables, AfterChains, AfterCheck
<1>2. CASE ~EcdsaVerify(input)
  <2>1. Refuse("SignatureInvalid")
    BY <1>2 DEF NativeVerify
  <2>2. ~ValidSignature(input)
    BY <1>2, ValidIsVerified DEF HintInv
  <2>3. QED
    BY <2>1, <2>2, RefusingStep
<1>3. QED
  BY <1>1, <1>2

LEMMA SetupClaim ==
    ASSUME HintInv, ClaimInv, SetupScalars
    PROVE  ClaimInv'
<1>0. input \in Inputs /\ input.r \in Int /\ input.s \in Int /\ 0 <= input.r /\ 0 <= input.s
  BY InputTypes DEF HintInv
<1>1. CASE SetupVerdict(input) # "ok"
  <2>1. Refuse(SetupVerdict(input))
    BY <1>1 DEF SetupScalars
  <2>2. ~ValidSignature(input)
    BY <1>1, OrderFacts, InputTypes, <1>0 DEF SetupVerdict, ValidSignature, Nonzero
  <2>3. QED
    BY <2>1, <2>2, RefusingStep
<1>2. CASE SetupVerdict(input) = "ok"
  <2>1. Nonzero(input.r) /\ Nonzero(input.s)
    BY <1>0, <1>2, OrderFacts DEF SetupVerdict, Nonzero
  <2> DEFINE u1 == (ReduceDigest(input.z) * InverseOf[input.s]) % N
             u2 == (input.r * InverseOf[input.s]) % N
  <2>2. /\ phase' = "lattice" /\ setup'.u = <<u1, u2>>
        /\ UNCHANGED <<input, hints, tables, final, verdict>>
    BY <1>2 DEF SetupScalars
  <2>3. setup'.u[1] = u1 /\ setup'.u[2] = u2
    BY <2>2
  <2>4. ScalarsSet'
    BY <2>1, <2>2, <2>3, Zenon DEF ScalarsSet
  <2>5. BitsSet' /\ KeySet' /\ TablesSet' /\ FinalSet' /\ FinalShaped' /\ RefusedSet'
    BY <2>2 DEF ClaimInv, BitsSet, KeySet, TablesSet, FinalSet, FinalShaped, RefusedSet,
                AfterHints, AfterKey, AfterTables, AfterChains, AfterCheck
  <2>6. QED
    BY <2>4, <2>5 DEF ClaimInv
<1>3. QED
  BY <1>1, <1>2

(* The sign bit of a hint. *)
LEMMA HintBit == HintNow.bit \in {0, 1}
<1>1. ZeroHint.bit = 0 /\ NoHint.bit = 0
  BY DEF ZeroHint, NoHint
<1>2. ASSUME NEW k, NEW a, NEW b PROVE HintCandidate(k, a, b).bit \in {0, 1}
  BY DEF HintCandidate
<1>3. ASSUME NEW k, NEW row PROVE HintOf(k, row).bit \in {0, 1}
  <2> DEFINE h == IF row.rem < 0 THEN HintCandidate(k, -row.rem, row.t)
                  ELSE HintCandidate(k, row.rem, -row.t)
  <2>1. h.bit \in {0, 1}
    BY <1>2
  <2>2. HintOf(k, row) = IF HintFits(h) THEN h ELSE NoHint
    BY DEF HintOf
  <2> HIDE DEF h
  <2>3. QED
    BY <1>1, <2>1, <2>2
<1>4. QED
  BY <1>1, <1>3 DEF HintNow

LEMMA FinishHintClaim ==
    ASSUME HintInv, HintInv', ClaimInv, FinishHint
    PROVE  ClaimInv'
<1> DEFINE h == HintNow
<1>1. h # NoHint
  <2>1. CASE h = NoHint
    <3>1. Refuse("UnboundedHint")
      BY <2>1 DEF FinishHint
    <3>2. QED
      BY <3>1 DEF Refuse, HintInv
  <2>2. QED
    BY <2>1
<1>2. /\ phase = "lattice" /\ hints' = Append(hints, h)
      /\ IF cert = 1 THEN phase' = phase ELSE phase' = "key"
      /\ UNCHANGED <<input, setup, tables, final, verdict>>
  BY <1>1 DEF FinishHint
<1>3. h.bit \in {0, 1}
  BY HintBit
<1> HIDE DEF h
<1>4. /\ \A c \in DOMAIN hints' : hints'[c].bit \in {0, 1}
      /\ cert # 1 => DOMAIN hints' = {1, 2}
  <2>1. CASE cert = 1
    <3>1. hints = <<>>
      BY <1>2, <2>1 DEF HintInv, Lattice
    <3>2. hints' = <<h>>
      BY <1>2, <3>1
    <3>3. QED
      BY <1>3, <2>1, <3>2
  <2>2. CASE cert # 1
    <3> DEFINE a == hints[1]
    <3>1. hints = <<a>>
      BY <1>2, <2>2 DEF HintInv, Lattice
    <3>2. a.bit \in {0, 1}
      <4>1. 1 \in DOMAIN hints
        BY <3>1
      <4>2. QED
        BY <4>1 DEF ClaimInv, BitsSet
    <3>3. hints' = Append(<<a>>, h)
      BY <1>2, <3>1
    <3> HIDE DEF a
    <3>4. DOMAIN hints' = {1, 2} /\ hints'[1] = a /\ hints'[2] = h
      BY <3>3, AppendSecond
    <3>5. QED
      BY <1>3, <3>2, <3>4
  <2>3. QED
    BY <2>1, <2>2
<1>5. phase' \in {"lattice", "key"} /\ (phase' = "key" => cert # 1)
  BY <1>2
<1>6. BitsSet'
  BY <1>4, <1>5 DEF BitsSet, AfterHints
<1>7. ScalarsSet'
  <2>1. phase \in AfterSetup
    BY <1>2 DEF AfterSetup
  <2>2. QED
    BY <1>2, <2>1 DEF ClaimInv, ScalarsSet
<1>8. KeySet' /\ TablesSet' /\ FinalSet' /\ FinalShaped' /\ RefusedSet'
  BY <1>2, <1>5 DEF ClaimInv, KeySet, TablesSet, FinalSet, FinalShaped, RefusedSet,
              AfterHints, AfterKey, AfterTables, AfterChains, AfterCheck
<1>9. QED
  BY <1>6, <1>7, <1>8 DEF ClaimInv

LEMMA KeyClaim ==
    ASSUME ClaimInv, CheckKey
    PROVE  ClaimInv'
<1>1. CASE input.d = 0
  <2>1. Refuse("PointOffCurve") /\ ~ValidSignature(input)
    BY <1>1 DEF CheckKey, ValidSignature
  <2>2. QED
    BY <2>1, RefusingStep
<1>2. CASE input.d # 0
  <2>1. /\ phase = "key" /\ phase' = "tables"
        /\ UNCHANGED <<input, setup, hints, tables, final, verdict>>
    BY <1>2 DEF CheckKey
  <2>2. phase \in AfterSetup /\ phase \in AfterHints
    BY <2>1 DEF AfterSetup, AfterHints
  <2>3. ScalarsSet' /\ BitsSet'
    BY <2>1, <2>2 DEF ClaimInv, ScalarsSet, BitsSet
  <2>4. KeySet' /\ TablesSet' /\ FinalSet' /\ FinalShaped' /\ RefusedSet'
    BY <1>2, <2>1 DEF ClaimInv, KeySet, TablesSet, FinalSet, FinalShaped, RefusedSet,
                AfterHints, AfterKey, AfterTables, AfterChains, AfterCheck
  <2>5. QED
    BY <2>3, <2>4 DEF ClaimInv
<1>3. QED
  BY <1>1, <1>2

LEMMA TablesClaim ==
    ASSUME ClaimInv, BuildTables
    PROVE  ClaimInv'
<1>1. /\ phase = "tables" /\ phase' = "chain"
      /\ tables' = [c \in Certs |-> TableFor(c, HintPoint(c))]
      /\ UNCHANGED <<input, setup, hints, final, verdict>>
  BY DEF BuildTables
<1>2. ScalarsSet' /\ BitsSet' /\ KeySet'
  <2>1. phase \in AfterSetup /\ phase \in AfterHints /\ phase \in AfterKey
    BY <1>1 DEF AfterSetup, AfterHints, AfterKey
  <2>2. QED
    BY <1>1, <2>1 DEF ClaimInv, ScalarsSet, BitsSet, KeySet
<1>3. FinalSet' /\ FinalShaped' /\ RefusedSet'
  BY <1>1 DEF ClaimInv, FinalSet, FinalShaped, RefusedSet, AfterCheck
<1>4. ASSUME NEW c \in Certs, Active(c)
      PROVE  tables'[c].r = HintPoint(c)
  <2>1. tables'[c] = TableOf(BaseOf(c), HintPoint(c), Selectors(c))
    BY <1>1, <1>4 DEF TableFor
  <2> HIDE DEF HintPoint, BaseOf, Selectors
  <2>2. QED
    BY <2>1 DEF TableOf
<1>5. \A c \in Certs : Active(c)' = Active(c) /\ HintPoint(c)' = HintPoint(c)
  BY <1>1 DEF Active, HintPoint, BaseOf
<1>6. TablesSet'
  BY <1>1, <1>4, <1>5 DEF TablesSet, AfterChains
<1>7. QED
  BY <1>2, <1>3, <1>6 DEF ClaimInv

LEMMA ProbeClaim ==
    ASSUME ClaimInv, BuildTablesFrom
    PROVE  ClaimInv'
<1>1. /\ phase = "tables" /\ phase' = "chain" /\ verdict' = "probe"
      /\ UNCHANGED <<input, setup, hints, final>>
  BY DEF BuildTablesFrom
<1>2. ScalarsSet' /\ BitsSet' /\ KeySet'
  <2>1. phase \in AfterSetup /\ phase \in AfterHints /\ phase \in AfterKey
    BY <1>1 DEF AfterSetup, AfterHints, AfterKey
  <2>2. QED
    BY <1>1, <2>1 DEF ClaimInv, ScalarsSet, BitsSet, KeySet
<1>3. TablesSet' /\ FinalSet' /\ FinalShaped' /\ RefusedSet'
  BY <1>1 DEF ClaimInv, TablesSet, FinalSet, FinalShaped, RefusedSet, AfterChains, AfterCheck
<1>4. QED
  BY <1>2, <1>3 DEF ClaimInv

LEMMA ProjectClaim ==
    ASSUME ClaimInv, ProjectRows
    PROVE  ClaimInv'
<1> DEFINE stuck == \E i \in DOMAIN EcRows : ~RowReproduced(EcRows[i])
<1>1. /\ phase = "rows"
      /\ IF stuck THEN Refuse("ProjectiveOutputMismatch")
         ELSE phase' = "final" /\ UNCHANGED <<input, setup, hints, tables, final, verdict>>
  BY DEF ProjectRows
<1> HIDE DEF stuck
<1>2. CASE stuck
  BY <1>1, <1>2, RefusingStep
<1>3. CASE ~stuck
  BY <1>1, <1>3, PassingStep
     DEF AfterSetup, AfterHints, AfterKey, AfterTables, AfterChains, AfterCheck
<1>4. QED
  BY <1>2, <1>3

(* The hint of a certificate with its sign undone is its scalar's multiple. *)
LEMMA UndoneHint ==
    ASSUME HintInv, ClaimInv, phase = "final", NEW c \in Certs
    PROVE  /\ Times(setup.u[c], BaseOf(c)) \in 0 .. N - 1
           /\ Active(c) => OrientedHint(tables[c].r, hints[c].bit) = Times(setup.u[c], BaseOf(c))
           /\ ~Active(c) => Times(setup.u[c], BaseOf(c)) = Infinity
<1> DEFINE p == Times(setup.u[c], BaseOf(c))
           bit == hints[c].bit
<1>1. input.d \in Int
  BY InputTypes DEF HintInv
<1>2. BaseOf(c) \in Int /\ setup.u[c] \in Int
  BY <1>1 DEF BaseOf, HintInv, Scalars, Certs
<1>3. p \in 0 .. N - 1
  BY <1>2, PointTypes
<1>4. phase \in AfterTables /\ phase \in AfterHints /\ phase \in AfterChains
  BY DEF AfterTables, AfterKey, AfterHints, AfterSetup, AfterChains
<1>5. Active(c) => tables[c].r = HintPoint(c)
  BY <1>4 DEF ClaimInv, TablesSet
<1>6. HintPoint(c) = OrientedHint(p, bit)
  BY DEF HintPoint
<1> HIDE DEF p
<1>7. OrientedHint(OrientedHint(p, bit), bit) = p
  BY <1>3, NegateTwice DEF OrientedHint
<1>8. ~Active(c) => p = Infinity
  <2>1. ASSUME setup.u[c] = 0 PROVE p = Infinity
    <3>1. 0 * BaseOf(c) = 0
      BY <1>2
    <3>2. 0 \in 0 .. N - 1
      BY OrderFacts
    <3>3. QED
      BY <2>1, <3>1, <3>2, SmallRemainder DEF Times, Infinity, p
  <2>2. QED
    BY <2>1 DEF Active
<1>9. QED
  BY <1>3, <1>5, <1>6, <1>7, <1>8 DEF p

LEMMA FinalCheckClaim ==
    ASSUME HintInv, ClaimInv, FinalCheck
    PROVE  ClaimInv'
<1> DEFINE h == [c \in Certs |-> IF Active(c) THEN OrientedHint(tables[c].r, hints[c].bit)
                                ELSE Infinity]
           r == AddPoints(h[1], h[2])
           x == ReduceX(XCoord[r]).x
<1>1. /\ phase = "final"
      /\ IF r = Infinity THEN Refuse("InfinityFinalR")
         ELSE IF x # input.r THEN Refuse("SignatureRMismatch")
         ELSE /\ final' = [final EXCEPT !.h = h, !.r = r, !.rx = XCoord[r],
                                        !.ge = ReduceX(XCoord[r]).ge]
              /\ phase' = "add" /\ UNCHANGED <<input, setup, hints, tables, verdict>>
  BY DEF FinalCheck
<1>2. \A c \in Certs : /\ h[c] = Times(setup.u[c], BaseOf(c)) /\ h[c] \in 0 .. N - 1
                       /\ Active(c) \/ h[c] = Infinity
  BY <1>1, UndoneHint
<1>3. input \in Inputs
  BY DEF HintInv
<1>4. /\ Nonzero(input.r) /\ Nonzero(input.s) /\ input.d # 0
      /\ setup.u[1] = (ReduceDigest(input.z) * InverseOf[input.s]) % N
      /\ setup.u[2] = (input.r * InverseOf[input.s]) % N
  <2>1. phase \in AfterSetup /\ phase \in AfterKey
    BY <1>1 DEF AfterSetup, AfterHints, AfterKey
  <2>2. QED
    BY <2>1 DEF ClaimInv, ScalarsSet, KeySet
<1>5. r = FinalPoint(input)
  <2>1. /\ h[1] = Times(setup.u[1], 1) /\ h[2] = Times(setup.u[2], input.d)
    BY <1>2 DEF Certs, BaseOf
  <2> HIDE DEF h
  <2>2. QED
    BY <1>4, <2>1 DEF FinalPoint
<1>6. ValidSignature(input) <=> (r # Infinity /\ x = input.r)
  <2>1. ValidSignature(input) <=> /\ FinalPoint(input) # Infinity
                                  /\ ReduceX(XCoord[FinalPoint(input)]).x = input.r
    BY <1>3, <1>4, ValidMeansFinal
  <2> DEFINE p == FinalPoint(input)
  <2>2. ReduceX(XCoord[p]).x = input.r <=> x = input.r
    BY <1>5
  <2> HIDE DEF r, x
  <2>3. QED
    BY <1>5, <2>1, <2>2
<1> HIDE DEF x
<1>7. CASE r = Infinity
  BY <1>1, <1>6, <1>7, RefusingStep
<1>8. CASE r # Infinity /\ x # input.r
  BY <1>1, <1>6, <1>8, RefusingStep
<1>9. CASE r # Infinity /\ x = input.r
  <2>1. /\ final'.h = h /\ phase' = "add" /\ UNCHANGED <<input, setup, hints, tables, verdict>>
    <3>1. "h" \in DOMAIN final
      BY DEF ClaimInv, FinalShaped
    <3> HIDE DEF h, r
    <3>2. QED
      BY <1>1, <1>9, <3>1
  <2>2. FinalSet'
    <3> HIDE DEF h
    <3>1. \A c \in Certs : Active(c)' = Active(c)
      BY <2>1 DEF Active
    <3>2. ValidSignature(input) /\ AddPoints(h[1], h[2]) # Infinity
      BY <1>6, <1>9
    <3>3. QED
      BY <1>2, <2>1, <3>1, <3>2 DEF FinalSet
  <2>3. ScalarsSet' /\ BitsSet' /\ KeySet'
    <3>1. phase \in AfterSetup /\ phase \in AfterHints /\ phase \in AfterKey
      BY <1>1 DEF AfterSetup, AfterHints, AfterKey
    <3>2. QED
      BY <2>1, <3>1 DEF ClaimInv, ScalarsSet, BitsSet, KeySet
  <2>4. TablesSet'
    <3>1. phase \in AfterTables /\ phase \in AfterChains
      BY <1>1 DEF AfterSetup, AfterHints, AfterKey, AfterTables, AfterChains
    <3>2. \A c \in Certs : Active(c)' = Active(c) /\ HintPoint(c)' = HintPoint(c)
      BY <2>1 DEF Active, HintPoint, BaseOf
    <3>3. QED
      BY <2>1, <3>1, <3>2 DEF ClaimInv, TablesSet
  <2>5. RefusedSet' /\ FinalShaped'
    <3>1. DOMAIN final' = DOMAIN final
      <4> HIDE DEF h, r
      <4>1. QED
        BY <1>1, <1>9
    <3>2. QED
      BY <2>1, <3>1 DEF ClaimInv, RefusedSet, FinalShaped
  <2>6. QED
    BY <2>2, <2>3, <2>4, <2>5 DEF ClaimInv
<1>10. QED
  BY <1>7, <1>8, <1>9

(* Undoing the signs of the hints leaves two points whose sum is finite exactly
   when the sum of the hints is: both keep their sign or both lose it. *)
LEMMA AddendsFinite ==
    ASSUME NEW a \in 0 .. N - 1, NEW b \in 0 .. N - 1, AddPoints(a, b) # Infinity,
           NEW x, NEW y, (x = a /\ y = b) \/ (x = Negate(a) /\ y = Negate(b))
    PROVE  FinalAddBranch(x, y) \notin {"BothInfinity", "InverseAdd"}
<1>1. ~(a = Infinity /\ b = Infinity)
  <2>1. ASSUME a = Infinity, b = Infinity PROVE AddPoints(a, b) = Infinity
    <3>1. 0 \in 0 .. N - 1 /\ 0 + 0 = 0
      BY OrderFacts
    <3>2. QED
      BY <2>1, <3>1, SmallRemainder DEF AddPoints, Infinity
  <2>2. QED
    BY <2>1
<1>2. a # Negate(b) /\ Negate(a) # b
  BY NegateAndSum
<1>3. CASE x = a /\ y = b
  BY <1>1, <1>2, <1>3 DEF FinalAddBranch
<1>4. CASE x = Negate(a) /\ y = Negate(b)
  <2>1. ~(x = Infinity /\ y = Infinity)
    BY <1>1, <1>4, NegateAndSum
  <2>2. x # Negate(y)
    <3>1. Negate(y) = b
      BY <1>4, NegateTwice
    <3>2. QED
      BY <1>2, <1>4, <3>1
  <2>3. QED
    BY <2>1, <2>2 DEF FinalAddBranch
<1>5. QED
  BY <1>3, <1>4

LEMMA FinalAddClaim ==
    ASSUME HintInv, ClaimInv, FinalAdd
    PROVE  ClaimInv'
<1> DEFINE a == final.h[1]
           b == final.h[2]
<1>1. phase = "add"
  BY DEF FinalAdd
<1>2. /\ a \in 0 .. N - 1 /\ b \in 0 .. N - 1 /\ AddPoints(a, b) # Infinity
  <2>1. /\ \A c \in Certs : final.h[c] \in 0 .. N - 1
        /\ AddPoints(final.h[1], final.h[2]) # Infinity
    BY <1>1 DEF ClaimInv, FinalSet, AfterCheck
  <2>2. QED
    BY <2>1, Zenon DEF Certs
<1>3. SignBit(1) \in {0, 1} /\ SignBit(2) \in {0, 1}
  <2>1. DOMAIN hints = {1, 2}
    BY <1>1 DEF ClaimInv, BitsSet, AfterHints, AfterSetup
  <2>2. QED
    BY <2>1 DEF ClaimInv, BitsSet, SignBit
<1> DEFINE x == OrientedHint(a, SignBit(1))
           y == OrientedHint(b, SignBit(2))
           z == IF SignBit(1) # SignBit(2) THEN Negate(y) ELSE y
<1>4. Addends[1] = x /\ Addends[2] = z
  BY DEF Addends, Certs
<1>5. (x = a /\ z = b) \/ (x = Negate(a) /\ z = Negate(b))
  <2>1. Negate(Negate(b)) = b
    BY <1>2, NegateTwice
  <2> HIDE DEF a, b
  <2>2. QED
    BY <1>3, <2>1 DEF OrientedHint
<1> HIDE DEF x, z
<1>6. FinalAddBranch(Addends[1], Addends[2]) \notin {"BothInfinity", "InverseAdd"}
  <2> HIDE DEF a, b
  <2>1. FinalAddBranch(x, z) \notin {"BothInfinity", "InverseAdd"}
    BY <1>2, <1>5, AddendsFinite
  <2>2. QED
    BY <1>4, <2>1
<1> DEFINE x3 == FinalAddX(Addends[1], Addends[2])
<1>7. /\ final' = [final EXCEPT !.x3 = x3] /\ phase' = "count"
      /\ UNCHANGED <<input, setup, hints, tables, verdict>>
  BY <1>6 DEF FinalAdd
<1> HIDE DEF x3
<1>8. final'.h = final.h
  <2>1. "h" \in DOMAIN final
    BY DEF ClaimInv, FinalShaped
  <2>2. QED
    BY <1>7, <2>1
<1>9. /\ phase \in AfterSetup /\ phase \in AfterHints /\ phase \in AfterKey
      /\ phase \in AfterTables /\ phase \in AfterChains /\ phase \in AfterCheck
  BY <1>1 DEF AfterSetup, AfterHints, AfterKey, AfterTables, AfterChains, AfterCheck
<1>10. ScalarsSet' /\ BitsSet' /\ KeySet'
  BY <1>7, <1>9 DEF ClaimInv, ScalarsSet, BitsSet, KeySet
<1>11. \A c \in Certs : Active(c)' = Active(c) /\ HintPoint(c)' = HintPoint(c)
  BY <1>7 DEF Active, HintPoint, BaseOf
<1>12. TablesSet'
  BY <1>7, <1>9, <1>11 DEF ClaimInv, TablesSet
<1>13. FinalSet'
  BY <1>7, <1>8, <1>9, <1>11 DEF ClaimInv, FinalSet
<1>14. RefusedSet' /\ FinalShaped'
  BY <1>7 DEF ClaimInv, RefusedSet, FinalShaped
<1>15. QED
  BY <1>10, <1>12, <1>13, <1>14 DEF ClaimInv

(* A table point is drawn at most once by each of C steps, once by the first row
   of the chain and once by the correction. *)
LEMMA UsesFit ==
    ASSUME NEW sel, NEW i \in 0 .. 7
    PROVE  UseCounts(sel)[i] \in Nat /\ UseCounts(sel)[i] <= MaxUse
<1> DEFINE drawn == {j \in 0 .. C - 1 : Decode(sel.at[j]).index = i}
<1>0. C \in Nat /\ C # 0
  <2> HIDE DEF Root, HalfBound
  <2>1. QED
    BY OrderAssumption
<1>1. IsFiniteSet(0 .. C - 1) /\ Cardinality(0 .. C - 1) = C
  <2>1. 0 \in Int /\ C - 1 \in Int /\ ~(0 > C - 1) /\ (C - 1) - 0 + 1 = C
    BY <1>0
  <2>2. QED
    BY <2>1, FS_Interval
<1>2. drawn \subseteq 0 .. C - 1
  OBVIOUS
<1> DEFINE n == Cardinality(drawn)
<1>3. n \in Nat /\ n <= C
  <2> HIDE DEF drawn
  <2>1. IsFiniteSet(drawn) /\ Cardinality(drawn) <= Cardinality(0 .. C - 1)
    BY <1>1, <1>2, FS_Subset
  <2>2. QED
    BY <1>1, <2>1, FS_CardinalityType
<1> DEFINE first == IF sel.init = i THEN 1 ELSE 0
           fix == IF sel.lsb = <<0, 0>> /\ i = 2 THEN 1 ELSE 0
<1>4. UseCounts(sel)[i] = first + fix + n
  BY DEF UseCounts
<1>5. first \in {0, 1} /\ fix \in {0, 1}
  OBVIOUS
<1> HIDE DEF n, first, fix
<1>6. QED
  BY <1>0, <1>3, <1>4, <1>5, WordFacts

LEMMA CountClaim ==
    ASSUME ClaimInv, CountUses
    PROVE  ClaimInv'
<1>1. ~(\E c \in Certs : Active(c) /\ \E i \in 0 .. 7 : UseCounts(Selectors(c))[i] > MaxUse)
  <2>1. ASSUME NEW c \in Certs, NEW i \in 0 .. 7
        PROVE  ~(UseCounts(Selectors(c))[i] > MaxUse)
    <3> DEFINE n == UseCounts(Selectors(c))[i]
    <3>1. n \in Nat /\ n <= MaxUse
      BY UsesFit
    <3> HIDE DEF n
    <3>2. ~(n > MaxUse)
      BY <3>1, WordFacts
    <3>3. QED
      BY <3>2 DEF n
  <2>2. QED
    BY <2>1
<1>2. /\ phase = "count" /\ phase' = "built" /\ verdict' = "ok"
      /\ UNCHANGED <<input, setup, hints, tables, final>>
  BY <1>1 DEF CountUses
<1>3. /\ phase \in AfterSetup /\ phase \in AfterHints /\ phase \in AfterKey
      /\ phase \in AfterTables /\ phase \in AfterChains /\ phase \in AfterCheck
  BY <1>2 DEF AfterSetup, AfterHints, AfterKey, AfterTables, AfterChains, AfterCheck
<1>4. \A c \in Certs : Active(c)' = Active(c) /\ HintPoint(c)' = HintPoint(c)
  BY <1>2 DEF Active, HintPoint, BaseOf
<1>5. ScalarsSet' /\ BitsSet' /\ KeySet'
  BY <1>2, <1>3 DEF ClaimInv, ScalarsSet, BitsSet, KeySet
<1>6. TablesSet'
  BY <1>2, <1>3, <1>4 DEF ClaimInv, TablesSet
<1>7. FinalSet' /\ FinalShaped' /\ RefusedSet'
  BY <1>2, <1>3, <1>4 DEF ClaimInv, FinalSet, FinalShaped, RefusedSet
<1>8. QED
  BY <1>5, <1>6, <1>7 DEF ClaimInv

LEMMA NextClaimInv == HintInv /\ HintInv' /\ ClaimInv /\ [Next]_vars => ClaimInv'
<1> SUFFICES ASSUME HintInv, HintInv', ClaimInv, [Next]_vars PROVE ClaimInv'
  OBVIOUS
<1>1. CASE NativeVerify
  BY <1>1, NativeClaim
<1>2. CASE SetupScalars
  BY <1>2, SetupClaim
<1>3. CASE LatticeStep
  <2>1. phase' = phase /\ UNCHANGED <<input, setup, hints, tables, final, verdict>>
    BY <1>3 DEF LatticeStep
  <2>2. QED
    BY <2>1, PassingStep
<1>4. CASE FinishHint
  BY <1>4, FinishHintClaim
<1>5. CASE CheckKey
  BY <1>5, KeyClaim
<1>6. CASE BuildTables
  BY <1>6, TablesClaim
<1>7. CASE BuildTablesFrom
  BY <1>7, ProbeClaim
<1>8. CASE MsbInit
  <2>1. phase = "chain" /\ phase' = "steps" /\ UNCHANGED <<input, setup, hints, tables, final, verdict>>
    BY <1>8, Zenon DEF MsbInit
  <2>2. QED
    BY <2>1, PassingStep
       DEF AfterSetup, AfterHints, AfterKey, AfterTables, AfterChains, AfterCheck
<1>9. CASE ChainStep
  <2>1. phase' = phase /\ UNCHANGED <<input, setup, hints, tables, final, verdict>>
    BY <1>9, Zenon DEF ChainStep, Push
  <2>2. QED
    BY <2>1, PassingStep
<1>10. CASE Table16Step
  <2>1. phase = "steps" /\ phase' = "lsb" /\ UNCHANGED <<input, setup, hints, tables, final, verdict>>
    BY <1>10, Zenon DEF Table16Step, Push
  <2>2. QED
    BY <2>1, PassingStep
       DEF AfterSetup, AfterHints, AfterKey, AfterTables, AfterChains, AfterCheck
<1>11. CASE LsbCorrection
  <2>1. phase = "lsb" /\ phase' = "chained" /\ UNCHANGED <<input, setup, hints, tables, final, verdict>>
    BY <1>11, Zenon DEF LsbCorrection, Push
  <2>2. QED
    BY <2>1, PassingStep
       DEF AfterSetup, AfterHints, AfterKey, AfterTables, AfterChains, AfterCheck
<1>12. CASE NextChain
  <2>1. /\ phase \in {"chain", "chained"}
        /\ phase' = IF cert = 1 THEN "chain" ELSE IF verdict = "probe" THEN "probed" ELSE "rows"
        /\ UNCHANGED <<input, setup, hints, tables, final, verdict>>
    BY <1>12 DEF NextChain
  <2>2. phase' \in {"chain", "probed", "rows"} /\ (phase' = "rows" => verdict # "probe")
    BY <2>1
  <2>3. QED
    BY <2>1, <2>2, PassingStep
       DEF AfterSetup, AfterHints, AfterKey, AfterTables, AfterChains, AfterCheck
<1>13. CASE ProjectRows
  BY <1>13, ProjectClaim
<1>14. CASE FinalCheck
  BY <1>14, FinalCheckClaim
<1>15. CASE FinalAdd
  BY <1>15, FinalAddClaim
<1>16. CASE CountUses
  BY <1>16, CountClaim
<1>17. CASE Done \/ UNCHANGED vars
  <2>1. phase' = phase /\ UNCHANGED <<input, setup, hints, tables, final, verdict>>
    BY <1>17 DEF Done, vars
  <2>2. QED
    BY <2>1, PassingStep
<1>18. QED
  BY <1>1, <1>2, <1>3, <1>4, <1>5, <1>6, <1>7, <1>8, <1>9, <1>10, <1>11, <1>12,
     <1>13, <1>14, <1>15, <1>16, <1>17 DEF Next

(* ProofClaim::from_inputs and the checks around it: for every group order, every
   input and every scalar, a claim that is built is one of a valid signature, and a
   valid signature is turned away by the comparison of the curve operations or by
   nothing: not by the native verification, the scalars, the half-GCD, the key, the
   final check, the final addition or the use counts. *)
THEOREM BuiltIsValid == Spec => []BuiltOnlyIfValid
<1>1. ClaimInv => BuiltOnlyIfValid
  BY DEF ClaimInv, FinalSet, RefusedSet, BuiltOnlyIfValid, AfterCheck
<1>2. QED
  BY <1>1, InitHintInv, NextHintInv, InitClaimInv, NextClaimInv, PTL DEF Spec
-----------------------------------------------------------------------------
(* The powers of two, and the parts of a half scalar they cut.             *)

NatLess == {ss \in Nat \X Nat : ss[1] < ss[2]}

(* A nonempty set of naturals has a least element. *)
LEMMA LeastElement ==
    ASSUME NEW S \in SUBSET Nat, S # {}
    PROVE  \E x \in S : \A y \in S : ~(y < x)
<1>1. IsWellFoundedOn(NatLess, Nat)
  BY NatLessThanWellFounded DEF OpToRel, NatLess
<1>2. PICK x \in S : \A y \in S : ~(<<y, x>> \in NatLess)
  BY <1>1, WFMin
<1>3. QED
  BY <1>2 DEF NatLess

IsPowers(g, m) == g = [n \in 0 .. m |-> IF n = 0 THEN 1 ELSE 2 * g[n - 1]]

(* The recursive definition has a solution up to every length. *)
LEMMA PowersExist ==
    ASSUME NEW m \in Nat
    PROVE  \E g : IsPowers(g, m)
<1> DEFINE S == {n \in Nat : ~(\E g : IsPowers(g, n))}
<1>1. CASE S # {}
  <2>1. PICK x \in S : \A y \in S : ~(y < x)
    BY <1>1, LeastElement
  <2>2. x # 0
    <3> DEFINE g == [n \in 0 .. 0 |-> 1]
    <3>1. \A n \in 0 .. 0 : n = 0
      OBVIOUS
    <3>2. g = [n \in 0 .. 0 |-> IF n = 0 THEN 1 ELSE 2 * g[n - 1]]
      BY <3>1
    <3>3. IsPowers(g, 0)
      BY <3>2 DEF IsPowers
    <3>4. QED
      BY <3>3
  <2>3. PICK g : IsPowers(g, x - 1)
    BY <2>1, <2>2
  <2> DEFINE h == [n \in 0 .. x |-> IF n = x THEN 2 * g[x - 1] ELSE g[n]]
  <2>4. ASSUME NEW n \in 0 .. x
        PROVE  h[n] = IF n = 0 THEN 1 ELSE 2 * h[n - 1]
    <3>1. CASE n = x
      BY <2>1, <2>2, <3>1
    <3>2. CASE n # x
      <4>1. n \in 0 .. x - 1
        BY <2>1, <3>2
      <4>2. g[n] = IF n = 0 THEN 1 ELSE 2 * g[n - 1]
        BY <2>3, <4>1 DEF IsPowers
      <4>3. n # 0 => n - 1 \in 0 .. x /\ n - 1 # x
        BY <2>1, <4>1
      <4>4. QED
        BY <3>2, <4>2, <4>3
    <3>3. QED
      BY <3>1, <3>2
  <2>5. h = [n \in 0 .. x |-> IF n = 0 THEN 1 ELSE 2 * h[n - 1]]
    BY <2>4
  <2>6. IsPowers(h, x)
    BY <2>5 DEF IsPowers
  <2>7. QED
    BY <2>1, <2>6
<1>2. QED
  BY <1>1

LEMMA ChunksPositive == C \in Nat /\ C # 0
<1> HIDE DEF Root, HalfBound
<1>1. QED
  BY OrderAssumption

LEMMA PowerSteps ==
    /\ TwoTo[0] = 1
    /\ \A n \in 1 .. 2 * C + 2 : TwoTo[n] = 2 * TwoTo[n - 1]
<1> DEFINE m == 2 * C + 2
<1>1. m \in Nat
  BY ChunksPositive
<1>2. IsPowers(TwoTo, m)
  BY <1>1, PowersExist DEF TwoTo, IsPowers
<1> HIDE DEF m
<1>3. \A n \in 0 .. m : TwoTo[n] = IF n = 0 THEN 1 ELSE 2 * TwoTo[n - 1]
  BY <1>2 DEF IsPowers
<1>4. QED
  BY <1>1, <1>3 DEF m

LEMMA PowersPositive ==
    ASSUME NEW n \in 0 .. 2 * C + 2
    PROVE  TwoTo[n] \in Nat \ {0}
<1> DEFINE m == 2 * C + 2
           S == {i \in 0 .. m : TwoTo[i] \notin Nat \ {0}}
<1>0. m \in Nat
  BY ChunksPositive
<1>1. CASE S # {}
  <2>1. PICK x \in S : \A y \in S : ~(y < x)
    <3>1. S \in SUBSET Nat
      BY <1>0
    <3>2. QED
      BY <1>1, <3>1, LeastElement
  <2>2. x # 0
    BY <2>1, PowerSteps
  <2>3. x - 1 \in 0 .. m /\ x \in 1 .. m /\ x - 1 < x
    BY <1>0, <2>1, <2>2
  <2> DEFINE t == TwoTo[x - 1]
  <2>4. t \in Nat \ {0}
    BY <2>1, <2>3
  <2>5. TwoTo[x] = 2 * t
    BY <2>3, PowerSteps
  <2> HIDE DEF t
  <2>6. 2 * t \in Nat \ {0}
    BY <2>4
  <2>7. QED
    BY <2>1, <2>5, <2>6
<1>2. QED
  BY <1>1

(* Dividing by four times as much is dividing the quotient by four. *)
LEMMA DivideAgain ==
    ASSUME NEW v \in Nat, NEW t \in Nat \ {0}
    PROVE  /\ v \div t \in Nat /\ v \div (4 * t) \in Nat
           /\ (v \div t) % 4 \in 0 .. 3
           /\ v \div t = 4 * (v \div (4 * t)) + ((v \div t) % 4)
<1> DEFINE d == v \div t
           e == v % t
<1>1. d \in Int /\ e \in Int /\ v = t * d + e /\ 0 <= e /\ e < t
  BY Division
<1> HIDE DEF d, e
<1> DEFINE f == d \div 4
           c == d % 4
<1>2. f \in Int /\ c \in Int /\ d = 4 * f + c /\ 0 <= c /\ c < 4
  BY <1>1, Division
<1> HIDE DEF f, c
<1> DEFINE rest == c * t + e
<1>3. c \in {0, 1, 2, 3}
  BY <1>2
<1>4. rest \in 0 .. (4 * t) - 1
  BY <1>1, <1>3
<1>5. v = f * (4 * t) + rest
  <2>1. t * d = f * (4 * t) + c * t
    BY <1>2, Z3
  <2> DEFINE a == t * d
             b == f * (4 * t)
             g == c * t
  <2>2. a \in Int /\ b \in Int /\ g \in Int
    BY <1>1, <1>2
  <2> HIDE DEF a, b, g
  <2>3. v = b + (g + e)
    BY <1>1, <2>1, <2>2 DEF a, b, g
  <2>4. QED
    BY <2>3 DEF b, g
<1> DEFINE b == 4 * t
<1>6. b \in Nat \ {0}
  OBVIOUS
<1>7. (f * b + rest) \div b = f
  <2>1. rest \in 0 .. b - 1
    BY <1>4
  <2> HIDE DEF b, rest
  <2>2. QED
    BY <1>2, <1>6, <2>1, UniqueDivision
<1>8. v \div (4 * t) = f
  BY <1>5, <1>7
<1>9. 0 <= d
  <2>1. (-1) * t < d * t
    BY <1>1, Z3
  <2>2. -1 < d
    BY <1>1, <2>1, ProductStrict
  <2>3. QED
    BY <1>1, <2>2
<1>10. 0 <= f
  BY <1>2, <1>9
<1>11. QED
  BY <1>2, <1>8, <1>9, <1>10 DEF d, c, f

(* The bits of v from chunk i up. *)
High(v, i) == v \div TwoTo[2 * i + 1]

LEMMA Chunks ==
    ASSUME NEW v \in Nat, NEW i \in 0 .. C - 1
    PROVE  /\ High(v, i) \in Nat /\ High(v, i + 1) \in Nat
           /\ Chunk(v, i) \in 0 .. 3
           /\ High(v, i) = 4 * High(v, i + 1) + Chunk(v, i)
<1> DEFINE n == 2 * i + 1
           t == TwoTo[n]
<1>1. n \in 0 .. 2 * C + 2 /\ n + 1 \in 1 .. 2 * C + 2 /\ n + 2 \in 1 .. 2 * C + 2
  BY ChunksPositive
<1>2. t \in Nat \ {0}
  BY <1>1, PowersPositive
<1>3. TwoTo[n + 2] = 4 * t
  <2> HIDE DEF n
  <2>1. TwoTo[n + 2] = 2 * TwoTo[n + 1]
    <3>1. (n + 2) - 1 = n + 1
      BY <1>1
    <3>2. QED
      BY <1>1, <3>1, PowerSteps
  <2>2. TwoTo[n + 1] = 2 * TwoTo[n]
    <3>1. (n + 1) - 1 = n
      BY <1>1
    <3>2. QED
      BY <1>1, <3>1, PowerSteps
  <2>3. QED
    BY <1>2, <2>1, <2>2
<1>4. 2 * (i + 1) + 1 = n + 2
  OBVIOUS
<1> HIDE DEF n
<1>5. High(v, i + 1) = v \div (4 * t) /\ High(v, i) = v \div t /\ Chunk(v, i) = (v \div t) % 4
  BY <1>3, <1>4 DEF High, Chunk, n
<1> HIDE DEF t
<1>6. QED
  BY <1>2, <1>5, DivideAgain

(* The highest bit of a half scalar, and the part above its lowest. *)
LEMMA EndBits ==
    ASSUME NEW v \in Nat, v < HalfBound
    PROVE  /\ Msb(v) = High(v, C) /\ Msb(v) \in {0, 1}
           /\ Lsb(v) \in {0, 1} /\ v = 2 * High(v, 0) + Lsb(v)
<1>1. Msb(v) = High(v, C)
  BY DEF Msb, High
<1>2. Msb(v) \in {0, 1}
  <2> DEFINE t == TwoTo[2 * C + 1]
             d == v \div t
             e == v % t
  <2>1. 2 * C + 1 \in 0 .. 2 * C + 2 /\ 2 * C + 2 \in 1 .. 2 * C + 2 /\ (2 * C + 2) - 1 = 2 * C + 1
    BY ChunksPositive
  <2>2. t \in Nat \ {0}
    BY <2>1, PowersPositive
  <2>3. HalfBound = 2 * t
    BY <2>1, PowerSteps DEF HalfBound
  <2> HIDE DEF t
  <2>4. d \in Int /\ e \in Int /\ v = t * d + e /\ 0 <= e /\ e < t
    BY <2>2, Division
  <2> HIDE DEF d, e
  <2>5. d < 2
    <3>1. d * t < 2 * t
      BY <2>2, <2>3, <2>4, Z3
    <3>2. QED
      BY <2>2, <2>4, <3>1, ProductStrict
  <2>6. -1 < d
    <3>1. (-1) * t < d * t
      BY <2>2, <2>4, Z3
    <3>2. QED
      BY <2>2, <2>4, <3>1, ProductStrict
  <2>7. d \in {0, 1}
    BY <2>4, <2>5, <2>6
  <2>8. QED
    BY <2>7 DEF Msb, d, t
<1>3. TwoTo[1] = 2
  <2>1. 1 \in 1 .. 2 * C + 2 /\ 1 - 1 = 0
    BY ChunksPositive
  <2>2. QED
    BY <2>1, PowerSteps
<1>4. 2 * 0 + 1 = 1
  OBVIOUS
<1>5. High(v, 0) = v \div 2
  BY <1>3, <1>4 DEF High
<1>6. v % 2 \in {0, 1} /\ v = 2 * (v \div 2) + (v % 2)
  <2>1. 2 \in Nat \ {0}
    OBVIOUS
  <2>2. /\ v \div 2 \in Int /\ v % 2 \in Int
        /\ v = 2 * (v \div 2) + (v % 2) /\ 0 <= v % 2 /\ v % 2 < 2
    BY <2>1, Division
  <2>3. QED
    BY <2>2
<1>7. QED
  BY <1>1, <1>2, <1>5, <1>6 DEF Lsb
-----------------------------------------------------------------------------
(* Points as combinations of the base and the hint of a certificate.       *)

Lin(a, b, p, r) == (a * p + b * r) % N

LEMMA SumOfRemainders ==
    ASSUME NEW a \in Int, NEW b \in Int
    PROVE  ((a % N) + (b % N)) % N = (a + b) % N
<1> DEFINE e == b % N
<1>1. e \in Int
  BY Remainder
<1> HIDE DEF e
<1>2. ((a % N) + e) % N = (a + e) % N
  BY <1>1, RemainderOfSum
<1>3. a + e = e + a /\ a + b = b + a
  BY <1>1
<1>4. (e + a) % N = (b + a) % N
  BY RemainderOfSum DEF e
<1>5. QED
  BY <1>2, <1>3, <1>4 DEF e

LEMMA LinAdd ==
    ASSUME NEW p, NEW r, NEW a, NEW b, NEW c, NEW d, NEW e, NEW f,
           p \in Int, r \in Int, a \in Int, b \in Int, c \in Int, d \in Int,
           e = a + c, f = b + d
    PROVE  AddPoints(Lin(a, b, p, r), Lin(c, d, p, r)) = Lin(e, f, p, r)
<1> DEFINE x1 == a * p
           x2 == b * r
           y1 == c * p
           y2 == d * r
<1>1. x1 \in Int /\ x2 \in Int /\ y1 \in Int /\ y2 \in Int
  OBVIOUS
<1>2. e * p = x1 + y1 /\ f * r = x2 + y2
  BY Z3
<1> HIDE DEF x1, x2, y1, y2
<1>3. e * p + f * r = (x1 + x2) + (y1 + y2)
  BY <1>1, <1>2
<1>4. (((x1 + x2) % N) + ((y1 + y2) % N)) % N = ((x1 + x2) + (y1 + y2)) % N
  BY <1>1, SumOfRemainders
<1>5. QED
  BY <1>3, <1>4 DEF AddPoints, Lin, x1, x2, y1, y2

LEMMA LinNegate ==
    ASSUME NEW p \in Int, NEW r \in Int, NEW a \in Int, NEW b \in Int
    PROVE  Negate(Lin(a, b, p, r)) = Lin(-a, -b, p, r)
<1> DEFINE x == a * p
           y == b * r
<1>1. x \in Int /\ y \in Int
  OBVIOUS
<1>2. (-a) * p = -x /\ (-b) * r = -y
  BY Z3
<1> HIDE DEF x, y
<1>3. (-a) * p + (-b) * r = -(x + y)
  BY <1>1, <1>2
<1>4. (-((x + y) % N)) % N = (-(x + y)) % N
  BY <1>1, RemainderOfNegation
<1>5. QED
  BY <1>3, <1>4 DEF Negate, Lin, x, y

LEMMA LinTimes ==
    ASSUME NEW p \in Int, NEW r \in Int, NEW a \in Int, NEW b \in Int
    PROVE  AddPoints(Times(a, p), Times(b, r)) = Lin(a, b, p, r)
<1>1. a * p \in Int /\ b * r \in Int
  OBVIOUS
<1>2. QED
  BY <1>1, SumOfRemainders DEF AddPoints, Times, Lin

LEMMA LinParts ==
    ASSUME NEW p \in 0 .. N - 1, NEW r \in 0 .. N - 1
    PROVE  p = Lin(1, 0, p, r) /\ r = Lin(0, 1, p, r) /\ Times(3, r) = Lin(0, 3, p, r)
           /\ Infinity = Lin(0, 0, p, r)
<1>1. p \in Int /\ r \in Int /\ 3 * r \in Int
  BY OrderFacts
<1>2. /\ 1 * p + 0 * r = p /\ 0 * p + 1 * r = r /\ 0 * p + 3 * r = 3 * r
      /\ 0 * p + 0 * r = 0
  BY <1>1
<1>3. p % N = p /\ r % N = r /\ 0 % N = 0
  <2>1. 0 \in 0 .. N - 1
    BY OrderFacts
  <2>2. QED
    BY <2>1, SmallRemainder
<1>4. QED
  BY <1>2, <1>3 DEF Lin, Times, Infinity

LEMMA LinPoint ==
    ASSUME NEW p, NEW r, NEW a, NEW b, p \in Int, r \in Int, a \in Int, b \in Int
    PROVE  Lin(a, b, p, r) \in 0 .. N - 1
<1>1. a * p + b * r \in Int
  OBVIOUS
<1>2. QED
  BY <1>1, Remainder DEF Lin

-----------------------------------------------------------------------------
(* The selectors and the table.                                            *)

(* An entry decodes to a table point whose digits, the sign undone, are those
   of the two chunks. *)
LEMMA Decodes ==
    ASSUME NEW c \in 0 .. 3, NEW d \in 0 .. 3
    PROVE  LET e == Decode(c + 4 * d)
               g == BaseDigits[e.index + 1]
           IN  /\ e.index \in 0 .. 7 /\ e.neg \in BOOLEAN
               /\ (e.neg = FALSE) => g[1] = 2 * c - 3 /\ g[2] = 2 * d - 3
               /\ (e.neg = TRUE) => g[1] = -(2 * c - 3) /\ g[2] = -(2 * d - 3)
<1> DEFINE sel == c + 4 * d
           a == 2 * c - 3
           b == 2 * d - 3
           neg == a < 0
           pos == IF neg THEN <<-a, -b>> ELSE <<a, b>>
           P(i) == BaseDigits[i] = pos
           k == CHOOSE i \in 1 .. 8 : P(i)
<1>1. sel % 4 = c /\ sel \div 4 = d
  <2>1. 4 \in Nat \ {0} /\ d \in Int /\ c \in 0 .. 4 - 1 /\ sel = d * 4 + c
    OBVIOUS
  <2> HIDE DEF sel
  <2>2. QED
    BY <2>1, UniqueDivision
<1>2. Decode(sel) = [index |-> k - 1, neg |-> neg]
  BY <1>1 DEF Decode
<1>3. \E i \in 1 .. 8 : P(i)
  <2>1. c \in {0, 1, 2, 3} /\ d \in {0, 1, 2, 3}
    OBVIOUS
  <2>2. /\ BaseDigits[1] = <<3, -1>> /\ BaseDigits[2] = <<1, -1>>
        /\ BaseDigits[3] = <<1, 1>> /\ BaseDigits[4] = <<3, 1>>
        /\ BaseDigits[5] = <<3, -3>> /\ BaseDigits[6] = <<1, -3>>
        /\ BaseDigits[7] = <<1, 3>> /\ BaseDigits[8] = <<3, 3>>
    BY DEF BaseDigits
  <2>3. pos \in {<<3, -1>>, <<1, -1>>, <<1, 1>>, <<3, 1>>, <<3, -3>>, <<1, -3>>, <<1, 3>>, <<3, 3>>}
    BY <2>1
  <2> HIDE DEF pos
  <2>4. QED
    BY <2>2, <2>3
<1> HIDE DEF P
<1>4. k \in 1 .. 8 /\ P(k)
  BY <1>3
<1> HIDE DEF k
<1>5. (k - 1) + 1 = k /\ k - 1 \in 0 .. 7
  BY <1>4
<1>6. /\ Decode(sel).index = k - 1 /\ Decode(sel).neg = neg
  BY <1>2
<1>7. BaseDigits[k] = pos
  BY <1>4 DEF P
<1>8. neg \in BOOLEAN
  OBVIOUS
<1>9. /\ (neg = FALSE) => pos[1] = a /\ pos[2] = b
      /\ (neg = TRUE) => pos[1] = -a /\ pos[2] = -b
  OBVIOUS
<1> HIDE DEF neg, pos
<1>10. QED
  BY <1>5, <1>6, <1>7, <1>8, <1>9

(* What the first entry of a chain draws. *)
LEMMA InitDigits ==
    ASSUME NEW c \in {0, 1}, NEW d \in {0, 1}
    PROVE  /\ 2 + c + 4 * d \in 0 .. 7
           /\ BaseDigits[(2 + c + 4 * d) + 1][1] = 2 * c + 1
           /\ BaseDigits[(2 + c + 4 * d) + 1][2] = 2 * d + 1
BY DEF BaseDigits

(* The table of a certificate as combinations of its base and hint. *)
LEMMA TableBase ==
    ASSUME NEW p \in 0 .. N - 1, NEW r \in 0 .. N - 1, NEW sel
    PROVE  \A i \in 0 .. 7 :
              TableOf(p, r, sel).base[i] = Lin(BaseDigits[i + 1][1], BaseDigits[i + 1][2], p, r)
<1> DEFINE tab == TableOf(p, r, sel)
<1>1. tab.base = [i \in 0 .. 7 |-> AddPoints(Times(BaseDigits[i + 1][1], p),
                                             Times(BaseDigits[i + 1][2], r))]
  <2> HIDE DEF Decode
  <2>1. QED
    BY DEF TableOf
<1>2. p \in Int /\ r \in Int
  BY OrderFacts
<1>3. ASSUME NEW i \in 0 .. 7
      PROVE  tab.base[i] = Lin(BaseDigits[i + 1][1], BaseDigits[i + 1][2], p, r)
  <2> DEFINE a == BaseDigits[i + 1][1]
             b == BaseDigits[i + 1][2]
  <2>1. a \in Int /\ b \in Int
    <3>1. i \in {0, 1, 2, 3, 4, 5, 6, 7}
      OBVIOUS
    <3>2. QED
      BY <3>1 DEF BaseDigits
  <2>2. tab.base[i] = AddPoints(Times(a, p), Times(b, r))
    BY <1>1
  <2> HIDE DEF a, b
  <2>3. AddPoints(Times(a, p), Times(b, r)) = Lin(a, b, p, r)
    BY <1>2, <2>1, LinTimes
  <2>4. QED
    BY <2>2, <2>3 DEF a, b
<1>4. QED
  BY <1>3

LEMMA TableParts ==
    ASSUME NEW p \in 0 .. N - 1, NEW r \in 0 .. N - 1, NEW sel
    PROVE  LET tab == TableOf(p, r, sel) IN
           /\ tab.p = Lin(1, 0, p, r) /\ tab.r = r /\ tab.r = Lin(0, 1, p, r)
           /\ tab.r3 = Lin(0, 3, p, r)
           /\ tab.table16 = AddPoints(Signed(tab.base[Decode(sel.at[0]).index],
                                             Decode(sel.at[0]).neg), tab.r3)
<1> DEFINE tab == TableOf(p, r, sel)
<1>1. /\ tab.p = p /\ tab.r = r /\ tab.r3 = Times(3, r)
      /\ tab.table16 = AddPoints(Signed(tab.base[Decode(sel.at[0]).index],
                                        Decode(sel.at[0]).neg), tab.r3)
  <2> HIDE DEF Decode
  <2>1. QED
    BY DEF TableOf
<1>2. p = Lin(1, 0, p, r) /\ r = Lin(0, 1, p, r) /\ Times(3, r) = Lin(0, 3, p, r)
  BY LinParts
<1> HIDE DEF tab
<1>3. QED
  BY <1>1, <1>2 DEF tab

(* The signed table point an entry of the selectors draws. *)
LEMMA DrawnPoint ==
    ASSUME NEW p \in 0 .. N - 1, NEW r \in 0 .. N - 1, NEW sel,
           NEW c \in 0 .. 3, NEW d \in 0 .. 3
    PROVE  Signed(TableOf(p, r, sel).base[Decode(c + 4 * d).index], Decode(c + 4 * d).neg)
               = Lin(2 * c - 3, 2 * d - 3, p, r)
<1> DEFINE e == Decode(c + 4 * d)
           i == e.index
           neg == e.neg
           g == BaseDigits[i + 1]
           tab == TableOf(p, r, sel)
           a == 2 * c - 3
           b == 2 * d - 3
<1>1. /\ i \in 0 .. 7 /\ neg \in BOOLEAN
      /\ (neg = FALSE) => g[1] = a /\ g[2] = b
      /\ (neg = TRUE) => g[1] = -a /\ g[2] = -b
  BY Decodes
<1>2. tab.base[i] = Lin(g[1], g[2], p, r)
  <2>1. \A j \in 0 .. 7 : tab.base[j] = Lin(BaseDigits[j + 1][1], BaseDigits[j + 1][2], p, r)
    BY TableBase
  <2> HIDE DEF tab, i
  <2>2. QED
    BY <1>1, <2>1
<1>3. p \in Int /\ r \in Int /\ a \in Int /\ b \in Int
  BY OrderFacts
<1> HIDE DEF a, b, tab, g, neg, i, e
<1>4. CASE neg = FALSE
  BY <1>1, <1>2, <1>4 DEF Signed, a, b, tab, i, neg, e
<1>5. CASE neg = TRUE
  <2>1. -a \in Int /\ -b \in Int /\ -(-a) = a /\ -(-b) = b
    BY <1>3
  <2>2. tab.base[i] = Lin(-a, -b, p, r)
    BY <1>1, <1>2, <1>5
  <2>3. Negate(Lin(-a, -b, p, r)) = Lin(-(-a), -(-b), p, r)
    <3> DEFINE x == -a
               y == -b
    <3>1. x \in Int /\ y \in Int
      BY <2>1
    <3> HIDE DEF x, y
    <3>2. Negate(Lin(x, y, p, r)) = Lin(-x, -y, p, r)
      BY <1>3, <3>1, LinNegate
    <3>3. QED
      BY <3>2 DEF x, y
  <2>4. Negate(tab.base[i]) = Lin(a, b, p, r)
    BY <2>1, <2>2, <2>3
  <2>5. Signed(tab.base[i], neg) = Lin(a, b, p, r)
    BY <1>5, <2>4 DEF Signed
  <2>6. QED
    BY <2>5 DEF a, b, tab, i, neg, e
<1>6. QED
  BY <1>1, <1>4, <1>5
-----------------------------------------------------------------------------
(* The chain: what the accumulator is after each row.                      *)

(* The accumulator over the chunks from i up. *)
Prefix(c, i) == Lin(2 * High(hints[c].s1, i) + 1, 2 * High(hints[c].s2, i) + 1,
                    BaseOf(c), tables[c].r)

HintsSized ==
    \A c \in DOMAIN hints :
        setup.u[c] # 0 => /\ hints[c].s1 \in 1 .. N - 1 /\ hints[c].s1 < HalfBound
                          /\ hints[c].s2 \in Nat /\ hints[c].s2 < HalfBound
                          /\ hints[c].q \in Int

TablesMade ==
    phase \in AfterTables =>
        \A c \in Certs : Active(c) =>
            /\ tables[c].r \in 0 .. N - 1
            /\ tables[c] = TableOf(BaseOf(c), tables[c].r, Selectors(c))

Walking ==
    /\ phase \in {"steps", "lsb", "chained"} => Active(cert)
    /\ phase = "steps" => /\ walk.left \in 0 .. C - 1
                          /\ walk.acc = Prefix(cert, walk.left + 1)
    /\ phase = "lsb" =>
          walk.acc = AddPoints(Prefix(cert, 0), tables[cert].r3)
    /\ phase = "chained" =>
          walk.acc = Lin(hints[cert].s1, hints[cert].s2 + 3, BaseOf(cert), tables[cert].r)

ChainInv == HintsSized /\ TablesMade /\ Walking

(* The hint of a half-GCD is typed, and its first half is below the order. *)
LEMMA HintOfSized ==
    ASSUME NEW k \in 1 .. N - 1, NEW l, LatticeInv(k, l), ~(Root <= l.curr.rem)
    PROVE  /\ HintOf(k, l.curr).s1 \in 1 .. N - 1 /\ HintOf(k, l.curr).s1 < HalfBound
           /\ HintOf(k, l.curr).s2 \in Nat /\ HintOf(k, l.curr).s2 < HalfBound
           /\ HintOf(k, l.curr).q \in Int
<1> HIDE DEF Root, HalfBound
<1> DEFINE rc == l.curr.rem
           tc == l.curr.t
           h == HintOf(k, l.curr)
           g == HintCandidate(k, rc, -tc)
<1>1. HintProves(k, h) /\ h # NoHint
  BY HintOfProves
<1>2. rc \in Int /\ tc \in Int /\ (1 <= tc \/ tc <= -1)
  BY DEF LatticeInv, IsRow, Crossed
<1>3. ASSUME NEW m \in Nat, m = tc \/ m = -tc
      PROVE  1 <= rc /\ rc <= k /\ rc < HalfBound /\ m < HalfBound
  BY <1>3, LatticeEnds
<1>4. \E m \in Nat : m = tc \/ m = -tc
  <2>1. CASE 1 <= tc
    BY <1>2, <2>1
  <2>2. CASE tc <= -1
    <3>1. -tc \in Nat
      BY <1>2, <2>2
    <3>2. QED
      BY <3>1
  <2>3. QED
    BY <1>2, <2>1, <2>2
<1>5. 1 <= rc /\ rc <= k /\ rc < HalfBound
  BY <1>3, <1>4
<1>6. h = g
  <2>1. ~(l.curr.rem < 0)
    BY <1>2, <1>5
  <2> HIDE DEF HintCandidate
  <2>2. QED
    BY <1>1, <2>1 DEF HintOf
<1>7. rc \in 1 .. N - 1
  BY <1>2, <1>5, OrderFacts
<1>8. k \in Int /\ N \in Nat \ {0}
  BY OrderFacts
<1> DEFINE mag == IF -tc < 0 THEN -(-tc) ELSE -tc
           sel == IF -tc < 0 THEN rc ELSE N - rc
<1>9. g.s1 = rc /\ g.s2 = mag /\ g.q = (k * mag - sel) \div N
  BY <1>2 DEF HintCandidate
<1>10. mag \in Nat /\ (mag = tc \/ mag = -tc)
  BY <1>2
<1>11. sel \in Int
  BY <1>2, <1>8
<1> HIDE DEF mag, sel, rc, tc, g, h
<1>12. mag < HalfBound
  BY <1>3, <1>10
<1>13. (k * mag - sel) \div N \in Int
  <2> DEFINE x == k * mag - sel
  <2>1. x \in Int
    BY <1>8, <1>10, <1>11
  <2> HIDE DEF x
  <2>2. x \div N \in Int
    BY <1>8, <2>1, Division
  <2>3. QED
    BY <2>2 DEF x
<1>14. /\ h.s1 \in 1 .. N - 1 /\ h.s1 < HalfBound /\ h.s2 \in Nat /\ h.s2 < HalfBound /\ h.q \in Int
  BY <1>5, <1>6, <1>7, <1>9, <1>10, <1>12, <1>13
<1>15. QED
  BY <1>14 DEF h

LEMMA FinishHintSized ==
    ASSUME HintInv, HintInv', HintsSized, FinishHint
    PROVE  HintsSized'
<1> HIDE DEF HalfBound, Root
<1> DEFINE h == HintNow
           k == setup.u[cert]
<1>1. h # NoHint
  <2>1. CASE h = NoHint
    <3>1. Refuse("UnboundedHint")
      BY <2>1 DEF FinishHint
    <3>2. QED
      BY <3>1 DEF Refuse, HintInv
  <2>2. QED
    BY <2>1
<1>2. /\ phase = "lattice" /\ ~InLattice /\ hints' = Append(hints, h) /\ setup' = setup
      /\ cert \in {1, 2}
  BY <1>1 DEF FinishHint, HintInv
<1> DEFINE Sized(g) == /\ g.s1 \in 1 .. N - 1 /\ g.s1 < HalfBound
                       /\ g.s2 \in Nat /\ g.s2 < HalfBound /\ g.q \in Int
<1>3. k # 0 => Sized(h)
  <2>1. ASSUME k # 0 PROVE Sized(h)
    <3>1. k \in 0 .. N - 1 /\ LatticeInv(k, lattice)
      BY <1>2, <2>1 DEF HintInv, Scalars, Lattice
    <3>2. h = HintOf(k, lattice.curr) /\ ~(Root <= lattice.curr.rem)
      BY <1>2, <2>1 DEF HintNow, InLattice
    <3> HIDE DEF h, k
    <3>3. k \in 1 .. N - 1
      BY <2>1, <3>1, OrderFacts
    <3>4. QED
      BY <3>1, <3>2, <3>3, HintOfSized
  <2>2. QED
    BY <2>1
<1> HIDE DEF h, Sized
<1>4. CASE cert = 1
  <2>1. hints' = <<h>>
    <3>1. hints = <<>>
      BY <1>2, <1>4 DEF HintInv, Lattice
    <3>2. QED
      BY <1>2, <3>1
  <2>2. QED
    BY <1>2, <1>3, <1>4, <2>1 DEF HintsSized, Sized
<1>5. CASE cert = 2
  <2> DEFINE a == hints[1]
  <2>1. hints = <<a>>
    BY <1>2, <1>5 DEF HintInv, Lattice
  <2>2. setup.u[1] # 0 => Sized(a)
    <3>1. 1 \in DOMAIN hints
      BY <2>1
    <3>2. QED
      BY <3>1 DEF HintsSized, Sized
  <2>3. hints' = Append(<<a>>, h)
    BY <1>2, <2>1
  <2> HIDE DEF a
  <2>4. DOMAIN hints' = {1, 2} /\ hints'[1] = a /\ hints'[2] = h
    BY <2>3, AppendSecond
  <2>5. setup'.u[1] = setup.u[1] /\ setup'.u[2] = k
    BY <1>2, <1>5
  <2> HIDE DEF k
  <2>6. QED
    BY <1>3, <2>2, <2>4, <2>5 DEF HintsSized, Sized
<1>6. QED
  BY <1>2, <1>4, <1>5

(* What the chain of an active certificate is made from. *)
LEMMA ChainFacts ==
    ASSUME HintInv, ClaimInv, ChainInv, phase \in AfterTables, NEW c \in Certs, Active(c)
    PROVE  /\ BaseOf(c) \in 1 .. N - 1 /\ tables[c].r \in 0 .. N - 1
           /\ tables[c] = TableOf(BaseOf(c), tables[c].r, Selectors(c))
           /\ hints[c].s1 \in 1 .. N - 1 /\ hints[c].s1 \in Nat /\ hints[c].s1 < HalfBound
           /\ hints[c].s2 \in Nat /\ hints[c].s2 < HalfBound /\ hints[c].q \in Int
<1> HIDE DEF Root, HalfBound
<1>1. c \in DOMAIN hints
  BY DEF ClaimInv, BitsSet, Certs, AfterTables, AfterKey
<1>2. input.d \in 1 .. N - 1
  <2>1. input.d # 0 /\ input.d \in 0 .. N - 1
    BY InputTypes DEF ClaimInv, KeySet, AfterTables, HintInv
  <2>2. QED
    BY <2>1, OrderFacts
<1>3. BaseOf(c) \in 1 .. N - 1
  BY <1>2, OrderFacts DEF BaseOf
<1>4. hints[c].s1 \in 1 .. N - 1 /\ hints[c].s1 < HalfBound
      /\ hints[c].s2 \in Nat /\ hints[c].s2 < HalfBound /\ hints[c].q \in Int
  BY <1>1 DEF ChainInv, HintsSized, Active
<1>5. hints[c].s1 \in Nat
  BY <1>4, OrderFacts
<1>6. QED
  BY <1>3, <1>4, <1>5 DEF ChainInv, TablesMade

(* The selectors of a hint, for the chunks. *)
LEMMA SelectorDigits ==
    ASSUME NEW h, h.s1 \in Nat, h.s1 < HalfBound, h.s2 \in Nat, h.s2 < HalfBound
    PROVE  LET sel == SelectorsOf(h) IN
           /\ sel.lsb = <<Lsb(h.s1), Lsb(h.s2)>>
           /\ sel.init = 2 + High(h.s1, C) + 4 * High(h.s2, C)
           /\ High(h.s1, C) \in {0, 1} /\ High(h.s2, C) \in {0, 1}
           /\ \A i \in 0 .. C - 1 : sel.at[i] = Chunk(h.s1, i) + 4 * Chunk(h.s2, i)
<1> HIDE DEF HalfBound
<1>1. /\ Msb(h.s1) = High(h.s1, C) /\ Msb(h.s1) \in {0, 1}
      /\ Msb(h.s2) = High(h.s2, C) /\ Msb(h.s2) \in {0, 1}
  BY EndBits
<1>2. QED
  BY <1>1 DEF SelectorsOf

LEMMA PrefixPoint ==
    ASSUME HintInv, ClaimInv, ChainInv, phase \in AfterTables, NEW c \in Certs, Active(c),
           NEW i \in 0 .. C
    PROVE  /\ High(hints[c].s1, i) \in Nat /\ High(hints[c].s2, i) \in Nat
           /\ BaseOf(c) \in Int /\ tables[c].r \in Int
<1> DEFINE x == hints[c].s1
           y == hints[c].s2
<1>1. BaseOf(c) \in 1 .. N - 1 /\ tables[c].r \in 0 .. N - 1 /\ x \in Nat /\ y \in Nat
  BY ChainFacts
<1> HIDE DEF x, y
<1>2. ASSUME NEW v \in Nat PROVE High(v, i) \in Nat
  <2>1. CASE i \in 0 .. C - 1
    BY <2>1, Chunks
  <2>2. CASE i = C
    <3>1. C - 1 \in 0 .. C - 1 /\ (C - 1) + 1 = C
      BY ChunksPositive
    <3>2. QED
      BY <2>2, <3>1, Chunks
  <2>3. QED
    BY <2>1, <2>2, ChunksPositive
<1>3. BaseOf(c) \in Int /\ tables[c].r \in Int
  BY <1>1, OrderFacts
<1>4. QED
  BY <1>1, <1>2, <1>3 DEF x, y

(* Four times a combination and another. *)
FourTimes(acc) == AddPoints(AddPoints(acc, acc), AddPoints(acc, acc))

LEMMA Quadruple ==
    ASSUME NEW p, NEW r, NEW A, NEW B, NEW a, NEW b, NEW e, NEW f,
           p \in Int, r \in Int, A \in Int, B \in Int, a \in Int, b \in Int,
           e = 4 * A + a, f = 4 * B + b
    PROVE  AddPoints(FourTimes(Lin(A, B, p, r)), Lin(a, b, p, r)) = Lin(e, f, p, r)
<1> DEFINE acc == Lin(A, B, p, r)
           A2 == A + A
           B2 == B + B
           A4 == A2 + A2
           B4 == B2 + B2
<1>1. /\ A2 \in Int /\ B2 \in Int /\ A4 \in Int /\ B4 \in Int
      /\ A4 = 4 * A /\ B4 = 4 * B
  OBVIOUS
<1>2. AddPoints(acc, acc) = Lin(A2, B2, p, r)
  BY LinAdd
<1> HIDE DEF A2, B2
<1>3. FourTimes(acc) = Lin(A4, B4, p, r)
  BY <1>1, <1>2, LinAdd DEF FourTimes
<1> HIDE DEF A4, B4
<1>4. AddPoints(Lin(A4, B4, p, r), Lin(a, b, p, r)) = Lin(A4 + a, B4 + b, p, r)
  BY <1>1, LinAdd
<1> HIDE DEF acc
<1>5. A4 + a = e /\ B4 + b = f
  BY <1>1
<1>6. AddPoints(FourTimes(acc), Lin(a, b, p, r)) = Lin(e, f, p, r)
  BY <1>3, <1>4, <1>5
<1>7. QED
  BY <1>6 DEF acc

(* Four times the accumulator and a digit of each half. *)
LEMMA ChainAdds ==
    ASSUME HintInv, ClaimInv, ChainInv, phase \in AfterTables, NEW c \in Certs, Active(c),
           NEW i \in 0 .. C - 1
    PROVE  LET acc == Prefix(c, i + 1)
               a == 2 * Chunk(hints[c].s1, i) - 3
               b == 2 * Chunk(hints[c].s2, i) - 3
           IN  AddPoints(FourTimes(acc), Lin(a, b, BaseOf(c), tables[c].r)) = Prefix(c, i)
<1> DEFINE acc == Prefix(c, i + 1)
           a == 2 * Chunk(hints[c].s1, i) - 3
           b == 2 * Chunk(hints[c].s2, i) - 3
           p == BaseOf(c)
           r == tables[c].r
           x == hints[c].s1
           y == hints[c].s2
           x0 == High(x, i)
           x1 == High(x, i + 1)
           xc == Chunk(x, i)
           y0 == High(y, i)
           y1 == High(y, i + 1)
           yc == Chunk(y, i)
<1>1. x \in Nat /\ y \in Nat
  BY ChainFacts
<1>2. p \in Int /\ r \in Int
  <2>1. 0 \in 0 .. C
    BY ChunksPositive
  <2>2. QED
    BY <2>1, PrefixPoint
<1>3. /\ x0 \in Nat /\ x1 \in Nat /\ xc \in 0 .. 3 /\ x0 = 4 * x1 + xc
      /\ y0 \in Nat /\ y1 \in Nat /\ yc \in 0 .. 3 /\ y0 = 4 * y1 + yc
  <2> HIDE DEF x, y
  <2>1. QED
    BY <1>1, Chunks
<1>4. acc = Lin(2 * x1 + 1, 2 * y1 + 1, p, r)
  BY DEF Prefix, acc
<1>5. a = 2 * xc - 3 /\ b = 2 * yc - 3
  OBVIOUS
<1> HIDE DEF acc, a, b
<1>6. Prefix(c, i) = Lin(2 * x0 + 1, 2 * y0 + 1, p, r)
  BY DEF Prefix
<1> HIDE DEF p, r, x0, x1, xc, y0, y1, yc
<1> DEFINE A == 2 * x1 + 1
           B == 2 * y1 + 1
<1>7. A \in Int /\ B \in Int /\ a \in Int /\ b \in Int
  BY <1>3, <1>5
<1> DEFINE e == 2 * x0 + 1
           f == 2 * y0 + 1
<1>8. e = 4 * A + a /\ f = 4 * B + b
  BY <1>3, <1>5
<1> HIDE DEF A, B, e, f
<1>9. acc = Lin(A, B, p, r)
  BY <1>4 DEF A, B
<1>10. AddPoints(FourTimes(Lin(A, B, p, r)), Lin(a, b, p, r)) = Lin(e, f, p, r)
  BY <1>2, <1>7, <1>8, Quadruple
<1>11. AddPoints(FourTimes(acc), Lin(a, b, p, r)) = Prefix(c, i)
  BY <1>6, <1>9, <1>10 DEF e, f
<1>12. QED
  BY <1>11 DEF p, r, a, b, acc

LEMMA MsbWalks ==
    ASSUME HintInv, ClaimInv, ChainInv, MsbInit
    PROVE  ChainInv'
<1> DEFINE c == cert
           sel == Selectors(cert)
           first == tables[cert].base[sel.init]
           p == BaseOf(cert)
           r == tables[cert].r
           x == High(hints[cert].s1, C)
           y == High(hints[cert].s2, C)
<1>1. /\ phase = "chain" /\ Active(c) /\ c \in Certs
      /\ walk' = [left |-> C - 1, acc |-> first] /\ phase' = "steps"
      /\ UNCHANGED <<input, setup, cert, hints, tables>>
  BY Zenon DEF MsbInit, HintInv, Certs
<1>2. phase \in AfterTables
  BY <1>1 DEF AfterTables, AfterKey, AfterHints, AfterSetup
<1>3. /\ p \in 1 .. N - 1 /\ r \in 0 .. N - 1 /\ tables[c] = TableOf(p, r, sel)
      /\ hints[c].s1 \in Nat /\ hints[c].s1 < HalfBound
      /\ hints[c].s2 \in Nat /\ hints[c].s2 < HalfBound
  BY <1>1, <1>2, ChainFacts
<1>4. /\ sel.init = 2 + x + 4 * y /\ x \in {0, 1} /\ y \in {0, 1}
  <2> HIDE DEF HalfBound
  <2>1. QED
    BY <1>3, SelectorDigits DEF Selectors
<1>5. first = Lin(2 * x + 1, 2 * y + 1, p, r)
  <2>1. p \in 0 .. N - 1
    BY <1>3, OrderFacts
  <2>2. \A i \in 0 .. 7 : TableOf(p, r, sel).base[i]
                             = Lin(BaseDigits[i + 1][1], BaseDigits[i + 1][2], p, r)
    <3> HIDE DEF p, r, sel
    <3>1. QED
      BY <1>3, <2>1, TableBase
  <2> DEFINE k == 2 + x + 4 * y
  <2>3. k \in 0 .. 7 /\ BaseDigits[k + 1][1] = 2 * x + 1 /\ BaseDigits[k + 1][2] = 2 * y + 1
    <3> HIDE DEF x, y
    <3>1. QED
      BY <1>4, InitDigits
  <2>4. first = TableOf(p, r, sel).base[k]
    BY <1>3, <1>4
  <2> HIDE DEF x, y, k, p, r, sel, first
  <2>5. QED
    BY <2>2, <2>3, <2>4
<1>6. first = Prefix(cert, C)
  BY <1>5 DEF Prefix
<1>7. (C - 1) + 1 = C /\ C - 1 \in 0 .. C - 1
  BY ChunksPositive
<1> HIDE DEF first
<1>8. walk'.left = C - 1 /\ walk'.acc = first
  BY <1>1
<1>9. /\ Active(cert)' /\ Prefix(cert, C)' = Prefix(cert, C)
  BY <1>1 DEF Active, Prefix, BaseOf
<1>10. Prefix(cert, walk.left + 1)' = Prefix(cert, C)
  BY <1>1, <1>7, <1>8 DEF Prefix, BaseOf
<1>11. Walking'
  BY <1>1, <1>6, <1>7, <1>8, <1>9, <1>10 DEF Walking
<1>12. HintsSized' /\ TablesMade'
  BY <1>1, <1>2 DEF ChainInv, HintsSized, TablesMade, Active, BaseOf, Selectors
<1>13. QED
  BY <1>11, <1>12 DEF ChainInv
LEMMA LinOpposite ==
    ASSUME NEW p, NEW r, NEW a, NEW b, NEW e, NEW f,
           p \in Int, r \in Int, a \in Int, b \in Int, e \in Int, f \in Int,
           a + e = 0, b + f = 0
    PROVE  Negate(Lin(a, b, p, r)) = Lin(e, f, p, r)
<1>0. e = -a /\ f = -b
  OBVIOUS
<1>1. Negate(Lin(a, b, p, r)) = Lin(-a, -b, p, r)
  BY LinNegate
<1>2. QED
  BY <1>0, <1>1

LEMMA AddAssociates ==
    ASSUME NEW a \in Int, NEW b \in Int, NEW c \in Int
    PROVE  AddPoints(a, AddPoints(b, c)) = AddPoints(AddPoints(a, b), c)
<1>1. a + b \in Int /\ b + c \in Int
  OBVIOUS
<1> DEFINE x == b + c
           y == a + b
<1>2. ((x % N) + a) % N = (x + a) % N /\ ((y % N) + c) % N = (y + c) % N
  <2>1. x \in Int /\ y \in Int
    BY <1>1
  <2> HIDE DEF x, y
  <2>2. QED
    BY <2>1, RemainderOfSum
<1>3. x + a = y + c /\ x % N \in Int
  BY <1>1, Remainder
<1>4. a + (x % N) = (x % N) + a
  <2> DEFINE e == x % N
  <2>1. e \in Int
    BY <1>3
  <2> HIDE DEF e
  <2>2. a + e = e + a
    BY <2>1
  <2>3. QED
    BY <2>2 DEF e
<1> HIDE DEF x, y
<1>5. (a + (x % N)) % N = ((y % N) + c) % N
  BY <1>2, <1>3, <1>4
<1>6. QED
  BY <1>5 DEF AddPoints, x, y

(* What a row of three operations leaves. *)
LEMMA StepOut ==
    ASSUME NEW acc, NEW pt
    PROVE  StepRows(acc, pt)[Len(StepRows(acc, pt))].out = AddPoints(FourTimes(acc), pt)
BY DEF StepRows, DoubleRow, AddRow, Row, FourTimes

(* The signed point the step of chunk i draws. *)
LEMMA DrawnAt ==
    ASSUME HintInv, ClaimInv, ChainInv, phase \in AfterTables, NEW c \in Certs, Active(c),
           NEW i \in 0 .. C - 1
    PROVE  LET digit == Decode(Selectors(c).at[i]) IN
           Signed(tables[c].base[digit.index], digit.neg)
              = Lin(2 * Chunk(hints[c].s1, i) - 3, 2 * Chunk(hints[c].s2, i) - 3,
                    BaseOf(c), tables[c].r)
<1> DEFINE p == BaseOf(c)
           r == tables[c].r
           sel == Selectors(c)
           x == Chunk(hints[c].s1, i)
           y == Chunk(hints[c].s2, i)
<1>1. /\ p \in 1 .. N - 1 /\ r \in 0 .. N - 1 /\ tables[c] = TableOf(p, r, sel)
      /\ hints[c].s1 \in Nat /\ hints[c].s1 < HalfBound
      /\ hints[c].s2 \in Nat /\ hints[c].s2 < HalfBound
  BY ChainFacts
<1>2. sel.at[i] = x + 4 * y
  <2> HIDE DEF HalfBound
  <2>1. QED
    BY <1>1, SelectorDigits DEF Selectors
<1>3. x \in 0 .. 3 /\ y \in 0 .. 3
  BY <1>1, Chunks
<1>4. p \in 0 .. N - 1
  BY <1>1, OrderFacts
<1> DEFINE entry == Decode(x + 4 * y)
<1>5. Signed(TableOf(p, r, sel).base[entry.index], entry.neg) = Lin(2 * x - 3, 2 * y - 3, p, r)
  <2> HIDE DEF p, r, sel, x, y
  <2>1. QED
    BY <1>1, <1>3, <1>4, DrawnPoint
<1>6. Decode(sel.at[i]) = entry
  <2> HIDE DEF x, y, sel
  <2>1. QED
    BY <1>2
<1>7. Signed(tables[c].base[entry.index], entry.neg) = Lin(2 * x - 3, 2 * y - 3, p, r)
  <2> HIDE DEF p, r, sel, x, y, entry
  <2>1. QED
    BY <1>1, <1>5
<1> HIDE DEF entry, x, y, p, r, sel
<1>8. LET digit == Decode(sel.at[i]) IN
      Signed(tables[c].base[digit.index], digit.neg) = Lin(2 * x - 3, 2 * y - 3, p, r)
  BY <1>6, <1>7
<1>9. QED
  BY <1>8 DEF x, y, p, r, sel

(* A step onto a signed point moves the accumulator down by one chunk. *)
LEMMA PrefixStep ==
    ASSUME HintInv, ClaimInv, ChainInv, phase \in AfterTables, NEW c \in Certs, Active(c),
           NEW i \in 0 .. C - 1
    PROVE  LET digit == Decode(Selectors(c).at[i]) IN
           AddPoints(FourTimes(Prefix(c, i + 1)),
                     Signed(tables[c].base[digit.index], digit.neg)) = Prefix(c, i)
<1> DEFINE l == Lin(2 * Chunk(hints[c].s1, i) - 3, 2 * Chunk(hints[c].s2, i) - 3,
                    BaseOf(c), tables[c].r)
           digit == Decode(Selectors(c).at[i])
           pt == Signed(tables[c].base[digit.index], digit.neg)
<1>1. pt = l
  BY DrawnAt
<1>2. AddPoints(FourTimes(Prefix(c, i + 1)), l) = Prefix(c, i)
  BY ChainAdds
<1> HIDE DEF l, pt
<1>3. AddPoints(FourTimes(Prefix(c, i + 1)), pt) = Prefix(c, i)
  BY <1>1, <1>2
<1>4. QED
  BY <1>3 DEF pt

(* The rest of the invariant survives a step of the chain. *)
LEMMA ChainStatic ==
    ASSUME HintInv, ClaimInv, ChainInv, phase \in AfterTables,
           UNCHANGED <<input, setup, cert, hints, tables>>
    PROVE  /\ HintsSized' /\ TablesMade'
           /\ \A i : Prefix(cert, i)' = Prefix(cert, i)
           /\ Active(cert)' = Active(cert) /\ BaseOf(cert)' = BaseOf(cert)
<1>1. HintsSized' /\ TablesMade'
  BY DEF ChainInv, HintsSized, TablesMade, Active, BaseOf, Selectors
<1>2. QED
  BY <1>1 DEF Prefix, BaseOf, Active

LEMMA StepWalks ==
    ASSUME HintInv, ClaimInv, ChainInv, ChainStep
    PROVE  ChainInv'
<1> DEFINE i == walk.left
           digit == Decode(Selectors(cert).at[walk.left])
           operand == Signed(tables[cert].base[digit.index], digit.neg)
           rows == StepRows(walk.acc, operand)
           after == rows[Len(rows)].out
<1>1. /\ phase = "steps" /\ walk.left > 0 /\ cert \in Certs
      /\ walk' = [left |-> walk.left - 1, acc |-> after] /\ phase' = phase
      /\ UNCHANGED <<input, setup, cert, hints, tables>>
  BY Zenon DEF ChainStep, Push, HintInv, Certs
<1>2. phase \in AfterTables
  BY <1>1 DEF AfterTables, AfterKey, AfterHints, AfterSetup
<1>3. Active(cert) /\ i \in 0 .. C - 1 /\ walk.acc = Prefix(cert, i + 1)
  BY <1>1 DEF ChainInv, Walking
<1>4. after = AddPoints(FourTimes(walk.acc), operand)
  <2> HIDE DEF operand
  <2>1. QED
    BY StepOut
<1>5. after = Prefix(cert, i)
  <2>1. AddPoints(FourTimes(Prefix(cert, i + 1)), operand) = Prefix(cert, i)
    BY <1>1, <1>2, <1>3, PrefixStep
  <2> HIDE DEF after, operand
  <2>2. QED
    BY <1>3, <1>4, <2>1
<1> HIDE DEF after
<1>6. walk'.left = walk.left - 1 /\ walk'.acc = after
  BY <1>1
<1>7. walk'.left \in 0 .. C - 1 /\ walk'.left + 1 = i
  BY <1>1, <1>3, <1>6, ChunksPositive
<1>8. /\ HintsSized' /\ TablesMade' /\ Active(cert)'
      /\ \A j : Prefix(cert, j)' = Prefix(cert, j)
  BY <1>1, <1>2, <1>3, ChainStatic
<1>9. (walk.acc = Prefix(cert, walk.left + 1))'
  <2>1. Prefix(cert, walk.left + 1)' = Prefix(cert, i)
    BY <1>1, <1>7 DEF Prefix, BaseOf
  <2>2. QED
    BY <1>5, <1>6, <2>1
<1>10. Walking'
  BY <1>1, <1>7, <1>8, <1>9 DEF Walking
<1>11. QED
  BY <1>8, <1>10 DEF ChainInv

LEMMA Table16Walks ==
    ASSUME HintInv, ClaimInv, ChainInv, Table16Step
    PROVE  ChainInv'
<1> DEFINE tab == tables[cert]
           digit == Decode(Selectors(cert).at[0])
           pt == Signed(tab.base[digit.index], digit.neg)
           rows == StepRows(walk.acc, tab.table16)
           after == rows[Len(rows)].out
<1>1. /\ phase = "steps" /\ walk.left = 0 /\ cert \in Certs
      /\ walk' = [left |-> walk.left - 1, acc |-> after] /\ phase' = "lsb"
      /\ UNCHANGED <<input, setup, cert, hints, tables>>
  BY Zenon DEF Table16Step, Push, HintInv, Certs
<1>2. phase \in AfterTables
  BY <1>1 DEF AfterTables, AfterKey, AfterHints, AfterSetup
<1>3. Active(cert) /\ walk.acc = Prefix(cert, 0 + 1)
  BY <1>1 DEF ChainInv, Walking
<1>4. 0 \in 0 .. C - 1 /\ 0 \in 0 .. C
  BY ChunksPositive
<1>5. after = AddPoints(FourTimes(walk.acc), tab.table16)
  BY StepOut
<1>6. AddPoints(FourTimes(walk.acc), pt) = Prefix(cert, 0)
  <2>1. AddPoints(FourTimes(Prefix(cert, 0 + 1)), pt) = Prefix(cert, 0)
    BY <1>1, <1>2, <1>3, <1>4, PrefixStep
  <2> HIDE DEF pt
  <2>2. QED
    BY <1>3, <2>1
<1>7. tab.table16 = AddPoints(pt, tab.r3) /\ pt \in Int /\ tab.r3 \in Int
  <2> DEFINE p == BaseOf(cert)
             r == tables[cert].r
             sel == Selectors(cert)
  <2>1. p \in 1 .. N - 1 /\ r \in 0 .. N - 1 /\ tab = TableOf(p, r, sel)
    BY <1>1, <1>2, <1>3, ChainFacts
  <2>2. p \in 0 .. N - 1 /\ p \in Int /\ r \in Int
    BY <2>1, OrderFacts
  <2>3. /\ tab.r3 = Lin(0, 3, p, r) /\ tab.table16 = AddPoints(pt, tab.r3)
    <3> DEFINE t == TableOf(p, r, sel)
    <3>1. /\ t.r3 = Lin(0, 3, p, r)
          /\ t.table16 = AddPoints(Signed(t.base[Decode(sel.at[0]).index],
                                          Decode(sel.at[0]).neg), t.r3)
      <4> HIDE DEF p, r, sel
      <4>1. QED
        BY <2>1, <2>2, TableParts
    <3>2. tab = t
      BY <2>1
    <3> HIDE DEF t
    <3>3. QED
      BY <3>1, <3>2
  <2>4. tab.r3 \in 0 .. N - 1
    <3> HIDE DEF p, r, tab
    <3>1. 0 \in Int /\ 3 \in Int
      OBVIOUS
    <3>2. Lin(0, 3, p, r) \in 0 .. N - 1
      BY <2>2, <3>1, LinPoint
    <3>3. QED
      BY <2>3, <3>2
  <2>5. pt \in 0 .. N - 1
    <3> DEFINE a == 2 * Chunk(hints[cert].s1, 0) - 3
               b == 2 * Chunk(hints[cert].s2, 0) - 3
    <3>1. pt = Lin(a, b, p, r)
      BY <1>1, <1>2, <1>3, <1>4, DrawnAt
    <3>2. a \in Int /\ b \in Int
      <4> DEFINE x == Chunk(hints[cert].s1, 0)
                 y == Chunk(hints[cert].s2, 0)
      <4>1. x \in 0 .. 3 /\ y \in 0 .. 3
        BY <1>1, <1>2, <1>3, <1>4, ChainFacts, Chunks
      <4> HIDE DEF x, y
      <4>2. 2 * x - 3 \in Int /\ 2 * y - 3 \in Int
        BY <4>1
      <4>3. QED
        BY <4>2 DEF x, y
    <3> HIDE DEF a, b, p, r, pt
    <3>3. Lin(a, b, p, r) \in 0 .. N - 1
      BY <2>2, <3>2, LinPoint
    <3>4. QED
      BY <3>1, <3>3
  <2> DEFINE three == tab.r3
  <2> HIDE DEF pt, three
  <2>6. pt \in Int /\ three \in Int
    BY <2>4, <2>5, OrderFacts DEF three
  <2>7. QED
    BY <2>3, <2>6 DEF three
<1>8. FourTimes(walk.acc) \in Int
  <2> DEFINE p == BaseOf(cert)
             r == tables[cert].r
             x == High(hints[cert].s1, 0 + 1)
             y == High(hints[cert].s2, 0 + 1)
  <2>1. 0 + 1 \in 0 .. C
    BY ChunksPositive
  <2>2. p \in Int /\ r \in Int /\ x \in Nat /\ y \in Nat
    BY <1>1, <1>2, <1>3, <2>1, PrefixPoint
  <2>3. walk.acc = Lin(2 * x + 1, 2 * y + 1, p, r)
    BY <1>3 DEF Prefix
  <2> HIDE DEF p, r, x, y
  <2> DEFINE a == 2 * x + 1
             b == 2 * y + 1
             l == walk.acc
  <2>4. a \in Int /\ b \in Int
    BY <2>2
  <2>5. l = Lin(a, b, p, r)
    BY <2>3
  <2> HIDE DEF a, b, l
  <2>6. l \in 0 .. N - 1
    BY <2>2, <2>4, <2>5, LinPoint
  <2>7. l \in Int
    BY <2>6, OrderFacts
  <2> DEFINE m == AddPoints(l, l)
  <2>8. m \in 0 .. N - 1
    BY <2>7, PointTypes
  <2>9. m \in Int
    <3> HIDE DEF m
    <3>1. QED
      BY <2>8, OrderFacts
  <2> HIDE DEF m
  <2>10. AddPoints(m, m) \in 0 .. N - 1
    BY <2>9, PointTypes
  <2>11. AddPoints(m, m) \in Int
    <3> DEFINE g == AddPoints(m, m)
    <3>1. g \in 0 .. N - 1
      BY <2>10
    <3> HIDE DEF g
    <3>2. g \in Int
      BY <3>1, OrderFacts
    <3>3. QED
      BY <3>2 DEF g
  <2>12. QED
    BY <2>11 DEF FourTimes, m, l
<1>9. after = AddPoints(Prefix(cert, 0), tab.r3)
  <2> DEFINE u == FourTimes(walk.acc)
             v == tab.r3
  <2>1. AddPoints(u, AddPoints(pt, v)) = AddPoints(AddPoints(u, pt), v)
    <3>1. u \in Int /\ v \in Int /\ pt \in Int
      BY <1>7, <1>8
    <3> HIDE DEF u, v, pt
    <3>2. QED
      BY <3>1, AddAssociates
  <2> HIDE DEF after, pt, tab
  <2>2. QED
    BY <1>5, <1>6, <1>7, <2>1
<1> HIDE DEF after
<1>10. walk'.acc = after
  BY <1>1
<1>11. /\ HintsSized' /\ TablesMade' /\ Active(cert)'
       /\ Prefix(cert, 0)' = Prefix(cert, 0)
  BY <1>1, <1>2, <1>3, ChainStatic
<1>12. Walking'
  BY <1>1, <1>9, <1>10, <1>11 DEF Walking
<1>13. QED
  BY <1>11, <1>12 DEF ChainInv

(* The correction takes the base, the hint or both off, by the lowest bits. *)
LEMMA CorrectionLin ==
    ASSUME NEW p \in 0 .. N - 1, NEW r \in 0 .. N - 1, NEW sel,
           NEW x \in {0, 1}, NEW y \in {0, 1}, sel.lsb = <<x, y>>
    PROVE  LsbCorrectionOf(TableOf(p, r, sel), sel) = Lin(x - 1, y - 1, p, r)
<1> DEFINE tab == TableOf(p, r, sel)
<1>1. /\ tab.p = Lin(1, 0, p, r) /\ tab.r = Lin(0, 1, p, r)
  BY TableParts
<1>2. tab.base[2] = Lin(1, 1, p, r)
  <2>1. 2 \in 0 .. 7 /\ BaseDigits[2 + 1][1] = 1 /\ BaseDigits[2 + 1][2] = 1
    BY DEF BaseDigits
  <2>2. tab.base[2] = Lin(BaseDigits[2 + 1][1], BaseDigits[2 + 1][2], p, r)
    BY <2>1, TableBase
  <2>3. QED
    BY <2>1, <2>2
<1>3. Infinity = Lin(0, 0, p, r)
  BY LinParts
<1>4. p \in Int /\ r \in Int
  BY OrderFacts
<1>5. /\ 0 \in Int /\ 1 \in Int /\ -1 \in Int /\ 0 + 0 = 0 /\ 1 + (-1) = 0
      /\ 1 - 1 = 0 /\ 0 - 1 = -1
  OBVIOUS
<1>6. /\ Negate(Lin(1, 0, p, r)) = Lin(-1, 0, p, r)
      /\ Negate(Lin(0, 1, p, r)) = Lin(0, -1, p, r)
      /\ Negate(Lin(1, 1, p, r)) = Lin(-1, -1, p, r)
  BY <1>4, <1>5, LinOpposite
<1> HIDE DEF tab
<1> DEFINE fix == LsbCorrectionOf(tab, sel)
<1>7. CASE x = 1 /\ y = 1
  <2>1. fix = Infinity
    BY <1>7 DEF LsbCorrectionOf
  <2>2. fix = Lin(x - 1, y - 1, p, r)
    BY <1>3, <1>5, <1>7, <2>1
  <2>3. QED
    BY <2>2 DEF tab
<1>8. CASE x = 0 /\ y = 1
  <2>1. fix = Negate(tab.p)
    BY <1>8 DEF LsbCorrectionOf
  <2>2. fix = Lin(x - 1, y - 1, p, r)
    BY <1>1, <1>5, <1>6, <1>8, <2>1
  <2>3. QED
    BY <2>2 DEF tab
<1>9. CASE x = 1 /\ y = 0
  <2>1. fix = Negate(tab.r)
    BY <1>9 DEF LsbCorrectionOf
  <2>2. fix = Lin(x - 1, y - 1, p, r)
    BY <1>1, <1>5, <1>6, <1>9, <2>1
  <2>3. QED
    BY <2>2 DEF tab
<1>10. CASE x = 0 /\ y = 0
  <2>1. fix = Negate(tab.base[2])
    BY <1>10 DEF LsbCorrectionOf
  <2>2. fix = Lin(x - 1, y - 1, p, r)
    BY <1>2, <1>5, <1>6, <1>10, <2>1
  <2>3. QED
    BY <2>2 DEF tab
<1>11. QED
  BY <1>7, <1>8, <1>9, <1>10

LEMMA LsbWalks ==
    ASSUME HintInv, ClaimInv, ChainInv, LsbCorrection
    PROVE  ChainInv'
<1> DEFINE tab == tables[cert]
           sel == Selectors(cert)
           operand == LsbCorrectionOf(tab, sel)
           rows == <<AddRow("Chain", walk.acc, operand)>>
           after == rows[Len(rows)].out
           p == BaseOf(cert)
           r == tables[cert].r
           x == Lsb(hints[cert].s1)
           y == Lsb(hints[cert].s2)
           xh == High(hints[cert].s1, 0)
           yh == High(hints[cert].s2, 0)
           s1 == hints[cert].s1
           s2 == hints[cert].s2
<1>1. /\ phase = "lsb" /\ cert \in Certs
      /\ walk' = [left |-> walk.left - 1, acc |-> after] /\ phase' = "chained"
      /\ UNCHANGED <<input, setup, cert, hints, tables>>
  BY Zenon DEF LsbCorrection, Push, HintInv, Certs
<1>2. phase \in AfterTables
  BY <1>1 DEF AfterTables, AfterKey, AfterHints, AfterSetup
<1>3. Active(cert) /\ walk.acc = AddPoints(Prefix(cert, 0), tab.r3)
  BY <1>1 DEF ChainInv, Walking
<1>4. after = AddPoints(walk.acc, operand)
  <2> HIDE DEF operand
  <2>1. QED
    BY DEF AddRow, Row
<1>5. /\ p \in 1 .. N - 1 /\ r \in 0 .. N - 1 /\ tab = TableOf(p, r, sel)
      /\ s1 \in Nat /\ s1 < HalfBound /\ s2 \in Nat /\ s2 < HalfBound
  BY <1>1, <1>2, <1>3, ChainFacts
<1>6. p \in 0 .. N - 1 /\ p \in Int /\ r \in Int
  BY <1>5, OrderFacts
<1>7. /\ x \in {0, 1} /\ y \in {0, 1} /\ s1 = 2 * xh + x /\ s2 = 2 * yh + y
      /\ sel.lsb = <<x, y>>
  <2>1. sel.lsb = <<x, y>>
    BY DEF Selectors, SelectorsOf
  <2> HIDE DEF sel, s1, s2, HalfBound
  <2>2. QED
    BY <1>5, <2>1, EndBits DEF s1, s2
<1>8. xh \in Nat /\ yh \in Nat
  <2>1. 0 \in 0 .. C
    BY ChunksPositive
  <2>2. QED
    BY <1>1, <1>2, <1>3, <2>1, PrefixPoint
<1>9. operand = Lin(x - 1, y - 1, p, r)
  <2> DEFINE t == TableOf(p, r, sel)
  <2> HIDE DEF p, r, sel, x, y
  <2>1. LsbCorrectionOf(t, sel) = Lin(x - 1, y - 1, p, r)
    BY <1>5, <1>6, <1>7, CorrectionLin
  <2> HIDE DEF tab, t
  <2>2. QED
    BY <1>5, <2>1 DEF t, sel
<1>10. tab.r3 = Lin(0, 3, p, r)
  <2> DEFINE t == TableOf(p, r, sel)
  <2>1. t.r3 = Lin(0, 3, p, r)
    <3> HIDE DEF p, r, sel
    <3>1. QED
      BY <1>5, <1>6, TableParts
  <2> HIDE DEF t, tab
  <2>2. QED
    BY <1>5, <2>1 DEF t
<1>11. Prefix(cert, 0) = Lin(2 * xh + 1, 2 * yh + 1, p, r)
  BY DEF Prefix
<1> DEFINE acc == walk.acc
<1>12. acc = AddPoints(Prefix(cert, 0), tab.r3)
  BY <1>3
<1> DEFINE three == tab.r3
<1>13. acc = AddPoints(Prefix(cert, 0), three) /\ three = Lin(0, 3, p, r) /\ after = AddPoints(acc, operand)
  BY <1>4, <1>10, <1>12
<1> HIDE DEF acc, three, operand, after, p, r, x, y, xh, yh, s1, s2
<1> DEFINE a == 2 * xh + 1
           b == 2 * yh + 1
           b3 == 2 * yh + 4
           m == x - 1
           n == y - 1
           e == s2 + 3
<1>14. /\ a \in Int /\ b \in Int /\ b3 \in Int /\ m \in Int /\ n \in Int
       /\ 0 \in Int /\ 3 \in Int /\ a = a + 0 /\ b3 = b + 3
       /\ s1 = a + m /\ e = b3 + n
  BY <1>7, <1>8
<1>15. Prefix(cert, 0) = Lin(a, b, p, r) /\ operand = Lin(m, n, p, r)
  BY <1>9, <1>11
<1> HIDE DEF a, b, b3, m, n, e
<1>16. acc = Lin(a, b3, p, r)
  <2>1. AddPoints(Lin(a, b, p, r), Lin(0, 3, p, r)) = Lin(a, b3, p, r)
    BY <1>6, <1>14, LinAdd
  <2>2. QED
    BY <1>13, <1>15, <2>1
<1>17. after = Lin(s1, e, p, r)
  <2>1. AddPoints(Lin(a, b3, p, r), Lin(m, n, p, r)) = Lin(s1, e, p, r)
    BY <1>6, <1>14, LinAdd
  <2>2. QED
    BY <1>13, <1>15, <1>16, <2>1
<1>18. walk'.acc = after
  BY <1>1
<1>19. /\ HintsSized' /\ TablesMade' /\ Active(cert)' /\ BaseOf(cert)' = BaseOf(cert)
  BY <1>1, <1>2, <1>3, ChainStatic
<1>20. Walking'
  <2>1. (walk.acc = Lin(hints[cert].s1, hints[cert].s2 + 3, BaseOf(cert), tables[cert].r))'
    BY <1>1, <1>17, <1>18, <1>19 DEF s1, s2, e, p, r
  <2>2. QED
    BY <1>1, <1>19, <2>1 DEF Walking
<1>21. QED
  BY <1>19, <1>20 DEF ChainInv

-----------------------------------------------------------------------------
(* The steps around the chain.                                             *)

LEMMA BuildWalks ==
    ASSUME HintInv, ClaimInv, ChainInv, BuildTables \/ BuildTablesFrom
    PROVE  ChainInv'
<1>1. /\ phase = "tables" /\ phase' = "chain" /\ UNCHANGED <<input, setup, hints>>
      /\ \/ tables' = [c \in Certs |-> TableFor(c, HintPoint(c))]
         \/ \E d \in {i \in Certs : Active(i)} : \E r \in Neighbours(HintPoint(d)) :
               tables' = [i \in Certs |-> TableFor(i, IF i = d THEN r ELSE HintPoint(i))]
  BY DEF BuildTables, BuildTablesFrom
<1>2. ASSUME NEW c \in Certs
      PROVE  HintPoint(c) \in 0 .. N - 1
  <2>1. input.d \in Int
    BY InputTypes DEF HintInv
  <2>2. BaseOf(c) \in Int /\ setup.u[c] \in Int
    BY <2>1 DEF BaseOf, HintInv, Scalars, Certs
  <2> DEFINE q == Times(setup.u[c], BaseOf(c))
  <2>3. q \in 0 .. N - 1
    BY <2>2, PointTypes
  <2> HIDE DEF q
  <2>4. OrientedHint(q, hints[c].bit) \in 0 .. N - 1
    BY <2>3, NegateTwice DEF OrientedHint
  <2>5. QED
    BY <2>4 DEF HintPoint, q
<1>3. ASSUME NEW c \in Certs, NEW r \in Neighbours(HintPoint(c))
      PROVE  r \in 0 .. N - 1
  <2> DEFINE h == HintPoint(c)
  <2>1. h \in 0 .. N - 1 /\ h \in Int /\ 1 \in 0 .. N - 1 /\ 1 \in Int
    BY <1>2, OrderFacts
  <2> HIDE DEF h
  <2>2. AddPoints(h, 1) \in 0 .. N - 1 /\ AddPoints(h, h) \in 0 .. N - 1 /\ Negate(h) \in 0 .. N - 1
    BY <2>1, PointTypes, NegateTwice
  <2>3. r \in {AddPoints(h, 1), Negate(h), AddPoints(h, h), 1}
    BY DEF Neighbours, h
  <2>4. QED
    BY <2>1, <2>2, <2>3
<1>4. \E f : /\ \A c \in Certs : f[c] \in 0 .. N - 1
             /\ tables' = [c \in Certs |-> TableFor(c, f[c])]
  <2>1. CASE tables' = [c \in Certs |-> TableFor(c, HintPoint(c))]
    <3> DEFINE f == [c \in Certs |-> HintPoint(c)]
    <3>1. \A c \in Certs : f[c] = HintPoint(c)
      OBVIOUS
    <3>2. tables' = [c \in Certs |-> TableFor(c, f[c])]
      BY <2>1, <3>1
    <3>3. \A c \in Certs : f[c] \in 0 .. N - 1
      BY <1>2, <3>1
    <3> HIDE DEF f
    <3>4. QED
      BY <3>2, <3>3, Zenon
  <2>2. CASE \E d \in {i \in Certs : Active(i)} : \E r \in Neighbours(HintPoint(d)) :
               tables' = [i \in Certs |-> TableFor(i, IF i = d THEN r ELSE HintPoint(i))]
    <3>1. PICK d \in Certs : \E r \in Neighbours(HintPoint(d)) :
               tables' = [i \in Certs |-> TableFor(i, IF i = d THEN r ELSE HintPoint(i))]
      BY <2>2
    <3>2. PICK r \in Neighbours(HintPoint(d)) :
               tables' = [i \in Certs |-> TableFor(i, IF i = d THEN r ELSE HintPoint(i))]
      BY <3>1
    <3> DEFINE f == [i \in Certs |-> IF i = d THEN r ELSE HintPoint(i)]
    <3>3. \A i \in Certs : f[i] = IF i = d THEN r ELSE HintPoint(i)
      OBVIOUS
    <3>4. tables' = [i \in Certs |-> TableFor(i, f[i])]
      BY <3>2, <3>3
    <3>5. \A i \in Certs : f[i] \in 0 .. N - 1
      BY <1>2, <1>3, <3>3
    <3> HIDE DEF f
    <3>6. QED
      BY <3>4, <3>5, Zenon
  <2>3. QED
    BY <1>1, <2>1, <2>2
<1>5. PICK f : /\ \A c \in Certs : f[c] \in 0 .. N - 1
               /\ tables' = [c \in Certs |-> TableFor(c, f[c])]
  BY <1>4
<1>6. ASSUME NEW c \in Certs, Active(c)
      PROVE  tables'[c].r = f[c] /\ tables'[c] = TableOf(BaseOf(c), tables'[c].r, Selectors(c))
  <2>1. tables'[c] = TableOf(BaseOf(c), f[c], Selectors(c))
    BY <1>5, <1>6 DEF TableFor
  <2> HIDE DEF BaseOf, Selectors
  <2>2. TableOf(BaseOf(c), f[c], Selectors(c)).r = f[c]
    BY DEF TableOf
  <2>3. QED
    BY <2>1, <2>2
<1>7. \A c \in Certs : /\ Active(c)' = Active(c) /\ BaseOf(c)' = BaseOf(c)
                       /\ Selectors(c)' = Selectors(c)
  BY <1>1 DEF Active, BaseOf, Selectors
<1>8. TablesMade'
  <2> SUFFICES ASSUME NEW c \in Certs, Active(c)
               PROVE  /\ tables'[c].r \in 0 .. N - 1
                      /\ tables'[c] = TableOf(BaseOf(c), tables'[c].r, Selectors(c))
    BY <1>7 DEF TablesMade
  <2>1. QED
    BY <1>5, <1>6
<1>9. HintsSized' /\ Walking'
  BY <1>1 DEF ChainInv, HintsSized, Walking
<1>10. QED
  BY <1>8, <1>9 DEF ChainInv

(* A step to a phase before the tables, or between two phases outside the walk. *)
LEMMA ResumingStep ==
    ASSUME ChainInv, UNCHANGED <<input, setup, hints, tables>>,
           phase' \in AfterTables => phase \in AfterTables,
           phase' \notin {"steps", "lsb", "chained"}
    PROVE  ChainInv'
BY DEF ChainInv, HintsSized, TablesMade, Walking, Active, BaseOf, Selectors

LEMMA InitChainInv == Init => ChainInv
<1> SUFFICES ASSUME Init PROVE ChainInv
  OBVIOUS
<1>1. phase \in {"native", "setup"} /\ hints = <<>>
  BY DEF Init
<1>2. phase \notin AfterTables /\ phase \notin {"steps", "lsb", "chained"}
  BY <1>1 DEF AfterSetup, AfterHints, AfterKey, AfterTables
<1>3. QED
  BY <1>1, <1>2 DEF ChainInv, HintsSized, TablesMade, Walking

LEMMA NextChainInv == HintInv /\ HintInv' /\ ClaimInv /\ ChainInv /\ [Next]_vars => ChainInv'
<1> SUFFICES ASSUME HintInv, HintInv', ClaimInv, ChainInv, [Next]_vars PROVE ChainInv'
  OBVIOUS
<1>1. CASE NativeVerify
  BY <1>1, ResumingStep
     DEF NativeVerify, Refuse, AfterTables, AfterKey, AfterHints, AfterSetup
<1>2. CASE SetupScalars
  <2>1. phase = "setup" /\ phase' \in {"lattice", "refused"} /\ hints' = hints
    BY <1>2 DEF SetupScalars, Refuse
  <2>2. hints = <<>>
    BY <2>1 DEF HintInv, Started
  <2>3. QED
    BY <2>1, <2>2 DEF ChainInv, HintsSized, TablesMade, Walking,
                      AfterTables, AfterKey, AfterHints, AfterSetup
<1>3. CASE LatticeStep
  BY <1>3, ResumingStep DEF LatticeStep
<1>4. CASE FinishHint
  <2>1. phase' \in {"lattice", "key", "refused"}
    BY <1>4 DEF FinishHint, Refuse
  <2>2. HintsSized'
    BY <1>4, FinishHintSized DEF ChainInv
  <2>3. QED
    BY <2>1, <2>2 DEF ChainInv, TablesMade, Walking, AfterTables, AfterKey, AfterHints, AfterSetup
<1>5. CASE CheckKey
  BY <1>5, ResumingStep
     DEF CheckKey, Refuse, AfterTables, AfterKey, AfterHints, AfterSetup
<1>6. CASE BuildTables \/ BuildTablesFrom
  BY <1>6, BuildWalks
<1>7. CASE MsbInit
  BY <1>7, MsbWalks
<1>8. CASE ChainStep
  BY <1>8, StepWalks
<1>9. CASE Table16Step
  BY <1>9, Table16Walks
<1>10. CASE LsbCorrection
  BY <1>10, LsbWalks
<1>11. CASE NextChain
  <2>1. /\ phase \in {"chain", "chained"} /\ phase' \in {"chain", "probed", "rows"}
        /\ UNCHANGED <<input, setup, hints, tables>>
    BY <1>11 DEF NextChain
  <2>2. QED
    BY <2>1, ResumingStep DEF AfterTables, AfterKey, AfterHints, AfterSetup
<1>12. CASE ProjectRows
  <2>1. /\ phase = "rows" /\ phase' \in {"refused", "final"}
        /\ UNCHANGED <<input, setup, hints, tables>>
    <3> DEFINE stuck == \E i \in DOMAIN EcRows : ~RowReproduced(EcRows[i])
    <3>1. /\ phase = "rows"
          /\ IF stuck THEN Refuse("ProjectiveOutputMismatch")
             ELSE phase' = "final" /\ UNCHANGED <<input, setup, hints, tables>>
      BY <1>12 DEF ProjectRows
    <3> HIDE DEF stuck
    <3>2. QED
      BY <3>1 DEF Refuse
  <2>2. QED
    BY <2>1, ResumingStep DEF AfterTables, AfterKey, AfterHints, AfterSetup
<1>13. CASE FinalCheck
  <2>1. /\ phase = "final" /\ phase' \in {"refused", "add"}
        /\ UNCHANGED <<input, setup, hints, tables>>
    BY <1>13 DEF FinalCheck, Refuse
  <2>2. QED
    BY <2>1, ResumingStep DEF AfterTables, AfterKey, AfterHints, AfterSetup
<1>14. CASE FinalAdd
  <2>1. /\ phase = "add" /\ phase' \in {"refused", "count"}
        /\ UNCHANGED <<input, setup, hints, tables>>
    <3> DEFINE stuck == FinalAddBranch(Addends[1], Addends[2]) \in {"BothInfinity", "InverseAdd"}
               branch == FinalAddBranch(Addends[1], Addends[2])
    <3>1. /\ phase = "add"
          /\ IF stuck THEN Refuse(branch)
             ELSE phase' = "count" /\ UNCHANGED <<input, setup, hints, tables>>
      BY <1>14 DEF FinalAdd
    <3> HIDE DEF stuck, branch
    <3>2. QED
      BY <3>1 DEF Refuse
  <2>2. QED
    BY <2>1, ResumingStep DEF AfterTables, AfterKey, AfterHints, AfterSetup
<1>15. CASE CountUses
  <2>1. /\ phase = "count" /\ phase' \in {"refused", "built"}
        /\ UNCHANGED <<input, setup, hints, tables>>
    BY <1>15 DEF CountUses, Refuse
  <2>2. QED
    BY <2>1, ResumingStep DEF AfterTables, AfterKey, AfterHints, AfterSetup
<1>16. CASE Done \/ UNCHANGED vars
  <2>1. UNCHANGED <<phase, input, setup, cert, hints, tables, walk>>
    BY <1>16 DEF Done, vars
  <2>2. QED
    BY <2>1 DEF ChainInv, HintsSized, TablesMade, Walking, Active, BaseOf, Selectors, Prefix
<1>17. QED
  BY <1>1, <1>2, <1>3, <1>4, <1>5, <1>6, <1>7, <1>8, <1>9, <1>10, <1>11, <1>12,
     <1>13, <1>14, <1>15, <1>16 DEF Next

-----------------------------------------------------------------------------
(* The end of the chain: only one hint point closes it.                    *)

(* A factor that N does not divide cancels. *)
LEMMA Cancel ==
    ASSUME NEW s \in Int, s % N # 0, NEW a \in 0 .. N - 1, NEW b \in 0 .. N - 1,
           (s * a) % N = (s * b) % N
    PROVE  a = b
<1> DEFINE e == s % N
           w == InverseOf[e]
<1>1. e \in 1 .. N - 1 /\ N \in Int /\ a \in Int /\ b \in Int
  BY Remainder, OrderFacts
<1>2. w \in 1 .. N - 1 /\ (e * w) % N = 1
  BY <1>1, InverseFacts
<1> HIDE DEF w
<1>3. w \in Int
  BY <1>2
<1>4. (s * w) % N = 1
  <2>1. ((s % N) * w) % N = (s * w) % N
    BY <1>3, RemainderOfProduct
  <2>2. QED
    BY <1>2, <2>1
<1> DEFINE sw == s * w
           sa == s * a
           sb == s * b
<1>5. sw \in Int /\ sa \in Int /\ sb \in Int
  BY <1>1, <1>3
<1>6. w * sa = sw * a /\ w * sb = sw * b
  BY <1>1, <1>3, Z3
<1>7. sw % N = 1 /\ sa % N = sb % N
  BY <1>4
<1> HIDE DEF e, sw, sa, sb
<1>8. PICK j \in Int : sw = 1 + j * N
  BY <1>5, <1>7, Remainder
<1>9. PICK i \in Int : sa = sb + i * N
  BY <1>5, <1>7, EqualRemainders
<1>10. sw * a = a + (j * a) * N /\ sw * b = b + (j * b) * N
  BY <1>1, <1>5, <1>8, Z3
<1>11. w * sa = w * sb + (w * i) * N
  BY <1>1, <1>3, <1>5, <1>9, Z3
<1> DEFINE ja == j * a
           jb == j * b
           wi == w * i
           q == (jb + wi) - ja
<1>12. ja \in Int /\ jb \in Int /\ wi \in Int
  BY <1>1, <1>3
<1>13. a + ja * N = (b + jb * N) + wi * N
  BY <1>6, <1>10, <1>11
<1> HIDE DEF ja, jb, wi
<1>14. a = b + q * N /\ q \in Int
  BY <1>1, <1>12, <1>13, Z3
<1> HIDE DEF q
<1>15. a % N = b % N
  BY <1>1, <1>14, SameRemainder, ZenonT(40)
<1>16. QED
  BY <1>15, SmallRemainder

(* The second half of a hint is not a multiple of the order. *)
LEMMA HalfInvertible ==
    ASSUME NEW k \in Int, NEW s2 \in Int, NEW q \in Int, NEW sel \in 1 .. N - 1,
           k * s2 = q * N + sel
    PROVE  s2 % N # 0
<1>1. N \in Nat \ {0} /\ sel \in Int
  BY OrderFacts
<1>2. CASE s2 % N = 0
  <2>1. PICK m \in Int : s2 = (s2 % N) + m * N
    BY Remainder
  <2>2. s2 = m * N
    BY <1>1, <1>2, <2>1
  <2> DEFINE km == k * m
             j == km - q
  <2>3. k * s2 = km * N /\ km \in Int
    BY <1>1, <2>2, Z3
  <2> HIDE DEF km
  <2>4. sel = j * N /\ j \in Int
    BY <1>1, <2>3, Z3
  <2> HIDE DEF j
  <2>5. (j * N) % N = 0
    BY <1>1, <2>4, ExactDivision
  <2>6. sel % N = 0
    BY <2>4, <2>5
  <2>7. sel \in 0 .. N - 1 /\ sel # 0
    BY <1>1
  <2>8. QED
    BY <2>6, <2>7, SmallRemainder
<1>3. QED
  BY <1>2

(* The combination of a base and a hint is infinity for the hint point that is the
   scalar's multiple, with the hint's sign, and for no other. *)
LEMMA HintBinds ==
    ASSUME NEW k \in 1 .. N - 1, NEW h, NEW p \in 1 .. N - 1, NEW r \in 0 .. N - 1,
           h.s1 \in 1 .. N - 1, h.s2 \in Nat, h.q \in Int, h.bit \in {0, 1},
           k * h.s2 = h.q * N + SelectedS1(h)
    PROVE  Lin(h.s1, h.s2, p, r) = Infinity <=> r = OrientedHint(Times(k, p), h.bit)
<1> DEFINE s1 == h.s1
           s2 == h.s2
           q == h.q
           sel == SelectedS1(h)
           g == OrientedHint(Times(k, p), h.bit)
           kp == k * p
<1>1. /\ N \in Int /\ k \in Int /\ p \in Int /\ r \in Int
      /\ s1 \in Int /\ s2 \in Int /\ q \in Int
  BY OrderFacts
<1>2. kp \in Int
  BY <1>1
<1>3. sel \in 1 .. N - 1 /\ sel \in Int /\ sel = IF h.bit = 1 THEN s1 ELSE N - s1
  BY <1>1 DEF SelectedS1
<1>4. s2 % N # 0
  <2>1. k * s2 = q * N + sel
    OBVIOUS
  <2> HIDE DEF s2, q, sel
  <2>2. QED
    BY <1>1, <1>3, <2>1, HalfInvertible
<1>5. g \in 0 .. N - 1
  <2> DEFINE t == Times(k, p)
  <2>1. t \in 0 .. N - 1
    BY <1>1, PointTypes
  <2> HIDE DEF t
  <2>2. OrientedHint(t, h.bit) \in 0 .. N - 1
    BY <2>1, NegateTwice DEF OrientedHint
  <2>3. QED
    BY <2>2 DEF t
<1>6. g \in Int
  <2> HIDE DEF g
  <2>1. QED
    BY <1>1, <1>5
(* The right hint point gives infinity: s1 P + s2 g is a multiple of N. *)
<1>7. (s1 * p + s2 * g) % N = 0
  <2>0. k * s2 = q * N + sel
    OBVIOUS
  <2>1. CASE h.bit = 1
    <3>1. g = (-kp) % N
      <4>1. g = Negate(kp % N)
        BY <2>1 DEF OrientedHint, Times
      <4>2. (-(kp % N)) % N = (-kp) % N
        <5> HIDE DEF kp
        <5>1. QED
          BY <1>2, RemainderOfNegation
      <4>3. QED
        BY <4>1, <4>2 DEF Negate
    <3> DEFINE x == -kp
    <3>2. x \in Int
      BY <1>2
    <3>3. PICK m \in Int : x = (x % N) + m * N
      <4> HIDE DEF x
      <4>1. QED
        BY <3>2, Remainder
    <3> HIDE DEF g
    <3>4. g = -kp - m * N
      <4> HIDE DEF kp
      <4>1. QED
        BY <1>1, <1>2, <1>6, <3>1, <3>3 DEF x
    <3>5. sel = s1
      BY <1>3, <2>1
    <3> HIDE DEF s1, s2, q, sel, x
    <3>6. s2 * g = -(k * s2) * p - (s2 * m) * N
      BY <1>1, <3>4, Z3
    <3>7. (k * s2) * p = (q * p) * N + s1 * p
      BY <1>1, <2>0, <3>5, Z3
    <3> DEFINE sp == s1 * p
               sg == s2 * g
               qp == q * p
               sm == s2 * m
               c == -(qp + sm)
    <3>8. sp \in Int /\ sg \in Int /\ qp \in Int /\ sm \in Int
      BY <1>1, <1>6
    <3>9. sg = -(qp * N + sp) - sm * N
      <4> DEFINE u == k * s2
      <4>1. u \in Int /\ u * p = qp * N + sp /\ sg = -u * p - sm * N
        BY <1>1, <3>6, <3>7
      <4> HIDE DEF u, sp, sg, qp, sm
      <4>2. -u * p = -(u * p)
        BY <1>1, <4>1, Z3
      <4>3. QED
        BY <4>1, <4>2
    <3> HIDE DEF sp, sg, qp, sm
    <3>10. sp + sg = c * N /\ c \in Int
      BY <1>1, <3>8, <3>9, Z3
    <3>11. (c * N) % N = 0
      <4> HIDE DEF c
      <4>1. N \in Nat \ {0}
        BY OrderFacts
      <4>2. QED
        BY <3>10, <4>1, ExactDivision
    <3>12. (sp + sg) % N = 0
      BY <3>10, <3>11
    <3>13. QED
      BY <3>12 DEF sp, sg
  <2>2. CASE h.bit # 1
    <3>1. g = kp % N
      BY <2>2 DEF OrientedHint, Times
    <3>2. PICK m \in Int : kp = (kp % N) + m * N
      <4> HIDE DEF kp
      <4>1. QED
        BY <1>2, Remainder
    <3> HIDE DEF g
    <3>3. g = kp - m * N
      <4> HIDE DEF kp
      <4>1. QED
        BY <1>1, <1>2, <1>6, <3>1, <3>2
    <3>4. sel = N - s1
      BY <1>3, <2>2
    <3> HIDE DEF s1, s2, q, sel
    <3>5. s2 * g = (k * s2) * p - (s2 * m) * N
      BY <1>1, <3>3, Z3
    <3>6. (k * s2) * p = (q * p) * N + p * N - s1 * p
      <4>1. k * s2 = q * N + N - s1
        BY <1>1, <2>0, <3>4
      <4>2. QED
        BY <1>1, <4>1, Z3
    <3> DEFINE sp == s1 * p
               sg == s2 * g
               qp == q * p
               sm == s2 * m
               u == (k * s2) * p
               c == (qp + p) - sm
    <3>7. sp \in Int /\ sg \in Int /\ qp \in Int /\ sm \in Int /\ u \in Int
      BY <1>1, <1>6
    <3>8. sg = u - sm * N /\ u = qp * N + p * N - sp
      BY <3>5, <3>6
    <3> HIDE DEF sp, sg, qp, sm, u
    <3>9. sp + sg = c * N /\ c \in Int
      BY <1>1, <3>7, <3>8, Z3
    <3>10. (c * N) % N = 0
      <4> HIDE DEF c
      <4>1. N \in Nat \ {0}
        BY OrderFacts
      <4>2. QED
        BY <3>9, <4>1, ExactDivision
    <3>11. (sp + sg) % N = 0
      BY <3>9, <3>10
    <3>12. QED
      BY <3>11 DEF sp, sg
  <2>3. QED
    BY <2>1, <2>2
<1> HIDE DEF s1, s2, q, sel, g, kp
<1>8. ASSUME (s1 * p + s2 * r) % N = 0 PROVE r = g
  <2> DEFINE sp == s1 * p
             sr == s2 * r
             sg == s2 * g
  <2>1. sp \in Int /\ sr \in Int /\ sg \in Int
    BY <1>1, <1>6
  <2>2. (sp + sr) % N = (sp + sg) % N
    BY <1>7, <1>8
  <2> HIDE DEF sp, sr, sg
  <2>3. PICK i \in Int : sp + sr = (sp + sg) + i * N
    <3> DEFINE x == sp + sr
               y == sp + sg
    <3>1. x \in Int /\ y \in Int /\ x % N = y % N
      BY <2>1, <2>2
    <3> HIDE DEF x, y
    <3>2. \E i \in Int : x = y + i * N
      BY <3>1, EqualRemainders
    <3>3. QED
      BY <3>2 DEF x, y
  <2>4. sr = sg + i * N
    <3> DEFINE z == i * N
    <3>1. z \in Int /\ sp + sr = (sp + sg) + z
      BY <1>1, <2>3
    <3> HIDE DEF z
    <3>2. sr = sg + z
      BY <2>1, <3>1
    <3>3. QED
      BY <3>2 DEF z
  <2>5. sr % N = sg % N
    BY <2>1, <2>4, SameRemainder
  <2>6. QED
    BY <1>1, <1>4, <1>5, <2>5, Cancel DEF sr, sg
<1>9. (s1 * p + s2 * r) % N = 0 <=> r = g
  BY <1>7, <1>8
<1>10. QED
  BY <1>9 DEF Lin, Infinity, s1, s2, g

(* Adding a point leaves another only when the point is infinity. *)
LEMMA AddsNothing ==
    ASSUME NEW a \in 0 .. N - 1, NEW b \in 0 .. N - 1
    PROVE  AddPoints(a, b) = b <=> a = Infinity
<1>1. a \in Int /\ b \in Int /\ N \in Nat \ {0} /\ b % N = b
  BY OrderFacts, SmallRemainder
<1>2. a = 0 => (a + b) % N = b
  <2>1. a = 0 => a + b = b
    BY <1>1
  <2>2. QED
    BY <1>1, <2>1
<1>3. ASSUME (a + b) % N = b PROVE a = 0
  <2> DEFINE y == a + b
  <2>1. y \in Int /\ y % N = b % N
    BY <1>1, <1>3
  <2> HIDE DEF y
  <2>2. PICK i \in Int : y = b + i * N
    BY <1>1, <2>1, EqualRemainders
  <2>3. a = i * N
    <3> DEFINE z == i * N
    <3>1. z \in Int /\ a + b = b + z
      BY <1>1, <2>2 DEF y
    <3> HIDE DEF z
    <3>2. a = z
      BY <1>1, <3>1
    <3>3. QED
      BY <3>2 DEF z
  <2>4. (i * N) % N = 0
    BY <1>1, ExactDivision
  <2>5. a % N = 0
    BY <2>3, <2>4
  <2>6. QED
    BY <2>5, SmallRemainder
<1>4. QED
  BY <1>2, <1>3 DEF AddPoints, Infinity

LEMMA ChainBinds == HintInv /\ ClaimInv /\ ChainInv => ChainBindsHint
<1> SUFFICES ASSUME HintInv, ClaimInv, ChainInv, phase = "chained"
             PROVE  walk.acc = tables[cert].r3 <=> tables[cert].r = HintPoint(cert)
  BY DEF ChainBindsHint
<1> DEFINE p == BaseOf(cert)
           r == tables[cert].r
           h == hints[cert]
           k == setup.u[cert]
           three == tables[cert].r3
           sel == Selectors(cert)
<1>1. /\ phase \in AfterTables /\ phase \in AfterHints /\ cert \in Certs /\ Active(cert)
  BY DEF AfterTables, AfterKey, AfterHints, AfterSetup, HintInv, Certs, ChainInv, Walking
<1>2. /\ p \in 1 .. N - 1 /\ r \in 0 .. N - 1 /\ tables[cert] = TableOf(p, r, sel)
      /\ h.s1 \in 1 .. N - 1 /\ h.s1 \in Nat /\ h.s2 \in Nat /\ h.q \in Int
  BY <1>1, ChainFacts
<1>3. cert \in DOMAIN hints
  BY <1>1 DEF ClaimInv, BitsSet, Certs
<1>4. h.bit \in {0, 1}
  BY <1>3 DEF ClaimInv, BitsSet
<1>5. k \in 1 .. N - 1
  <2>1. k \in 0 .. N - 1 /\ k # 0
    BY <1>1 DEF HintInv, Scalars, Certs, Active
  <2> HIDE DEF k
  <2>2. QED
    BY <2>1, OrderFacts
<1>6. k * h.s2 = h.q * N + SelectedS1(h)
  <2>1. HintProves(k, h)
    BY <1>3 DEF HintInv, HintsProve
  <2>2. k # 0
    BY <1>1 DEF Active
  <2> HIDE DEF k, h
  <2>3. QED
    BY <2>1, <2>2 DEF HintProves
<1>7. three = Lin(0, 3, p, r)
  <2> DEFINE t == TableOf(p, r, sel)
  <2>1. p \in 0 .. N - 1
    BY <1>2, OrderFacts
  <2>2. t.r3 = Lin(0, 3, p, r)
    <3> HIDE DEF p, r, sel
    <3>1. QED
      BY <1>2, <2>1, TableParts
  <2> HIDE DEF t
  <2>3. QED
    BY <1>2, <2>2 DEF t
<1> DEFINE acc == walk.acc
           e == h.s2 + 3
           a == h.s1
           b == h.s2
<1>8. acc = Lin(a, e, p, r)
  BY DEF ChainInv, Walking
<1>9. /\ p \in Int /\ r \in Int /\ a \in Int /\ b \in Int /\ e \in Int
      /\ 0 \in Int /\ 3 \in Int /\ a = a + 0 /\ e = b + 3
  BY <1>2, OrderFacts
<1>10. r = OrientedHint(Times(k, p), h.bit) <=> Lin(a, b, p, r) = Infinity
  <2> HIDE DEF p, r, k, h
  <2>1. QED
    BY <1>2, <1>4, <1>5, <1>6, HintBinds
<1> HIDE DEF p, r, h, k, three, acc, e, a, b
<1> DEFINE l == Lin(a, b, p, r)
<1>11. l \in 0 .. N - 1 /\ three \in 0 .. N - 1
  BY <1>7, <1>9, LinPoint
<1>12. acc = AddPoints(l, three)
  <2>1. AddPoints(Lin(a, b, p, r), Lin(0, 3, p, r)) = Lin(a, e, p, r)
    BY <1>9, LinAdd
  <2>2. QED
    BY <1>7, <1>8, <2>1
<1> HIDE DEF l
<1>13. acc = three <=> l = Infinity
  BY <1>11, <1>12, AddsNothing
<1>14. QED
  BY <1>10, <1>13 DEF HintPoint, acc, three, l, p, r, h, k

(* CertContinuity's last row: for every group order, every certificate and every
   hint point a table may be made from, the chain ends at three times the hint
   point exactly when the hint point is the scalar's multiple of the base with the
   hint's sign. *)
THEOREM ChainAlwaysBinds == Spec => []ChainBindsHint
<1>1. QED
  BY InitHintInv, NextHintInv, InitClaimInv, NextClaimInv, InitChainInv, NextChainInv,
     ChainBinds, PTL DEF Spec
-----------------------------------------------------------------------------
(* Which curve operations meet infinity.  Base and hint of a certificate    *)
(* span a lattice: the pairs (a, b) with a P + b R infinity.  The hint is   *)
(* a short vector of it and no multiple of a shorter one, and what a chain  *)
(* passes through is too short to be another.                               *)

(* A factor of both divides the order, which is prime. *)
Coprime(a, b) == \E u, v \in Nat : a * u + b * v = N

(* The cross product with the row before bounds the hint and makes its halves
   coprime. *)
Short(h) ==
    /\ h.s1 \in Nat /\ h.s2 \in Nat
    /\ 1 <= h.s1 /\ h.s1 < Root /\ 1 <= h.s2 /\ h.s2 * Root <= N
    /\ Coprime(h.s2, h.s1)

LEMMA ShortVector ==
    ASSUME NEW rp \in Nat, NEW rc \in Nat, NEW tp \in Int, NEW tc \in Int, NEW m \in Nat,
           Crossed(rp, rc, tp, tc), m = tc \/ m = -tc, Root <= rp
    PROVE  m * Root <= N /\ Coprime(m, rc)
<1> HIDE DEF Root
<1>0. N \in Nat /\ Root \in Nat
  BY OrderFacts
<1>1. m * rp <= N
  BY CrossedBound
<1>2. Root * m <= rp * m
  BY <1>0, ProductMonotone
<1>3. m * Root <= N
  <2>1. Root * m = m * Root /\ rp * m = m * rp
    BY <1>0, Z3
  <2> DEFINE x == m * Root
             y == m * rp
  <2>2. x \in Int /\ y \in Int /\ x <= y /\ y <= N
    BY <1>0, <1>1, <1>2, <2>1
  <2> HIDE DEF x, y
  <2>3. x <= N
    BY <1>0, <2>2
  <2>4. QED
    BY <2>3 DEF x
<1>4. CASE 1 <= tc /\ tp <= 0 /\ tc * rp - tp * rc = N
  <2>1. m = tc /\ -tp \in Nat
    BY <1>4
  <2>2. m * rp + rc * (-tp) = N
    BY <1>0, <1>4, <2>1, Z3
  <2>3. QED
    BY <1>3, <2>1, <2>2 DEF Coprime
<1>5. CASE tc <= -1 /\ 0 <= tp /\ tp * rc - tc * rp = N
  <2>1. m = -tc /\ tp \in Nat
    BY <1>5
  <2>2. m * rp + rc * tp = N
    BY <1>0, <1>5, <2>1, Z3
  <2>3. QED
    BY <1>3, <2>1, <2>2 DEF Coprime
<1>6. QED
  BY <1>4, <1>5 DEF Crossed

LEMMA HintOfShort ==
    ASSUME NEW k \in 1 .. N - 1, NEW l, LatticeInv(k, l), ~(Root <= l.curr.rem)
    PROVE  Short(HintOf(k, l.curr))
<1> HIDE DEF Root, HalfBound
<1> DEFINE rc == l.curr.rem
           rp == l.prev.rem
           tc == l.curr.t
           tp == l.prev.t
           h == HintOf(k, l.curr)
           g == HintCandidate(k, rc, -tc)
           mag == IF -tc < 0 THEN -(-tc) ELSE -tc
<1>1. h # NoHint
  BY HintOfProves
<1>2. /\ rc \in Int /\ tc \in Int /\ tp \in Int /\ rp \in Int /\ Root <= rp /\ 0 <= rc /\ rc < Root
      /\ Crossed(rp, rc, tp, tc)
  BY OrderFacts DEF LatticeInv, IsRow
<1>3. h = g
  <2>1. ~(l.curr.rem < 0)
    BY <1>2
  <2> HIDE DEF HintCandidate
  <2>2. QED
    BY <1>1, <2>1 DEF HintOf
<1>4. g.s1 = rc /\ g.s2 = mag
  BY <1>2 DEF HintCandidate
<1>5. mag \in Nat /\ (mag = tc \/ mag = -tc)
  BY <1>2
<1>6. rp \in Nat /\ rc \in Nat
  BY <1>2, OrderFacts
<1>7. 1 <= rc /\ 1 <= mag
  <2> HIDE DEF mag
  <2>1. QED
    BY <1>5, LatticeEnds
<1> HIDE DEF mag, h, g, rc, rp, tc, tp
<1>8. mag * Root <= N /\ Coprime(mag, rc)
  <2>1. mag \in Nat /\ rp \in Nat /\ rc \in Nat /\ tp \in Int /\ tc \in Int
    BY <1>2, <1>5, <1>6
  <2>2. Root <= rp /\ Crossed(rp, rc, tp, tc)
    BY <1>2
  <2>3. mag = tc \/ mag = -tc
    BY <1>5
  <2>4. QED
    BY <2>1, <2>2, <2>3, ShortVector
<1>9. Short(h)
  <2>1. h.s1 = rc /\ h.s2 = mag
    BY <1>3, <1>4
  <2>2. h.s2 * Root <= N /\ Coprime(h.s2, h.s1)
    BY <1>8, <2>1, Zenon
  <2>3. h.s1 \in Nat /\ h.s2 \in Nat /\ 1 <= h.s1 /\ h.s1 < Root /\ 1 <= h.s2
    BY <1>2, <1>5, <1>6, <1>7, <2>1
  <2>4. QED
    BY <2>2, <2>3, Zenon DEF Short
<1>10. QED
  BY <1>9 DEF h

(* A pair parallel to a short vector is a multiple of it. *)
LEMMA MultipleOfShort ==
    ASSUME NEW h, Short(h), NEW a \in Nat, NEW b \in Nat, a * h.s2 = b * h.s1
    PROVE  \E y \in Nat : a = y * h.s1 /\ b = y * h.s2
<1> HIDE DEF Root
<1> DEFINE s1 == h.s1
           s2 == h.s2
<1>1. /\ N \in Nat \ {0} /\ s1 \in Nat \ {0} /\ s2 \in Nat \ {0} /\ s1 < N
      /\ Coprime(s2, s1)
  BY OrderFacts DEF Short
<1>2. PICK u \in Nat, v \in Nat : s2 * u + s1 * v = N
  BY <1>1 DEF Coprime
<1> DEFINE x == b * u + a * v
<1>3. a * s2 = b * s1
  OBVIOUS
<1> HIDE DEF s1, s2
<1>4. N * a = s1 * x /\ x \in Int
  <2>1. N * a = (a * s2) * u + s1 * (v * a)
    BY <1>1, <1>2, Z3
  <2>2. (b * s1) * u = s1 * (b * u)
    BY <1>1, Z3
  <2>3. s1 * (b * u) + s1 * (a * v) = s1 * x
    BY <1>1, Z3
  <2>4. v * a = a * v
    OBVIOUS
  <2>5. QED
    BY <1>3, <2>1, <2>2, <2>3, <2>4
<1> HIDE DEF x
<1>5. x % N = 0
  <2>1. s1 \in 0 .. N - 1 /\ s1 \in Int
    BY <1>1
  <2>2. s1 % N # 0
    BY <1>1, <2>1, SmallRemainder
  <2>3. PICK q \in Int : x = (x % N) + q * N
    BY <1>4, Remainder
  <2> DEFINE e == x % N
  <2>4. e \in 0 .. N - 1 /\ e \in Int
    BY <1>4, Remainder
  <2>5. x = e + q * N
    BY <2>3
  <2> HIDE DEF e
  <2>6. s1 * e = 0 + (a - s1 * q) * N
    BY <1>1, <1>4, <2>4, <2>5, Z3
  <2> DEFINE j == a - s1 * q
             se == s1 * e
             s0 == s1 * 0
  <2>7. j \in Int /\ se \in Int /\ s0 = 0
    BY <1>1, <2>4
  <2>8. se = s0 + j * N
    BY <2>6, <2>7
  <2> HIDE DEF j, se, s0
  <2>9. se % N = s0 % N
    BY <2>7, <2>8, SameRemainder
  <2>10. 0 \in 0 .. N - 1
    BY <1>1
  <2>11. e = 0
    BY <2>1, <2>2, <2>4, <2>9, <2>10, Cancel DEF se, s0
  <2>12. QED
    BY <2>11 DEF e
<1>6. PICK y \in Int : x = (x % N) + y * N
  BY <1>4, Remainder
<1>7. x = y * N
  BY <1>1, <1>5, <1>6
<1>8. N * a = N * (s1 * y)
  <2>1. s1 * (y * N) = N * (s1 * y)
    BY <1>1, Z3
  <2>2. QED
    BY <1>4, <1>7, <2>1
<1>9. a = s1 * y
  <2> DEFINE w == s1 * y
  <2>1. w \in Int
    BY <1>1
  <2>2. N * a = N * w
    BY <1>8
  <2> HIDE DEF w
  <2>3. a = w
    BY <1>1, <2>1, <2>2, Z3
  <2>4. QED
    BY <2>3 DEF w
<1>10. b = y * s2
  <2>1. s1 * b = s1 * (y * s2)
    <3>1. (s1 * y) * s2 = s1 * (y * s2) /\ b * s1 = s1 * b
      BY <1>1, Z3
    <3>2. QED
      BY <1>3, <1>9, <3>1
  <2> DEFINE w == y * s2
  <2>2. w \in Int /\ s1 * b = s1 * w
    BY <1>1, <2>1
  <2> HIDE DEF w
  <2>3. b = w
    BY <1>1, <2>2, Z3
  <2>4. QED
    BY <2>3 DEF w
<1>11. y \in Nat
  <2>1. CASE y < 0
    <3>1. s1 * y < 0
      BY <1>1, <2>1, Z3
    <3>2. QED
      BY <1>9, <3>1
  <2>2. QED
    BY <2>1
<1>12. a = y * s1
  BY <1>1, <1>9, Z3
<1>13. QED
  BY <1>10, <1>11, <1>12 DEF s1, s2

(* Two pairs of the lattice whose cross product is small are parallel. *)
LEMMA Parallel ==
    ASSUME NEW p \in 1 .. N - 1, NEW r \in Int, NEW x \in Int, NEW y \in Int,
           NEW a \in Int, NEW b \in Int,
           Lin(x, y, p, r) = Infinity, Lin(a, b, p, r) = Infinity,
           -N < a * y - b * x, a * y - b * x < N
    PROVE  a * y = b * x
<1>0. N \in Nat \ {0} /\ p \in Int
  BY OrderFacts
<1> DEFINE l == x * p + y * r
           m == a * p + b * r
           d == a * y - b * x
<1>1. l \in Int /\ m \in Int /\ d \in Int /\ l % N = 0 /\ m % N = 0
  BY <1>0 DEF Lin, Infinity
<1>2. p * d = y * m - b * l
  BY <1>0, Z3
<1> HIDE DEF l, m, d
<1>3. PICK i \in Int : l = (l % N) + i * N
  BY <1>1, Remainder
<1>4. PICK j \in Int : m = (m % N) + j * N
  BY <1>1, Remainder
<1>5. l = i * N /\ m = j * N
  BY <1>0, <1>1, <1>3, <1>4
<1> DEFINE q == y * j - b * i
<1>6. p * d = q * N /\ q \in Int
  BY <1>0, <1>1, <1>2, <1>5, Z3
<1> HIDE DEF q
<1>7. d % N = 0
  <2>1. p \in 0 .. N - 1
    BY <1>0
  <2>2. p % N # 0
    BY <1>0, <2>1, SmallRemainder
  <2> DEFINE e == d % N
  <2>3. e \in 0 .. N - 1 /\ e \in Int
    BY <1>1, Remainder
  <2>4. PICK n \in Int : d = (d % N) + n * N
    BY <1>1, Remainder
  <2>5. d = e + n * N
    BY <2>4
  <2> HIDE DEF e
  <2>6. p * e = 0 + (q - p * n) * N
    BY <1>0, <1>1, <1>6, <2>3, <2>5, Z3
  <2> DEFINE w == q - p * n
             pe == p * e
             p0 == p * 0
  <2>7. w \in Int /\ pe \in Int /\ p0 = 0
    BY <1>0, <1>6, <2>3
  <2>8. pe = p0 + w * N
    BY <2>6, <2>7
  <2> HIDE DEF w, pe, p0
  <2>9. pe % N = p0 % N
    BY <2>7, <2>8, SameRemainder
  <2>10. 0 \in 0 .. N - 1
    BY <1>0
  <2>11. e = 0
    BY <1>0, <2>2, <2>3, <2>9, <2>10, Cancel DEF pe, p0
  <2>12. QED
    BY <2>11 DEF e
<1>8. PICK n \in Int : d = (d % N) + n * N
  BY <1>1, Remainder
<1>9. d = n * N
  BY <1>0, <1>7, <1>8
<1>10. -N < d /\ d < N
  BY DEF d
<1>11. n = 0
  <2>1. (-1) * N < n * N /\ n * N < 1 * N
    BY <1>0, <1>9, <1>10
  <2>2. -1 < n /\ n < 1
    BY <1>0, <2>1, ProductStrict
  <2>3. QED
    BY <2>2
<1>12. d = 0
  BY <1>0, <1>9, <1>11
<1> DEFINE ay == a * y
           bx == b * x
<1>13. ay \in Int /\ bx \in Int /\ d = ay - bx
  BY DEF d
<1> HIDE DEF ay, bx
<1>14. ay = bx
  BY <1>12, <1>13
<1>15. QED
  BY <1>14 DEF ay, bx

LEMMA ShortIsSmall ==
    ASSUME NEW h, Short(h)
    PROVE  7 * h.s1 < N /\ 7 * h.s2 <= N /\ h.s1 * h.s2 <= N
<1> HIDE DEF Root
<1> DEFINE x == h.s1
           y == h.s2
           yr == y * Root
<1>1. /\ N \in Nat /\ Root \in Nat /\ 7 <= Root /\ Root * Root <= N
      /\ x \in Nat /\ y \in Nat /\ x < Root /\ yr <= N
  BY OrderFacts, LargeOrderAssumption DEF Short
<1> HIDE DEF x, y
<1>2. 7 * Root <= Root * Root
  BY <1>1, ProductMonotone
<1>3. 7 * y <= Root * y /\ x * y <= Root * y
  BY <1>1, ProductMonotone
<1>4. Root * y = yr
  BY <1>1, Z3
<1> DEFINE rr == Root * Root
           ry == Root * y
           xy == x * y
<1>5. rr \in Nat /\ ry \in Nat /\ xy \in Nat /\ 7 * Root <= rr /\ rr <= N /\ ry = yr
  BY <1>1, <1>2, <1>4
<1>6. 7 * y <= ry /\ xy <= ry
  BY <1>3
<1> HIDE DEF rr, ry, xy, yr
<1>7. 7 * x < N /\ 7 * y <= N /\ xy <= N
  BY <1>1, <1>5, <1>6
<1>8. QED
  BY <1>7 DEF xy, x, y

(* Above the lowest chunk at least three bits are gone. *)
LEMMA HighIsSmall ==
    ASSUME NEW v \in Nat, v < HalfBound
    PROVE  \A i \in 1 .. C : High(v, i) \in Nat /\ 8 * High(v, i) <= v
<1> HIDE DEF HalfBound
<1> DEFINE P(i) == High(v, i) \in Nat /\ 8 * High(v, i) <= v
           S == {i \in 1 .. C : ~P(i)}
<1>1. CASE S # {}
  <2>1. PICK x \in S : \A y \in S : ~(y < x)
    <3>1. S \in SUBSET Nat
      BY ChunksPositive
    <3>2. QED
      BY <1>1, <3>1, LeastElement
  <2>2. x \in 1 .. C /\ ~P(x) /\ x \in Int /\ x - 1 \in 0 .. C - 1 /\ (x - 1) + 1 = x
    BY <2>1, ChunksPositive
  <2> DEFINE g == High(v, x - 1)
             f == High(v, x)
             c == Chunk(v, x - 1)
  <2>3. g \in Nat /\ f \in Nat /\ c \in 0 .. 3 /\ g = 4 * f + c
    BY <2>2, Chunks
  <2>4. 2 * g <= v
    <3>1. CASE x = 1
      <4>1. v = 2 * High(v, 0) + Lsb(v) /\ Lsb(v) \in {0, 1} /\ g = High(v, 0)
        BY <3>1, EndBits
      <4> HIDE DEF g
      <4>2. QED
        BY <2>3, <4>1
    <3>2. CASE x # 1
      <4>1. x - 1 \in 1 .. C /\ x - 1 < x
        BY <2>2, <3>2, ChunksPositive
      <4>2. P(x - 1)
        BY <2>1, <4>1
      <4>3. 8 * g <= v
        BY <4>2
      <4> HIDE DEF g
      <4>4. QED
        BY <2>3, <4>3
    <3>3. QED
      BY <3>1, <3>2
  <2> HIDE DEF g, c
  <2>5. f \in Nat /\ 8 * f <= v
    BY <2>3, <2>4
  <2>6. QED
    BY <2>2, <2>5
<1>2. CASE S = {}
  BY <1>2
<1>3. QED
  BY <1>1, <1>2

(* The hint is a vector of the lattice. *)
Closes(h, p, r) == Lin(h.s1, h.s2, p, r) = Infinity

(* The hint of the scalars 1 and -1. *)
UnitHint(h) == h.s1 = 1 /\ h.s2 = 1

(* The accumulator above the lowest chunk is infinity for the unit hint only. *)
LEMMA PrefixFinite ==
    ASSUME NEW h, Short(h), h.s1 < HalfBound, h.s2 < HalfBound,
           NEW p \in 1 .. N - 1, NEW r \in 0 .. N - 1, Closes(h, p, r),
           NEW i \in 1 .. C,
           Lin(2 * High(h.s1, i) + 1, 2 * High(h.s2, i) + 1, p, r) = Infinity
    PROVE  UnitHint(h)
<1> HIDE DEF HalfBound, Root
<1> DEFINE x == h.s1
           y == h.s2
           f == High(h.s1, i)
           g == High(h.s2, i)
           a == 2 * f + 1
           b == 2 * g + 1
<1>1. x \in Nat /\ y \in Nat /\ 1 <= x /\ 1 <= y
  BY DEF Short
<1>2. f \in Nat /\ g \in Nat /\ 8 * f <= x /\ 8 * g <= y
  <2> HIDE DEF x, y
  <2>1. QED
    BY <1>1, HighIsSmall DEF x, y
<1>3. 7 * x < N /\ 7 * y <= N /\ x * y <= N /\ N \in Nat
  BY ShortIsSmall, OrderFacts
<1>4. r \in Int /\ p \in 1 .. N - 1 /\ Lin(x, y, p, r) = Infinity /\ Lin(a, b, p, r) = Infinity
  BY OrderFacts DEF Closes
<1> HIDE DEF x, y, f, g
<1>5. a \in Nat /\ b \in Nat /\ 4 * a <= x + 4 /\ 4 * b <= y + 4 /\ 1 <= a /\ 1 <= b
  BY <1>1, <1>2
<1> HIDE DEF a, b
<1> DEFINE ay == a * y
           bx == b * x
           xy == x * y
<1>6. 4 * ay <= xy + 4 * y /\ 4 * bx <= xy + 4 * x
  <2>1. (4 * a) * y <= (x + 4) * y
    BY <1>1, <1>5, ProductMonotone
  <2>2. (4 * b) * x <= (y + 4) * x
    BY <1>1, <1>5, ProductMonotone
  <2>3. (4 * a) * y = 4 * ay /\ (x + 4) * y = xy + 4 * y
    BY <1>1, <1>5, Z3
  <2>4. (4 * b) * x = 4 * bx /\ (y + 4) * x = xy + 4 * x
    BY <1>1, <1>5, Z3
  <2>5. QED
    BY <2>1, <2>2, <2>3, <2>4
<1>7. ay \in Nat /\ bx \in Nat /\ xy \in Nat /\ xy <= N /\ 1 <= ay /\ 1 <= bx
  <2>1. a * y >= y /\ b * x >= x
    BY <1>1, <1>5, ProductAtLeast
  <2>2. ay >= y /\ bx >= x /\ ay \in Nat /\ bx \in Nat /\ xy \in Nat /\ xy <= N
    BY <1>1, <1>3, <1>5, <2>1
  <2> HIDE DEF ay, bx, xy
  <2>3. QED
    BY <1>1, <2>2
<1>8. -N < ay - bx /\ ay - bx < N
  <2> HIDE DEF ay, bx, xy
  <2>1. QED
    BY <1>1, <1>3, <1>6, <1>7
<1>9. a * y = b * x
  <2>1. x \in Int /\ y \in Int /\ a \in Int /\ b \in Int
    BY <1>1, <1>5
  <2>2. QED
    BY <1>4, <1>8, <2>1, Parallel
<1>10. PICK m \in Nat : a = m * x /\ b = m * y
  BY <1>5, <1>9, MultipleOfShort DEF x, y
<1>11. 1 <= m
  <2>1. m # 0
    <3>1. m = 0 => m * x = 0
      BY <1>1
    <3>2. QED
      BY <1>5, <1>10, <3>1
  <2>2. QED
    BY <2>1
<1>12. m * x >= x /\ m * y >= y
  BY <1>1, <1>11, ProductAtLeast
<1>13. a >= x /\ b >= y
  BY <1>10, <1>12
<1>14. x = 1 /\ y = 1
  BY <1>1, <1>5, <1>13
<1>15. QED
  BY <1>14 DEF UnitHint, x, y

(* The lowest bits of the halves 1 and 3. *)
LEMMA LowestOf ==
    ASSUME NEW v \in Nat, v < HalfBound
    PROVE  /\ Chunk(v, 0) \in 0 .. 3 /\ High(v, 0) \in Nat
           /\ v = 2 * High(v, 0) + Lsb(v) /\ Lsb(v) \in {0, 1}
           /\ v = 1 => Chunk(v, 0) = 0 /\ Lsb(v) = 1
           /\ v = 3 => Chunk(v, 0) = 1
<1> HIDE DEF HalfBound
<1> DEFINE f == High(v, 0)
           g == High(v, 0 + 1)
           c == Chunk(v, 0)
           e == Lsb(v)
<1>1. 0 \in 0 .. C - 1
  BY ChunksPositive
<1>2. f \in Nat /\ g \in Nat /\ c \in 0 .. 3 /\ f = 4 * g + c
  BY <1>1, Chunks
<1>3. v = 2 * f + e /\ e \in {0, 1}
  BY EndBits
<1> HIDE DEF f, g, c, e
<1>4. /\ c \in 0 .. 3 /\ f \in Nat
      /\ v = 2 * f + e /\ e \in {0, 1}
      /\ v = 1 => c = 0 /\ e = 1
      /\ v = 3 => c = 1
  BY <1>2, <1>3
<1>5. QED
  BY <1>4 DEF f, c, e

(* The table point of the lowest chunk is infinity exactly for the unit hint. *)
LEMMA FirstFinite ==
    ASSUME NEW h, Short(h), h.s1 < HalfBound, h.s2 < HalfBound,
           NEW p \in 1 .. N - 1, NEW r \in 0 .. N - 1, Closes(h, p, r)
    PROVE  Lin(2 * Chunk(h.s1, 0) - 3, 2 * Chunk(h.s2, 0) - 3, p, r) = Infinity <=> UnitHint(h)
<1> HIDE DEF HalfBound, Root
<1> DEFINE x == h.s1
           y == h.s2
           c == Chunk(h.s1, 0)
           d == Chunk(h.s2, 0)
           a == 2 * c - 3
           b == 2 * d - 3
<1>1. x \in Nat /\ y \in Nat /\ 1 <= x /\ 1 <= y /\ x < HalfBound /\ y < HalfBound
  BY DEF Short
<1>2. /\ c \in 0 .. 3 /\ d \in 0 .. 3
      /\ (x = 1 => c = 0) /\ (x = 3 => c = 1)
      /\ (y = 1 => d = 0) /\ (y = 3 => d = 1)
  <2>1. /\ c \in 0 .. 3 /\ (x = 1 => c = 0) /\ (x = 3 => c = 1)
    <3> HIDE DEF x
    <3>1. QED
      BY <1>1, LowestOf DEF x
  <2>2. /\ d \in 0 .. 3 /\ (y = 1 => d = 0) /\ (y = 3 => d = 1)
    <3> HIDE DEF y
    <3>1. QED
      BY <1>1, LowestOf DEF y
  <2>3. QED
    BY <2>1, <2>2
<1>3. 7 * x < N /\ 7 * y <= N /\ N \in Nat
  BY ShortIsSmall, OrderFacts
<1>4. r \in Int /\ p \in 1 .. N - 1 /\ p \in Int /\ Lin(x, y, p, r) = Infinity
  BY OrderFacts DEF Closes
<1>5. \A u, v \in Nat : u * y = v * x => \E m \in Nat : u = m * x /\ v = m * y
  BY MultipleOfShort DEF x, y
<1> HIDE DEF x, y, c, d
<1>6. a \in {-3, -1, 1, 3} /\ b \in {-3, -1, 1, 3}
  BY <1>2
<1>7. ASSUME Lin(a, b, p, r) = Infinity PROVE x = 1 /\ y = 1
  <2> HIDE DEF a, b
  <2>1. -N < a * y - b * x /\ a * y - b * x < N
    <3>1. /\ a * y \in {-3 * y, -y, y, 3 * y} /\ a * y \in Int
          /\ b * x \in {-3 * x, -x, x, 3 * x} /\ b * x \in Int
      BY <1>1, <1>6
    <3> DEFINE ay == a * y
               bx == b * x
    <3>2. /\ -3 * y <= ay /\ ay <= 3 * y /\ -3 * x <= bx /\ bx <= 3 * x
          /\ ay \in Int /\ bx \in Int
      BY <1>1, <3>1
    <3> HIDE DEF ay, bx
    <3>3. -N < ay - bx /\ ay - bx < N
      BY <1>1, <1>3, <3>2
    <3>4. QED
      BY <3>3 DEF ay, bx
  <2>2. a * y = b * x
    <3>1. x \in Int /\ y \in Int /\ a \in Int /\ b \in Int
      BY <1>1, <1>6
    <3>2. QED
      BY <1>4, <1>7, <2>1, <3>1, Parallel
  <2> DEFINE u == IF a < 0 THEN -a ELSE a
             v == IF b < 0 THEN -b ELSE b
  <2>3. u \in {1, 3} /\ v \in {1, 3}
    BY <1>6
  <2>4. u * y = v * x
    <3>1. CASE a \in {1, 3} /\ b \in {1, 3}
      BY <2>2, <3>1
    <3>2. CASE a \in {-3, -1} /\ b \in {-3, -1}
      BY <1>1, <2>2, <3>2
    <3>3. CASE a \in {1, 3} /\ b \in {-3, -1}
      BY <1>1, <2>2, <3>3
    <3>4. CASE a \in {-3, -1} /\ b \in {1, 3}
      BY <1>1, <2>2, <3>4
    <3>5. QED
      BY <1>6, <3>1, <3>2, <3>3, <3>4
  <2>5. PICK m \in Nat : u = m * x /\ v = m * y
    <3>1. u \in Nat /\ v \in Nat
      BY <2>3
    <3> HIDE DEF u, v
    <3>2. QED
      BY <1>5, <2>4, <3>1
  <2>6. x \in {1, 3} /\ y \in {1, 3} /\ 1 <= m
    <3>1. 1 <= m
      <4>1. m = 0 => m * x = 0
        BY <1>1
      <4> HIDE DEF u
      <4>2. QED
        BY <2>3, <2>5, <4>1
    <3> HIDE DEF u, v
    <3>2. m * x >= x /\ m * y >= y
      BY <1>1, <3>1, ProductAtLeast
    <3>3. x \in {1, 2, 3} /\ y \in {1, 2, 3}
      BY <1>1, <2>3, <2>5, <3>2
    <3>4. x # 2
      <4>1. x = 2 => u = 2 * m
        BY <2>5
      <4>2. QED
        BY <2>3, <4>1
    <3>5. y # 2
      <4>1. y = 2 => v = 2 * m
        BY <2>5
      <4>2. QED
        BY <2>3, <4>1
    <3>6. QED
      BY <3>1, <3>3, <3>4, <3>5
  <2>7. CASE x = 3 /\ y = 3
    <3>1. 1 * y = 1 * x /\ 1 \in Nat
      BY <2>7
    <3>2. PICK n \in Nat : 1 = n * x /\ 1 = n * y
      BY <1>5, <3>1
    <3>3. QED
      BY <2>7, <3>2
  <2>8. CASE x = 1 /\ y = 3
    <3>1. a = -3 /\ b = -1
      BY <1>2, <2>8 DEF a, b
    <3>2. QED
      BY <2>2, <2>8, <3>1
  <2>9. CASE x = 3 /\ y = 1
    <3>1. a = -1 /\ b = -3
      BY <1>2, <2>9 DEF a, b
    <3>2. QED
      BY <2>2, <2>9, <3>1
  <2>10. QED
    BY <2>6, <2>7, <2>8, <2>9
<1>8. ASSUME x = 1, y = 1 PROVE Lin(a, b, p, r) = Infinity
  <2>1. a = -3 /\ b = -3
    BY <1>2, <1>8
  <2> DEFINE l == p + r
  <2>2. l % N = 0 /\ l \in Int
    <3>1. x * p + y * r = p + r
      BY <1>4, <1>8
    <3>2. QED
      BY <1>4, <3>1 DEF Lin, Infinity
  <2>3. (-3) * p + (-3) * r = -3 * l
    BY <1>4
  <2> HIDE DEF l
  <2>4. PICK i \in Int : l = (l % N) + i * N
    BY <2>2, Remainder
  <2>5. l = i * N
    BY <1>3, <2>2, <2>4
  <2>6. -3 * l = (-3 * i) * N /\ -3 * i \in Int
    BY <1>3, <2>5, Z3
  <2>7. ((-3 * i) * N) % N = 0
    <3> DEFINE j == -3 * i
    <3>1. j \in Int /\ N \in Nat \ {0}
      BY OrderFacts
    <3> HIDE DEF j
    <3>2. (j * N) % N = 0
      BY <3>1, ExactDivision
    <3>3. QED
      BY <3>2 DEF j
  <2>8. (-3 * l) % N = 0
    BY <2>6, <2>7
  <2>9. (a * p + b * r) % N = 0
    BY <2>1, <2>3, <2>8
  <2>10. QED
    BY <2>9 DEF Lin, Infinity
<1>9. QED
  BY <1>7, <1>8 DEF UnitHint, x, y, c, d

(* Three times the hint point before the last correction is never infinity. *)
LEMMA LastFinite ==
    ASSUME NEW h, Short(h), h.s1 < HalfBound, h.s2 < HalfBound,
           NEW p \in 1 .. N - 1, NEW r \in 0 .. N - 1, Closes(h, p, r)
    PROVE  Lin(2 * High(h.s1, 0) + 1, 2 * High(h.s2, 0) + 4, p, r) # Infinity
<1> HIDE DEF HalfBound, Root
<1> DEFINE x == h.s1
           y == h.s2
           f == High(h.s1, 0)
           g == High(h.s2, 0)
           l == Lsb(h.s1)
           m == Lsb(h.s2)
           a == 2 * f + 1
           b == 2 * g + 4
<1>1. x \in Nat /\ y \in Nat /\ 1 <= x /\ 1 <= y /\ x < HalfBound /\ y < HalfBound
  BY DEF Short
<1>2. /\ f \in Nat /\ x = 2 * f + l /\ l \in {0, 1} /\ (x = 1 => l = 1)
      /\ g \in Nat /\ y = 2 * g + m /\ m \in {0, 1}
  <2>1. f \in Nat /\ x = 2 * f + l /\ l \in {0, 1} /\ (x = 1 => l = 1)
    <3> HIDE DEF x
    <3>1. QED
      BY <1>1, LowestOf DEF x
  <2>2. g \in Nat /\ y = 2 * g + m /\ m \in {0, 1}
    <3> HIDE DEF y
    <3>1. QED
      BY <1>1, LowestOf DEF y
  <2>3. QED
    BY <2>1, <2>2
<1>3. 7 * x < N /\ 7 * y <= N /\ N \in Nat
  BY ShortIsSmall, OrderFacts
<1>4. r \in Int /\ p \in 1 .. N - 1 /\ Lin(x, y, p, r) = Infinity
  BY OrderFacts DEF Closes
<1>5. \A u, v \in Nat : u * y = v * x => \E i \in Nat : u = i * x /\ v = i * y
  BY MultipleOfShort DEF x, y
<1> HIDE DEF x, y, f, g, l, m
<1>6. a = x + (1 - l) /\ b = y + (4 - m) /\ a \in Int /\ b \in Int
  BY <1>1, <1>2
<1> HIDE DEF a, b
<1>7. ASSUME Lin(a, b, p, r) = Infinity PROVE FALSE
  <2> DEFINE d == (1 - l) * y - (4 - m) * x
  <2>1. a * y - b * x = d
    BY <1>1, <1>2, <1>6, Z3
  <2>2. (1 - l) * y \in {0, y} /\ (4 - m) * x \in {3 * x, 4 * x}
    BY <1>1, <1>2
  <2>3. d \in {-3 * x, -4 * x, y - 3 * x, y - 4 * x}
    BY <1>1, <2>2
  <2>4. -N < d /\ d < N
    <3> HIDE DEF d
    <3>1. QED
      BY <1>1, <1>3, <2>3
  <2>5. a * y = b * x
    <3>1. x \in Int /\ y \in Int /\ a \in Int /\ b \in Int
      BY <1>1, <1>6
    <3> HIDE DEF d
    <3>2. -N < a * y - b * x /\ a * y - b * x < N
      BY <2>1, <2>4
    <3>3. QED
      BY <1>4, <1>7, <3>1, <3>2, Parallel
  <2>6. d = 0
    <3> DEFINE ay == a * y
               bx == b * x
    <3>1. ay \in Int /\ bx \in Int /\ ay - bx = d /\ ay = bx
      BY <1>1, <1>6, <2>1, <2>5
    <3> HIDE DEF ay, bx, d
    <3>2. QED
      BY <3>1
  <2>7. l = 0
    <3>1. CASE l = 1
      <4>1. (1 - l) * y = 0
        BY <1>1, <3>1
      <4>2. QED
        BY <1>1, <2>2, <2>6, <4>1
    <3>2. QED
      BY <1>2, <3>1
  <2>8. 1 * y = (4 - m) * x
    <3>1. (1 - l) * y = y /\ 1 * y = y
      BY <1>1, <2>7
    <3> DEFINE z == (4 - m) * x
    <3>2. z \in Int /\ d = y - z
      BY <1>1, <1>2, <3>1
    <3> HIDE DEF z, d
    <3>3. QED
      BY <1>1, <2>6, <3>1, <3>2 DEF z
  <2>9. PICK i \in Nat : 1 = i * x
    <3>1. 4 - m \in Nat /\ 1 \in Nat
      BY <1>2
    <3> DEFINE n == 4 - m
    <3> HIDE DEF n
    <3>2. QED
      BY <1>5, <2>8, <3>1 DEF n
  <2>10. x = 1
    <3>1. 1 <= i
      <4>1. i = 0 => i * x = 0
        BY <1>1
      <4>2. QED
        BY <2>9, <4>1
    <3>2. i * x >= x
      BY <1>1, <3>1, ProductAtLeast
    <3>3. QED
      BY <1>1, <2>9, <3>2
  <2>11. QED
    BY <1>2, <2>7, <2>10
<1>8. QED
  BY <1>7 DEF a, b, f, g

(* The unit hint is that of the scalars 1 and -1. *)
LEMMA UnitScalars ==
    ASSUME NEW k \in 1 .. N - 1, NEW h, Short(h), HintProves(k, h), h.q \in Int
    PROVE  UnitHint(h) <=> k \in {1, N - 1}
<1> HIDE DEF Root, HalfBound
<1> DEFINE x == h.s1
           y == h.s2
           q == h.q
           sel == SelectedS1(h)
<1>1. x \in Nat /\ y \in Nat /\ 1 <= x /\ 1 <= y
  BY DEF Short
<1>2. 7 * x < N /\ 7 * y <= N /\ N \in Nat /\ k \in Nat /\ 1 <= k /\ k < N
  BY ShortIsSmall, OrderFacts
<1>3. k * y = q * N + sel /\ 0 <= q /\ q \in Int
  BY <1>2 DEF HintProves, HintFits
<1>4. sel = x \/ sel = N - x
  BY DEF SelectedS1
<1>5. \A u, v \in Nat : u * y = v * x => \E i \in Nat : u = i * x /\ v = i * y
  BY MultipleOfShort DEF x, y
<1> HIDE DEF x, y, q, sel
<1>6. sel \in Nat /\ 1 <= sel /\ sel < N
  BY <1>1, <1>2, <1>4
<1>7. ASSUME x = y PROVE x = 1 /\ y = 1
  <2>1. 1 * y = 1 * x /\ 1 \in Nat
    BY <1>7
  <2>2. PICK i \in Nat : 1 = i * x
    BY <1>5, <2>1
  <2>3. 1 <= i
    <3>1. i = 0 => i * x = 0
      BY <1>1
    <3>2. QED
      BY <2>2, <3>1
  <2>4. i * x >= x
    BY <1>1, <2>3, ProductAtLeast
  <2>5. QED
    BY <1>1, <1>7, <2>2, <2>4
<1> DEFINE qn == q * N
<1>8. qn \in Int /\ 0 <= qn /\ (q = 0 => qn = 0) /\ (q # 0 => qn >= N)
  <2>1. q \in Nat
    BY <1>3
  <2>2. q # 0 => q * N >= N
    BY <1>2, <2>1, ProductAtLeast
  <2>3. q = 0 => q * N = 0
    BY <1>2
  <2>4. q * N \in Nat
    BY <1>2, <2>1
  <2>5. QED
    BY <2>2, <2>3, <2>4
<1>9. k * y = qn + sel
  BY <1>3
<1> HIDE DEF qn
<1>10. ASSUME x = 1, y = 1 PROVE k \in {1, N - 1}
  <2>1. k = qn + sel
    BY <1>2, <1>9, <1>10
  <2>2. QED
    BY <1>2, <1>4, <1>6, <1>8, <1>10, <2>1
<1>11. ASSUME k = 1 PROVE x = y
  <2>1. y = qn + sel
    BY <1>1, <1>9, <1>11
  <2>2. QED
    BY <1>1, <1>2, <1>4, <1>6, <1>8, <2>1
<1>12. ASSUME k = N - 1 PROVE x = y
  <2> DEFINE ny == N * y
  <2>1. k * y = ny - y /\ ny \in Int
    BY <1>1, <1>2, <1>12, Z3
  <2>2. ny = qn + sel + y
    <3> DEFINE ky == k * y
    <3>1. ky = ny - y /\ ky = qn + sel
      BY <1>9, <2>1
    <3> HIDE DEF ky, ny
    <3>2. QED
      BY <1>1, <1>6, <1>8, <2>1, <3>1
  <2>3. (y - q) * N = sel + y
    <3>1. (y - q) * N = ny - qn
      BY <1>1, <1>2, <1>3, Z3 DEF qn
    <3> HIDE DEF ny
    <3>2. ny - qn = sel + y
      BY <1>1, <1>6, <1>8, <2>1, <2>2
    <3>3. QED
      BY <3>1, <3>2
  <2> DEFINE n == y - q
  <2>4. n \in Int /\ n * N = sel + y
    BY <1>1, <1>3, <2>3
  <2> HIDE DEF n
  <2>5. n = 1
    <3>1. 0 * N < n * N /\ n * N < 2 * N
      <4>1. 0 * N = 0
        BY <1>2
      <4> DEFINE nn == n * N
      <4>2. nn = sel + y
        BY <2>4
      <4> HIDE DEF nn
      <4>3. 0 < nn /\ nn < 2 * N
        BY <1>1, <1>2, <1>6, <4>2
      <4>4. QED
        BY <4>1, <4>3 DEF nn
    <3>2. N \in Nat \ {0}
      BY <1>2
    <3>3. 0 < n /\ n < 2
      BY <2>4, <3>1, <3>2, ProductStrict
    <3>4. QED
      BY <2>4, <3>3
  <2>6. sel + y = N
    BY <1>2, <2>4, <2>5
  <2>7. QED
    BY <1>1, <1>2, <1>4, <1>6, <2>6
<1>13. x = 1 /\ y = 1 <=> k \in {1, N - 1}
  BY <1>7, <1>10, <1>11, <1>12
<1>14. QED
  BY <1>13 DEF UnitHint, x, y
-----------------------------------------------------------------------------
(* The rows: one that starts from a finite point can be reproduced.        *)

Points == 0 .. N - 1

Kinds == {"Chain", "DoubleP", "AddP2P", "DoubleR", "AddR2R", "Table16", "Base0", "Base1",
          "Base2", "Base3", "Base4", "Base5", "Base6", "Base7"}

Rows == [kind : Kinds, op : {"double", "add"}, lhs : Points, rhs : Points, out : Points]

(* The rows the prover computes again from their multiplications. *)
GoodRows == {w \in Rows : RowReproduced(w)}

LEMMA GoodAreRows ==
    ASSUME NEW s \in Seq(GoodRows)
    PROVE  s \in Seq(Rows) /\ \A i \in DOMAIN s : RowReproduced(s[i])
<1>1. GoodRows \subseteq Rows
  BY DEF GoodRows
<1>2. s \in Seq(Rows)
  BY <1>1, SeqMonotonic
<1>3. DOMAIN s = 1 .. Len(s) /\ \A i \in 1 .. Len(s) : s[i] \in GoodRows
  BY LenProperties, ElementOfSeq
<1>4. QED
  BY <1>2, <1>3 DEF GoodRows

LEMMA RowsOfPoints ==
    ASSUME NEW kind \in Kinds, NEW a \in Points, NEW b \in Points
    PROVE  /\ DoubleRow(kind, a) \in Rows /\ AddRow(kind, a, b) \in Rows
           /\ a # Infinity => DoubleRow(kind, a) \in GoodRows /\ AddRow(kind, a, b) \in GoodRows
           /\ b = Infinity => AddRow(kind, a, b) \in GoodRows
           /\ a = Infinity /\ b # Infinity => ~RowReproduced(AddRow(kind, a, b))
<1>1. AddPoints(a, b) \in Points /\ AddPoints(a, a) \in Points /\ Infinity \in Points
  <2>1. a \in Int /\ b \in Int
    BY OrderFacts DEF Points
  <2>2. QED
    BY <2>1, PointTypes, OrderFacts DEF Points, Infinity
<1> DEFINE d == DoubleRow(kind, a)
           e == AddRow(kind, a, b)
<1>2. d \in Rows /\ d.op = "double" /\ d.lhs = a
  BY <1>1 DEF DoubleRow, Row, Rows
<1>3. e \in Rows /\ e.op = "add" /\ e.lhs = a /\ e.rhs = b
  BY <1>1 DEF AddRow, Row, Rows
<1> HIDE DEF d, e
<1>4. a # Infinity => RowReproduced(d) /\ RowReproduced(e)
  BY <1>2, <1>3 DEF RowReproduced
<1>5. b = Infinity => RowReproduced(e)
  BY <1>3 DEF RowReproduced, RowHasMuls
<1>6. a = Infinity /\ b # Infinity => ~RowReproduced(e)
  BY <1>3 DEF RowReproduced, RowHasMuls
<1>7. QED
  BY <1>2, <1>3, <1>4, <1>5, <1>6 DEF GoodRows, d, e

(* The order is odd and no multiple of three. *)
LEMMA MultipleFinite ==
    ASSUME NEW a \in Points, a # Infinity
    PROVE  /\ AddPoints(a, a) \in Points /\ AddPoints(a, a) # Infinity
           /\ Times(3, a) \in Points /\ Times(3, a) # Infinity
<1>1. a \in Int /\ 0 \in 0 .. N - 1 /\ a \in 0 .. N - 1
  BY OrderFacts DEF Points
<1>2. AddPoints(a, a) \in Points /\ Times(3, a) \in Points
  <2>1. 3 \in Int
    OBVIOUS
  <2>2. AddPoints(a, a) \in 0 .. N - 1
    BY <1>1, PointTypes
  <2>3. Times(3, a) \in 0 .. N - 1
    BY <1>1, <2>1, PointTypes
  <2>4. QED
    BY <2>2, <2>3 DEF Points
<1>3. 2 % N # 0 /\ 3 % N # 0
  <2>1. 2 \in 0 .. N - 1 /\ 3 \in 0 .. N - 1
    BY OrderFacts
  <2>2. QED
    BY <2>1, SmallRemainder
<1>4. ASSUME NEW m \in {2, 3}, (m * a) % N = 0 PROVE FALSE
  <2>1. m \in Int /\ m % N # 0
    BY <1>3
  <2>2. m * 0 = 0 /\ 0 % N = 0
    BY <1>1, <2>1, SmallRemainder
  <2> DEFINE z == m * 0
  <2>3. (m * a) % N = z % N
    BY <1>4, <2>2
  <2> HIDE DEF z
  <2>4. a = 0
    BY <1>1, <2>1, <2>3, Cancel DEF z
  <2>5. QED
    BY <2>4 DEF Infinity
<1>5. a + a = 2 * a
  BY <1>1
<1>6. QED
  BY <1>2, <1>4, <1>5 DEF AddPoints, Times, Infinity

LEMMA StepRowsGood ==
    ASSUME NEW acc \in Points, NEW pt \in Points
    PROVE  /\ StepRows(acc, pt) \in Seq(Rows)
           /\ acc # Infinity => StepRows(acc, pt) \in Seq(GoodRows)
<1> DEFINE t == AddPoints(acc, acc)
           f == AddPoints(t, t)
           x == DoubleRow("Chain", acc)
           y == DoubleRow("Chain", t)
           z == AddRow("Chain", f, pt)
<1>1. acc \in Int
  BY OrderFacts DEF Points
<1>2. t \in Points
  BY <1>1, PointTypes DEF Points
<1>3. f \in Points
  <2> HIDE DEF t
  <2>1. t \in Int
    BY <1>2, OrderFacts DEF Points
  <2>2. QED
    BY <2>1, PointTypes DEF Points
<1>4. acc # Infinity => t # Infinity /\ f # Infinity
  <2>1. acc # Infinity => t # Infinity
    BY MultipleFinite
  <2> HIDE DEF t
  <2>2. t # Infinity => f # Infinity
    BY <1>2, MultipleFinite
  <2>3. QED
    BY <2>1, <2>2
<1>5. StepRows(acc, pt) = <<x, y, z>>
  BY DEF StepRows
<1> HIDE DEF t, f
<1>6. /\ x \in Rows /\ y \in Rows /\ z \in Rows
      /\ acc # Infinity => x \in GoodRows /\ y \in GoodRows /\ z \in GoodRows
  <2>1. "Chain" \in Kinds
    BY DEF Kinds
  <2>2. QED
    BY <1>2, <1>3, <1>4, <2>1, RowsOfPoints
<1> HIDE DEF x, y, z
<1>7. QED
  BY <1>5, <1>6

(* What a table is made from. *)
LEMMA TableNames ==
    ASSUME NEW p, NEW r, NEW sel
    PROVE  LET tab == TableOf(p, r, sel) IN
           /\ tab.p = p /\ tab.r = r /\ tab.p3 = Times(3, p) /\ tab.r3 = Times(3, r)
           /\ tab.first = Signed(tab.base[Decode(sel.at[0]).index], Decode(sel.at[0]).neg)
<1> HIDE DEF Decode
<1>1. QED
  BY DEF TableOf

Sequence(s) == \E S : s \in Seq(S)

LEMMA Joined ==
    ASSUME NEW s, NEW t, Sequence(s), Sequence(t)
    PROVE  /\ Sequence(s \o t) /\ Len(s \o t) = Len(s) + Len(t)
           /\ Len(s) \in Nat /\ Len(t) \in Nat
           /\ \A i \in 1 .. Len(s) + Len(t) :
                 (s \o t)[i] = IF i <= Len(s) THEN s[i] ELSE t[i - Len(s)]
<1>1. PICK S : s \in Seq(S)
  BY DEF Sequence
<1>2. PICK T : t \in Seq(T)
  BY DEF Sequence
<1> DEFINE U == S \cup T
<1>3. s \in Seq(U) /\ t \in Seq(U)
  BY <1>1, <1>2
<1> HIDE DEF U
<1>4. s \o t \in Seq(U)
  BY <1>3, ConcatProperties
<1>5. Sequence(s \o t)
  BY <1>4 DEF Sequence
<1>6. /\ Len(s \o t) = Len(s) + Len(t) /\ Len(s) \in Nat /\ Len(t) \in Nat
      /\ \A i \in 1 .. Len(s) + Len(t) :
                 (s \o t)[i] = IF i <= Len(s) THEN s[i] ELSE t[i - Len(s)]
  BY <1>3, ConcatProperties
<1>7. QED
  BY <1>5, <1>6

LEMMA Numbered ==
    ASSUME NEW s, Sequence(s)
    PROVE  Len(s) \in Nat /\ DOMAIN s = 1 .. Len(s)
<1>1. PICK S : s \in Seq(S)
  BY DEF Sequence
<1>2. QED
  BY <1>1, LenProperties

LEMMA Few ==
    ASSUME NEW a, NEW b
    PROVE  /\ Sequence(<<>>) /\ Len(<<>>) = 0
           /\ Sequence(<<a>>) /\ Len(<<a>>) = 1 /\ <<a>>[1] = a
           /\ Sequence(<<a, b>>) /\ Len(<<a, b>>) = 2 /\ <<a, b>>[1] = a /\ <<a, b>>[2] = b
<1>1. <<>> \in Seq({a}) /\ <<a>> \in Seq({a}) /\ <<a, b>> \in Seq({a, b})
  OBVIOUS
<1>2. QED
  BY <1>1 DEF Sequence

(* The rows of a table by their place among thirteen; the generator's lacks two. *)
Skip(c) == IF c = 1 THEN 2 ELSE 0

TableKind == <<"DoubleP", "AddP2P", "DoubleR", "AddR2R", "Base0", "Base1", "Base2", "Base3",
               "Base4", "Base5", "Base6", "Base7", "Table16">>

BaseRow(tab, i) ==
    AddRow(BaseKind[i + 1], IF i \in {1, 2, 5, 6} THEN tab.p ELSE tab.p3,
           IF i < 4 THEN Signed(tab.r, i < 2) ELSE Signed(tab.r3, i < 6))

TableAt(tab, j) ==
    IF j = 1 THEN DoubleRow("DoubleP", tab.p)
    ELSE IF j = 2 THEN AddRow("AddP2P", AddPoints(tab.p, tab.p), tab.p)
    ELSE IF j = 3 THEN DoubleRow("DoubleR", tab.r)
    ELSE IF j = 4 THEN AddRow("AddR2R", AddPoints(tab.r, tab.r), tab.r)
    ELSE IF j = 13 THEN AddRow("Table16", tab.first, tab.r3)
    ELSE BaseRow(tab, j - 5)

LEMMA TableRowsAt ==
    ASSUME NEW tab, NEW c \in Certs
    PROVE  LET rows == TableRows(tab, c = 1) IN
           /\ Sequence(rows) /\ Len(rows) = 13 - Skip(c)
           /\ \A i \in 1 .. 13 - Skip(c) : rows[i] = TableAt(tab, i + Skip(c))
<1> DEFINE p2 == AddPoints(tab.p, tab.p)
           r2 == AddPoints(tab.r, tab.r)
           d == DoubleRow("DoubleP", tab.p)
           e == AddRow("AddP2P", p2, tab.p)
           f == DoubleRow("DoubleR", tab.r)
           g == AddRow("AddR2R", r2, tab.r)
           triple == IF c = 1 THEN <<>> ELSE <<d, e>>
           hintRows == <<f, g>>
           bases == [i \in 1 .. 8 |-> BaseRow(tab, i - 1)]
           last == AddRow("Table16", tab.first, tab.r3)
           rows == triple \o hintRows \o bases \o <<last>>
           k == 2 - Skip(c)
<1>1. TableRows(tab, c = 1) = rows
  <2> DEFINE Left(i) == IF i \in {1, 2, 5, 6} THEN tab.p ELSE tab.p3
             Right(i) == IF i < 4 THEN Signed(tab.r, i < 2) ELSE Signed(tab.r3, i < 6)
             old == [i \in 1 .. 8 |-> AddRow(BaseKind[i], Left(i - 1), Right(i - 1))]
  <2>1. TableRows(tab, c = 1) = triple \o hintRows \o old \o <<last>>
    BY Zenon DEF TableRows
  <2>2. ASSUME NEW i \in 1 .. 8
        PROVE  AddRow(BaseKind[i], Left(i - 1), Right(i - 1)) = BaseRow(tab, i - 1)
    <3>1. (i - 1) + 1 = i
      OBVIOUS
    <3>2. QED
      BY <3>1 DEF BaseRow
  <2> HIDE DEF Left, Right
  <2>3. old = bases
    BY <2>2
  <2>4. QED
    BY <2>1, <2>3
<1>2. /\ Sequence(triple) /\ Len(triple) = k /\ k \in {0, 2}
      /\ k = 2 => triple[1] = d /\ triple[2] = e
  <2>1. CASE c = 1
    <3>1. triple = <<>> /\ k = 2 - 2
      BY <2>1 DEF Skip
    <3> HIDE DEF triple, k
    <3>2. Sequence(<<>>) /\ Len(<<>>) = 0
      BY Few
    <3>3. QED
      BY <3>1, <3>2
  <2>2. CASE c # 1
    <3>1. triple = <<d, e>> /\ k = 2
      BY <2>2 DEF Skip
    <3> HIDE DEF d, e, triple, k
    <3>2. QED
      BY <3>1, Few
  <2>3. QED
    BY <2>1, <2>2
<1>3. Sequence(hintRows) /\ Len(hintRows) = 2 /\ hintRows[1] = f /\ hintRows[2] = g
  <2> HIDE DEF f, g
  <2>1. QED
    BY Few
<1>4. Sequence(bases) /\ Len(bases) = 8 /\ \A i \in 1 .. 8 : bases[i] = BaseRow(tab, i - 1)
  <2> DEFINE S == {BaseRow(tab, i - 1) : i \in 1 .. 8}
  <2>1. bases \in [1 .. 8 -> S]
    OBVIOUS
  <2>2. Seq(S) = UNION {[1 .. n -> S] : n \in Nat}
    BY SeqDef
  <2> HIDE DEF bases, S
  <2>3. 8 \in Nat
    OBVIOUS
  <2>4. bases \in Seq(S)
    BY <2>1, <2>2, <2>3, Zenon
  <2>5. Len(bases) = 8
    BY <2>1, <2>4, LenProperties
  <2>6. QED
    BY <2>4, <2>5 DEF bases, Sequence
<1>5. Sequence(<<last>>) /\ Len(<<last>>) = 1 /\ <<last>>[1] = last
  <2> HIDE DEF last
  <2>1. QED
    BY Few
<1>6. /\ d = TableAt(tab, 1) /\ e = TableAt(tab, 2) /\ f = TableAt(tab, 3) /\ g = TableAt(tab, 4)
      /\ last = TableAt(tab, 13)
      /\ \A i \in 1 .. 8 : BaseRow(tab, i - 1) = TableAt(tab, i + 4)
  <2>1. ASSUME NEW i \in 1 .. 8
        PROVE  BaseRow(tab, i - 1) = TableAt(tab, i + 4)
    <3>1. i + 4 \notin {1, 2, 3, 4, 13} /\ (i + 4) - 5 = i - 1
      OBVIOUS
    <3>2. QED
      BY <3>1 DEF TableAt
  <2>2. QED
    BY <2>1 DEF TableAt
<1> HIDE DEF triple, hintRows, bases, last, d, e, f, g
<1> DEFINE a == triple \o hintRows
           b == a \o bases
<1>7. /\ Sequence(a) /\ Len(a) = k + 2
      /\ \A i \in 1 .. k + 2 : a[i] = IF i <= k THEN triple[i] ELSE hintRows[i - k]
  <2>1. /\ Sequence(a) /\ Len(a) = Len(triple) + Len(hintRows)
        /\ \A i \in 1 .. Len(triple) + Len(hintRows) :
              a[i] = IF i <= Len(triple) THEN triple[i] ELSE hintRows[i - Len(triple)]
    BY <1>2, <1>3, Joined
  <2> HIDE DEF k, a
  <2>2. QED
    BY <1>2, <1>3, <2>1
<1> HIDE DEF a
<1>8. /\ Sequence(b) /\ Len(b) = k + 10
      /\ \A i \in 1 .. k + 10 : b[i] = IF i <= k + 2 THEN a[i] ELSE bases[i - (k + 2)]
  <2>1. /\ Sequence(b) /\ Len(b) = Len(a) + Len(bases)
        /\ \A i \in 1 .. Len(a) + Len(bases) :
              b[i] = IF i <= Len(a) THEN a[i] ELSE bases[i - Len(a)]
    BY <1>4, <1>7, Joined
  <2> HIDE DEF k, b
  <2>2. Len(a) + Len(bases) = k + 10
    BY <1>2, <1>4, <1>7
  <2>3. QED
    BY <1>7, <2>1, <2>2
<1> HIDE DEF b
<1>9. /\ Sequence(rows) /\ Len(rows) = k + 11
      /\ \A i \in 1 .. k + 11 : rows[i] = IF i <= k + 10 THEN b[i] ELSE <<last>>[i - (k + 10)]
  <2> DEFINE t == <<last>>
  <2>1. rows = b \o t /\ k + 10 + 1 = k + 11 /\ Sequence(t) /\ Len(t) = 1
    BY <1>2, <1>5 DEF a, b
  <2> HIDE DEF t, rows, k
  <2>2. QED
    BY <1>8, <2>1, Joined DEF t
<1> HIDE DEF rows
<1>10. k + 11 = 13 - Skip(c) /\ Skip(c) = 2 - k
  BY DEF Certs, Skip
<1> HIDE DEF k
<1>11. ASSUME NEW i \in 1 .. k + 11
       PROVE  rows[i] = TableAt(tab, i + (2 - k))
  <2>1. CASE i <= k
    <3>1. /\ rows[i] = triple[i] /\ k = 2 /\ i \in {1, 2} /\ i + (2 - k) = i
      BY <1>2, <1>7, <1>8, <1>9, <2>1
    <3>2. QED
      BY <1>2, <1>6, <3>1
  <2>2. CASE k < i /\ i <= k + 2
    <3>1. /\ rows[i] = hintRows[i - k] /\ i - k \in {1, 2} /\ i + (2 - k) = (i - k) + 2
      BY <1>2, <1>7, <1>8, <1>9, <2>2
    <3>2. QED
      BY <1>3, <1>6, <3>1
  <2>3. CASE k + 2 < i /\ i <= k + 10
    <3> DEFINE m == i - (k + 2)
    <3>1. /\ rows[i] = bases[m] /\ m \in 1 .. 8 /\ i + (2 - k) = m + 4
      BY <1>2, <1>8, <1>9, <2>3
    <3> HIDE DEF m
    <3>2. QED
      BY <1>4, <1>6, <3>1
  <2>4. CASE i = k + 11
    <3>1. rows[i] = <<last>>[i - (k + 10)] /\ i - (k + 10) = 1 /\ i + (2 - k) = 13
      BY <1>2, <1>9, <2>4
    <3>2. QED
      BY <1>5, <1>6, <3>1
  <2>5. QED
    BY <1>2, <2>1, <2>2, <2>3, <2>4
<1>12. QED
  BY <1>1, <1>9, <1>10, <1>11

(* What a row of a table holds, by its place among thirteen. *)
LEMMA TableCells ==
    ASSUME NEW tab
    PROVE  LET twice == AddPoints(tab.p, tab.p)
               twiceR == AddPoints(tab.r, tab.r)
           IN
           /\ TableAt(tab, 1) = Row("DoubleP", "double", tab.p, Infinity, twice)
           /\ TableAt(tab, 2) = Row("AddP2P", "add", twice, tab.p, AddPoints(twice, tab.p))
           /\ TableAt(tab, 3) = Row("DoubleR", "double", tab.r, Infinity, twiceR)
           /\ TableAt(tab, 4) = Row("AddR2R", "add", twiceR, tab.r, AddPoints(twiceR, tab.r))
           /\ TableAt(tab, 5) = AddRow("Base0", tab.p3, Negate(tab.r))
           /\ TableAt(tab, 6) = AddRow("Base1", tab.p, Negate(tab.r))
           /\ TableAt(tab, 7) = AddRow("Base2", tab.p, tab.r)
           /\ TableAt(tab, 8) = AddRow("Base3", tab.p3, tab.r)
           /\ TableAt(tab, 9) = AddRow("Base4", tab.p3, Negate(tab.r3))
           /\ TableAt(tab, 10) = AddRow("Base5", tab.p, Negate(tab.r3))
           /\ TableAt(tab, 11) = AddRow("Base6", tab.p, tab.r3)
           /\ TableAt(tab, 12) = AddRow("Base7", tab.p3, tab.r3)
           /\ TableAt(tab, 13) = AddRow("Table16", tab.first, tab.r3)
<1>1. /\ BaseKind[1] = "Base0" /\ BaseKind[2] = "Base1" /\ BaseKind[3] = "Base2"
      /\ BaseKind[4] = "Base3" /\ BaseKind[5] = "Base4" /\ BaseKind[6] = "Base5"
      /\ BaseKind[7] = "Base6" /\ BaseKind[8] = "Base7"
  BY DEF BaseKind
<1>2. /\ TableAt(tab, 5) = AddRow("Base0", tab.p3, Negate(tab.r))
      /\ TableAt(tab, 6) = AddRow("Base1", tab.p, Negate(tab.r))
      /\ TableAt(tab, 7) = AddRow("Base2", tab.p, tab.r)
      /\ TableAt(tab, 8) = AddRow("Base3", tab.p3, tab.r)
  BY <1>1 DEF TableAt, BaseRow, Signed
<1>3. /\ TableAt(tab, 9) = AddRow("Base4", tab.p3, Negate(tab.r3))
      /\ TableAt(tab, 10) = AddRow("Base5", tab.p, Negate(tab.r3))
      /\ TableAt(tab, 11) = AddRow("Base6", tab.p, tab.r3)
      /\ TableAt(tab, 12) = AddRow("Base7", tab.p3, tab.r3)
  BY <1>1 DEF TableAt, BaseRow, Signed
<1>4. QED
  BY <1>2, <1>3 DEF TableAt, DoubleRow, AddRow

LEMMA Listed ==
    ASSUME NEW S, NEW s, Sequence(s), \A i \in 1 .. Len(s) : s[i] \in S
    PROVE  s \in Seq(S)
<1>1. PICK T : s \in Seq(T)
  BY DEF Sequence
<1>2. Len(s) \in Nat /\ s \in [1 .. Len(s) -> T]
  BY <1>1, LenProperties
<1>3. s \in [1 .. Len(s) -> S]
  BY <1>2
<1>4. QED
  BY <1>2, <1>3, SeqDef, Zenon

LEMMA TableRowsGood ==
    ASSUME NEW p \in Points, NEW r \in Points, p # Infinity, r # Infinity, NEW tab,
           tab.p = p, tab.r = r, tab.p3 = Times(3, p), tab.r3 = Times(3, r),
           tab.first \in Points, NEW c \in Certs
    PROVE  LET rows == TableRows(tab, c = 1) IN
           /\ rows \in Seq(Rows)
           /\ tab.first # Infinity => rows \in Seq(GoodRows)
           /\ tab.first = Infinity => \E i \in DOMAIN rows : ~RowReproduced(rows[i])
<1> DEFINE rows == TableRows(tab, c = 1)
           n == 13 - Skip(c)
<1>1. /\ Sequence(rows) /\ Len(rows) = n /\ DOMAIN rows = 1 .. n /\ n \in {11, 13}
      /\ \A i \in 1 .. n : rows[i] = TableAt(tab, i + Skip(c))
      /\ \A i \in 1 .. n : i + Skip(c) \in 1 .. 13 /\ (i + Skip(c) = 13 <=> i = n)
  <2>1. /\ Sequence(rows) /\ Len(rows) = n
        /\ \A i \in 1 .. n : rows[i] = TableAt(tab, i + Skip(c))
    BY TableRowsAt
  <2> HIDE DEF rows
  <2>2. DOMAIN rows = 1 .. n
    BY <2>1, Numbered
  <2>3. n \in {11, 13} /\ \A i \in 1 .. n : i + Skip(c) \in 1 .. 13 /\ (i + Skip(c) = 13 <=> i = n)
    BY DEF Skip
  <2>4. QED
    BY <2>1, <2>2, <2>3
<1> HIDE DEF rows, n
<1>2. /\ AddPoints(tab.p, tab.p) \in Points /\ AddPoints(tab.p, tab.p) # Infinity
      /\ AddPoints(tab.r, tab.r) \in Points /\ AddPoints(tab.r, tab.r) # Infinity
      /\ tab.p3 \in Points /\ tab.p3 # Infinity /\ tab.r3 \in Points /\ tab.r3 # Infinity
  BY MultipleFinite
<1>3. Negate(tab.r) \in Points /\ Negate(tab.r3) \in Points
  BY <1>2, NegateTwice DEF Points
<1>4. ASSUME NEW j \in 1 .. 12
      PROVE  TableAt(tab, j) \in GoodRows
  <2>1. CASE j \in {1, 2, 3, 4}
    BY <1>2, <2>1, RowsOfPoints DEF TableAt, Kinds
  <2>2. CASE j \in {5, 6, 7, 8, 9, 10, 11, 12}
    BY <1>2, <1>3, <2>2, TableCells, RowsOfPoints DEF Kinds
  <2>3. QED
    BY <2>1, <2>2
<1>5. /\ TableAt(tab, 13) \in Rows
      /\ tab.first # Infinity => TableAt(tab, 13) \in GoodRows
      /\ tab.first = Infinity => ~RowReproduced(TableAt(tab, 13))
  BY <1>2, RowsOfPoints DEF TableAt, Kinds
<1>6. \A i \in 1 .. n : /\ rows[i] \in Rows
                        /\ tab.first # Infinity => rows[i] \in GoodRows
                        /\ tab.first = Infinity /\ i = n => ~RowReproduced(rows[i])
  <2>1. \A j \in 1 .. 13 : j \in 1 .. 12 \/ j = 13
    OBVIOUS
  <2>2. QED
    BY <1>1, <1>4, <1>5, <2>1 DEF GoodRows
<1>7. n \in 1 .. n
  BY <1>1
<1>8. QED
  BY <1>1, <1>6, <1>7, Listed DEF rows

(* Rows of which one cannot be computed again. *)
Stuck(s) == \E i \in DOMAIN s : ~RowReproduced(s[i])

LEMMA StuckTogether ==
    ASSUME NEW s \in Seq(Rows), NEW t \in Seq(Rows), Stuck(s) \/ Stuck(t)
    PROVE  s \o t \in Seq(Rows) /\ Stuck(s \o t)
<1> DEFINE m == Len(s)
           n == Len(t)
           w == s \o t
<1>1. /\ m \in Nat /\ n \in Nat /\ DOMAIN s = 1 .. m /\ DOMAIN t = 1 .. n
  BY LenProperties
<1>2. /\ w \in Seq(Rows) /\ Len(w) = m + n
      /\ \A i \in 1 .. m + n : w[i] = IF i <= m THEN s[i] ELSE t[i - m]
  BY ConcatProperties
<1>3. DOMAIN w = 1 .. m + n
  BY <1>2, LenProperties
<1> HIDE DEF m, n, w
<1>4. CASE Stuck(s)
  <2>1. PICK i \in 1 .. m : ~RowReproduced(s[i])
    BY <1>1, <1>4 DEF Stuck
  <2>2. i \in 1 .. m + n /\ w[i] = s[i]
    BY <1>1, <1>2
  <2>3. QED
    BY <1>2, <1>3, <2>1, <2>2 DEF Stuck, w
<1>5. CASE Stuck(t)
  <2>1. PICK i \in 1 .. n : ~RowReproduced(t[i])
    BY <1>1, <1>5 DEF Stuck
  <2>2. m + i \in 1 .. m + n /\ ~(m + i <= m) /\ (m + i) - m = i
    BY <1>1
  <2>3. w[m + i] = t[i]
    BY <1>2, <2>2
  <2>4. QED
    BY <1>2, <1>3, <2>1, <2>2, <2>3 DEF Stuck, w
<1>6. QED
  BY <1>4, <1>5

-----------------------------------------------------------------------------
(* The invariant of the rows.                                              *)

HintsShort == \A c \in DOMAIN hints : setup.u[c] # 0 => Short(hints[c])

(* A chain of a scalar that is no unit has good rows only; a probe's may not. *)
RowsMade ==
    /\ prims \in [Certs -> Seq(Rows)]
    /\ phase \in AfterTables /\ verdict # "probe" =>
          \A c \in Certs : setup.u[c] \notin {1, N - 1} => prims[c] \in Seq(GoodRows)
    /\ phase \notin AfterTables /\ phase # "refused" => \A c \in Certs : prims[c] = <<>>

Refusals ==
    /\ verdict = "ProjectiveOutputMismatch" => HasUnitScalar /\ phase = "refused"
    /\ phase \in {"final", "add", "count", "built"} => ~HasUnitScalar

RowInv == HintsShort /\ RowsMade /\ Refusals

LEMMA FinishHintShort ==
    ASSUME HintInv, HintInv', HintsShort, FinishHint
    PROVE  HintsShort'
<1> HIDE DEF HalfBound, Root
<1> DEFINE h == HintNow
           k == setup.u[cert]
<1>1. h # NoHint
  <2>1. CASE h = NoHint
    <3>1. Refuse("UnboundedHint")
      BY <2>1 DEF FinishHint
    <3>2. QED
      BY <3>1 DEF Refuse, HintInv
  <2>2. QED
    BY <2>1
<1>2. /\ phase = "lattice" /\ ~InLattice /\ hints' = Append(hints, h) /\ setup' = setup
      /\ cert \in {1, 2}
  BY <1>1 DEF FinishHint, HintInv
<1>3. k # 0 => Short(h)
  <2>1. ASSUME k # 0 PROVE Short(h)
    <3>1. k \in 0 .. N - 1 /\ LatticeInv(k, lattice)
      BY <1>2, <2>1 DEF HintInv, Scalars, Lattice
    <3>2. h = HintOf(k, lattice.curr) /\ ~(Root <= lattice.curr.rem)
      BY <1>2, <2>1 DEF HintNow, InLattice
    <3> HIDE DEF h, k
    <3>3. k \in 1 .. N - 1
      BY <2>1, <3>1, OrderFacts
    <3>4. Short(HintOf(k, lattice.curr))
      BY <3>1, <3>2, <3>3, HintOfShort
    <3>5. QED
      BY <3>2, <3>4
  <2>2. QED
    BY <2>1
<1> HIDE DEF h
<1>4. CASE cert = 1
  <2>1. hints' = <<h>>
    <3>1. hints = <<>>
      BY <1>2, <1>4 DEF HintInv, Lattice
    <3>2. QED
      BY <1>2, <3>1
  <2>2. QED
    BY <1>2, <1>3, <1>4, <2>1 DEF HintsShort
<1>5. CASE cert = 2
  <2> DEFINE a == hints[1]
  <2>1. hints = <<a>>
    BY <1>2, <1>5 DEF HintInv, Lattice
  <2>2. setup.u[1] # 0 => Short(a)
    <3>1. 1 \in DOMAIN hints
      BY <2>1
    <3>2. QED
      BY <3>1 DEF HintsShort
  <2>3. hints' = Append(<<a>>, h)
    BY <1>2, <2>1
  <2> HIDE DEF a
  <2>4. DOMAIN hints' = {1, 2} /\ hints'[1] = a /\ hints'[2] = h
    BY <2>3, AppendSecond
  <2>5. setup'.u[1] = setup.u[1] /\ setup'.u[2] = k
    BY <1>2, <1>5
  <2> HIDE DEF k
  <2>6. QED
    BY <1>3, <2>2, <2>4, <2>5 DEF HintsShort
<1>6. QED
  BY <1>2, <1>4, <1>5

(* What holds of the hint of a certificate whose table is its own. *)
LEMMA OwnHint ==
    ASSUME HintInv, ClaimInv, ChainInv, HintsShort, phase \in AfterTables, verdict # "probe",
           NEW c \in Certs, Active(c)
    PROVE  /\ Short(hints[c]) /\ hints[c].s1 < HalfBound /\ hints[c].s2 < HalfBound
           /\ BaseOf(c) \in 1 .. N - 1
           /\ tables[c].r \in 0 .. N - 1 /\ tables[c].r # Infinity
           /\ Closes(hints[c], BaseOf(c), tables[c].r)
           /\ UnitHint(hints[c]) <=> setup.u[c] \in {1, N - 1}
<1> HIDE DEF Root, HalfBound
<1> DEFINE h == hints[c]
           k == setup.u[c]
           p == BaseOf(c)
           r == tables[c].r
<1>1. /\ p \in 1 .. N - 1 /\ r \in 0 .. N - 1
      /\ h.s1 \in 1 .. N - 1 /\ h.s1 < HalfBound
      /\ h.s2 \in Nat /\ h.s2 < HalfBound /\ h.q \in Int
  BY ChainFacts
<1>2. c \in DOMAIN hints /\ h.bit \in {0, 1}
  BY DEF ClaimInv, BitsSet, Certs, AfterTables, AfterKey
<1>3. k # 0 /\ k \in 0 .. N - 1
  BY DEF Active, HintInv, Scalars, Certs
<1>4. Short(h)
  BY <1>2, <1>3 DEF HintsShort
<1>5. r = OrientedHint(Times(k, p), h.bit)
  BY DEF ClaimInv, TablesSet, HintPoint
<1>6. HintProves(k, h)
  BY <1>2 DEF HintInv, HintsProve
<1> HIDE DEF h, k, p, r
<1>7. k \in 1 .. N - 1
  BY <1>3, OrderFacts
<1>8. k * h.s2 = h.q * N + SelectedS1(h)
  BY <1>3, <1>6 DEF HintProves
<1>9. Closes(h, p, r)
  BY <1>1, <1>2, <1>5, <1>7, <1>8, HintBinds DEF Closes
<1>10. UnitHint(h) <=> k \in {1, N - 1}
  BY <1>1, <1>4, <1>6, <1>7, UnitScalars
<1>11. r # Infinity
  <2>1. CASE r = Infinity
    <3> DEFINE s == h.s1
    <3>1. s \in 1 .. N - 1 /\ s \in 0 .. N - 1 /\ s \in Int /\ p \in 0 .. N - 1 /\ p \in Int
          /\ 0 \in 0 .. N - 1 /\ h.s2 \in Int
      BY <1>1, OrderFacts
    <3>2. (s * p + h.s2 * r) % N = 0
      BY <1>9 DEF Closes, Lin, Infinity
    <3>3. h.s2 * r = 0 /\ s * p \in Int /\ s * 0 = 0
      BY <2>1, <3>1 DEF Infinity
    <3> DEFINE sp == s * p
               s0 == s * 0
    <3>4. sp % N = 0 /\ s0 % N = 0
      <4>1. sp + 0 = sp
        BY <3>3
      <4>2. QED
        BY <3>1, <3>2, <3>3, <4>1, SmallRemainder
    <3>5. s % N # 0
      BY <3>1, SmallRemainder
    <3> HIDE DEF sp, s0, s
    <3>6. p = 0
      BY <3>1, <3>4, <3>5, Cancel DEF sp, s0
    <3>7. QED
      BY <1>1, <3>6
  <2>2. QED
    BY <2>1
<1>12. QED
  BY <1>1, <1>4, <1>9, <1>10, <1>11 DEF h, k, p, r

(* Rows added to the current chain keep the rows typed, and good ones keep them good. *)
LEMMA PushedRows ==
    ASSUME RowsMade, phase \in AfterTables, phase' \in AfterTables,
           cert \in Certs, NEW rows \in Seq(Rows),
           prims' = [prims EXCEPT ![cert] = @ \o rows],
           UNCHANGED <<setup, verdict>>,
           verdict # "probe" /\ setup.u[cert] \notin {1, N - 1} => rows \in Seq(GoodRows)
    PROVE  RowsMade'
<1>1. prims \in [Certs -> Seq(Rows)]
  BY DEF RowsMade
<1>2. prims[cert] \o rows \in Seq(Rows)
  <2>1. prims[cert] \in Seq(Rows)
    BY <1>1
  <2>2. QED
    BY <2>1, ConcatProperties
<1>3. prims' \in [Certs -> Seq(Rows)]
  BY <1>1, <1>2
<1>4. ASSUME verdict # "probe", NEW c \in Certs, setup.u[c] \notin {1, N - 1}
      PROVE  prims'[c] \in Seq(GoodRows)
  <2>1. prims[c] \in Seq(GoodRows)
    BY <1>4 DEF RowsMade
  <2>2. CASE c = cert
    <3>1. prims'[c] = prims[c] \o rows
      BY <1>1, <2>2
    <3>2. rows \in Seq(GoodRows)
      BY <1>4, <2>2
    <3>3. QED
      BY <2>1, <3>1, <3>2, ConcatProperties
  <2>3. CASE c # cert
    BY <1>1, <2>1, <2>3
  <2>4. QED
    BY <2>2, <2>3
<1>5. QED
  BY <1>3, <1>4 DEF RowsMade
-----------------------------------------------------------------------------
(* The steps of the chain.                                                 *)

LEMMA PrefixFact ==
    ASSUME HintInv, ClaimInv, ChainInv, HintsShort, phase \in AfterTables,
           NEW c \in Certs, Active(c), NEW i \in 0 .. C
    PROVE  /\ Prefix(c, i) \in Points
           /\ i # 0 /\ verdict # "probe" /\ setup.u[c] \notin {1, N - 1} =>
                 Prefix(c, i) # Infinity
<1> DEFINE p == BaseOf(c)
           r == tables[c].r
           f == High(hints[c].s1, i)
           g == High(hints[c].s2, i)
           a == 2 * f + 1
           b == 2 * g + 1
<1>1. f \in Nat /\ g \in Nat /\ p \in Int /\ r \in Int
  BY PrefixPoint
<1>2. Prefix(c, i) = Lin(a, b, p, r)
  BY DEF Prefix
<1> HIDE DEF f, g, p, r
<1>3. a \in Int /\ b \in Int
  BY <1>1
<1> HIDE DEF a, b
<1>4. Prefix(c, i) \in Points
  BY <1>1, <1>2, <1>3, LinPoint DEF Points
<1>5. ASSUME i # 0, verdict # "probe", setup.u[c] \notin {1, N - 1}, Prefix(c, i) = Infinity
      PROVE  FALSE
  <2> DEFINE h == hints[c]
  <2>1. i \in 1 .. C
    BY <1>5, ChunksPositive
  <2>2. /\ Short(h) /\ h.s1 < HalfBound /\ h.s2 < HalfBound
        /\ p \in 1 .. N - 1 /\ r \in 0 .. N - 1 /\ Closes(h, p, r)
        /\ ~UnitHint(h)
    BY <1>5, OwnHint DEF p, r
  <2>3. Lin(2 * High(h.s1, i) + 1, 2 * High(h.s2, i) + 1, p, r) = Infinity
    BY <1>2, <1>5 DEF a, b, f, g
  <2> HIDE DEF h
  <2>4. QED
    BY <2>1, <2>2, <2>3, PrefixFinite
<1>6. QED
  BY <1>4, <1>5

LEMMA DrawnPoints ==
    ASSUME HintInv, ClaimInv, ChainInv, phase \in AfterTables, NEW c \in Certs, Active(c),
           NEW i \in 0 .. C - 1
    PROVE  LET digit == Decode(Selectors(c).at[i]) IN
           Signed(tables[c].base[digit.index], digit.neg) \in Points
<1> DEFINE x == Chunk(hints[c].s1, i)
           y == Chunk(hints[c].s2, i)
           a == 2 * x - 3
           b == 2 * y - 3
           p == BaseOf(c)
           r == tables[c].r
           digit == Decode(Selectors(c).at[i])
           pt == Signed(tables[c].base[digit.index], digit.neg)
<1>1. pt = Lin(a, b, p, r)
  BY DrawnAt
<1>2. /\ p \in 1 .. N - 1 /\ r \in 0 .. N - 1 /\ hints[c].s1 \in Nat /\ hints[c].s2 \in Nat
  BY ChainFacts
<1>3. x \in 0 .. 3 /\ y \in 0 .. 3
  BY <1>2, Chunks
<1>4. p \in Int /\ r \in Int
  BY <1>2, OrderFacts
<1> HIDE DEF x, y, p, r, pt
<1>5. a \in Int /\ b \in Int
  BY <1>3
<1> HIDE DEF a, b
<1>6. pt \in Points
  BY <1>1, <1>4, <1>5, LinPoint DEF Points
<1>7. QED
  BY <1>6 DEF pt

LEMMA ChainStepRows ==
    ASSUME HintInv, ClaimInv, ChainInv, HintsShort, RowsMade, ChainStep
    PROVE  RowsMade'
<1> DEFINE i == walk.left
           digit == Decode(Selectors(cert).at[walk.left])
           operand == Signed(tables[cert].base[digit.index], digit.neg)
           rows == StepRows(walk.acc, operand)
<1>1. /\ phase = "steps" /\ walk.left > 0 /\ cert \in Certs /\ phase' = phase
      /\ prims' = [prims EXCEPT ![cert] = @ \o rows]
      /\ UNCHANGED <<setup, verdict>>
  BY Zenon DEF ChainStep, Push, HintInv, Certs
<1>2. phase \in AfterTables
  BY <1>1 DEF AfterTables, AfterKey, AfterHints, AfterSetup
<1>3. Active(cert) /\ i \in 0 .. C - 1 /\ walk.acc = Prefix(cert, i + 1)
  BY <1>1 DEF ChainInv, Walking
<1>4. i + 1 \in 0 .. C /\ i + 1 # 0
  BY <1>3, ChunksPositive
<1>5. operand \in Points
  BY <1>1, <1>2, <1>3, DrawnPoints
<1> HIDE DEF operand, i
<1>6. /\ walk.acc \in Points
      /\ verdict # "probe" /\ setup.u[cert] \notin {1, N - 1} => walk.acc # Infinity
  BY <1>1, <1>2, <1>3, <1>4, PrefixFact
<1>7. /\ rows \in Seq(Rows)
      /\ walk.acc # Infinity => rows \in Seq(GoodRows)
  BY <1>5, <1>6, StepRowsGood
<1> HIDE DEF rows
<1>8. QED
  BY <1>1, <1>2, <1>6, <1>7, PushedRows

LEMMA Table16Rows ==
    ASSUME HintInv, ClaimInv, ChainInv, HintsShort, RowsMade, Table16Step
    PROVE  RowsMade'
<1> DEFINE tab == tables[cert]
           operand == tab.table16
           digit == Decode(Selectors(cert).at[0])
           pt == Signed(tab.base[digit.index], digit.neg)
           rows == StepRows(walk.acc, operand)
<1>1. /\ phase = "steps" /\ walk.left = 0 /\ cert \in Certs /\ phase' = "lsb"
      /\ prims' = [prims EXCEPT ![cert] = @ \o rows]
      /\ UNCHANGED <<setup, verdict>>
  BY Zenon DEF Table16Step, Push, HintInv, Certs
<1>2. phase \in AfterTables /\ phase' \in AfterTables
  BY <1>1 DEF AfterTables, AfterKey, AfterHints, AfterSetup
<1>3. Active(cert) /\ walk.acc = Prefix(cert, 1)
  <2>1. walk.left + 1 = 1
    BY <1>1
  <2>2. QED
    BY <1>1, <2>1 DEF ChainInv, Walking
<1>4. 1 \in 0 .. C /\ 1 # 0 /\ 0 \in 0 .. C - 1
  BY ChunksPositive
<1>5. pt \in Points
  BY <1>1, <1>2, <1>3, <1>4, DrawnPoints
<1>6. operand \in Points
  <2> DEFINE p == BaseOf(cert)
             r == tab.r
             sel == Selectors(cert)
             t == TableOf(p, r, sel)
  <2>1. p \in 1 .. N - 1 /\ r \in 0 .. N - 1 /\ tab = t
    BY <1>1, <1>2, <1>3, ChainFacts
  <2>2. p \in 0 .. N - 1 /\ p \in Int /\ r \in Int
    BY <2>1, OrderFacts
  <2>3. /\ t.r3 = Times(3, r)
        /\ t.table16 = AddPoints(Signed(t.base[Decode(sel.at[0]).index],
                                        Decode(sel.at[0]).neg), t.r3)
    <3> HIDE DEF p, r, sel
    <3>1. t.r3 = Times(3, r)
      BY TableNames
    <3>2. t.table16 = AddPoints(Signed(t.base[Decode(sel.at[0]).index],
                                       Decode(sel.at[0]).neg), t.r3)
      BY <2>1, <2>2, TableParts
    <3>3. QED
      BY <3>1, <3>2
  <2> HIDE DEF t, p
  <2>4. operand = AddPoints(pt, tab.r3) /\ tab.r3 = Times(3, r)
    BY <2>1, <2>3
  <2> HIDE DEF r, sel, pt, operand
  <2> DEFINE three == tab.r3
  <2>5. three \in 0 .. N - 1
    <3>1. 3 \in Int
      OBVIOUS
    <3>2. Times(3, r) \in 0 .. N - 1
      BY <2>2, <3>1, PointTypes
    <3>3. QED
      BY <2>4, <3>2
  <2> HIDE DEF three
  <2>6. three \in Int /\ pt \in Int
    BY <1>5, <2>5, OrderFacts DEF Points
  <2>7. AddPoints(pt, three) \in 0 .. N - 1
    BY <2>6, PointTypes
  <2>8. QED
    BY <2>4, <2>7 DEF Points, three
<1> HIDE DEF operand
<1>7. /\ walk.acc \in Points
      /\ verdict # "probe" /\ setup.u[cert] \notin {1, N - 1} => walk.acc # Infinity
  BY <1>1, <1>2, <1>3, <1>4, PrefixFact
<1>8. /\ rows \in Seq(Rows)
      /\ walk.acc # Infinity => rows \in Seq(GoodRows)
  BY <1>6, <1>7, StepRowsGood
<1> HIDE DEF rows
<1>9. QED
  BY <1>1, <1>2, <1>7, <1>8, PushedRows

LEMMA LsbRows ==
    ASSUME HintInv, ClaimInv, ChainInv, HintsShort, RowsMade, LsbCorrection
    PROVE  RowsMade'
<1> DEFINE tab == tables[cert]
           sel == Selectors(cert)
           operand == LsbCorrectionOf(tab, sel)
           row == AddRow("Chain", walk.acc, operand)
           rows == <<row>>
           p == BaseOf(cert)
           r == tables[cert].r
           h == hints[cert]
           x == Lsb(hints[cert].s1)
           y == Lsb(hints[cert].s2)
           f == High(hints[cert].s1, 0)
           g == High(hints[cert].s2, 0)
<1>1. /\ phase = "lsb" /\ cert \in Certs /\ phase' = "chained"
      /\ prims' = [prims EXCEPT ![cert] = @ \o rows]
      /\ UNCHANGED <<setup, verdict>>
  BY Zenon DEF LsbCorrection, Push, HintInv, Certs
<1>2. phase \in AfterTables /\ phase' \in AfterTables
  BY <1>1 DEF AfterTables, AfterKey, AfterHints, AfterSetup
<1>3. Active(cert) /\ walk.acc = AddPoints(Prefix(cert, 0), tab.r3)
  BY <1>1 DEF ChainInv, Walking
<1>4. /\ p \in 1 .. N - 1 /\ r \in 0 .. N - 1 /\ tab = TableOf(p, r, sel)
      /\ h.s1 \in Nat /\ h.s1 < HalfBound /\ h.s2 \in Nat /\ h.s2 < HalfBound
  BY <1>1, <1>2, <1>3, ChainFacts
<1>5. p \in 0 .. N - 1 /\ p \in Int /\ r \in Int
  BY <1>4, OrderFacts
<1>6. /\ x \in {0, 1} /\ y \in {0, 1} /\ sel.lsb = <<x, y>>
      /\ f \in Nat /\ g \in Nat
  <2>1. sel.lsb = <<x, y>>
    BY DEF Selectors, SelectorsOf
  <2>2. x \in {0, 1} /\ y \in {0, 1} /\ f \in Nat /\ g \in Nat
    <3> HIDE DEF HalfBound, h
    <3>1. QED
      BY <1>4, LowestOf DEF h
  <2>3. QED
    BY <2>1, <2>2
<1>7. operand = Lin(x - 1, y - 1, p, r)
  <2> DEFINE t == TableOf(p, r, sel)
  <2> HIDE DEF p, r, sel, x, y
  <2>1. LsbCorrectionOf(t, sel) = Lin(x - 1, y - 1, p, r)
    BY <1>4, <1>5, <1>6, CorrectionLin
  <2> HIDE DEF tab, t
  <2>2. QED
    BY <1>4, <2>1 DEF t, sel
<1>8. tab.r3 = Lin(0, 3, p, r)
  <2> DEFINE t == TableOf(p, r, sel)
  <2>1. t.r3 = Lin(0, 3, p, r)
    <3> HIDE DEF p, r, sel
    <3>1. QED
      BY <1>4, <1>5, TableParts
  <2> HIDE DEF t, tab
  <2>2. QED
    BY <1>4, <2>1 DEF t
<1> DEFINE acc == walk.acc
           three == tab.r3
           a == 2 * f + 1
           b == 2 * g + 1
           b3 == 2 * g + 4
           m == x - 1
           n == y - 1
<1>9. acc = AddPoints(Lin(a, b, p, r), three) /\ three = Lin(0, 3, p, r)
  BY <1>3, <1>8 DEF Prefix
<1>10. \A u : u = Lin(a, b3, p, r) => (verdict # "probe" => u # Infinity)
  <2> SUFFICES ASSUME verdict # "probe" PROVE Lin(a, b3, p, r) # Infinity
    OBVIOUS
  <2>1. /\ Short(h) /\ h.s1 < HalfBound /\ h.s2 < HalfBound /\ Closes(h, p, r)
    BY <1>1, <1>2, <1>3, OwnHint
  <2>2. Lin(2 * High(h.s1, 0) + 1, 2 * High(h.s2, 0) + 4, p, r) # Infinity
    <3> HIDE DEF h, p, r
    <3>1. QED
      BY <1>4, <2>1, LastFinite
  <2>3. QED
    BY <2>2
<1> HIDE DEF acc, three, operand, p, r, x, y, f, g
<1>11. /\ a \in Int /\ b \in Int /\ b3 \in Int /\ m \in Int /\ n \in Int
       /\ 0 \in Int /\ 3 \in Int /\ a = a + 0 /\ b3 = b + 3
  BY <1>6
<1>12. operand = Lin(m, n, p, r)
  BY <1>7
<1> HIDE DEF a, b, b3, m, n
<1>13. acc = Lin(a, b3, p, r)
  <2>1. AddPoints(Lin(a, b, p, r), Lin(0, 3, p, r)) = Lin(a, b3, p, r)
    BY <1>5, <1>11, LinAdd
  <2>2. QED
    BY <1>9, <2>1
<1>14. acc \in Points /\ operand \in Points
  BY <1>5, <1>11, <1>12, <1>13, LinPoint DEF Points
<1>15. verdict # "probe" => acc # Infinity
  BY <1>10, <1>13
<1>16. row \in Rows /\ (acc # Infinity => row \in GoodRows)
  <2>1. "Chain" \in Kinds /\ row = AddRow("Chain", acc, operand)
    BY DEF Kinds, acc
  <2> HIDE DEF row
  <2>2. QED
    BY <1>14, <2>1, RowsOfPoints
<1> HIDE DEF row
<1>17. rows \in Seq(Rows) /\ (acc # Infinity => rows \in Seq(GoodRows))
  BY <1>16
<1> HIDE DEF rows
<1>18. QED
  BY <1>1, <1>2, <1>15, <1>17, PushedRows
-----------------------------------------------------------------------------
(* The rows of a claim: all good, or one of a unit scalar's table is not.  *)

LEMMA TableRowsOfCert ==
    ASSUME HintInv, ClaimInv, ChainInv, HintsShort, phase = "rows", NEW c \in Certs
    PROVE  /\ TableRowsOf(c) \in Seq(Rows)
           /\ setup.u[c] \notin {1, N - 1} => TableRowsOf(c) \in Seq(GoodRows)
           /\ setup.u[c] \in {1, N - 1} => Stuck(TableRowsOf(c))
<1>1. phase \in AfterTables /\ verdict # "probe" /\ 0 \notin {1, N - 1}
  BY OrderFacts DEF ClaimInv, TablesSet, AfterChains, AfterTables, AfterKey, AfterHints, AfterSetup
<1>2. CASE ~Active(c)
  <2>1. TableRowsOf(c) = <<>> /\ setup.u[c] = 0
    BY <1>2 DEF TableRowsOf, Active
  <2> HIDE DEF TableRowsOf
  <2>2. QED
    BY <1>1, <2>1
<1>3. CASE Active(c)
  <2> DEFINE p == BaseOf(c)
             r == tables[c].r
             h == hints[c]
             sel == Selectors(c)
             tab == tables[c]
             unit == setup.u[c] \in {1, N - 1}
             rows == TableRows(tab, c = 1)
  <2>1. /\ Short(h) /\ h.s1 < HalfBound /\ h.s2 < HalfBound
        /\ p \in 1 .. N - 1 /\ r \in 0 .. N - 1 /\ r # Infinity
        /\ Closes(h, p, r) /\ (UnitHint(h) <=> unit)
    <3> HIDE DEF HalfBound
    <3>1. QED
      BY <1>1, <1>3, OwnHint
  <2>2. tab = TableOf(p, r, sel)
    BY <1>1, <1>3, ChainFacts
  <2>3. /\ tab.p = p /\ tab.r = r /\ tab.p3 = Times(3, p) /\ tab.r3 = Times(3, r)
        /\ tab.first = Signed(tab.base[Decode(sel.at[0]).index], Decode(sel.at[0]).neg)
    <3> DEFINE t == TableOf(p, r, sel)
    <3>1. /\ t.p = p /\ t.r = r /\ t.p3 = Times(3, p) /\ t.r3 = Times(3, r)
          /\ t.first = Signed(t.base[Decode(sel.at[0]).index], Decode(sel.at[0]).neg)
      <4> HIDE DEF p, r, sel
      <4>1. QED
        BY TableNames
    <3>2. tab = t
      BY <2>2
    <3> HIDE DEF t
    <3>3. QED
      BY <3>1, <3>2
  <2>4. tab.first = Lin(2 * Chunk(h.s1, 0) - 3, 2 * Chunk(h.s2, 0) - 3, p, r)
        /\ tab.first \in Points
    <3>1. 0 \in 0 .. C - 1
      BY ChunksPositive
    <3>2. Signed(tab.base[Decode(sel.at[0]).index], Decode(sel.at[0]).neg)
            = Lin(2 * Chunk(h.s1, 0) - 3, 2 * Chunk(h.s2, 0) - 3, p, r)
      BY <1>1, <1>3, <3>1, DrawnAt
    <3>3. Signed(tab.base[Decode(sel.at[0]).index], Decode(sel.at[0]).neg) \in Points
      BY <1>1, <1>3, <3>1, DrawnPoints
    <3>4. QED
      BY <2>3, <3>2, <3>3
  <2>5. tab.first = Infinity <=> unit
    <3>1. Lin(2 * Chunk(h.s1, 0) - 3, 2 * Chunk(h.s2, 0) - 3, p, r) = Infinity <=> UnitHint(h)
      <4> HIDE DEF h, p, r, HalfBound
      <4>1. QED
        BY <2>1, FirstFinite
    <3>2. QED
      BY <2>1, <2>4, <3>1
  <2>6. TableRowsOf(c) = rows
    BY <1>3 DEF TableRowsOf
  <2>7. p \in Points /\ r \in Points /\ p # Infinity /\ rows = TableRows(tab, c = 1)
    BY <2>1, OrderFacts DEF Points, Infinity
  <2> HIDE DEF p, r, h, sel, tab, unit
  <2>8. /\ rows \in Seq(Rows)
        /\ tab.first # Infinity => rows \in Seq(GoodRows)
        /\ tab.first = Infinity => \E i \in DOMAIN rows : ~RowReproduced(rows[i])
    <3>1. /\ r # Infinity /\ tab.first \in Points
          /\ tab.p = p /\ tab.r = r /\ tab.p3 = Times(3, p) /\ tab.r3 = Times(3, r)
      BY <2>1, <2>3, <2>4
    <3> HIDE DEF rows
    <3>2. QED
      BY <2>7, <3>1, TableRowsGood
  <2>9. tab.first = Infinity => Stuck(rows)
    BY <2>8 DEF Stuck
  <2> HIDE DEF rows
  <2>10. (~unit => rows \in Seq(GoodRows)) /\ (unit => Stuck(rows))
    BY <2>5, <2>8, <2>9
  <2>11. QED
    BY <2>6, <2>8, <2>10 DEF unit
<1>4. QED
  BY <1>2, <1>3

LEMMA ClaimRows ==
    ASSUME HintInv, ClaimInv, ChainInv, HintsShort, RowsMade, phase = "rows"
    PROVE  Stuck(EcRows) <=> HasUnitScalar
<1> DEFINE s == TableRowsOf(1)
           t == TableRowsOf(2)
           m == prims[1]
           n == prims[2]
<1>1. /\ s \in Seq(Rows) /\ t \in Seq(Rows)
      /\ setup.u[1] \in {1, N - 1} => Stuck(s)
      /\ setup.u[2] \in {1, N - 1} => Stuck(t)
      /\ setup.u[1] \notin {1, N - 1} => s \in Seq(GoodRows)
      /\ setup.u[2] \notin {1, N - 1} => t \in Seq(GoodRows)
  <2>1. 1 \in Certs /\ 2 \in Certs
    BY DEF Certs
  <2>2. QED
    BY <2>1, TableRowsOfCert
<1>2. phase \in AfterTables /\ verdict # "probe"
  BY DEF ClaimInv, TablesSet, AfterChains, AfterTables, AfterKey, AfterHints, AfterSetup
<1>3. /\ m \in Seq(Rows) /\ n \in Seq(Rows)
      /\ setup.u[1] \notin {1, N - 1} => m \in Seq(GoodRows)
      /\ setup.u[2] \notin {1, N - 1} => n \in Seq(GoodRows)
  BY <1>2 DEF RowsMade, Certs
<1>4. EcRows = s \o t \o m \o n
  BY DEF EcRows, TablePart
<1>5. HasUnitScalar <=> setup.u[1] \in {1, N - 1} \/ setup.u[2] \in {1, N - 1}
  BY DEF HasUnitScalar, Certs
<1> HIDE DEF s, t, m, n
<1>6. CASE HasUnitScalar
  <2>1. s \o t \in Seq(Rows) /\ Stuck(s \o t)
    BY <1>1, <1>5, <1>6, StuckTogether
  <2>2. s \o t \o m \in Seq(Rows) /\ Stuck(s \o t \o m)
    BY <1>3, <2>1, StuckTogether
  <2>3. Stuck(s \o t \o m \o n)
    BY <1>3, <2>2, StuckTogether
  <2>4. QED
    BY <1>4, <1>6, <2>3
<1>7. CASE ~HasUnitScalar
  <2>1. /\ s \in Seq(GoodRows) /\ t \in Seq(GoodRows)
        /\ m \in Seq(GoodRows) /\ n \in Seq(GoodRows)
    BY <1>1, <1>3, <1>5, <1>7
  <2>2. s \o t \o m \o n \in Seq(GoodRows)
    BY <2>1, ConcatProperties
  <2>3. ~Stuck(s \o t \o m \o n)
    BY <2>2, GoodAreRows DEF Stuck
  <2>4. QED
    BY <1>4, <1>7, <2>3
<1>8. QED
  BY <1>6, <1>7

LEMMA InitRowInv == Init => RowInv
<1> SUFFICES ASSUME Init PROVE RowInv
  OBVIOUS
<1>1. /\ hints = <<>> /\ prims = <<<<>>, <<>>>> /\ verdict = "none"
      /\ phase \in {"native", "setup"}
  BY DEF Init
<1>2. HintsShort
  BY <1>1 DEF HintsShort
<1>3. RowsMade
  <2>1. \A c \in Certs : prims[c] = <<>>
    BY <1>1 DEF Certs
  <2>2. <<>> \in Seq(Rows) /\ DOMAIN prims = Certs /\ prims = [c \in Certs |-> prims[c]]
    BY <1>1 DEF Certs
  <2>3. prims \in [Certs -> Seq(Rows)]
    BY <2>1, <2>2, Zenon
  <2>4. QED
    BY <1>1, <2>1, <2>3, <2>2 DEF RowsMade, AfterTables, AfterKey, AfterHints, AfterSetup
<1>4. Refusals
  BY <1>1 DEF Refusals
<1>5. QED
  BY <1>2, <1>3, <1>4 DEF RowInv

(* A step that leaves scalars, hints and rows alone and is not the comparison
   of the rows. *)
LEMMA RowsKept ==
    ASSUME RowInv, UNCHANGED <<setup, hints, prims>>,
           phase # "refused",
           \/ verdict' = verdict
           \/ verdict' = "ok" /\ verdict # "probe"
           \/ phase' = "refused" /\ verdict' # "ProjectiveOutputMismatch",
           phase' = "refused" \/ (phase' \in AfterTables <=> phase \in AfterTables),
           phase' \in {"final", "add", "count", "built"} =>
                phase \in {"final", "add", "count", "built"}
    PROVE  RowInv'
<1>1. HintsShort'
  BY DEF RowInv, HintsShort
<1>2. verdict # "ProjectiveOutputMismatch"
  BY DEF RowInv, Refusals
<1>3. RowsMade'
  <2>1. phase' \in AfterTables => phase' # "refused"
    BY DEF AfterTables, AfterKey, AfterHints, AfterSetup
  <2>2. phase' \in AfterTables /\ verdict' # "probe" => phase \in AfterTables /\ verdict # "probe"
    BY <2>1
  <2>3. QED
    BY <2>2 DEF RowInv, RowsMade
<1>4. Refusals'
  <2>1. HasUnitScalar' <=> HasUnitScalar
    BY DEF HasUnitScalar
  <2>2. QED
    BY <1>2, <2>1 DEF RowInv, Refusals
<1>5. QED
  BY <1>1, <1>3, <1>4 DEF RowInv

LEMMA NextRowInv ==
    HintInv /\ HintInv' /\ ClaimInv /\ ChainInv /\ RowInv /\ [Next]_vars => RowInv'
<1> SUFFICES ASSUME HintInv, HintInv', ClaimInv, ChainInv, RowInv, [Next]_vars PROVE RowInv'
  OBVIOUS
<1> USE DEF AfterTables, AfterKey, AfterHints, AfterSetup
<1>1. CASE NativeVerify
  BY <1>1, RowsKept DEF NativeVerify, Refuse
<1>2. CASE SetupScalars
  <2>1. /\ phase = "setup" /\ phase' \in {"lattice", "refused"} /\ hints' = hints
        /\ prims' = prims /\ verdict' # "ProjectiveOutputMismatch"
    <3>1. verdict # "ProjectiveOutputMismatch"
      BY <1>2 DEF SetupScalars, RowInv, Refusals
    <3>2. QED
      BY <1>2, <3>1 DEF SetupScalars, SetupVerdict, Refuse
  <2>2. hints = <<>>
    BY <2>1 DEF HintInv, Started
  <2>3. HintsShort'
    BY <2>1, <2>2 DEF HintsShort
  <2>4. RowsMade' /\ Refusals'
    BY <2>1 DEF RowInv, RowsMade, Refusals
  <2>5. QED
    BY <2>3, <2>4 DEF RowInv
<1>3. CASE LatticeStep
  BY <1>3, RowsKept DEF LatticeStep
<1>4. CASE FinishHint
  <2>1. /\ phase = "lattice" /\ phase' \in {"lattice", "key", "refused"}
        /\ prims' = prims /\ setup' = setup /\ verdict' # "ProjectiveOutputMismatch"
    <3>1. verdict # "ProjectiveOutputMismatch"
      BY <1>4 DEF FinishHint, RowInv, Refusals
    <3>2. QED
      BY <1>4, <3>1 DEF FinishHint, Refuse
  <2>2. HintsShort'
    BY <1>4, FinishHintShort DEF RowInv
  <2>3. RowsMade' /\ Refusals'
    BY <2>1 DEF RowInv, RowsMade, Refusals
  <2>4. QED
    BY <2>2, <2>3 DEF RowInv
<1>5. CASE CheckKey
  BY <1>5, RowsKept DEF CheckKey, Refuse
<1>6. CASE BuildTables \/ BuildTablesFrom
  <2>1. /\ phase = "tables" /\ phase' = "chain"
        /\ UNCHANGED <<setup, hints, prims>> /\ verdict' \in {verdict, "probe"}
    BY <1>6 DEF BuildTables, BuildTablesFrom
  <2>2. HintsShort' /\ Refusals'
    BY <2>1 DEF RowInv, HintsShort, Refusals
  <2>3. RowsMade'
    <3>1. prims \in [Certs -> Seq(Rows)] /\ \A c \in Certs : prims[c] = <<>>
      BY <2>1 DEF RowInv, RowsMade
    <3>2. <<>> \in Seq(GoodRows)
      OBVIOUS
    <3>3. QED
      BY <2>1, <3>1, <3>2 DEF RowsMade
  <2>4. QED
    BY <2>2, <2>3 DEF RowInv
<1>7. CASE MsbInit
  BY <1>7, RowsKept DEF MsbInit
<1>8. ASSUME ChainStep \/ Table16Step \/ LsbCorrection PROVE RowInv'
  <2>1. /\ phase \in {"steps", "lsb"} /\ phase' \in {"steps", "lsb", "chained"}
        /\ UNCHANGED <<setup, hints, verdict>>
    BY <1>8, Zenon DEF ChainStep, Table16Step, LsbCorrection, Push
  <2>2. RowsMade'
    BY <1>8, ChainStepRows, Table16Rows, LsbRows DEF RowInv
  <2>3. HintsShort' /\ Refusals'
    BY <2>1 DEF RowInv, HintsShort, Refusals
  <2>4. QED
    BY <2>2, <2>3 DEF RowInv
<1>9. CASE NextChain
  <2>1. /\ phase \in {"chain", "chained"} /\ phase' \in {"chain", "probed", "rows"}
        /\ UNCHANGED <<setup, hints, prims, verdict>>
    BY <1>9 DEF NextChain
  <2>2. QED
    BY <2>1, RowsKept
<1>10. CASE ProjectRows
  <2>1. Stuck(EcRows) <=> HasUnitScalar
    BY <1>10, ClaimRows DEF ProjectRows, RowInv
  <2> DEFINE stuck == Stuck(EcRows)
  <2>2. /\ phase = "rows" /\ UNCHANGED <<setup, hints, prims>>
        /\ IF stuck THEN phase' = "refused" /\ verdict' = "ProjectiveOutputMismatch"
           ELSE phase' = "final" /\ verdict' = verdict
    <3>1. /\ phase = "rows"
          /\ IF stuck THEN Refuse("ProjectiveOutputMismatch")
             ELSE phase' = "final" /\ UNCHANGED <<setup, hints, prims, verdict>>
      BY <1>10 DEF ProjectRows, Stuck
    <3> HIDE DEF stuck
    <3>2. QED
      BY <3>1 DEF Refuse
  <2> HIDE DEF stuck
  <2>3. HintsShort' /\ RowsMade'
    <3>1. verdict # "probe"
      BY <2>2 DEF ClaimInv, TablesSet, AfterChains
    <3>2. QED
      BY <2>2, <3>1 DEF RowInv, HintsShort, RowsMade
  <2>4. Refusals'
    <3>1. HasUnitScalar' <=> HasUnitScalar
      BY <2>2 DEF HasUnitScalar
    <3>2. stuck <=> HasUnitScalar
      BY <2>1 DEF stuck
    <3> HIDE DEF HasUnitScalar
    <3>3. QED
      BY <2>2, <3>1, <3>2 DEF RowInv, Refusals
  <2>5. QED
    BY <2>3, <2>4 DEF RowInv
<1>11. CASE FinalCheck
  <2>1. /\ phase = "final" /\ UNCHANGED <<setup, hints, prims>>
        /\ \/ phase' = "add" /\ verdict' = verdict
           \/ phase' = "refused" /\ verdict' # "ProjectiveOutputMismatch"
    BY <1>11 DEF FinalCheck, Refuse
  <2>2. QED
    BY <2>1, RowsKept
<1>12. CASE FinalAdd
  <2> DEFINE branch == FinalAddBranch(Addends[1], Addends[2])
             undone == branch \in {"BothInfinity", "InverseAdd"}
  <2>1. /\ phase = "add"
        /\ IF undone THEN Refuse(branch)
           ELSE phase' = "count" /\ UNCHANGED <<setup, hints, prims, verdict>>
    BY <1>12 DEF FinalAdd
  <2>2. undone => branch # "ProjectiveOutputMismatch"
    <3> HIDE DEF branch
    <3>1. QED
      OBVIOUS
  <2> HIDE DEF branch, undone
  <2>3. /\ phase = "add" /\ UNCHANGED <<setup, hints, prims>>
        /\ \/ phase' = "count" /\ verdict' = verdict
           \/ phase' = "refused" /\ verdict' # "ProjectiveOutputMismatch"
    BY <2>1, <2>2 DEF Refuse
  <2>4. QED
    BY <2>3, RowsKept
<1>13. CASE CountUses
  <2> DEFINE over == \E c \in Certs : Active(c) /\
                        \E i \in 0 .. 7 : UseCounts(Selectors(c))[i] > MaxUse
  <2>1. /\ phase = "count"
        /\ IF over THEN Refuse("UseCountOutOfRange")
           ELSE phase' = "built" /\ verdict' = "ok" /\ UNCHANGED <<setup, hints, prims>>
    BY <1>13 DEF CountUses
  <2> HIDE DEF over
  <2>2. verdict # "probe"
    BY <2>1 DEF ClaimInv, TablesSet, AfterChains
  <2>3. /\ UNCHANGED <<setup, hints, prims>>
        /\ \/ phase' = "built" /\ verdict' = "ok"
           \/ phase' = "refused" /\ verdict' # "ProjectiveOutputMismatch"
    BY <2>1 DEF Refuse
  <2>4. QED
    BY <2>1, <2>2, <2>3, RowsKept
<1>14. CASE UNCHANGED vars
  BY <1>14 DEF vars, RowInv, HintsShort, RowsMade, Refusals, HasUnitScalar
<1>15. QED
  BY <1>1, <1>2, <1>3, <1>4, <1>5, <1>6, <1>7, <1>8, <1>9, <1>10, <1>11, <1>12, <1>13, <1>14
     DEF Next, Done

(* In a group of at least 49 points, a curve operation that cannot be computed
   again from its multiplications arises for the scalars 1 and -1, always, and
   for no other (OnlyUnitScalarsRefused): a point an operation starts from is
   infinity only if its combination of base and hint is a multiple of the
   hint's own, and for other hints those are too long. *)
THEOREM OnlyUnitsRefused == Spec => []OnlyUnitScalarsRefused
<1>1. RowInv => OnlyUnitScalarsRefused
  BY DEF RowInv, Refusals, OnlyUnitScalarsRefused
<1>2. QED
  BY <1>1, InitHintInv, NextHintInv, InitClaimInv, NextClaimInv, InitChainInv, NextChainInv,
     InitRowInv, NextRowInv, PTL DEF Spec

-----------------------------------------------------------------------------
(* Relations that sum to zero.                                             *)

(* The sum of a set's multiplicities. *)
SumOf(S) == MapThenSumSet(LAMBDA e : e.m, S)

AnyOf(s) == CHOOSE x \in s : TRUE

IsSum(f, S) ==
    f = [s \in SUBSET S |-> IF s = {} THEN 0 ELSE AnyOf(s).m + f[s \ {AnyOf(s)}]]

LEMMA AnyIn ==
    ASSUME NEW s, s # {}
    PROVE  AnyOf(s) \in s
<1>1. \E x : x \in s
  OBVIOUS
<1>2. QED
  BY <1>1 DEF AnyOf

LEMMA SumIs == ASSUME NEW S PROVE SumOf(S) = (CHOOSE f : IsSum(f, S))[S]
  BY DEF SumOf, MapThenSumSet, MapThenFoldSet, IsSum, AnyOf

LEMMA SumAt ==
    ASSUME NEW f, NEW S, IsSum(f, S), NEW s \in SUBSET S
    PROVE  f[s] = IF s = {} THEN 0 ELSE AnyOf(s).m + f[s \ {AnyOf(s)}]
<1> DEFINE g == [u \in SUBSET S |-> IF u = {} THEN 0 ELSE AnyOf(u).m + f[u \ {AnyOf(u)}]]
<1>1. f = g
  BY DEF IsSum
<1>2. g[s] = IF s = {} THEN 0 ELSE AnyOf(s).m + f[s \ {AnyOf(s)}]
  OBVIOUS
<1> HIDE DEF g
<1>3. QED
  BY <1>1, <1>2

(* A nonempty set of finite sets has one with the fewest elements. *)
LEMMA Smallest ==
    ASSUME NEW Bad, Bad # {}, \A s \in Bad : IsFiniteSet(s)
    PROVE  \E s \in Bad : \A t \in Bad : ~(Cardinality(t) < Cardinality(s))
<1> DEFINE Sizes == {Cardinality(s) : s \in Bad}
<1>1. Sizes \in SUBSET Nat /\ Sizes # {}
  BY FS_CardinalityType
<1>2. PICK n \in Sizes : \A m \in Sizes : ~(m < n)
  <2> HIDE DEF Sizes
  <2> QED
    BY <1>1, LeastElement
<1>3. PICK s \in Bad : n = Cardinality(s)
  BY <1>2
<1>4. QED
  BY <1>2, <1>3

LEMMA Fewer ==
    ASSUME NEW s, IsFiniteSet(s), NEW x \in s
    PROVE  /\ IsFiniteSet(s \ {x}) /\ Cardinality(s \ {x}) < Cardinality(s)
           /\ s \ {x} \subseteq s
<1>1. /\ IsFiniteSet(s \ {x}) /\ Cardinality(s \ {x}) = Cardinality(s) - 1
  BY FS_RemoveElement
<1>2. Cardinality(s) \in Nat
  BY FS_CardinalityType
<1>3. QED
  BY <1>1, <1>2

(* Two sums over subsets of a finite set agree where both are defined. *)
LEMMA SumUnique ==
    ASSUME NEW f, NEW g, NEW S, NEW T, IsSum(f, S), IsSum(g, T),
           NEW s, s \subseteq S, s \subseteq T, IsFiniteSet(s)
    PROVE  f[s] = g[s]
<1> DEFINE Bad == {u \in SUBSET s : f[u] # g[u]}
<1>1. CASE Bad # {}
  <2>1. \A u \in Bad : IsFiniteSet(u)
    BY FS_Subset
  <2>2. PICK u \in Bad : \A t \in Bad : ~(Cardinality(t) < Cardinality(u))
    <3> HIDE DEF Bad
    <3> QED
      BY <1>1, <2>1, Smallest
  <2>3. u \in SUBSET S /\ u \in SUBSET T /\ u \in SUBSET s /\ f[u] # g[u] /\ IsFiniteSet(u)
    BY <2>1, <2>2
  <2>4. /\ f[u] = IF u = {} THEN 0 ELSE AnyOf(u).m + f[u \ {AnyOf(u)}]
        /\ g[u] = IF u = {} THEN 0 ELSE AnyOf(u).m + g[u \ {AnyOf(u)}]
    BY <2>3, SumAt
  <2>5. u # {}
    BY <2>3, <2>4
  <2>6. AnyOf(u) \in u
    BY <2>5, AnyIn
  <2>7. u \ {AnyOf(u)} \notin Bad
    BY <2>2, <2>3, <2>6, Fewer
  <2>8. f[u \ {AnyOf(u)}] = g[u \ {AnyOf(u)}]
    BY <2>3, <2>7
  <2>9. QED
    BY <2>3, <2>4, <2>5, <2>8
<1>2. QED
  BY <1>1

LEMMA SumWhereDefined ==
    ASSUME NEW f, NEW S, IsSum(f, S), NEW s, s \subseteq S, IsFiniteSet(s)
    PROVE  SumOf(s) = f[s]
<1> DEFINE g == [u \in SUBSET s |-> f[u]]
<1>1. ASSUME NEW u \in SUBSET s
      PROVE  g[u] = IF u = {} THEN 0 ELSE AnyOf(u).m + g[u \ {AnyOf(u)}]
  <2>1. f[u] = IF u = {} THEN 0 ELSE AnyOf(u).m + f[u \ {AnyOf(u)}]
    BY SumAt
  <2>2. u \ {AnyOf(u)} \in SUBSET s
    OBVIOUS
  <2>3. QED
    BY <2>1, <2>2
<1>2. IsSum(g, s)
  BY <1>1 DEF IsSum
<1>3. IsSum(CHOOSE h : IsSum(h, s), s)
  BY <1>2
<1>4. g[s] = f[s]
  OBVIOUS
<1>5. (CHOOSE h : IsSum(h, s))[s] = f[s]
  BY <1>3, SumUnique
<1>6. QED
  BY <1>5, SumIs

LEMMA SumExists ==
    ASSUME NEW S, IsFiniteSet(S)
    PROVE  \E f : IsSum(f, S)
<1> DEFINE Bad == {u \in SUBSET S : ~(\E f : IsSum(f, u))}
<1>1. CASE Bad # {}
  <2>1. \A u \in Bad : IsFiniteSet(u)
    BY FS_Subset
  <2>2. PICK u \in Bad : \A t \in Bad : ~(Cardinality(t) < Cardinality(u))
    <3> HIDE DEF Bad
    <3> QED
      BY <1>1, <2>1, Smallest
  <2>3. u \in SUBSET S /\ ~(\E f : IsSum(f, u)) /\ IsFiniteSet(u)
    BY <2>1, <2>2
  <2> DEFINE f == [s \in SUBSET u |-> IF s = {} THEN 0 ELSE AnyOf(s).m + SumOf(s \ {AnyOf(s)})]
  <2>4. ASSUME NEW s \in SUBSET u, s # {}
        PROVE  f[s \ {AnyOf(s)}] = SumOf(s \ {AnyOf(s)})
    <3> DEFINE v == s \ {AnyOf(s)}
    <3>1. AnyOf(s) \in s /\ IsFiniteSet(s) /\ Cardinality(s) <= Cardinality(u)
      BY <2>3, <2>4, AnyIn, FS_Subset
    <3>2. /\ IsFiniteSet(v) /\ Cardinality(v) < Cardinality(s) /\ v \in SUBSET u
      BY <3>1, Fewer
    <3>3. Cardinality(v) \in Nat /\ Cardinality(s) \in Nat /\ Cardinality(u) \in Nat
      BY <2>3, <3>1, <3>2, FS_CardinalityType
    <3>4. v \notin Bad
      BY <2>2, <3>1, <3>2, <3>3
    <3>5. PICK g : IsSum(g, v)
      BY <2>3, <3>2, <3>4
    <3>6. SumOf(v) = g[v]
      BY <3>2, <3>5, SumWhereDefined
    <3>7. g[v] = IF v = {} THEN 0 ELSE AnyOf(v).m + g[v \ {AnyOf(v)}]
      BY <3>5, SumAt
    <3>8. CASE v = {}
      BY <3>2, <3>6, <3>7, <3>8
    <3>9. CASE v # {}
      <4>1. AnyOf(v) \in v
        BY <3>9, AnyIn
      <4>2. IsFiniteSet(v \ {AnyOf(v)}) /\ v \ {AnyOf(v)} \subseteq v
        BY <3>2, <4>1, Fewer
      <4>3. SumOf(v \ {AnyOf(v)}) = g[v \ {AnyOf(v)}]
        BY <3>5, <4>2, SumWhereDefined
      <4>4. f[v] = AnyOf(v).m + SumOf(v \ {AnyOf(v)})
        BY <3>2, <3>9
      <4>5. QED
        BY <3>6, <3>7, <3>9, <4>3, <4>4
    <3>10. QED
      BY <3>8, <3>9
  <2>5. f = [s \in SUBSET u |-> IF s = {} THEN 0 ELSE AnyOf(s).m + f[s \ {AnyOf(s)}]]
    BY <2>4
  <2>6. IsSum(f, u)
    BY <2>5 DEF IsSum
  <2>7. QED
    BY <2>3, <2>6
<1>2. QED
  BY <1>1

LEMMA SumFirst ==
    ASSUME NEW S, IsFiniteSet(S)
    PROVE  SumOf(S) = IF S = {} THEN 0 ELSE AnyOf(S).m + SumOf(S \ {AnyOf(S)})
<1>1. PICK f : IsSum(f, S)
  BY SumExists
<1>2. SumOf(S) = f[S]
  BY <1>1, SumWhereDefined
<1>3. f[S] = IF S = {} THEN 0 ELSE AnyOf(S).m + f[S \ {AnyOf(S)}]
  BY <1>1, SumAt
<1>4. S # {} => SumOf(S \ {AnyOf(S)}) = f[S \ {AnyOf(S)}]
  <2>1. SUFFICES ASSUME S # {} PROVE SumOf(S \ {AnyOf(S)}) = f[S \ {AnyOf(S)}]
    OBVIOUS
  <2>2. AnyOf(S) \in S
    BY <2>1, AnyIn
  <2>3. IsFiniteSet(S \ {AnyOf(S)}) /\ S \ {AnyOf(S)} \subseteq S
    BY <2>2, Fewer
  <2>4. QED
    BY <1>1, <2>3, SumWhereDefined
<1>5. QED
  BY <1>2, <1>3, <1>4

Whole(S) == \A e \in S : e.m \in Int

LEMMA SumWhole ==
    ASSUME NEW S, IsFiniteSet(S), Whole(S)
    PROVE  SumOf(S) \in Int
<1> DEFINE Bad == {u \in SUBSET S : SumOf(u) \notin Int}
<1>1. CASE Bad # {}
  <2>1. \A u \in Bad : IsFiniteSet(u)
    BY FS_Subset
  <2>2. PICK u \in Bad : \A t \in Bad : ~(Cardinality(t) < Cardinality(u))
    <3> HIDE DEF Bad
    <3> QED
      BY <1>1, <2>1, Smallest
  <2>3. u \in SUBSET S /\ SumOf(u) \notin Int /\ IsFiniteSet(u)
    BY <2>1, <2>2
  <2>4. SumOf(u) = IF u = {} THEN 0 ELSE AnyOf(u).m + SumOf(u \ {AnyOf(u)})
    BY <2>3, SumFirst
  <2>5. u # {}
    BY <2>3, <2>4
  <2>6. AnyOf(u) \in u
    BY <2>5, AnyIn
  <2>7. u \ {AnyOf(u)} \notin Bad
    BY <2>2, <2>3, <2>6, Fewer
  <2>8. SumOf(u \ {AnyOf(u)}) \in Int /\ AnyOf(u).m \in Int
    BY <2>3, <2>6, <2>7 DEF Whole
  <2>9. QED
    BY <2>3, <2>4, <2>5, <2>8
<1>2. QED
  BY <1>1

(* Any element may be taken out of the sum. *)
LEMMA SumTake ==
    ASSUME NEW S, IsFiniteSet(S), Whole(S), NEW y \in S
    PROVE  SumOf(S) = y.m + SumOf(S \ {y})
<1> DEFINE Bad == {u \in SUBSET S : \E z \in u : SumOf(u) # z.m + SumOf(u \ {z})}
<1>1. CASE Bad # {}
  <2>1. \A u \in Bad : IsFiniteSet(u)
    BY FS_Subset
  <2>2. PICK u \in Bad : \A t \in Bad : ~(Cardinality(t) < Cardinality(u))
    <3> HIDE DEF Bad
    <3> QED
      BY <1>1, <2>1, Smallest
  <2>3. PICK z \in u : SumOf(u) # z.m + SumOf(u \ {z})
    BY <2>2
  <2>4. u \in SUBSET S /\ IsFiniteSet(u) /\ u # {}
    BY <2>1, <2>2, <2>3
  <2> DEFINE x == AnyOf(u)
             r == (u \ {x}) \ {z}
  <2>5. x \in u /\ SumOf(u) = x.m + SumOf(u \ {x})
    BY <2>4, AnyIn, SumFirst
  <2> HIDE DEF x
  <2>6. x # z
    BY <2>3, <2>5
  <2>7. u \ {x} \notin Bad /\ u \ {z} \notin Bad
    BY <2>2, <2>3, <2>4, <2>5, Fewer
  <2>8. z \in u \ {x} /\ x \in u \ {z} /\ u \ {x} \in SUBSET S /\ u \ {z} \in SUBSET S
    BY <2>3, <2>4, <2>5, <2>6
  <2>9. SumOf(u \ {x}) = z.m + SumOf(r)
    BY <2>7, <2>8
  <2>10. SumOf(u \ {z}) = x.m + SumOf((u \ {z}) \ {x})
    BY <2>7, <2>8
  <2>11. (u \ {z}) \ {x} = r
    OBVIOUS
  <2>12. x.m \in Int /\ z.m \in Int /\ SumOf(r) \in Int
    <3>1. r \in SUBSET S /\ IsFiniteSet(r)
      BY <2>4, FS_Subset
    <3>2. Whole(r)
      BY <3>1 DEF Whole
    <3> HIDE DEF r
    <3>3. SumOf(r) \in Int
      BY <3>1, <3>2, SumWhole
    <3>4. QED
      BY <2>3, <2>4, <2>5, <3>3 DEF Whole
  <2> HIDE DEF r
  <2>13. SumOf(u \ {z}) = x.m + SumOf(r)
    BY <2>10, <2>11
  <2>14. QED
    BY <2>3, <2>5, <2>9, <2>12, <2>13
<1>2. QED
  BY <1>1

LEMMA SumNone == SumOf({}) = 0
  BY FS_EmptySet, SumFirst

(* A set of uses sums to its size. *)
LEMMA SumOfUses ==
    ASSUME NEW S, IsFiniteSet(S), \A e \in S : e.m = 1
    PROVE  SumOf(S) = Cardinality(S)
<1> DEFINE Bad == {u \in SUBSET S : SumOf(u) # Cardinality(u)}
<1>1. CASE Bad # {}
  <2>1. \A u \in Bad : IsFiniteSet(u)
    BY FS_Subset
  <2>2. PICK u \in Bad : \A t \in Bad : ~(Cardinality(t) < Cardinality(u))
    <3> HIDE DEF Bad
    <3> QED
      BY <1>1, <2>1, Smallest
  <2>3. u \in SUBSET S /\ SumOf(u) # Cardinality(u) /\ IsFiniteSet(u)
    BY <2>1, <2>2
  <2>4. SumOf(u) = IF u = {} THEN 0 ELSE AnyOf(u).m + SumOf(u \ {AnyOf(u)})
    BY <2>3, SumFirst
  <2>5. u # {}
    BY <2>3, <2>4, FS_EmptySet
  <2>6. AnyOf(u) \in u
    BY <2>5, AnyIn
  <2>7. u \ {AnyOf(u)} \notin Bad
    BY <2>2, <2>3, <2>6, Fewer
  <2>8. SumOf(u \ {AnyOf(u)}) = Cardinality(u \ {AnyOf(u)}) /\ AnyOf(u).m = 1
    BY <2>3, <2>6, <2>7
  <2>9. Cardinality(u \ {AnyOf(u)}) = Cardinality(u) - 1 /\ Cardinality(u) \in Nat
    BY <2>3, <2>6, FS_RemoveElement, FS_CardinalityType
  <2>10. QED
    BY <2>3, <2>4, <2>5, <2>8, <2>9
<1>2. QED
  BY <1>1

LEMMA BalancedSums ==
    ASSUME NEW entries
    PROVE  Balanced(entries) <=> \A t \in {e.t : e \in entries} : SumOf({e \in entries : e.t = t}) = 0
  BY DEF Balanced, SumOf

(* One provider, as often as there are users. *)
Provided(E, t) ==
    \E p, U : /\ {e \in E : e.t = t} = {p} \cup U
              /\ IsFiniteSet(U) /\ (\A u \in U : u.m = 1)
              /\ p \notin U /\ p.m = -Cardinality(U)

LEMMA ProvidedSum ==
    ASSUME NEW E, NEW t, Provided(E, t)
    PROVE  SumOf({e \in E : e.t = t}) = 0
<1>1. PICK p, U : /\ {e \in E : e.t = t} = {p} \cup U
                  /\ IsFiniteSet(U) /\ (\A u \in U : u.m = 1)
                  /\ p \notin U /\ p.m = -Cardinality(U)
  BY DEF Provided
<1> DEFINE S == U \cup {p}
<1>2. IsFiniteSet(S) /\ S \ {p} = U /\ p \in S
  BY <1>1, FS_AddElement
<1>3. Cardinality(U) \in Nat
  BY <1>1, FS_CardinalityType
<1>4. Whole(S)
  BY <1>1, <1>3 DEF Whole
<1>5. {e \in E : e.t = t} = S
  BY <1>1
<1> HIDE DEF S
<1>6. SumOf(S) = p.m + SumOf(S \ {p})
  BY <1>2, <1>4, SumTake
<1>7. SumOf(U) = Cardinality(U)
  BY <1>1, SumOfUses
<1>8. SumOf(S) = 0
  <2>1. SumOf(S \ {p}) = Cardinality(U) /\ p.m = -Cardinality(U)
    BY <1>1, <1>2, <1>7
  <2> DEFINE n == Cardinality(U)
  <2>2. n \in Nat /\ p.m = -n /\ SumOf(S) = p.m + n
    BY <1>3, <1>6, <2>1
  <2> HIDE DEF n
  <2>3. QED
    BY <2>2
<1>9. QED
  BY <1>5, <1>8

LEMMA ProvidedBalanced ==
    ASSUME NEW E, \A e \in E : Provided(E, e.t)
    PROVE  Balanced(E)
  BY ProvidedSum, BalancedSums

LEMMA PairProvided ==
    ASSUME NEW E, NEW t, NEW x, NEW y, {e \in E : e.t = t} = {x, y}, x.m = -1, y.m = 1
    PROVE  Provided(E, t)
<1>1. {x, y} = {x} \cup {y} /\ x \notin {y}
  OBVIOUS
<1>2. IsFiniteSet({y}) /\ Cardinality({y}) = 1
  BY FS_Singleton
<1>3. QED
  BY <1>1, <1>2 DEF Provided

LEMMA EntryParts ==
    ASSUME NEW at, NEW t, NEW m
    PROVE  Entry(at, t, m).at = at /\ Entry(at, t, m).t = t /\ Entry(at, t, m).m = m
  BY DEF Entry

LEMMA UseParts ==
    ASSUME NEW at, NEW t
    PROVE  /\ Provide(at, t).at = at /\ Provide(at, t).t = t /\ Provide(at, t).m = -1
           /\ Use(at, t).at = at /\ Use(at, t).t = t /\ Use(at, t).m = 1
  BY DEF Provide, Use, Entry

(* What one table provides, another uses. *)
LEMMA MatchedBalanced ==
    ASSUME NEW T, NEW p, NEW u
    PROVE  Balanced({Provide(p, t) : t \in T} \cup {Use(u, t) : t \in T})
<1> DEFINE E == {Provide(p, t) : t \in T} \cup {Use(u, t) : t \in T}
<1>1. ASSUME NEW e \in E
      PROVE  Provided(E, e.t)
  <2>1. e.t \in T
    BY UseParts
  <2>2. {f \in E : f.t = e.t} = {Provide(p, e.t), Use(u, e.t)}
    BY <2>1, UseParts
  <2>3. Provide(p, e.t).m = -1 /\ Use(u, e.t).m = 1
    BY UseParts
  <2> HIDE DEF E
  <2>4. QED
    BY <2>2, <2>3, PairProvided
<1> HIDE DEF E
<1>2. Balanced(E)
  BY <1>1, ProvidedBalanced
<1>3. QED
  BY <1>2 DEF E

-----------------------------------------------------------------------------
(* The chains as they are made, row by row.                                *)

(* The rows of a whole chain, in order: their kinds and steps, the points they
   add, the accumulator after them, their curve operations. *)
KindAt(i) == IF i = 1 THEN "msb" ELSE IF i = C + 1 THEN "table16"
             ELSE IF i = C + 2 THEN "lsb" ELSE "step"

StepAt(i) == IF 1 < i /\ i <= C THEN C + 1 - i ELSE 0

OperandAt(c, i) ==
    IF i = 1 THEN tables[c].base[Selectors(c).init]
    ELSE IF i = C + 1 THEN tables[c].table16
    ELSE IF i = C + 2 THEN LsbCorrectionOf(tables[c], Selectors(c))
    ELSE LET digit == Decode(Selectors(c).at[C + 1 - i])
         IN  Signed(tables[c].base[digit.index], digit.neg)

OperationsAt(i, before, operand) ==
    IF i = C + 2 THEN <<AddRow("Chain", before, operand)>> ELSE StepRows(before, operand)

AfterAt(i, before, operand) ==
    IF i = 1 THEN operand
    ELSE IF i = C + 2 THEN AddPoints(before, operand) ELSE AddPoints(FourTimes(before), operand)

OperationsBefore(i) == IF i = 1 THEN 0 ELSE 3 * (i - 2)

OperationsIn(n) == IF n = C + 2 THEN 3 * C + 1 ELSE 3 * (n - 1)

RowKept(c, i) ==
    LET row == chains[c][i] IN
    /\ row.kind = KindAt(i) /\ row.step = StepAt(i) /\ row.operand = OperandAt(c, i)
    /\ row.after = AfterAt(i, row.before, row.operand)
    /\ row.before = IF i = 1 THEN Infinity ELSE chains[c][i - 1].after
    /\ i # 1 => \A k \in DOMAIN OperationsAt(i, row.before, row.operand) :
                   prims[c][OperationsBefore(i) + k]
                       = OperationsAt(i, row.before, row.operand)[k]

(* The first n rows of a chain, and their curve operations. *)
Walked(c, n) ==
    /\ Sequence(chains[c]) /\ Len(chains[c]) = n /\ Len(prims[c]) = OperationsIn(n)
    /\ \A i \in 1 .. n : RowKept(c, i)

NoRows(c) == chains[c] = <<>> /\ prims[c] = <<>>

ChainDone(c) ==
    IF Active(c)
    THEN Walked(c, C + 2) /\ (verdict # "probe" => chains[c][C + 2].after = tables[c].r3)
    ELSE NoRows(c)

RowsNow == IF phase = "steps" THEN C - walk.left ELSE IF phase = "lsb" THEN C + 1 ELSE C + 2

InWalk == {"steps", "lsb", "chained"}

ChainsMade ==
    /\ DOMAIN chains = Certs
    /\ phase \in {"key", "tables"} => cert = 1
    /\ phase \notin AfterTables /\ phase # "refused" => \A c \in Certs : NoRows(c)
    /\ phase \in InWalk \cup {"chain"} => IF cert = 1 THEN NoRows(2) ELSE ChainDone(1)
    /\ phase = "chain" => NoRows(cert)
    /\ phase \in InWalk => Walked(cert, RowsNow) /\ walk.acc = chains[cert][RowsNow].after
    /\ phase \in AfterChains => \A c \in Certs : ChainDone(c)

FinalMade ==
    /\ phase \in AfterSetup => setup.zred = ReduceDigest(input.z)
    /\ DOMAIN final = {"h", "r", "rx", "ge", "x3"}
    /\ phase \in AfterCheck =>
          /\ \A c \in Certs : final.h[c] = IF Active(c) THEN OrientedHint(tables[c].r, hints[c].bit)
                                           ELSE Infinity
          /\ final.rx = XCoord[AddPoints(final.h[1], final.h[2])]
          /\ final.ge = ReduceX(final.rx).ge /\ input.r = ReduceX(final.rx).x
    /\ phase \in {"count", "built"} => final.x3 = FinalAddX(Addends[1], Addends[2])

BuiltInv == ChainsMade /\ FinalMade

LEMMA Longer ==
    ASSUME NEW s, NEW e, Sequence(s)
    PROVE  /\ Sequence(Append(s, e)) /\ Len(s) \in Nat /\ Len(Append(s, e)) = Len(s) + 1
           /\ \A i \in 1 .. Len(s) : Append(s, e)[i] = s[i]
           /\ Append(s, e)[Len(s) + 1] = e
<1>1. PICK S : s \in Seq(S)
  BY DEF Sequence
<1> DEFINE U == S \cup {e}
<1>2. s \in Seq(U) /\ e \in U
  BY <1>1
<1> HIDE DEF U
<1>3. /\ Append(s, e) \in Seq(U) /\ Len(s) \in Nat /\ Len(Append(s, e)) = Len(s) + 1
      /\ \A i \in 1 .. Len(s) : Append(s, e)[i] = s[i]
      /\ Append(s, e)[Len(s) + 1] = e
  BY <1>2, AppendProperties
<1>4. QED
  BY <1>3 DEF Sequence

LEMMA OperationsShape ==
    ASSUME NEW i \in Nat, NEW before, NEW operand
    PROVE  LET rows == OperationsAt(i, before, operand) IN
           /\ Sequence(rows) /\ Len(rows) = (IF i = C + 2 THEN 1 ELSE 3)
           /\ i # 1 => rows[Len(rows)].out = AfterAt(i, before, operand)
<1> DEFINE rows == OperationsAt(i, before, operand)
<1>1. CASE i = C + 2
  <2> DEFINE row == AddRow("Chain", before, operand)
  <2>1. rows = <<row>> /\ row.out = AddPoints(before, operand) /\ C + 2 # 1
    BY <1>1, ChunksPositive DEF OperationsAt, AddRow, Row
  <2> HIDE DEF row, rows
  <2>2. <<row>> \in Seq({row}) /\ Len(<<row>>) = 1 /\ <<row>>[1] = row
    OBVIOUS
  <2>3. AfterAt(i, before, operand) = AddPoints(before, operand)
    BY <1>1, <2>1 DEF AfterAt
  <2>4. QED
    BY <1>1, <2>1, <2>2, <2>3 DEF Sequence, rows
<1>2. CASE i # C + 2
  <2> DEFINE twice == AddPoints(before, before)
             a == DoubleRow("Chain", before)
             b == DoubleRow("Chain", twice)
             d == AddRow("Chain", AddPoints(twice, twice), operand)
  <2>1. rows = <<a, b, d>> /\ d.out = AddPoints(FourTimes(before), operand)
    BY <1>2 DEF OperationsAt, StepRows, AddRow, Row, FourTimes
  <2> HIDE DEF a, b, d, rows
  <2>2. <<a, b, d>> \in Seq({a, b, d}) /\ Len(<<a, b, d>>) = 3 /\ <<a, b, d>>[3] = d
    OBVIOUS
  <2>3. i # 1 => AfterAt(i, before, operand) = AddPoints(FourTimes(before), operand)
    BY <1>2 DEF AfterAt
  <2>4. QED
    BY <1>2, <2>1, <2>2, <2>3 DEF Sequence, rows
<1>3. QED
  BY <1>1, <1>2

(* The operations of a row lie behind those of the rows before. *)
LEMMA OperationPlaces ==
    ASSUME NEW n \in 1 .. C + 2, NEW i \in 2 .. n, NEW before, NEW operand,
           NEW k \in DOMAIN OperationsAt(i, before, operand)
    PROVE  /\ k \in Nat /\ 1 <= k /\ k <= Len(OperationsAt(i, before, operand))
           /\ OperationsBefore(i) + k \in 1 .. OperationsIn(n)
<1> DEFINE rows == OperationsAt(i, before, operand)
<1>1. /\ i \in Nat /\ i # 1 /\ i <= n /\ n <= C + 2 /\ C \in Nat /\ n \in Nat
  BY ChunksPositive
<1>2. Sequence(rows) /\ Len(rows) = (IF i = C + 2 THEN 1 ELSE 3)
  BY <1>1, OperationsShape
<1>3. DOMAIN rows = 1 .. Len(rows)
  <2> HIDE DEF rows
  <2>1. QED
    BY <1>2, Numbered
<1>4. k \in Nat /\ 1 <= k /\ k <= Len(rows)
  BY <1>2, <1>3
<1> HIDE DEF rows
<1>5. OperationsBefore(i) = 3 * (i - 2)
  BY <1>1 DEF OperationsBefore
<1>6. CASE n = C + 2
  <2>1. OperationsIn(n) = 3 * C + 1
    BY <1>6 DEF OperationsIn
  <2>2. QED
    BY <1>1, <1>2, <1>4, <1>5, <1>6, <2>1 DEF rows
<1>7. CASE n # C + 2
  <2>1. OperationsIn(n) = 3 * (n - 1)
    BY <1>7 DEF OperationsIn
  <2>2. i # C + 2
    BY <1>1, <1>7
  <2>3. QED
    BY <1>1, <1>2, <1>4, <1>5, <2>1, <2>2 DEF rows
<1>8. QED
  BY <1>6, <1>7

LEMMA PushWalks ==
    ASSUME cert \in Certs, DOMAIN chains = Certs, prims \in [Certs -> Seq(Rows)],
           NEW n \in 1 .. C + 1, Walked(cert, n), walk.acc = chains[cert][n].after,
           NEW kind, NEW operand, kind = KindAt(n + 1),
           (IF kind = "step" THEN walk.left ELSE 0) = StepAt(n + 1),
           operand = OperandAt(cert, n + 1),
           Push(kind, operand, OperationsAt(n + 1, walk.acc, operand))
    PROVE  /\ Walked(cert, n + 1)' /\ (walk.acc = chains[cert][n + 1].after)'
           /\ DOMAIN chains' = Certs /\ walk'.left = walk.left - 1
           /\ \A c \in Certs : c # cert => chains'[c] = chains[c] /\ prims'[c] = prims[c]
<1> DEFINE ch == chains[cert]
           pr == prims[cert]
           acc == walk.acc
           rows == OperationsAt(n + 1, acc, operand)
           after == rows[Len(rows)].out
           row == ChainRow(kind, operand, after)
<1>1. /\ chains' = [chains EXCEPT ![cert] = Append(ch, row)]
      /\ prims' = [prims EXCEPT ![cert] = pr \o rows]
      /\ walk' = [left |-> walk.left - 1, acc |-> after]
      /\ UNCHANGED <<input, setup, cert, lattice, hints, tables, final, verdict>>
  BY Zenon DEF Push
<1>2. /\ n \in Nat /\ n + 1 \in Nat /\ n + 1 # 1 /\ n <= C + 1 /\ C \in Nat /\ 1 <= n
      /\ n + 1 \in 2 .. n + 1 /\ n + 1 \in 1 .. C + 2
  BY ChunksPositive
<1>3. /\ Sequence(rows) /\ Len(rows) = (IF n + 1 = C + 2 THEN 1 ELSE 3)
      /\ after = AfterAt(n + 1, acc, operand)
  BY <1>2, OperationsShape
<1>4. /\ row.kind = kind /\ row.step = StepAt(n + 1) /\ row.before = acc
      /\ row.operand = operand /\ row.after = after
  BY DEF ChainRow
<1>5. /\ chains'[cert] = Append(ch, row) /\ DOMAIN chains' = Certs
      /\ prims'[cert] = pr \o rows /\ pr \in Seq(Rows)
      /\ \A c \in Certs : c # cert => chains'[c] = chains[c] /\ prims'[c] = prims[c]
      /\ walk'.acc = after /\ walk'.left = walk.left - 1 /\ cert' = cert
  BY <1>1
<1>6. /\ Sequence(ch) /\ Len(ch) = n /\ Len(pr) = OperationsIn(n)
      /\ \A i \in 1 .. n : RowKept(cert, i)
  BY DEF Walked
<1> HIDE DEF row, after, rows, acc
<1>7. /\ Sequence(chains'[cert]) /\ Len(chains'[cert]) = n + 1
      /\ \A i \in 1 .. n : chains'[cert][i] = ch[i]
      /\ chains'[cert][n + 1] = row
  BY <1>5, <1>6, Longer
<1>8. Sequence(pr)
  BY <1>5 DEF Sequence
<1> DEFINE m == OperationsIn(n)
<1>9. m = 3 * (n - 1) /\ m \in Nat
  BY <1>2 DEF OperationsIn
<1>10. /\ Len(prims'[cert]) = m + Len(rows)
       /\ \A i \in 1 .. m + Len(rows) :
             prims'[cert][i] = IF i <= m THEN pr[i] ELSE rows[i - m]
  <2> DEFINE whole == pr \o rows
  <2> HIDE DEF pr
  <2>1. /\ Len(whole) = Len(pr) + Len(rows)
        /\ \A i \in 1 .. Len(pr) + Len(rows) :
              whole[i] = IF i <= Len(pr) THEN pr[i] ELSE rows[i - Len(pr)]
    BY <1>3, <1>8, Joined
  <2> HIDE DEF whole
  <2>2. prims'[cert] = whole /\ Len(pr) = m
    BY <1>5, <1>6 DEF whole, pr
  <2> HIDE DEF m
  <2>3. QED
    BY <2>1, <2>2
<1>11. m + Len(rows) = OperationsIn(n + 1)
  <2>1. CASE n + 1 = C + 2
    <3>1. OperationsIn(n + 1) = 3 * C + 1 /\ Len(rows) = 1
      BY <1>3, <2>1 DEF OperationsIn
    <3>2. n - 1 = C
      BY <1>2, <2>1
    <3>3. m = 3 * C /\ C \in Nat
      BY <1>2, <1>9, <3>2
    <3> HIDE DEF m
    <3>4. QED
      BY <3>1, <3>3
  <2>2. CASE n + 1 # C + 2
    <3>1. OperationsIn(n + 1) = 3 * ((n + 1) - 1) /\ Len(rows) = 3
      BY <1>3, <2>2 DEF OperationsIn
    <3> HIDE DEF m
    <3>2. QED
      BY <1>2, <1>9, <3>1
  <2>3. QED
    BY <2>1, <2>2
<1>12. \A c, i : OperandAt(c, i)' = OperandAt(c, i)
  BY <1>1 DEF OperandAt, Selectors
<1> HIDE DEF m, ch, pr
<1>13. ASSUME NEW i \in 1 .. n
       PROVE  RowKept(cert, i)'
  <2> DEFINE ops == OperationsAt(i, ch[i].before, ch[i].operand)
             from == OperationsBefore(i)
  <2>1. RowKept(cert, i)
    BY <1>6
  <2>2. /\ ch[i].kind = KindAt(i) /\ ch[i].step = StepAt(i)
        /\ ch[i].operand = OperandAt(cert, i)
        /\ ch[i].after = AfterAt(i, ch[i].before, ch[i].operand)
        /\ ch[i].before = (IF i = 1 THEN Infinity ELSE ch[i - 1].after)
        /\ i # 1 => \A k \in DOMAIN ops : pr[from + k] = ops[k]
    BY <2>1 DEF RowKept, ch, pr
  <2>3. chains'[cert][i] = ch[i] /\ (i # 1 => chains'[cert][i - 1] = ch[i - 1])
    <3>1. i \in Nat /\ (i # 1 => i - 1 \in 1 .. n)
      BY <1>2
    <3>2. QED
      BY <1>7, <3>1
  <2>4. ASSUME i # 1, NEW k \in DOMAIN ops
        PROVE  prims'[cert][from + k] = ops[k]
    <3>1. i \in 2 .. n /\ n \in 1 .. C + 2
      BY <1>2, <2>4
    <3>2. from + k \in 1 .. m
      BY <2>4, <3>1, OperationPlaces DEF m
    <3>3. pr[from + k] = ops[k]
      BY <2>2, <2>4
    <3> HIDE DEF from, ops
    <3>4. Len(rows) \in Nat
      BY <1>3
    <3>5. from + k \in 1 .. m + Len(rows) /\ from + k <= m
      BY <1>9, <3>2, <3>4
    <3>6. prims'[cert][from + k] = pr[from + k]
      BY <1>10, <3>5
    <3>7. QED
      BY <3>3, <3>6
  <2>5. \A k \in DOMAIN ops : i # 1 => prims'[cert][from + k] = ops[k]
    BY <2>4
  <2> HIDE DEF ops, from
  <2>6. QED
    BY <1>5, <1>12, <2>2, <2>3, <2>5 DEF RowKept, ops, from
<1>14. RowKept(cert, n + 1)'
  <2>1. chains'[cert][n + 1] = row /\ chains'[cert][(n + 1) - 1] = ch[n]
    BY <1>2, <1>7
  <2>2. acc = ch[n].after
    BY DEF acc, ch
  <2>3. OperationsBefore(n + 1) = m
    BY <1>2, <1>9 DEF OperationsBefore
  <2>4. \A k \in DOMAIN rows : prims'[cert][m + k] = rows[k]
    <3>1. DOMAIN rows = 1 .. Len(rows) /\ Len(rows) \in Nat
      BY <1>3, Numbered
    <3>2. QED
      BY <1>9, <1>10, <3>1
  <2>5. OperandAt(cert, n + 1)' = operand
    BY <1>5, <1>12
  <2>6. /\ row.kind = KindAt(n + 1) /\ row.step = StepAt(n + 1) /\ row.operand = operand
        /\ row.after = AfterAt(n + 1, row.before, row.operand)
        /\ row.before = ch[n].after
        /\ OperationsAt(n + 1, row.before, row.operand) = rows
    BY <1>3, <1>4, <2>2 DEF rows
  <2>7. QED
    BY <1>2, <1>5, <2>1, <2>3, <2>4, <2>5, <2>6 DEF RowKept
<1>15. \A i \in 1 .. n + 1 : RowKept(cert, i)'
  <2>1. \A i \in 1 .. n + 1 : i \in 1 .. n \/ i = n + 1
    BY <1>2
  <2>2. QED
    BY <1>13, <1>14, <2>1
<1>16. Walked(cert, n + 1)'
  BY <1>5, <1>7, <1>10, <1>11, <1>15 DEF Walked
<1>17. (walk.acc = chains[cert][n + 1].after)'
  BY <1>4, <1>5, <1>7
<1>18. QED
  BY <1>5, <1>16, <1>17

LEMMA WalkedKept ==
    ASSUME NEW c, NEW n, UNCHANGED <<hints, tables>>, chains'[c] = chains[c],
           prims'[c] = prims[c], Walked(c, n)
    PROVE  Walked(c, n)'
<1>1. \A i : OperandAt(c, i)' = OperandAt(c, i)
  BY DEF OperandAt, Selectors
<1>2. ASSUME NEW i, RowKept(c, i)
      PROVE  RowKept(c, i)'
  BY <1>1, <1>2 DEF RowKept
<1>3. QED
  BY <1>2 DEF Walked

LEMMA DoneKept ==
    ASSUME NEW c, UNCHANGED <<setup, hints, tables>>, chains'[c] = chains[c],
           prims'[c] = prims[c], verdict' # "probe" => verdict # "probe", ChainDone(c)
    PROVE  ChainDone(c)'
<1>1. Active(c)' <=> Active(c)
  BY DEF Active
<1>2. CASE Active(c)
  <2>1. Walked(c, C + 2) /\ (verdict # "probe" => chains[c][C + 2].after = tables[c].r3)
    BY <1>2 DEF ChainDone
  <2>2. Walked(c, C + 2)'
    BY <2>1, WalkedKept
  <2>3. QED
    BY <1>1, <1>2, <2>1, <2>2 DEF ChainDone
<1>3. CASE ~Active(c)
  BY <1>1, <1>3 DEF ChainDone, NoRows
<1>4. QED
  BY <1>2, <1>3

(* The steps before the tables. *)
LEMMA EarlyChains ==
    ASSUME ChainsMade, UNCHANGED <<chains, prims>>, phase \notin AfterTables, phase # "refused",
           phase' \notin AfterTables, phase' \in {"key", "tables"} => cert' = 1
    PROVE  ChainsMade'
  BY DEF ChainsMade, NoRows, InWalk, AfterTables, AfterChains, AfterKey, AfterHints, AfterSetup

LEMMA LateChains ==
    ASSUME ChainsMade, UNCHANGED <<setup, hints, tables, chains, prims>>,
           phase \in AfterChains, phase' \in AfterChains \cup {"refused"},
           verdict' # "probe" => verdict # "probe"
    PROVE  ChainsMade'
<1>1. \A c \in Certs : ChainDone(c)
  BY DEF ChainsMade
<1>2. \A c \in Certs : ChainDone(c)'
  BY <1>1, DoneKept
<1>3. /\ phase' \in AfterTables \/ phase' = "refused"
      /\ phase' \notin {"key", "tables", "chain"} /\ phase' \notin InWalk
  BY DEF InWalk, AfterTables, AfterChains, AfterKey, AfterHints, AfterSetup
<1>4. DOMAIN chains' = Certs
  BY DEF ChainsMade
<1>5. QED
  BY <1>2, <1>3, <1>4 DEF ChainsMade

LEMMA TablesChains ==
    ASSUME ChainsMade, BuildTables \/ BuildTablesFrom
    PROVE  ChainsMade'
<1>1. /\ phase = "tables" /\ phase' = "chain"
      /\ UNCHANGED <<cert, chains, prims>>
  BY DEF BuildTables, BuildTablesFrom
<1>2. /\ DOMAIN chains = Certs /\ cert = 1 /\ \A c \in Certs : NoRows(c)
  BY <1>1 DEF ChainsMade, AfterTables, AfterKey, AfterHints, AfterSetup
<1>3. \A c \in Certs : NoRows(c)'
  BY <1>1, <1>2 DEF NoRows
<1>4. 1 \in Certs /\ 2 \in Certs /\ cert' = 1 /\ NoRows(2)' /\ NoRows(1)'
  BY <1>1, <1>2, <1>3 DEF Certs
<1>5. NoRows(cert)'
  BY <1>4 DEF NoRows
<1>6. /\ phase' \notin InWalk /\ phase' \notin AfterChains /\ phase' \in AfterTables
      /\ phase' \notin {"key", "tables"} /\ DOMAIN chains' = Certs
  BY <1>1, <1>2 DEF InWalk, AfterChains, AfterTables, AfterKey, AfterHints, AfterSetup
<1>7. QED
  BY <1>4, <1>5, <1>6 DEF ChainsMade

LEMMA OtherChain ==
    ASSUME ChainsMade, cert \in Certs, phase \in InWalk \cup {"chain"},
           UNCHANGED <<cert, setup, hints, tables, verdict>>,
           \A c \in Certs : c # cert => chains'[c] = chains[c] /\ prims'[c] = prims[c]
    PROVE  IF cert' = 1 THEN NoRows(2)' ELSE ChainDone(1)'
<1>1. CASE cert = 1
  <2>1. NoRows(2) /\ 2 \in Certs /\ 2 # cert
    BY <1>1 DEF ChainsMade, Certs
  <2>2. QED
    BY <1>1, <2>1 DEF NoRows
<1>2. CASE cert # 1
  <2>1. ChainDone(1) /\ 1 \in Certs /\ 1 # cert
    BY <1>2 DEF ChainsMade, Certs
  <2>2. chains'[1] = chains[1] /\ prims'[1] = prims[1]
    BY <2>1
  <2>3. ChainDone(1)'
    BY <2>1, <2>2, DoneKept
  <2>4. QED
    BY <1>2, <2>3
<1>3. QED
  BY <1>1, <1>2

(* A step within the walk. *)
LEMMA WalkingChains ==
    ASSUME ChainsMade, phase' \in InWalk, DOMAIN chains' = Certs,
           IF cert' = 1 THEN NoRows(2)' ELSE ChainDone(1)',
           NEW n, n = RowsNow', Walked(cert, n)', (walk.acc = chains[cert][n].after)'
    PROVE  ChainsMade'
<1>1. /\ phase' \notin AfterChains /\ phase' \in AfterTables
      /\ phase' \notin {"key", "tables", "chain"}
  BY DEF InWalk, AfterChains, AfterTables, AfterKey, AfterHints, AfterSetup
<1>2. Walked(cert, RowsNow)' /\ (walk.acc = chains[cert][RowsNow].after)'
  BY DEF Walked
<1>3. QED
  BY <1>1, <1>2 DEF ChainsMade

LEMMA MsbChains ==
    ASSUME HintInv, ChainsMade, MsbInit
    PROVE  ChainsMade'
<1> DEFINE first == tables[cert].base[Selectors(cert).init]
           base == ChainRow("msb", first, first)
           row == [base EXCEPT !.before = Infinity]
<1>1. /\ phase = "chain" /\ phase' = "steps" /\ cert \in Certs
      /\ chains' = [chains EXCEPT ![cert] = <<row>>]
      /\ walk' = [left |-> C - 1, acc |-> first]
      /\ UNCHANGED <<input, setup, cert, lattice, hints, tables, prims, final, verdict>>
  BY Zenon DEF MsbInit, HintInv, Certs
<1>2. DOMAIN chains = Certs /\ NoRows(cert)
  BY <1>1 DEF ChainsMade
<1>3. /\ row.kind = "msb" /\ row.step = 0 /\ row.before = Infinity /\ row.operand = first
      /\ row.after = first
  BY DEF ChainRow
<1> HIDE DEF row, first
<1>4. /\ chains'[cert] = <<row>> /\ DOMAIN chains' = Certs /\ prims'[cert] = <<>>
      /\ \A c \in Certs : c # cert => chains'[c] = chains[c] /\ prims'[c] = prims[c]
  BY <1>1, <1>2 DEF NoRows
<1>5. <<row>> \in Seq({row}) /\ Len(<<row>>) = 1 /\ <<row>>[1] = row
  OBVIOUS
<1>6. /\ KindAt(1) = "msb" /\ StepAt(1) = 0 /\ OperandAt(cert, 1) = first
      /\ AfterAt(1, Infinity, first) = first /\ OperationsIn(1) = 0
  BY ChunksPositive DEF KindAt, StepAt, OperandAt, AfterAt, OperationsIn, first
<1>7. OperandAt(cert, 1)' = first
  BY <1>1, <1>6 DEF OperandAt, Selectors
<1>8. RowKept(cert, 1)'
  BY <1>1, <1>3, <1>4, <1>5, <1>6, <1>7 DEF RowKept
<1>9. Walked(cert, 1)'
  <2>1. Sequence(chains'[cert]) /\ Len(chains'[cert]) = 1 /\ Len(prims'[cert]) = OperationsIn(1)
    BY <1>4, <1>5, <1>6 DEF Sequence
  <2>2. \A i \in 1 .. 1 : RowKept(cert, i)'
    <3>1. \A i \in 1 .. 1 : i = 1
      OBVIOUS
    <3>2. QED
      BY <1>8, <3>1
  <2>3. QED
    BY <1>1, <2>1, <2>2 DEF Walked
<1>10. RowsNow' = 1 /\ walk'.acc = first
  BY <1>1, ChunksPositive DEF RowsNow
<1>11. (walk.acc = chains[cert][1].after)'
  BY <1>1, <1>3, <1>4, <1>5, <1>10
<1>12. IF cert' = 1 THEN NoRows(2)' ELSE ChainDone(1)'
  BY <1>1, <1>4, OtherChain
<1>13. QED
  <2>1. phase' \in InWalk
    BY <1>1 DEF InWalk
  <2>2. QED
    BY <1>4, <1>9, <1>10, <1>11, <1>12, <2>1, WalkingChains

(* A row of the walk: the accumulator is the row before's, and moves on. *)
LEMMA PushChains ==
    ASSUME HintInv, ChainsMade, prims \in [Certs -> Seq(Rows)], phase \in InWalk,
           NEW n \in 1 .. C + 1, n = RowsNow, NEW kind, NEW operand, kind = KindAt(n + 1),
           (IF kind = "step" THEN walk.left ELSE 0) = StepAt(n + 1),
           operand = OperandAt(cert, n + 1),
           Push(kind, operand, OperationsAt(n + 1, walk.acc, operand)),
           phase' \in InWalk,
           walk'.left = walk.left - 1 => RowsNow' = n + 1
    PROVE  ChainsMade'
<1>1. cert \in Certs /\ DOMAIN chains = Certs
  BY DEF HintInv, Certs, ChainsMade
<1>2. Walked(cert, n) /\ walk.acc = chains[cert][n].after
  BY DEF ChainsMade
<1>3. /\ Walked(cert, n + 1)' /\ (walk.acc = chains[cert][n + 1].after)'
      /\ DOMAIN chains' = Certs /\ walk'.left = walk.left - 1
      /\ \A c \in Certs : c # cert => chains'[c] = chains[c] /\ prims'[c] = prims[c]
  BY <1>1, <1>2, PushWalks
<1>4. UNCHANGED <<cert, setup, hints, tables, verdict>>
  BY Zenon DEF Push
<1>5. IF cert' = 1 THEN NoRows(2)' ELSE ChainDone(1)'
  BY <1>1, <1>3, <1>4, OtherChain
<1> DEFINE m == n + 1
<1>6. m = RowsNow' /\ Walked(cert, m)' /\ (walk.acc = chains[cert][m].after)'
  BY <1>3
<1> HIDE DEF m
<1>7. QED
  BY <1>3, <1>5, <1>6, WalkingChains

LEMMA StepChains ==
    ASSUME HintInv, ChainInv, RowsMade, ChainsMade, ChainStep
    PROVE  ChainsMade'
<1> DEFINE digit == Decode(Selectors(cert).at[walk.left])
           operand == Signed(tables[cert].base[digit.index], digit.neg)
<1>1. /\ phase = "steps" /\ walk.left > 0 /\ phase' = phase
      /\ Push("step", operand, StepRows(walk.acc, operand))
  BY Zenon DEF ChainStep
<1>2. walk.left \in 0 .. C - 1 /\ C \in Nat
  BY <1>1, ChunksPositive DEF ChainInv, Walking
<1>3. PICK n : n = C - walk.left
  OBVIOUS
<1>4. /\ n \in 1 .. C + 1 /\ n = RowsNow /\ n + 1 # 1 /\ n + 1 # C + 1 /\ n + 1 # C + 2
      /\ 1 < n + 1 /\ n + 1 <= C /\ C + 1 - (n + 1) = walk.left
  BY <1>1, <1>2, <1>3 DEF RowsNow
<1>5. "step" = KindAt(n + 1)
  BY <1>4 DEF KindAt
<1>6. (IF "step" = "step" THEN walk.left ELSE 0) = StepAt(n + 1)
  BY <1>4 DEF StepAt
<1>7. operand = OperandAt(cert, n + 1)
  BY <1>4 DEF OperandAt
<1>8. StepRows(walk.acc, operand) = OperationsAt(n + 1, walk.acc, operand)
  BY <1>4 DEF OperationsAt
<1> HIDE DEF operand
<1>9. Push("step", operand, OperationsAt(n + 1, walk.acc, operand))
  BY <1>1, <1>8
<1>10. walk'.left = walk.left - 1 => RowsNow' = n + 1
  BY <1>1, <1>2, <1>3 DEF RowsNow
<1>11. phase \in InWalk /\ phase' \in InWalk /\ prims \in [Certs -> Seq(Rows)]
  BY <1>1 DEF InWalk, RowsMade
<1>12. QED
  BY <1>4, <1>5, <1>6, <1>7, <1>9, <1>10, <1>11, PushChains

LEMMA Table16Chains ==
    ASSUME HintInv, ChainInv, RowsMade, ChainsMade, Table16Step
    PROVE  ChainsMade'
<1> DEFINE operand == tables[cert].table16
<1>1. /\ phase = "steps" /\ walk.left = 0 /\ phase' = "lsb"
      /\ Push("table16", operand, StepRows(walk.acc, operand))
  BY Zenon DEF Table16Step
<1>2. PICK n : n = C
  OBVIOUS
<1>3. /\ n \in 1 .. C + 1 /\ n = RowsNow /\ n + 1 # 1 /\ n + 1 = C + 1 /\ n + 1 # C + 2
      /\ ~(n + 1 <= C)
  BY <1>1, <1>2, ChunksPositive DEF RowsNow
<1>4. "table16" = KindAt(n + 1)
  BY <1>3 DEF KindAt
<1>5. (IF "table16" = "step" THEN walk.left ELSE 0) = StepAt(n + 1)
  BY <1>3 DEF StepAt
<1>6. operand = OperandAt(cert, n + 1)
  BY <1>3 DEF OperandAt
<1>7. StepRows(walk.acc, operand) = OperationsAt(n + 1, walk.acc, operand)
  BY <1>3 DEF OperationsAt
<1> HIDE DEF operand
<1>8. Push("table16", operand, OperationsAt(n + 1, walk.acc, operand))
  BY <1>1, <1>7
<1>9. walk'.left = walk.left - 1 => RowsNow' = n + 1
  BY <1>1, <1>2 DEF RowsNow
<1>10. phase \in InWalk /\ phase' \in InWalk /\ prims \in [Certs -> Seq(Rows)]
  BY <1>1 DEF InWalk, RowsMade
<1>11. QED
  BY <1>3, <1>4, <1>5, <1>6, <1>8, <1>9, <1>10, PushChains

LEMMA LsbChains ==
    ASSUME HintInv, ChainInv, RowsMade, ChainsMade, LsbCorrection
    PROVE  ChainsMade'
<1> DEFINE operand == LsbCorrectionOf(tables[cert], Selectors(cert))
           rows == <<AddRow("Chain", walk.acc, operand)>>
<1>1. /\ phase = "lsb" /\ phase' = "chained" /\ Push("lsb", operand, rows)
  BY Zenon DEF LsbCorrection
<1>2. PICK n : n = C + 1
  OBVIOUS
<1>3. /\ n \in 1 .. C + 1 /\ n = RowsNow /\ n + 1 # 1 /\ n + 1 # C + 1 /\ n + 1 = C + 2
      /\ ~(n + 1 <= C)
  BY <1>1, <1>2, ChunksPositive DEF RowsNow
<1>4. "lsb" = KindAt(n + 1)
  BY <1>3 DEF KindAt
<1>5. (IF "lsb" = "step" THEN walk.left ELSE 0) = StepAt(n + 1)
  BY <1>3 DEF StepAt
<1>6. operand = OperandAt(cert, n + 1)
  BY <1>3 DEF OperandAt
<1>7. rows = OperationsAt(n + 1, walk.acc, operand)
  BY <1>3 DEF OperationsAt
<1> HIDE DEF operand, rows
<1>8. Push("lsb", operand, OperationsAt(n + 1, walk.acc, operand))
  BY <1>1, <1>7
<1>9. walk'.left = walk.left - 1 => RowsNow' = n + 1
  BY <1>1, <1>3 DEF RowsNow
<1>10. phase \in InWalk /\ phase' \in InWalk /\ prims \in [Certs -> Seq(Rows)]
  BY <1>1 DEF InWalk, RowsMade
<1>11. QED
  BY <1>3, <1>4, <1>5, <1>6, <1>8, <1>9, <1>10, PushChains

LEMMA NextChainChains ==
    ASSUME HintInv, ClaimInv, ChainInv, ChainsMade, NextChain
    PROVE  ChainsMade'
<1>1. /\ phase = "chained" \/ (phase = "chain" /\ ~Active(cert))
      /\ cert' = 3 - cert
      /\ phase' = (IF cert = 1 THEN "chain" ELSE IF verdict = "probe" THEN "probed" ELSE "rows")
      /\ UNCHANGED <<setup, hints, tables, chains, prims, verdict>>
      /\ cert \in Certs /\ DOMAIN chains = Certs
  <2>1. cert \in Certs /\ DOMAIN chains = Certs
    BY DEF HintInv, ChainsMade, Certs
  <2>2. QED
    <3>1. /\ phase = "chained" \/ (phase = "chain" /\ ~Active(cert))
          /\ cert' = 3 - cert
          /\ phase' = IF cert = 1 THEN "chain" ELSE IF verdict = "probe" THEN "probed" ELSE "rows"
      BY DEF NextChain
    <3>2. UNCHANGED <<setup, hints, tables, chains, prims, verdict>>
      BY DEF NextChain
    <3>3. QED
      BY <2>1, <3>1, <3>2
<1>2. ChainDone(cert)
  <2>1. CASE phase = "chained"
    <3>1. Walked(cert, C + 2) /\ walk.acc = chains[cert][C + 2].after
      BY <2>1 DEF ChainsMade, InWalk, RowsNow
    <3>2. Active(cert)
      BY <2>1 DEF ChainInv, Walking
    <3>3. verdict # "probe" => tables[cert].r = HintPoint(cert)
      <4>1. phase \in AfterTables
        BY <2>1 DEF AfterTables, AfterKey, AfterHints, AfterSetup
      <4>2. QED
        BY <1>1, <3>2, <4>1 DEF ClaimInv, TablesSet
    <3>4. walk.acc = tables[cert].r3 <=> tables[cert].r = HintPoint(cert)
      BY <2>1, ChainBinds DEF ChainBindsHint
    <3>5. QED
      BY <3>1, <3>2, <3>3, <3>4 DEF ChainDone
  <2>2. CASE phase = "chain" /\ ~Active(cert)
    BY <2>2 DEF ChainsMade, ChainDone
  <2>3. QED
    BY <1>1, <2>1, <2>2
<1>3. phase \in InWalk \cup {"chain"}
  BY <1>1 DEF InWalk
<1>4. \A c \in Certs : ChainDone(c) => ChainDone(c)'
  BY <1>1, DoneKept
<1>5. CASE cert = 1
  <2>1. NoRows(2) /\ ChainDone(1)'
    BY <1>1, <1>2, <1>3, <1>4, <1>5 DEF ChainsMade
  <2>2. cert' = 2 /\ phase' = "chain" /\ NoRows(2)'
    BY <1>1, <1>5, <2>1 DEF NoRows
  <2>3. NoRows(cert)'
    BY <2>2 DEF NoRows
  <2>4. phase' \notin InWalk /\ phase' \notin AfterChains /\ phase' \in AfterTables
    BY <2>2 DEF InWalk, AfterChains, AfterTables, AfterKey, AfterHints, AfterSetup
  <2>5. QED
    BY <1>1, <2>1, <2>2, <2>3, <2>4 DEF ChainsMade
<1>6. CASE cert = 2
  <2>1. ChainDone(1) /\ ChainDone(2)
    BY <1>2, <1>3, <1>6 DEF ChainsMade
  <2>2. \A c \in Certs : ChainDone(c)'
    BY <1>4, <2>1 DEF Certs
  <2>3. /\ phase' \notin InWalk \cup {"chain", "key", "tables"} /\ phase' \in AfterTables
    BY <1>1, <1>6 DEF InWalk, AfterTables, AfterKey, AfterHints, AfterSetup
  <2>4. QED
    BY <1>1, <2>2, <2>3 DEF ChainsMade
<1>7. QED
  BY <1>1, <1>5, <1>6 DEF Certs

LEMMA InitChains == Init => ChainsMade
<1> SUFFICES ASSUME Init PROVE ChainsMade
  OBVIOUS
<1>1. /\ phase \in {"native", "setup"} /\ chains = <<<<>>, <<>>>> /\ prims = <<<<>>, <<>>>>
  BY DEF Init
<1>2. DOMAIN chains = Certs /\ \A c \in Certs : NoRows(c)
  BY <1>1 DEF Certs, NoRows
<1>3. phase \notin InWalk \cup {"chain", "key", "tables"} /\ phase \notin AfterChains
  BY <1>1 DEF InWalk, AfterChains
<1>4. QED
  BY <1>2, <1>3 DEF ChainsMade

LEMMA NextChains ==
    ASSUME HintInv, ClaimInv, ChainInv, RowInv, ChainsMade, [Next]_vars
    PROVE  ChainsMade'
<1>1. CASE NativeVerify \/ SetupScalars \/ LatticeStep \/ CheckKey
  <2>1. /\ phase \in {"native", "setup", "lattice", "key"}
        /\ phase' \in {"setup", "lattice", "tables", "refused"}
        /\ UNCHANGED <<chains, prims, cert>> /\ (phase' = "tables" => phase = "key")
    BY <1>1 DEF NativeVerify, SetupScalars, LatticeStep, CheckKey, Refuse
  <2>2. phase' = "tables" => cert' = 1
    BY <2>1 DEF ChainsMade
  <2>3. QED
    BY <2>1, <2>2, EarlyChains DEF AfterTables, AfterKey, AfterHints, AfterSetup
<1>2. CASE FinishHint
  <2>1. /\ phase = "lattice" /\ phase' \in {"lattice", "key", "refused"}
        /\ UNCHANGED <<chains, prims>> /\ (phase' = "key" => cert' = 1)
    BY <1>2 DEF FinishHint, Refuse
  <2>2. QED
    BY <2>1, EarlyChains DEF AfterTables, AfterKey, AfterHints, AfterSetup
<1>3. CASE BuildTables \/ BuildTablesFrom
  BY <1>3, TablesChains
<1>4. CASE MsbInit
  BY <1>4, MsbChains
<1>5. CASE ChainStep
  BY <1>5, StepChains DEF RowInv
<1>6. CASE Table16Step
  BY <1>6, Table16Chains DEF RowInv
<1>7. CASE LsbCorrection
  BY <1>7, LsbChains DEF RowInv
<1>8. CASE NextChain
  BY <1>8, NextChainChains
<1>9. ASSUME ProjectRows \/ FinalCheck \/ FinalAdd \/ CountUses
      PROVE  ChainsMade'
  <2>1. /\ phase \in {"rows", "final", "add", "count"}
        /\ phase' \in {"final", "add", "count", "built", "refused"}
        /\ UNCHANGED <<setup, hints, tables, chains, prims>>
    <3> DEFINE stuck == \E i \in DOMAIN EcRows : ~RowReproduced(EcRows[i])
               undone == FinalAddBranch(Addends[1], Addends[2]) \in {"BothInfinity", "InverseAdd"}
               branch == FinalAddBranch(Addends[1], Addends[2])
               over == \E c \in Certs : Active(c) /\
                          \E i \in 0 .. 7 : UseCounts(Selectors(c))[i] > MaxUse
    <3>1. ProjectRows => /\ phase = "rows"
                         /\ IF stuck THEN Refuse("ProjectiveOutputMismatch")
                            ELSE phase' = "final" /\ UNCHANGED <<setup, hints, tables, chains, prims>>
      BY DEF ProjectRows
    <3>2. FinalAdd => /\ phase = "add"
                      /\ IF undone THEN Refuse(branch)
                         ELSE phase' = "count" /\ UNCHANGED <<setup, hints, tables, chains, prims>>
      BY DEF FinalAdd
    <3>3. CountUses => /\ phase = "count"
                       /\ IF over THEN Refuse("UseCountOutOfRange")
                          ELSE phase' = "built" /\ UNCHANGED <<setup, hints, tables, chains, prims>>
      BY DEF CountUses
    <3>4. FinalCheck => /\ phase = "final" /\ phase' \in {"add", "refused"}
                        /\ UNCHANGED <<setup, hints, tables, chains, prims>>
      BY DEF FinalCheck, Refuse
    <3> HIDE DEF stuck, undone, branch, over
    <3>5. QED
      BY <1>9, <3>1, <3>2, <3>3, <3>4 DEF Refuse
  <2>2. phase \in AfterChains /\ phase' \in AfterChains \cup {"refused"}
    BY <2>1 DEF AfterChains
  <2>3. verdict # "probe"
    BY <2>2 DEF ClaimInv, TablesSet
  <2>4. QED
    BY <2>1, <2>2, <2>3, LateChains
<1>10. ASSUME Done \/ UNCHANGED vars
       PROVE  ChainsMade'
  <2>1. UNCHANGED <<phase, setup, cert, hints, tables, walk, chains, prims, verdict>>
    BY <1>10 DEF Done, vars
  <2>2. \A c, n : Walked(c, n) => Walked(c, n)'
    BY <2>1, WalkedKept
  <2>3. \A c : ChainDone(c) => ChainDone(c)'
    BY <2>1, DoneKept
  <2>4. \A c : NoRows(c) => NoRows(c)'
    BY <2>1 DEF NoRows
  <2>5. phase \in InWalk => Walked(cert, RowsNow)' /\ (walk.acc = chains[cert][RowsNow].after)'
    <3>1. PICK n, c : n = RowsNow /\ c = cert
      OBVIOUS
    <3>2. RowsNow' = n /\ cert' = c
      BY <2>1, <3>1 DEF RowsNow
    <3>3. phase \in InWalk => Walked(c, n)' /\ walk'.acc = chains'[c][n].after
      BY <2>1, <2>2, <3>1 DEF ChainsMade
    <3>4. QED
      BY <3>2, <3>3 DEF Walked
  <2>6. NoRows(cert) => NoRows(cert)'
    BY <2>1 DEF NoRows
  <2>7. QED
    BY <2>1, <2>3, <2>4, <2>5, <2>6 DEF ChainsMade
<1>11. QED
  BY <1>1, <1>2, <1>3, <1>4, <1>5, <1>6, <1>7, <1>8, <1>9, <1>10 DEF Next

LEMMA FinalKept ==
    ASSUME FinalMade, UNCHANGED <<input, setup, final>>,
           phase' \in AfterSetup => phase \in AfterSetup,
           phase' \in AfterCheck => phase \in AfterCheck /\ UNCHANGED <<hints, tables>>,
           phase' \in {"count", "built"} => phase \in {"count", "built"}
    PROVE  FinalMade'
<1>1. /\ phase' \in AfterSetup => (setup.zred = ReduceDigest(input.z))'
      /\ DOMAIN final' = {"h", "r", "rx", "ge", "x3"}
  BY DEF FinalMade
<1>2. ASSUME phase' \in AfterCheck
      PROVE  /\ \A c \in Certs : final'.h[c] = (IF Active(c) THEN OrientedHint(tables[c].r, hints[c].bit)
                                               ELSE Infinity)'
             /\ (final.rx = XCoord[AddPoints(final.h[1], final.h[2])])'
             /\ (final.ge = ReduceX(final.rx).ge /\ input.r = ReduceX(final.rx).x)'
  BY <1>2 DEF FinalMade, Active
<1>3. ASSUME phase' \in {"count", "built"}
      PROVE  (final.x3 = FinalAddX(Addends[1], Addends[2]))'
  <2>1. phase' \in AfterCheck /\ UNCHANGED <<hints, tables>>
    BY <1>3 DEF AfterCheck
  <2>2. \A c : SignBit(c)' = SignBit(c)
    BY <2>1 DEF SignBit, Active
  <2>3. Addends' = Addends
    BY <2>1, <2>2 DEF Addends
  <2>4. QED
    BY <1>3, <2>3 DEF FinalMade
<1>4. QED
  BY <1>1, <1>2, <1>3 DEF FinalMade

LEMMA InitFinal == Init => FinalMade
  BY DEF Init, FinalMade, AfterCheck, AfterSetup

LEMMA FinalCheckFinal ==
    ASSUME FinalMade, FinalCheck
    PROVE  FinalMade'
<1> DEFINE h == [c \in Certs |-> IF Active(c) THEN OrientedHint(tables[c].r, hints[c].bit)
                                 ELSE Infinity]
           r == AddPoints(h[1], h[2])
           x == XCoord[r]
<1>1. CASE phase' = "refused"
  <2>1. UNCHANGED <<input, setup, final>>
    BY <1>1 DEF FinalCheck, Refuse
  <2>2. phase' \notin AfterSetup /\ phase' \notin AfterCheck /\ phase' \notin {"count", "built"}
    BY <1>1 DEF AfterSetup, AfterCheck
  <2>3. QED
    BY <2>1, <2>2, FinalKept
<1>2. CASE phase' # "refused"
  <2>1. /\ phase = "final" /\ phase' = "add" /\ UNCHANGED <<input, setup, hints, tables>>
        /\ ReduceX(x).x = input.r
        /\ final' = [final EXCEPT !.h = h, !.r = r, !.rx = x, !.ge = ReduceX(x).ge]
    <3>1. /\ phase = "final"
          /\ IF r = Infinity THEN Refuse("InfinityFinalR")
             ELSE IF ReduceX(x).x # input.r THEN Refuse("SignatureRMismatch")
             ELSE /\ final' = [final EXCEPT !.h = h, !.r = r, !.rx = x, !.ge = ReduceX(x).ge]
                  /\ phase' = "add"
                  /\ UNCHANGED <<input, setup, cert, lattice, hints, tables, walk, chains,
                                 prims, verdict>>
      BY Zenon DEF FinalCheck
    <3> HIDE DEF h, r, x
    <3>2. QED
      BY <1>2, <3>1 DEF Refuse
  <2>2. \A c \in Certs : h[c] = (IF Active(c) THEN OrientedHint(tables[c].r, hints[c].bit)
                                 ELSE Infinity)
    OBVIOUS
  <2>3. \A c \in Certs : Active(c)' <=> Active(c)
    BY <2>1 DEF Active
  <2>4. x = XCoord[AddPoints(h[1], h[2])]
    OBVIOUS
  <2>5. /\ setup.zred = ReduceDigest(input.z) /\ DOMAIN final = {"h", "r", "rx", "ge", "x3"}
    BY <2>1 DEF FinalMade, AfterSetup
  <2> HIDE DEF h, r, x
  <2>6. /\ final'.h = h /\ final'.rx = x /\ final'.ge = ReduceX(x).ge
        /\ DOMAIN final' = {"h", "r", "rx", "ge", "x3"}
    BY <2>1, <2>5
  <2>7. phase' \notin {"count", "built"}
    BY <2>1
  <2>8. \A c \in Certs : final'.h[c] = (IF Active(c) THEN OrientedHint(tables[c].r, hints[c].bit)
                                       ELSE Infinity)'
    BY <2>1, <2>2, <2>3, <2>6
  <2>9. QED
    BY <2>1, <2>4, <2>5, <2>6, <2>7, <2>8 DEF FinalMade
<1>3. QED
  BY <1>1, <1>2

LEMMA FinalAddFinal ==
    ASSUME FinalMade, FinalAdd
    PROVE  FinalMade'
<1> DEFINE x3 == FinalAddX(Addends[1], Addends[2])
           branch == FinalAddBranch(Addends[1], Addends[2])
           undone == branch \in {"BothInfinity", "InverseAdd"}
<1>1. /\ phase = "add"
      /\ IF undone THEN Refuse(branch)
         ELSE /\ final' = [final EXCEPT !.x3 = x3]
              /\ phase' = "count" /\ UNCHANGED <<input, setup, hints, tables>>
  BY DEF FinalAdd
<1>2. x3 = FinalAddX(Addends[1], Addends[2])
  OBVIOUS
<1> HIDE DEF x3, branch, undone
<1>3. CASE undone
  <2>1. phase' = "refused" /\ UNCHANGED <<input, setup, final>>
    BY <1>1, <1>3 DEF Refuse
  <2>2. phase' \notin AfterSetup /\ phase' \notin AfterCheck /\ phase' \notin {"count", "built"}
    BY <2>1 DEF AfterSetup, AfterCheck
  <2>3. QED
    BY <2>1, <2>2, FinalKept
<1>4. CASE ~undone
  <2>1. /\ final' = [final EXCEPT !.x3 = x3] /\ phase' = "count" /\ phase = "add"
        /\ UNCHANGED <<input, setup, hints, tables>>
    BY <1>1, <1>4
  <2>2. /\ DOMAIN final = {"h", "r", "rx", "ge", "x3"} /\ setup.zred = ReduceDigest(input.z)
        /\ \A c \in Certs : final.h[c] = IF Active(c) THEN OrientedHint(tables[c].r, hints[c].bit)
                                         ELSE Infinity
        /\ final.rx = XCoord[AddPoints(final.h[1], final.h[2])]
        /\ final.ge = ReduceX(final.rx).ge /\ input.r = ReduceX(final.rx).x
    BY <2>1 DEF FinalMade, AfterSetup, AfterCheck
  <2>3. /\ final'.h = final.h /\ final'.rx = final.rx /\ final'.ge = final.ge /\ final'.x3 = x3
        /\ DOMAIN final' = {"h", "r", "rx", "ge", "x3"}
    BY <2>1, <2>2
  <2>4. \A c : (Active(c)' <=> Active(c)) /\ SignBit(c)' = SignBit(c)
    BY <2>1 DEF SignBit, Active
  <2>5. Addends' = Addends
    BY <2>3, <2>4 DEF Addends
  <2>6. \A c \in Certs : final'.h[c] = (IF Active(c) THEN OrientedHint(tables[c].r, hints[c].bit)
                                       ELSE Infinity)'
    BY <2>1, <2>2, <2>3, <2>4
  <2>7. (final.x3 = FinalAddX(Addends[1], Addends[2]))'
    BY <1>2, <2>3, <2>5
  <2>8. QED
    BY <2>1, <2>2, <2>3, <2>6, <2>7 DEF FinalMade
<1>5. QED
  BY <1>3, <1>4

LEMMA NextFinal ==
    ASSUME FinalMade, [Next]_vars
    PROVE  FinalMade'
<1> USE DEF AfterSetup, AfterCheck
<1>1. CASE NativeVerify
  <2>1. UNCHANGED <<input, setup, final>> /\ phase = "native" /\ phase' \in {"setup", "refused"}
    BY <1>1 DEF NativeVerify, Refuse
  <2>2. QED
    BY <2>1, FinalKept
<1>2. CASE SetupScalars
  <2>1. /\ UNCHANGED <<input, final>>
        /\ \/ phase' = "lattice" /\ setup'.zred = ReduceDigest(input.z)
           \/ phase' = "refused"
    BY <1>2 DEF SetupScalars, Refuse
  <2>2. QED
    BY <2>1 DEF FinalMade
<1>3. ASSUME LatticeStep \/ FinishHint \/ CheckKey
      PROVE  FinalMade'
  <2>1. /\ UNCHANGED <<input, setup, final>> /\ phase \in {"lattice", "key"}
        /\ phase' \in {"lattice", "key", "tables", "refused"}
    BY <1>3 DEF LatticeStep, FinishHint, CheckKey, Refuse
  <2>2. QED
    BY <2>1, FinalKept
<1>4. ASSUME BuildTables \/ BuildTablesFrom \/ MsbInit \/ NextChain
      PROVE  FinalMade'
  <2>1. /\ UNCHANGED <<input, setup, final>> /\ phase \in {"tables", "chain", "chained"}
        /\ phase' \in {"chain", "steps", "probed", "rows"}
    BY <1>4 DEF BuildTables, BuildTablesFrom, MsbInit, NextChain
  <2>2. QED
    BY <2>1, FinalKept
<1>5. ASSUME ChainStep \/ Table16Step \/ LsbCorrection
      PROVE  FinalMade'
  <2>1. /\ UNCHANGED <<input, setup, final>> /\ phase \in {"steps", "lsb"}
        /\ phase' \in {"steps", "lsb", "chained"}
    BY <1>5, Zenon DEF ChainStep, Table16Step, LsbCorrection, Push
  <2>2. QED
    BY <2>1, FinalKept
<1>6. CASE ProjectRows
  <2>1. /\ UNCHANGED <<input, setup, final>> /\ phase = "rows" /\ phase' \in {"final", "refused"}
    <3> DEFINE stuck == \E i \in DOMAIN EcRows : ~RowReproduced(EcRows[i])
    <3>1. /\ phase = "rows"
          /\ IF stuck THEN Refuse("ProjectiveOutputMismatch")
             ELSE phase' = "final" /\ UNCHANGED <<input, setup, final>>
      BY <1>6 DEF ProjectRows
    <3> HIDE DEF stuck
    <3>2. QED
      BY <3>1 DEF Refuse
  <2>2. QED
    BY <2>1, FinalKept
<1>7. CASE FinalCheck
  BY <1>7, FinalCheckFinal
<1>8. CASE FinalAdd
  BY <1>8, FinalAddFinal
<1>9. CASE CountUses
  <2>1. /\ UNCHANGED <<input, setup, hints, tables, final>> /\ phase = "count"
        /\ phase' \in {"built", "refused"}
    BY <1>9 DEF CountUses, Refuse
  <2>2. QED
    BY <2>1, FinalKept
<1>10. ASSUME Done \/ UNCHANGED vars
       PROVE  FinalMade'
  BY <1>10, FinalKept DEF Done, vars
<1>11. QED
  BY <1>1, <1>2, <1>3, <1>4, <1>5, <1>6, <1>7, <1>8, <1>9, <1>10 DEF Next

-----------------------------------------------------------------------------
(* The facts of a built claim, and the relations of the chain rows.        *)

LEMMA KindRows ==
    ASSUME NEW c \in Certs, ChainDone(c)
    PROVE  /\ Active(c) => /\ DOMAIN chains[c] = 1 .. C + 2 /\ Len(chains[c]) = C + 2
                           /\ Sequence(chains[c])
                           /\ \A i \in 1 .. C + 2 : RowKept(c, i)
                           /\ RowsOfKind(c, "msb") = {1} /\ RowsOfKind(c, "table16") = {C + 1}
                           /\ RowsOfKind(c, "lsb") = {C + 2} /\ RowsOfKind(c, "step") = 2 .. C
           /\ ~Active(c) => /\ chains[c] = <<>> /\ DOMAIN chains[c] = {} /\ prims[c] = <<>>
                            /\ \A kind : RowsOfKind(c, kind) = {}
<1>1. CASE Active(c)
  <2>1. /\ Sequence(chains[c]) /\ Len(chains[c]) = C + 2 /\ \A i \in 1 .. C + 2 : RowKept(c, i)
    BY <1>1 DEF ChainDone, Walked
  <2>2. DOMAIN chains[c] = 1 .. C + 2
    BY <2>1, Numbered
  <2>3. \A i \in 1 .. C + 2 : chains[c][i].kind = KindAt(i)
    BY <2>1 DEF RowKept
  <2>4. \A kind : RowsOfKind(c, kind) = {i \in 1 .. C + 2 : KindAt(i) = kind}
    BY <2>2, <2>3 DEF RowsOfKind
  <2>5. /\ {i \in 1 .. C + 2 : KindAt(i) = "msb"} = {1}
        /\ {i \in 1 .. C + 2 : KindAt(i) = "table16"} = {C + 1}
        /\ {i \in 1 .. C + 2 : KindAt(i) = "lsb"} = {C + 2}
        /\ {i \in 1 .. C + 2 : KindAt(i) = "step"} = 2 .. C
    BY ChunksPositive DEF KindAt
  <2>6. QED
    BY <1>1, <2>1, <2>2, <2>4, <2>5
<1>2. CASE ~Active(c)
  <2>1. chains[c] = <<>> /\ prims[c] = <<>> /\ DOMAIN chains[c] = {}
    BY <1>2 DEF ChainDone, NoRows
  <2>2. \A kind : RowsOfKind(c, kind) = {}
    BY <2>1 DEF RowsOfKind
  <2>3. QED
    BY <1>2, <2>1, <2>2
<1>3. QED
  BY <1>1, <1>2

ClaimBuilt ==
    /\ HintInv /\ ClaimInv /\ ChainInv /\ RowInv /\ ChainsMade /\ FinalMade /\ phase = "built"

LEMMA BuiltFacts ==
    ASSUME ClaimBuilt
    PROVE  /\ HintInv /\ ClaimInv /\ ChainInv /\ RowInv /\ ChainsMade /\ FinalMade
           /\ \A c \in Certs : ChainDone(c)
           /\ verdict # "probe" /\ phase \in AfterTables /\ phase \in AfterSetup
           /\ phase \in AfterChains /\ phase \in AfterHints /\ phase \in AfterCheck
           /\ phase \in {"count", "built"}
           /\ phase \in AfterKey
<1>1. /\ phase \in AfterTables /\ phase \in AfterSetup /\ phase \in AfterKey
      /\ phase \in AfterChains /\ phase \in AfterHints /\ phase \in AfterCheck
      /\ phase \in {"count", "built"}
  BY DEF ClaimBuilt, AfterTables, AfterKey, AfterHints, AfterSetup, AfterChains, AfterCheck
<1>2. QED
  BY <1>1 DEF ClaimBuilt, ChainsMade, ClaimInv, TablesSet

(* The selectors of an active certificate. *)
LEMMA SelectorRange ==
    ASSUME ClaimBuilt, NEW c \in Certs, Active(c)
    PROVE  /\ Selectors(c).init \in 0 .. 7
           /\ \A i \in 0 .. C - 1 : Decode(Selectors(c).at[i]).index \in 0 .. 7
           /\ \E x, y \in {0, 1} : Selectors(c).lsb = <<x, y>>
<1> DEFINE h == hints[c]
           sel == Selectors(c)
<1>1. h.s1 \in Nat /\ h.s1 < HalfBound /\ h.s2 \in Nat /\ h.s2 < HalfBound
  BY BuiltFacts, ChainFacts
<1>2. /\ sel.lsb = <<Lsb(h.s1), Lsb(h.s2)>>
      /\ sel.init = 2 + High(h.s1, C) + 4 * High(h.s2, C)
      /\ High(h.s1, C) \in {0, 1} /\ High(h.s2, C) \in {0, 1}
      /\ \A i \in 0 .. C - 1 : sel.at[i] = Chunk(h.s1, i) + 4 * Chunk(h.s2, i)
  <2> HIDE DEF h, HalfBound
  <2>1. QED
    BY <1>1, SelectorDigits DEF Selectors, h
<1>3. sel.init \in 0 .. 7
  <2> DEFINE x == High(h.s1, C)
             y == High(h.s2, C)
  <2> HIDE DEF x, y
  <2>1. 2 + x + 4 * y \in 0 .. 7
    BY <1>2, InitDigits DEF x, y
  <2>2. QED
    BY <1>2, <2>1 DEF x, y
<1>4. ASSUME NEW i \in 0 .. C - 1
      PROVE  Decode(sel.at[i]).index \in 0 .. 7
  <2> DEFINE x == Chunk(h.s1, i)
             y == Chunk(h.s2, i)
  <2>1. x \in 0 .. 3 /\ y \in 0 .. 3
    BY <1>1, Chunks
  <2>2. sel.at[i] = x + 4 * y
    BY <1>2
  <2> HIDE DEF x, y
  <2>3. Decode(x + 4 * y).index \in 0 .. 7
    BY <2>1, Decodes
  <2>4. QED
    BY <2>2, <2>3
<1>5. Lsb(h.s1) \in {0, 1} /\ Lsb(h.s2) \in {0, 1}
  <2> HIDE DEF h, HalfBound
  <2>1. QED
    BY <1>1, EndBits
<1>6. QED
  BY <1>2, <1>3, <1>4, <1>5

LEMMA DirectMatched ==
    ASSUME ClaimBuilt
    PROVE  DirectProviders = DirectUses
<1> DEFINE DP(c) == {Direct(c, i, PointAtIndex(c, i)) : i \in {Selectors(c).init, TABLE16_INDEX}}
           DU(c) == {Direct(c, Selectors(c).init, chains[c][i].operand) : i \in RowsOfKind(c, "msb")}
                    \cup {Direct(c, TABLE16_INDEX, chains[c][i].operand) :
                            i \in RowsOfKind(c, "table16")}
<1>1. ASSUME NEW c \in Certs, Active(c)
      PROVE  DP(c) = DU(c)
  <2> DEFINE init == Selectors(c).init
  <2>1. /\ RowsOfKind(c, "msb") = {1} /\ RowsOfKind(c, "table16") = {C + 1}
        /\ RowKept(c, 1) /\ RowKept(c, C + 1)
    <3>1. 1 \in 1 .. C + 2 /\ C + 1 \in 1 .. C + 2
      BY ChunksPositive
    <3>2. QED
      BY <1>1, <3>1, BuiltFacts, KindRows
  <2>2. init \in 0 .. 7
    BY <1>1, SelectorRange
  <2>3. chains[c][1].operand = tables[c].base[init]
    BY <2>1 DEF RowKept, OperandAt
  <2>4. chains[c][C + 1].operand = tables[c].table16
    <3>1. C + 1 # 1
      BY ChunksPositive
    <3>2. OperandAt(c, C + 1) = tables[c].table16
      BY <3>1 DEF OperandAt
    <3>3. QED
      BY <2>1, <3>2 DEF RowKept
  <2>5. init # 16
    BY <2>2
  <2>6. PointAtIndex(c, init) = tables[c].base[init] /\ PointAtIndex(c, 16) = tables[c].table16
    BY <2>5 DEF PointAtIndex, TABLE16_INDEX
  <2> HIDE DEF init
  <2>7. DP(c) = {Direct(c, init, tables[c].base[init]), Direct(c, 16, tables[c].table16)}
    BY <2>6 DEF init, TABLE16_INDEX
  <2>8. DU(c) = {Direct(c, init, tables[c].base[init]), Direct(c, 16, tables[c].table16)}
    BY <2>1, <2>3, <2>4 DEF init, TABLE16_INDEX
  <2>9. QED
    BY <2>7, <2>8
<1>2. ASSUME NEW c \in Certs, ~Active(c)
      PROVE  DU(c) = {}
  BY <1>2, BuiltFacts, KindRows
<1>3. /\ DirectProviders = UNION {DP(c) : c \in ActiveCerts}
      /\ DirectUses = UNION {DU(c) : c \in Certs}
  BY DEF DirectProviders, DirectUses
<1> HIDE DEF DP, DU
<1>4. QED
  BY <1>1, <1>2, <1>3 DEF ActiveCerts

LEMMA SignedMatched ==
    ASSUME ClaimBuilt
    PROVE  SignedProviders = SignedUses
<1> DEFINE At(c, step) == Operand(c, step, Decode(Selectors(c).at[step]).index,
                                  Decode(Selectors(c).at[step]).neg,
                                  Signed(tables[c].base[Decode(Selectors(c).at[step]).index],
                                         Decode(Selectors(c).at[step]).neg))
           Used(c, i) == Operand(c, chains[c][i].step,
                                 Decode(Selectors(c).at[chains[c][i].step]).index,
                                 Decode(Selectors(c).at[chains[c][i].step]).neg,
                                 chains[c][i].operand)
           SP(c) == {At(c, step) : step \in 1 .. C - 1}
           SU(c) == {Used(c, i) : i \in RowsOfKind(c, "step")}
<1>1. ASSUME NEW c \in Certs, Active(c)
      PROVE  SP(c) = SU(c)
  <2>1. RowsOfKind(c, "step") = 2 .. C /\ \A i \in 1 .. C + 2 : RowKept(c, i)
    BY <1>1, BuiltFacts, KindRows
  <2>2. ASSUME NEW i \in 2 .. C
        PROVE  Used(c, i) = At(c, C + 1 - i)
    <3>1. /\ i \in 1 .. C + 2 /\ i # 1 /\ i # C + 1 /\ i # C + 2 /\ 1 < i /\ i <= C
      BY ChunksPositive
    <3>2. RowKept(c, i)
      BY <2>1, <3>1
    <3>3. chains[c][i].step = C + 1 - i /\ chains[c][i].operand = OperandAt(c, i)
      BY <3>1, <3>2 DEF RowKept, StepAt
    <3>4. OperandAt(c, i) = Signed(tables[c].base[Decode(Selectors(c).at[C + 1 - i]).index],
                                   Decode(Selectors(c).at[C + 1 - i]).neg)
      BY <3>1 DEF OperandAt
    <3>5. QED
      BY <3>3, <3>4
  <2> HIDE DEF At, Used
  <2>3. \A step \in 1 .. C - 1 : C + 1 - step \in 2 .. C /\ C + 1 - (C + 1 - step) = step
    BY ChunksPositive
  <2>4. \A i \in 2 .. C : C + 1 - i \in 1 .. C - 1
    BY ChunksPositive
  <2>5. \A step \in 1 .. C - 1 : At(c, step) = Used(c, C + 1 - step)
    BY <2>2, <2>3
  <2>6. SP(c) \subseteq SU(c)
    <3>1. ASSUME NEW step \in 1 .. C - 1
          PROVE  At(c, step) \in SU(c)
      <4> DEFINE i == C + 1 - step
      <4>1. i \in RowsOfKind(c, "step") /\ At(c, step) = Used(c, i)
        BY <2>1, <2>3, <2>5
      <4> HIDE DEF i
      <4>2. QED
        BY <4>1
    <3>2. QED
      BY <3>1
  <2>7. SU(c) \subseteq SP(c)
    BY <2>1, <2>2, <2>4
  <2>8. QED
    BY <2>6, <2>7
<1>2. ASSUME NEW c \in Certs, ~Active(c)
      PROVE  SU(c) = {}
  BY <1>2, BuiltFacts, KindRows
<1>3. /\ SignedProviders = UNION {SP(c) : c \in ActiveCerts}
      /\ SignedUses = UNION {SU(c) : c \in Certs}
  BY DEF SignedProviders, SignedUses
<1> HIDE DEF SP, SU
<1>4. QED
  BY <1>1, <1>2, <1>3 DEF ActiveCerts

LEMMA OperandBalanced ==
    ASSUME ClaimBuilt
    PROVE  Balanced(OperandEntries)
<1> DEFINE T == DirectProviders \cup SignedProviders
<1>1. OperandEntries = {Provide("table", t) : t \in T} \cup {Use("chain", t) : t \in T}
  BY DirectMatched, SignedMatched DEF OperandEntries
<1> HIDE DEF T
<1>2. QED
  BY <1>1, MatchedBalanced

LEMMA ExpectedCorrection ==
    ASSUME NEW c
    PROVE  /\ Selectors(c).lsb = <<1, 1>> => ExpectedLsbCorrection(c) = Infinity
           /\ Selectors(c).lsb = <<0, 1>> => ExpectedLsbCorrection(c) = Negate(BaseOf(c))
           /\ Selectors(c).lsb = <<1, 0>> => ExpectedLsbCorrection(c) = Negate(HintPoint(c))
           /\ Selectors(c).lsb = <<0, 0>> => ExpectedLsbCorrection(c) = Negate(tables[c].base[2])
<1> DEFINE lsb == Selectors(c).lsb
           a == Negate(BaseOf(c))
           b == Negate(HintPoint(c))
           d == Negate(tables[c].base[2])
<1>1. ExpectedLsbCorrection(c) = CASE lsb = <<1, 1>> -> Infinity [] lsb = <<0, 1>> -> a
                                   [] lsb = <<1, 0>> -> b [] OTHER -> d
  BY DEF ExpectedLsbCorrection
<1> HIDE DEF lsb, a, b, d
<1>2. /\ <<0, 1>> # <<1, 1>> /\ <<1, 0>> # <<1, 1>> /\ <<0, 0>> # <<1, 1>>
      /\ <<1, 0>> # <<0, 1>> /\ <<0, 0>> # <<0, 1>> /\ <<0, 0>> # <<1, 0>>
  OBVIOUS
<1>3. lsb = <<1, 1>> => ExpectedLsbCorrection(c) = Infinity
  BY <1>1, <1>2
<1>4. lsb = <<0, 1>> => ExpectedLsbCorrection(c) = a
  BY <1>1, <1>2
<1>5. lsb = <<1, 0>> => ExpectedLsbCorrection(c) = b
  BY <1>1, <1>2
<1>6. lsb = <<0, 0>> => ExpectedLsbCorrection(c) = d
  BY <1>1, <1>2
<1>7. QED
  BY <1>3, <1>4, <1>5, <1>6 DEF lsb, a, b, d

LEMMA TableNamesOf ==
    ASSUME ClaimBuilt, NEW c \in Certs, Active(c)
    PROVE  /\ tables[c].p = BaseOf(c) /\ tables[c].r = HintPoint(c)
           /\ tables[c].p3 = Times(3, BaseOf(c)) /\ tables[c].r3 = Times(3, tables[c].r)
           /\ tables[c].r \in Points /\ tables[c].r # Infinity
           /\ BaseOf(c) \in Points /\ BaseOf(c) # Infinity
           /\ tables[c].first = Signed(tables[c].base[Decode(Selectors(c).at[0]).index],
                                       Decode(Selectors(c).at[0]).neg)
           /\ tables[c].table16 = AddPoints(tables[c].first, tables[c].r3)
<1> DEFINE p == BaseOf(c)
           r == tables[c].r
           sel == Selectors(c)
           tab == TableOf(p, r, sel)
<1>1. tables[c] = tab
  BY BuiltFacts, ChainFacts
<1>2. /\ tab.p = p /\ tab.r = r /\ tab.p3 = Times(3, p) /\ tab.r3 = Times(3, r)
      /\ tab.first = Signed(tab.base[Decode(sel.at[0]).index], Decode(sel.at[0]).neg)
      /\ tab.table16 = AddPoints(tab.first, tab.r3)
  <2> HIDE DEF p, r, sel
  <2>1. QED
    BY DEF TableOf
<1>3. r = HintPoint(c)
  BY BuiltFacts DEF ClaimInv, TablesSet
<1>4. /\ r \in 0 .. N - 1 /\ r # Infinity /\ p \in 1 .. N - 1
  BY BuiltFacts, OwnHint DEF RowInv
<1>5. p \in Points /\ p # Infinity /\ r \in Points
  BY <1>4, OrderFacts DEF Points, Infinity
<1> HIDE DEF tab
<1>6. QED
  BY <1>1, <1>2, <1>3, <1>4, <1>5

LEMMA LsbBalanced ==
    ASSUME ClaimBuilt
    PROVE  Balanced(LsbProviders \cup LsbUses)
<1> DEFINE T(c) == <<c, Selectors(c).lsb, ExpectedLsbCorrection(c)>>
           Ts == {T(c) : c \in ActiveCerts}
           Uses(c) == {Use("row", <<c, Selectors(c).lsb, chains[c][i].operand>>) :
                          i \in RowsOfKind(c, "lsb")}
<1>1. ASSUME NEW c \in Certs, Active(c)
      PROVE  Uses(c) = {Use("row", T(c))}
  <2>1. RowsOfKind(c, "lsb") = {C + 2} /\ RowKept(c, C + 2)
    <3>1. C + 2 \in 1 .. C + 2
      BY ChunksPositive
    <3>2. QED
      BY <1>1, <3>1, BuiltFacts, KindRows
  <2>2. chains[c][C + 2].operand = LsbCorrectionOf(tables[c], Selectors(c))
    <3>1. C + 2 # 1 /\ C + 2 # C + 1
      BY ChunksPositive
    <3>2. OperandAt(c, C + 2) = LsbCorrectionOf(tables[c], Selectors(c))
      BY <3>1 DEF OperandAt
    <3>3. QED
      BY <2>1, <3>2 DEF RowKept
  <2>3. LsbCorrectionOf(tables[c], Selectors(c)) = ExpectedLsbCorrection(c)
    <3>1. PICK x, y \in {0, 1} : Selectors(c).lsb = <<x, y>>
      BY <1>1, SelectorRange
    <3>2. tables[c].p = BaseOf(c) /\ tables[c].r = HintPoint(c)
      BY <1>1, TableNamesOf
    <3>3. Selectors(c).lsb \in {<<1, 1>>, <<0, 1>>, <<1, 0>>, <<0, 0>>}
      BY <3>1
    <3>4. QED
      BY <3>2, <3>3, ExpectedCorrection DEF LsbCorrectionOf
  <2>4. QED
    BY <2>1, <2>2, <2>3
<1>2. ASSUME NEW c \in Certs, ~Active(c)
      PROVE  Uses(c) = {}
  BY <1>2, BuiltFacts, KindRows
<1>3. LsbUses = UNION {Uses(c) : c \in Certs}
  BY DEF LsbUses
<1>4. LsbProviders = {Provide("lsb", t) : t \in Ts}
  BY DEF LsbProviders
<1> HIDE DEF T, Uses
<1>5. LsbUses = {Use("row", t) : t \in Ts}
  BY <1>1, <1>2, <1>3 DEF ActiveCerts
<1> HIDE DEF Ts
<1>6. QED
  BY <1>4, <1>5, MatchedBalanced

(* Undoing a hint's sign twice. *)
LEMMA OrientTwice ==
    ASSUME NEW a \in 0 .. N - 1, NEW bit
    PROVE  /\ OrientedHint(a, bit) \in 0 .. N - 1
           /\ OrientedHint(OrientedHint(a, bit), bit) = a
           /\ OrientedHint(a, bit) = Infinity <=> a = Infinity
<1>1. Negate(a) \in 0 .. N - 1 /\ Negate(Negate(a)) = a
  BY NegateTwice
<1>2. Negate(a) = Infinity <=> a = Infinity
  <2>1. Negate(a) = Infinity => a = Infinity
    <3>1. 0 \in 0 .. N - 1
      BY OrderFacts
    <3>2. QED
      BY <3>1, NegateAndSum
  <2>2. Negate(0) = 0
    BY OrderFacts, SmallRemainder DEF Negate
  <2>3. QED
    BY <2>1, <2>2 DEF Infinity
<1>3. QED
  BY <1>1, <1>2 DEF OrientedHint

LEMMA FinalHints ==
    ASSUME ClaimBuilt, NEW c \in Certs
    PROVE  /\ final.h[c] \in 0 .. N - 1
           /\ Active(c) <=> final.h[c] # Infinity
           /\ Active(c) => Oriented[c] = tables[c].r /\ SignBit(c) = hints[c].bit
<1>1. final.h[c] = IF Active(c) THEN OrientedHint(tables[c].r, hints[c].bit) ELSE Infinity
  BY BuiltFacts DEF FinalMade
<1>2. CASE Active(c)
  <2>1. tables[c].r \in 0 .. N - 1 /\ tables[c].r # Infinity
    BY <1>2, TableNamesOf DEF Points
  <2>2. SignBit(c) = hints[c].bit
    BY <1>2 DEF SignBit
  <2>3. Oriented[c] = OrientedHint(final.h[c], SignBit(c))
    BY DEF Oriented
  <2>4. QED
    BY <1>1, <1>2, <2>1, <2>2, <2>3, OrientTwice
<1>3. CASE ~Active(c)
  BY <1>1, <1>3, OrderFacts DEF Infinity
<1>4. QED
  BY <1>2, <1>3

LEMMA SignBalanced ==
    ASSUME ClaimBuilt
    PROVE  Balanced(SignEntries)
<1> DEFINE Ts == {<<c, hints[c].bit>> : c \in ActiveCerts}
<1>1. ActiveCerts = FiniteAddends /\ \A c \in ActiveCerts : SignBit(c) = hints[c].bit
  BY FinalHints DEF ActiveCerts, FiniteAddends
<1>2. SignEntries = {Provide("scalar", t) : t \in Ts} \cup {Use("final", t) : t \in Ts}
  BY <1>1 DEF SignEntries
<1> HIDE DEF Ts
<1>3. QED
  BY <1>2, MatchedBalanced

-----------------------------------------------------------------------------
(* The rows of the prepared tables.                                        *)

LEMMA RowParts ==
    ASSUME NEW kind, NEW op, NEW lhs, NEW rhs, NEW out
    PROVE  LET row == Row(kind, op, lhs, rhs, out) IN
           /\ row.kind = kind /\ row.op = op /\ row.lhs = lhs /\ row.rhs = rhs /\ row.out = out
  BY DEF Row

LEMMA TableShape ==
    ASSUME NEW tab, NEW j \in 1 .. 13
    PROVE  \E op \in {"double", "add"} : \E lhs, rhs, out :
              TableAt(tab, j) = Row(TableKind[j], op, lhs, rhs, out)
<1>1. \A kind, a, b : \E op \in {"double", "add"} : \E lhs, rhs, out :
         AddRow(kind, a, b) = Row(kind, op, lhs, rhs, out)
  BY DEF AddRow
<1>2. \A kind, a : \E op \in {"double", "add"} : \E lhs, rhs, out :
         DoubleRow(kind, a) = Row(kind, op, lhs, rhs, out)
  BY DEF DoubleRow
<1>3. \/ \E a : TableAt(tab, j) = DoubleRow(TableKind[j], a)
      \/ \E a, b : TableAt(tab, j) = AddRow(TableKind[j], a, b)
  <2>1. /\ TableKind[1] = "DoubleP" /\ TableKind[2] = "AddP2P" /\ TableKind[3] = "DoubleR"
        /\ TableKind[4] = "AddR2R" /\ TableKind[13] = "Table16"
    BY DEF TableKind
  <2>2. CASE j \in {1, 2, 3, 4, 13}
    BY <2>1, <2>2 DEF TableAt
  <2>3. CASE j \in {5, 6, 7, 8, 9, 10, 11, 12}
    <3>1. BaseKind[(j - 5) + 1] = TableKind[j]
      BY <2>3 DEF BaseKind, TableKind
    <3>2. TableAt(tab, j) = BaseRow(tab, j - 5)
      BY <2>3 DEF TableAt
    <3>3. QED
      BY <3>1, <3>2 DEF BaseRow
  <2>4. j \in {1, 2, 3, 4, 13} \/ j \in {5, 6, 7, 8, 9, 10, 11, 12}
    OBVIOUS
  <2>5. QED
    BY <2>2, <2>3, <2>4
<1>4. QED
  BY <1>1, <1>2, <1>3

LEMMA TableKinds ==
    ASSUME NEW tab, NEW j \in 1 .. 13
    PROVE  TableAt(tab, j).kind = TableKind[j] /\ TableAt(tab, j).op \in {"double", "add"}
  BY TableShape, RowParts

(* The kinds tell the thirteen places apart. *)
LEMMA KindsDiffer ==
    ASSUME NEW i \in 1 .. 13, NEW j \in 1 .. 13, TableKind[i] = TableKind[j]
    PROVE  i = j
<1>1. i \in {1, 2, 3, 4, 5, 6, 7, 8, 9, 10, 11, 12, 13}
      /\ j \in {1, 2, 3, 4, 5, 6, 7, 8, 9, 10, 11, 12, 13}
  OBVIOUS
<1>2. QED
  BY <1>1 DEF TableKind

LEMMA TableRowsNow ==
    ASSUME NEW c \in Certs
    PROVE  /\ Active(c) => /\ Sequence(TableRowsOf(c)) /\ Len(TableRowsOf(c)) = 13 - Skip(c)
                           /\ DOMAIN TableRowsOf(c) = 1 .. 13 - Skip(c)
                           /\ \A i \in 1 .. 13 - Skip(c) :
                                 /\ i + Skip(c) \in 1 .. 13
                                 /\ TableRowsOf(c)[i] = TableAt(tables[c], i + Skip(c))
                                 /\ TableRowsOf(c)[i].kind = TableKind[i + Skip(c)]
           /\ ~Active(c) => TableRowsOf(c) = <<>> /\ DOMAIN TableRowsOf(c) = {}
<1>1. CASE Active(c)
  <2> DEFINE rows == TableRows(tables[c], c = 1)
             tab == tables[c]
  <2>1. TableRowsOf(c) = rows
    BY <1>1 DEF TableRowsOf
  <2>2. /\ Sequence(rows) /\ Len(rows) = 13 - Skip(c)
        /\ \A i \in 1 .. 13 - Skip(c) : rows[i] = TableAt(tab, i + Skip(c))
    BY TableRowsAt
  <2> HIDE DEF rows, tab
  <2>3. DOMAIN rows = 1 .. 13 - Skip(c)
    BY <2>2, Numbered
  <2>4. Skip(c) \in {0, 2}
    BY DEF Skip
  <2>5. \A i \in 1 .. 13 - Skip(c) : i + Skip(c) \in 1 .. 13
    BY <2>4
  <2>6. \A i \in 1 .. 13 - Skip(c) : rows[i].kind = TableKind[i + Skip(c)]
    BY <2>2, <2>5, TableKinds
  <2>7. QED
    BY <1>1, <2>1, <2>2, <2>3, <2>5, <2>6 DEF tab
<1>2. CASE ~Active(c)
  BY <1>2 DEF TableRowsOf
<1>3. QED
  BY <1>1, <1>2

LEMMA HintBalanced ==
    ASSUME ClaimBuilt
    PROVE  Balanced(HintEntries)
<1> DEFINE P(c) == {Provide("table", <<c, TableRowsOf(c)[i].lhs>>) :
                      i \in {j \in DOMAIN TableRowsOf(c) : TableRowsOf(c)[j].kind = "DoubleR"}}
           Ts == {<<c, tables[c].r>> : c \in ActiveCerts}
<1>1. ASSUME NEW c \in Certs, Active(c)
      PROVE  P(c) = {Provide("table", <<c, tables[c].r>>)}
  <2> DEFINE k == 3 - Skip(c)
             rows == TableRowsOf(c)
  <2>1. /\ k \in 1 .. 13 - Skip(c) /\ k + Skip(c) = 3
    BY DEF Skip
  <2>2. /\ DOMAIN rows = 1 .. 13 - Skip(c)
        /\ \A i \in 1 .. 13 - Skip(c) : /\ i + Skip(c) \in 1 .. 13
                                        /\ rows[i] = TableAt(tables[c], i + Skip(c))
                                        /\ rows[i].kind = TableKind[i + Skip(c)]
    BY <1>1, TableRowsNow
  <2>3. TableKind[3] = "DoubleR" /\ 3 \in 1 .. 13
    BY DEF TableKind
  <2>4. TableAt(tables[c], 3).lhs = tables[c].r
    <3>1. TableAt(tables[c], 3) = Row("DoubleR", "double", tables[c].r, Infinity,
                                      AddPoints(tables[c].r, tables[c].r))
      BY TableCells
    <3>2. QED
      BY <3>1, RowParts
  <2>5. rows[k] = TableAt(tables[c], 3)
    BY <2>1, <2>2
  <2>6. rows[k].lhs = tables[c].r
    BY <2>4, <2>5
  <2> HIDE DEF rows
  <2>7. \A i \in DOMAIN rows : rows[i].kind = "DoubleR" <=> i = k
    <3>1. ASSUME NEW i \in DOMAIN rows
          PROVE  rows[i].kind = "DoubleR" <=> i = k
      <4>1. i \in 1 .. 13 - Skip(c) /\ i + Skip(c) \in 1 .. 13 /\ rows[i].kind = TableKind[i + Skip(c)]
        BY <2>2
      <4>2. rows[i].kind = "DoubleR" <=> i + Skip(c) = 3
        BY <2>3, <4>1, KindsDiffer
      <4>3. i + Skip(c) = 3 <=> i = k
        BY <4>1 DEF Skip
      <4>4. QED
        BY <4>2, <4>3
    <3>2. QED
      BY <3>1
  <2>8. k \in DOMAIN rows
    BY <2>1, <2>2
  <2> HIDE DEF k
  <2>9. {j \in DOMAIN rows : rows[j].kind = "DoubleR"} = {k}
    BY <2>7, <2>8
  <2>10. QED
    BY <2>6, <2>9 DEF rows
<1>2. ASSUME NEW c \in Certs, ~Active(c)
      PROVE  P(c) = {}
  BY <1>2, TableRowsNow
<1> DEFINE A == UNION {P(c) : c \in Certs}
           B == {Use("final", <<c, Oriented[c]>>) : c \in FiniteAddends}
           X == {Provide("table", t) : t \in Ts}
           Y == {Use("final", t) : t \in Ts}
<1>3. HintEntries = A \cup B
  BY DEF HintEntries
<1>4. A = X
  <2> HIDE DEF P
  <2>1. QED
    BY <1>1, <1>2 DEF ActiveCerts
<1>5. FiniteAddends = ActiveCerts /\ \A c \in ActiveCerts : Oriented[c] = tables[c].r
  BY FinalHints DEF ActiveCerts, FiniteAddends
<1>6. B = Y
  BY <1>5
<1>7. Balanced(X \cup Y)
  <2> HIDE DEF Ts
  <2>1. QED
    BY MatchedBalanced
<1> HIDE DEF A, B, X, Y
<1>8. QED
  BY <1>3, <1>4, <1>6, <1>7

-----------------------------------------------------------------------------
(* The scalar products, and the final addition.                            *)

(* Dividing by the signature's s, then multiplying by it. *)
LEMMA ScaledBack ==
    ASSUME NEW a \in 0 .. N - 1, NEW s \in 1 .. N - 1
    PROVE  LET u == (a * InverseOf[s]) % N IN u \in Int /\ (s * u) % N = a
<1> DEFINE w == InverseOf[s]
           m == a * w
           u == m % N
<1>1. w \in 1 .. N - 1 /\ (s * w) % N = 1
  BY InverseFacts
<1> HIDE DEF w
<1>2. N \in Nat \ {0} /\ a \in Int /\ s \in Int /\ w \in Int
  BY <1>1, OrderFacts
<1>3. m \in Int
  BY <1>2
<1> DEFINE t == s * w
<1>4. t \in Int /\ t % N = 1
  BY <1>1, <1>2
<1>5. PICK q \in Int : m = u + q * N
  <2> HIDE DEF m
  <2>1. QED
    BY <1>3, Remainder
<1>6. u \in Int
  <2> HIDE DEF m
  <2>1. QED
    BY <1>3, Remainder
<1>7. PICK p \in Int : t = 1 + p * N
  <2> HIDE DEF t
  <2>1. QED
    BY <1>4, Remainder
<1> HIDE DEF u
<1>8. s * u = a + (a * p - s * q) * N
  <2>1. a * w = u + q * N /\ s * w = 1 + p * N
    BY <1>5, <1>7
  <2>2. s * u = s * (a * w) - (s * q) * N
    BY <1>2, <1>5, <1>6, <2>1, Z3
  <2>3. s * (a * w) = a * (s * w)
    BY <1>2, Z3
  <2>4. a * (1 + p * N) = a + (a * p) * N
    BY <1>2, <1>7, Z3
  <2>5. (a * p - s * q) * N = (a * p) * N - (s * q) * N
    BY <1>2, <1>5, <1>7, Z3
  <2> DEFINE x == (a * p) * N
             y == (s * q) * N
             z == s * (a * w)
  <2>6. x \in Int /\ y \in Int
    BY <1>2, <1>5, <1>7
  <2>7. s * u = z - y /\ z = a + x /\ (a * p - s * q) * N = x - y
    BY <2>1, <2>2, <2>3, <2>4, <2>5
  <2> HIDE DEF x, y, z
  <2>8. QED
    BY <1>2, <2>6, <2>7
<1> DEFINE su == s * u
           k == a * p - s * q
<1>9. su \in Int /\ k \in Int /\ su = a + k * N
  BY <1>2, <1>5, <1>6, <1>7, <1>8
<1> HIDE DEF su, k
<1>10. su % N = a % N
  BY <1>2, <1>9, SameRemainder
<1>11. su % N = a
  BY <1>10, SmallRemainder
<1>12. QED
  BY <1>6, <1>11 DEF su, u, w

LEMMA QuotientOf ==
    ASSUME NEW x \in Int, NEW r, x % N = r
    PROVE  (x - r) \div N = x \div N
<1>1. N \in Nat \ {0} /\ N \in Int
  BY OrderFacts
<1> DEFINE d == x \div N
<1>2. d \in Int /\ x = N * d + r /\ r \in Int
  BY <1>1, Division
<1> HIDE DEF d
<1>3. x - r = d * N
  BY <1>1, <1>2, Z3
<1>4. (d * N) \div N = d
  BY <1>1, <1>2, ExactDivision
<1>5. QED
  BY <1>3, <1>4 DEF d

(* A product and the operands the scalar tables hold of it. *)
LEMMA SameProduct ==
    ASSUME NEW id, NEW a \in Int, NEW b \in Int, NEW r, (a * b) % N = r
    PROVE  /\ Operands(id, a, b, (a * b - r) \div N, r) = Product(id, a, b)
           /\ \A q : (a * b) \div N = q => Operands(id, a, b, q, r) = Product(id, a, b)
<1> DEFINE x == a * b
<1>1. x \in Int /\ x % N = r
  OBVIOUS
<1> HIDE DEF x
<1>2. (x - r) \div N = x \div N
  BY <1>1, QuotientOf
<1>3. /\ Operands(id, a, b, (x - r) \div N, r) = Operands(id, a, b, x \div N, x % N)
      /\ \A q : x \div N = q => Operands(id, a, b, q, r) = Operands(id, a, b, x \div N, x % N)
  BY <1>1, <1>2
<1>4. QED
  BY <1>3 DEF x, Product

LEMMA SetupProducts ==
    ASSUME ClaimBuilt
    PROVE  /\ input.s \in Int /\ setup.u[1] \in Int /\ setup.u[2] \in Int
           /\ (input.s * setup.u[1]) % N = setup.zred /\ (input.s * setup.u[2]) % N = input.r
<1>1. input.r \in 1 .. N - 1 /\ input.s \in 1 .. N - 1 /\ input.z \in Int /\ 0 <= input.z /\ input.z < W
  <2>1. input \in Inputs
    BY BuiltFacts DEF HintInv
  <2>2. Nonzero(input.r) /\ Nonzero(input.s)
    BY BuiltFacts DEF ClaimInv, ScalarsSet
  <2>3. QED
    BY <2>1, <2>2, InputTypes DEF Nonzero
<1>2. setup.zred = ReduceDigest(input.z) /\ ReduceDigest(input.z) \in 0 .. N - 1
  <2>1. setup.zred = ReduceDigest(input.z)
    BY BuiltFacts DEF FinalMade
  <2> DEFINE z == input.z
  <2>2. z \in Int /\ 0 <= z /\ z < W
    BY <1>1
  <2> HIDE DEF z
  <2>3. ReduceDigest(z) = z % N /\ z % N \in 0 .. N - 1
    BY <2>2, WordReduction, Remainder
  <2>4. QED
    BY <2>1, <2>3 DEF z
<1>3. /\ setup.u[1] = (ReduceDigest(input.z) * InverseOf[input.s]) % N
      /\ setup.u[2] = (input.r * InverseOf[input.s]) % N
  BY BuiltFacts DEF ClaimInv, ScalarsSet
<1> DEFINE z == ReduceDigest(input.z)
           r == input.r
           s == input.s
<1>4. z \in 0 .. N - 1 /\ r \in 0 .. N - 1 /\ s \in 1 .. N - 1
  BY <1>1, <1>2, OrderFacts
<1> HIDE DEF z, r, s
<1>5. /\ (z * InverseOf[s]) % N \in Int /\ (s * ((z * InverseOf[s]) % N)) % N = z
      /\ (r * InverseOf[s]) % N \in Int /\ (s * ((r * InverseOf[s]) % N)) % N = r
  BY <1>4, ScaledBack
<1> DEFINE u1 == (z * InverseOf[s]) % N
           u2 == (r * InverseOf[s]) % N
<1>6. /\ u1 \in Int /\ (s * u1) % N = z /\ u2 \in Int /\ (s * u2) % N = r
      /\ setup.u[1] = u1 /\ setup.u[2] = u2 /\ setup.zred = z
  BY <1>2, <1>3, <1>5 DEF z, r, s
<1>7. s \in Int
  BY <1>4, OrderFacts
<1> HIDE DEF u1, u2
<1>8. QED
  BY <1>6, <1>7 DEF s, r

(* The product of a scalar with the second half of its hint. *)
LEMMA HintProduct ==
    ASSUME ClaimBuilt, NEW c \in Certs, Active(c)
    PROVE  /\ setup.u[c] \in Int /\ hints[c].s2 \in Int
           /\ (setup.u[c] * hints[c].s2) \div N = hints[c].q
           /\ (setup.u[c] * hints[c].s2) % N = SelectedS1(hints[c])
<1> DEFINE h == hints[c]
           k == setup.u[c]
<1>1. h.s1 \in 1 .. N - 1 /\ h.s2 \in Nat /\ h.q \in Int
  BY BuiltFacts, ChainFacts
<1>2. k \in Int /\ k # 0
  <2>1. setup.u[1] \in 0 .. N - 1 /\ setup.u[2] \in 0 .. N - 1
    BY BuiltFacts DEF HintInv, Scalars
  <2>2. c = 1 \/ c = 2
    BY DEF Certs
  <2>3. setup.u[c] # 0 /\ setup.u[c] \in 0 .. N - 1
    BY <2>1, <2>2 DEF Active
  <2>4. QED
    BY <2>3, OrderFacts
<1>3. c \in DOMAIN hints
  BY BuiltFacts DEF ClaimInv, BitsSet, Certs
<1>4. HintProves(k, h)
  BY <1>3, BuiltFacts DEF HintInv, HintsProve
<1>5. k * h.s2 = h.q * N + SelectedS1(h)
  BY <1>2, <1>4 DEF HintProves
<1>6. SelectedS1(h) \in 0 .. N - 1
  <2> HIDE DEF h
  <2>1. QED
    BY <1>1, OrderFacts DEF SelectedS1
<1> DEFINE q == h.q
           r == SelectedS1(h)
           x == k * h.s2
<1>7. N \in Nat \ {0} /\ q \in Int /\ r \in 0 .. N - 1 /\ x = q * N + r
  BY <1>1, <1>5, <1>6, OrderFacts
<1> HIDE DEF q, r, x
<1>8. x % N = r /\ x \div N = q
  BY <1>7, UniqueDivision
<1>9. h.s2 \in Int
  BY <1>1
<1>10. QED
  BY <1>2, <1>8, <1>9 DEF x, q, r

LEMMA ScalarBalanced ==
    ASSUME ClaimBuilt
    PROVE  Balanced(ScalarEntries)
<1> DEFINE s == input.s
           u1 == setup.u[1]
           u2 == setup.u[2]
           H(c) == Operands(MulIdOf(c), setup.u[c], hints[c].s2, hints[c].q, SelectedS1(hints[c]))
           G(c) == Product(MulIdOf(c), setup.u[c], hints[c].s2)
<1>1. Operands(0, s, u1, (s * u1 - setup.zred) \div N, setup.zred) = Product(0, s, u1)
  <2>1. s \in Int /\ u1 \in Int /\ (s * u1) % N = setup.zred
    BY SetupProducts
  <2> HIDE DEF s, u1
  <2>2. QED
    BY <2>1, SameProduct
<1>2. Operands(1, s, u2, (s * u2 - input.r) \div N, input.r) = Product(1, s, u2)
  <2>1. s \in Int /\ u2 \in Int /\ (s * u2) % N = input.r
    BY SetupProducts
  <2> HIDE DEF s, u2
  <2>2. QED
    BY <2>1, SameProduct
<1>3. ASSUME NEW c \in ActiveCerts
      PROVE  H(c) = G(c)
  <2> DEFINE a == setup.u[c]
             b == hints[c].s2
             q == hints[c].q
             r == SelectedS1(hints[c])
             id == MulIdOf(c)
  <2>1. a \in Int /\ b \in Int /\ (a * b) \div N = q /\ (a * b) % N = r
    BY HintProduct DEF ActiveCerts
  <2> HIDE DEF a, b, q, r, id
  <2>2. Operands(id, a, b, q, r) = Product(id, a, b)
    BY <2>1, SameProduct
  <2>3. QED
    BY <2>2 DEF a, b, q, r, id
<1>4. ScalarUses = Operands(0, s, u1, (s * u1 - setup.zred) \div N, setup.zred)
                   \cup Operands(1, s, u2, (s * u2 - input.r) \div N, input.r)
                   \cup UNION {H(c) : c \in ActiveCerts}
  BY DEF ScalarUses
<1>5. ScalarProducts = Product(0, s, u1) \cup Product(1, s, u2) \cup UNION {G(c) : c \in ActiveCerts}
  BY DEF ScalarProducts
<1> HIDE DEF H, G, s, u1, u2
<1>6. UNION {H(c) : c \in ActiveCerts} = UNION {G(c) : c \in ActiveCerts}
  BY <1>3
<1>7. ScalarUses = ScalarProducts
  BY <1>1, <1>2, <1>4, <1>5, <1>6
<1> DEFINE T == ScalarProducts
<1>8. ScalarEntries = {Provide("product", t) : t \in T} \cup {Use("scalar", t) : t \in T}
  BY <1>7 DEF ScalarEntries
<1> HIDE DEF T
<1>9. QED
  BY <1>8, MatchedBalanced

LEMMA SumOfNegatives ==
    ASSUME NEW a \in 0 .. N - 1, NEW b \in 0 .. N - 1
    PROVE  AddPoints(Negate(a), Negate(b)) = Negate(AddPoints(a, b))
<1>1. a \in Int /\ b \in Int /\ -a \in Int /\ -b \in Int /\ N \in Int
  BY OrderFacts
<1> DEFINE x == -a
           y == -b
           m == y % N
           s == a + b
<1>2. x \in Int /\ y \in Int /\ m \in Int /\ s \in Int
  <2>1. x \in Int /\ y \in Int /\ s \in Int
    BY <1>1
  <2> HIDE DEF x, y, s
  <2>2. QED
    BY <2>1, Remainder
<1>3. x + y = -s
  BY <1>1
<1>4. AddPoints(Negate(a), Negate(b)) = ((x % N) + m) % N
  BY DEF AddPoints, Negate
<1>5. Negate(AddPoints(a, b)) = (-(s % N)) % N
  BY DEF AddPoints, Negate
<1> HIDE DEF x, s
<1>6. ((x % N) + m) % N = (x + m) % N
  <2> HIDE DEF m
  <2>1. QED
    BY <1>2, RemainderOfSum
<1>7. (x + m) % N = (y + x) % N
  <2>1. x + m = m + x
    BY <1>2
  <2> HIDE DEF y
  <2>2. ((y % N) + x) % N = (y + x) % N
    BY <1>2, RemainderOfSum
  <2>3. QED
    BY <2>1, <2>2
<1>8. (-(s % N)) % N = (-s) % N
  BY <1>2, RemainderOfNegation
<1>9. y + x = -s
  BY <1>2, <1>3
<1>10. QED
  BY <1>4, <1>5, <1>6, <1>7, <1>8, <1>9

LEMMA NegatedX ==
    ASSUME NEW a \in 0 .. N - 1, a # Infinity
    PROVE  XCoord[Negate(a)] = XCoord[a]
<1>1. a \in 1 .. N - 1 /\ N \in Nat /\ N \in Int /\ a \in Int
  BY OrderFacts DEF Infinity
<1>2. Negate(a) = N - a
  <2> DEFINE b == N - a
             m == -a
  <2>1. b \in 0 .. N - 1 /\ b \in Int /\ m \in Int /\ 1 \in Int /\ b = m + 1 * N
    BY <1>1
  <2> HIDE DEF b, m
  <2>2. b % N = m % N /\ b % N = b
    BY <2>1, SameRemainder, SmallRemainder
  <2>3. QED
    BY <2>2 DEF Negate, b, m
<1>3. XCoord[N - a] = XCoord[a]
  BY <1>1, WordAssumption
<1>4. QED
  BY <1>2, <1>3

(* Adding infinity. *)
LEMMA AddInfinity ==
    ASSUME NEW a \in 0 .. N - 1
    PROVE  AddPoints(Infinity, a) = a /\ AddPoints(a, Infinity) = a
<1>1. 0 + a = a /\ a + 0 = a /\ a % N = a
  BY OrderFacts, SmallRemainder
<1>2. QED
  BY <1>1 DEF AddPoints, Infinity

LEMMA FinalAddSums ==
    ASSUME NEW a \in 0 .. N - 1, NEW b \in 0 .. N - 1
    PROVE  FinalAddX(a, b) = XCoord[AddPoints(a, b)]
<1>1. CASE FinalAddBranch(a, b) = "R2Only"
  <2>1. a = Infinity
    BY <1>1 DEF FinalAddBranch
  <2>2. FinalAddX(a, b) = XCoord[b]
    BY <1>1 DEF FinalAddX
  <2>3. QED
    BY <2>1, <2>2, AddInfinity
<1>2. CASE FinalAddBranch(a, b) = "R1Only"
  <2>1. b = Infinity
    BY <1>2 DEF FinalAddBranch
  <2>2. FinalAddX(a, b) = XCoord[a]
    BY <1>2 DEF FinalAddX
  <2>3. QED
    BY <2>1, <2>2, AddInfinity
<1>3. CASE FinalAddBranch(a, b) # "R1Only" /\ FinalAddBranch(a, b) # "R2Only"
  BY <1>3 DEF FinalAddX
<1>4. QED
  BY <1>1, <1>2, <1>3

(* The addends are the hints with both signs undone, or with neither. *)
LEMMA AddendsSum ==
    ASSUME ClaimBuilt
    PROVE  /\ final.x3 = XCoord[AddPoints(final.h[1], final.h[2])]
           /\ AddPoints(final.h[1], final.h[2]) \in 0 .. N - 1
           /\ AddPoints(final.h[1], final.h[2]) # Infinity
<1> DEFINE a == final.h[1]
           b == final.h[2]
           x == OrientedHint(a, SignBit(1))
           y == OrientedHint(b, SignBit(2))
           z == IF SignBit(1) # SignBit(2) THEN Negate(y) ELSE y
<1>1. a \in 0 .. N - 1 /\ b \in 0 .. N - 1 /\ AddPoints(a, b) # Infinity
  <2>1. AddPoints(a, b) # Infinity
    BY BuiltFacts DEF ClaimInv, FinalSet
  <2>2. 1 \in Certs /\ 2 \in Certs
    BY DEF Certs
  <2>3. QED
    BY <2>1, <2>2, FinalHints
<1>2. SignBit(1) \in {0, 1} /\ SignBit(2) \in {0, 1}
  <2>1. DOMAIN hints = {1, 2}
    BY BuiltFacts DEF ClaimInv, BitsSet
  <2>2. \A c \in DOMAIN hints : hints[c].bit \in {0, 1}
    BY BuiltFacts DEF ClaimInv, BitsSet
  <2>3. QED
    BY <2>1, <2>2 DEF SignBit
<1>3. Addends[1] = x /\ Addends[2] = z
  BY DEF Addends, Certs
<1>4. (x = a /\ z = b) \/ (x = Negate(a) /\ z = Negate(b))
  <2>1. Negate(Negate(b)) = b
    BY <1>1, NegateTwice
  <2> HIDE DEF a, b
  <2>2. QED
    BY <1>2, <2>1 DEF OrientedHint
<1>5. final.x3 = FinalAddX(x, z)
  <2>1. final.x3 = FinalAddX(Addends[1], Addends[2])
    BY BuiltFacts DEF FinalMade
  <2>2. QED
    BY <1>3, <2>1
<1> HIDE DEF x, y, z, a, b
<1>6. AddPoints(a, b) \in 0 .. N - 1
  BY <1>1, OrderFacts, PointTypes
<1>7. x \in 0 .. N - 1 /\ z \in 0 .. N - 1
  BY <1>1, <1>4, NegateTwice
<1>8. FinalAddX(x, z) = XCoord[AddPoints(x, z)]
  BY <1>7, FinalAddSums
<1>9. CASE x = a /\ z = b
  BY <1>1, <1>5, <1>6, <1>8, <1>9 DEF a, b
<1>10. CASE x = Negate(a) /\ z = Negate(b)
  <2>1. AddPoints(x, z) = Negate(AddPoints(a, b))
    BY <1>1, <1>10, SumOfNegatives
  <2> DEFINE s == AddPoints(a, b)
  <2>2. s \in 0 .. N - 1 /\ s # Infinity
    BY <1>1, <1>6
  <2> HIDE DEF s
  <2>3. XCoord[Negate(s)] = XCoord[s]
    BY <2>2, NegatedX
  <2>4. QED
    BY <1>1, <1>5, <1>6, <1>8, <2>1, <2>3 DEF s, a, b
<1>11. QED
  BY <1>4, <1>9, <1>10

LEMMA ResultBalanced ==
    ASSUME ClaimBuilt
    PROVE  Balanced(ResultEntries)
<1> DEFINE p == AddPoints(final.h[1], final.h[2])
           x == final.rx
           r == input.r
           back == final.rx - final.ge * N
<1>1. p \in 0 .. N - 1 /\ p # Infinity /\ final.x3 = XCoord[p]
  BY AddendsSum
<1>2. /\ x = XCoord[p] /\ final.ge = ReduceX(x).ge /\ r = ReduceX(x).x
  BY BuiltFacts DEF FinalMade
<1>3. x \in Int
  <2> HIDE DEF p, x
  <2>1. QED
    BY <1>1, <1>2, CoordinateTypes
<1>4. back = r
  <2>1. N \in Int
    BY OrderFacts
  <2> HIDE DEF x, r
  <2>2. CASE x >= N
    <3>1. ReduceX(x).ge = 1 /\ ReduceX(x).x = x - N
      BY <2>2 DEF ReduceX
    <3>2. final.rx = x /\ final.ge = 1 /\ r = x - N
      BY <1>2, <3>1 DEF x
    <3>3. back = x - 1 * N
      BY <3>2
    <3> HIDE DEF back
    <3>4. QED
      BY <1>3, <2>1, <3>2, <3>3
  <2>3. CASE ~(x >= N)
    <3>1. ReduceX(x).ge = 0 /\ ReduceX(x).x = x
      BY <2>3 DEF ReduceX
    <3>2. final.rx = x /\ final.ge = 0 /\ r = x
      BY <1>2, <3>1 DEF x
    <3>3. back = x - 0 * N
      BY <3>2
    <3> HIDE DEF back
    <3>4. QED
      BY <1>3, <2>1, <3>2, <3>3
  <2>4. QED
    BY <2>2, <2>3
<1>5. final.x3 = x
  BY <1>1, <1>2
<1> DEFINE E == ResultEntries
           tx == <<"x", x>>
           tr == <<"r", r>>
           e1 == Provide("final add", tx)
           e2 == Use("final check", tx)
           e3 == Provide("public", tr)
           e4 == Use("final check", tr)
<1>6. E = {e1, e2, e3, e4}
  BY <1>4, <1>5, Zenon DEF ResultEntries
<1>7. e1.t = tx /\ e2.t = tx /\ e3.t = tr /\ e4.t = tr /\ e1.m = -1 /\ e2.m = 1 /\ e3.m = -1 /\ e4.m = 1
  <2>1. \A at, t : /\ Provide(at, t).t = t /\ Provide(at, t).m = -1
                   /\ Use(at, t).t = t /\ Use(at, t).m = 1
    BY UseParts
  <2> HIDE DEF tx, tr
  <2>2. QED
    BY <2>1
<1>8. tx # tr
  <2>1. tx[1] = "x" /\ tr[1] = "r"
    OBVIOUS
  <2> HIDE DEF tx, tr
  <2>2. QED
    BY <2>1
<1> HIDE DEF E, e1, e2, e3, e4, tx, tr
<1>9. {e \in E : e.t = tx} = {e1, e2} /\ {e \in E : e.t = tr} = {e3, e4}
  BY <1>6, <1>7, <1>8
<1>10. Provided(E, tx) /\ Provided(E, tr)
  BY <1>7, <1>9, PairProvided
<1>11. \A e \in E : Provided(E, e.t)
  BY <1>6, <1>7, <1>10
<1>12. Balanced(E)
  BY <1>11, ProvidedBalanced
<1>13. QED
  BY <1>12 DEF E

-----------------------------------------------------------------------------
(* The numbering of the chain rows, and of the operations they stand for.  *)

(* The place of a row in the chain of its certificate. *)
Local(i) == IF i <= Len(chains[1]) THEN i ELSE i - Len(chains[1])

ChainLength(c) == IF Active(c) THEN C + 2 ELSE 0

LEMMA ChainLengths ==
    ASSUME ClaimBuilt
    PROVE  /\ \A c \in Certs : Sequence(chains[c]) /\ Len(chains[c]) = ChainLength(c)
           /\ ChainLength(1) \in {0, C + 2} /\ ChainLength(2) \in {0, C + 2}
           /\ Len(AllChainRows) = ChainLength(1) + ChainLength(2)
           /\ DOMAIN AllChainRows = 1 .. ChainLength(1) + ChainLength(2)
           /\ \A i \in DOMAIN AllChainRows : AllChainRows[i] = chains[CertOfRow(i)][Local(i)]
<1>1. ASSUME NEW c \in Certs
      PROVE  Sequence(chains[c]) /\ Len(chains[c]) = ChainLength(c)
  <2>1. CASE Active(c)
    BY <2>1, BuiltFacts, KindRows DEF ChainLength
  <2>2. CASE ~Active(c)
    <3>1. chains[c] = <<>>
      BY <2>2, BuiltFacts, KindRows
    <3>2. Sequence(<<>>) /\ Len(<<>>) = 0
      BY Few
    <3>3. QED
      BY <2>2, <3>1, <3>2 DEF ChainLength
  <2>3. QED
    BY <2>1, <2>2
<1>2. ChainLength(1) \in {0, C + 2} /\ ChainLength(2) \in {0, C + 2}
  BY DEF ChainLength
<1> DEFINE s == chains[1]
           t == chains[2]
<1>3. Sequence(s) /\ Len(s) = ChainLength(1) /\ Sequence(t) /\ Len(t) = ChainLength(2)
  BY <1>1 DEF Certs
<1>4. AllChainRows = s \o t
  BY DEF AllChainRows
<1>5. /\ Sequence(s \o t) /\ Len(s \o t) = Len(s) + Len(t)
      /\ \A i \in 1 .. Len(s) + Len(t) : (s \o t)[i] = IF i <= Len(s) THEN s[i] ELSE t[i - Len(s)]
  <2> HIDE DEF s, t
  <2>1. QED
    BY <1>3, Joined
<1>6. \A i : CertOfRow(i) = (IF i <= Len(s) THEN 1 ELSE 2) /\ Local(i) = (IF i <= Len(s) THEN i ELSE i - Len(s))
  BY DEF CertOfRow, Local
<1>7. DOMAIN AllChainRows = 1 .. Len(s) + Len(t) /\ Len(AllChainRows) = Len(s) + Len(t)
  <2> HIDE DEF s, t
  <2> DEFINE a == AllChainRows
  <2>1. Sequence(a) /\ Len(a) = Len(s) + Len(t)
    BY <1>4, <1>5
  <2> HIDE DEF a
  <2>2. DOMAIN a = 1 .. Len(a)
    BY <2>1, Numbered
  <2>3. QED
    BY <2>1, <2>2 DEF a
<1>8. ASSUME NEW i \in DOMAIN AllChainRows
      PROVE  AllChainRows[i] = chains[CertOfRow(i)][Local(i)]
  <2>1. AllChainRows[i] = IF i <= Len(s) THEN s[i] ELSE t[i - Len(s)]
    BY <1>4, <1>5, <1>7
  <2>2. CASE i <= Len(s)
    BY <1>6, <2>1, <2>2
  <2>3. CASE ~(i <= Len(s))
    BY <1>6, <2>1, <2>3
  <2>4. QED
    BY <2>2, <2>3
<1> HIDE DEF s, t
<1>9. QED
  BY <1>1, <1>2, <1>3, <1>7, <1>8

LEMMA RowPlaces ==
    ASSUME ClaimBuilt, NEW i \in DOMAIN AllChainRows
    PROVE  /\ CertOfRow(i) \in Certs /\ Active(CertOfRow(i)) /\ Local(i) \in 1 .. C + 2
           /\ AllChainRows[i] = chains[CertOfRow(i)][Local(i)]
           /\ RowKept(CertOfRow(i), Local(i))
           /\ i = Local(i) + (IF CertOfRow(i) = 1 THEN 0 ELSE ChainLength(1))
           /\ FirstOfCert(i) <=> Local(i) = 1
           /\ LastOfCert(i) <=> Local(i) = C + 2
           /\ ~FirstOfCert(i) => /\ i - 1 \in DOMAIN AllChainRows /\ CertOfRow(i - 1) = CertOfRow(i)
                                 /\ Local(i - 1) = Local(i) - 1
           /\ ~LastOfCert(i) => /\ i + 1 \in DOMAIN AllChainRows /\ CertOfRow(i + 1) = CertOfRow(i)
                                /\ Local(i + 1) = Local(i) + 1
<1> DEFINE m == ChainLength(1)
           n == ChainLength(2)
           c == CertOfRow(i)
           l == Local(i)
<1>1. /\ Len(chains[1]) = m /\ m \in {0, C + 2} /\ n \in {0, C + 2} /\ C \in Nat /\ C # 0
      /\ DOMAIN AllChainRows = 1 .. m + n /\ Len(AllChainRows) = m + n
      /\ AllChainRows[i] = chains[c][l]
  BY ChainLengths, ChunksPositive DEF Certs
<1>2. \A j : CertOfRow(j) = (IF j <= m THEN 1 ELSE 2) /\ Local(j) = (IF j <= m THEN j ELSE j - m)
  BY <1>1 DEF CertOfRow, Local
<1>3. (m # 0 <=> Active(1)) /\ (n # 0 <=> Active(2))
  BY <1>1 DEF ChainLength
<1>4. i \in 1 .. m + n /\ i \in Int
  BY <1>1
<1>5. FirstOfCert(i) <=> i = 1 \/ CertOfRow(i - 1) # c
  BY DEF FirstOfCert
<1>6. LastOfCert(i) <=> i = m + n \/ CertOfRow(i + 1) # c
  BY <1>1 DEF LastOfCert
<1>7. c = (IF i <= m THEN 1 ELSE 2) /\ l = (IF i <= m THEN i ELSE i - m)
  BY <1>2
<1> HIDE DEF m, n, c, l
<1>8. c \in Certs /\ Active(c) /\ l \in 1 .. C + 2
  BY <1>1, <1>3, <1>4, <1>7 DEF Certs
<1>9. i = l + (IF c = 1 THEN 0 ELSE m)
  BY <1>1, <1>4, <1>7
<1>10. FirstOfCert(i) <=> l = 1
  BY <1>1, <1>2, <1>4, <1>5, <1>7
<1>11. LastOfCert(i) <=> l = C + 2
  BY <1>1, <1>2, <1>4, <1>6, <1>7
<1>12. RowKept(c, l)
  BY <1>8, BuiltFacts, KindRows
<1>13. l # 1 => i - 1 \in 1 .. m + n /\ CertOfRow(i - 1) = c /\ Local(i - 1) = l - 1
  BY <1>1, <1>2, <1>4, <1>7
<1>14. l # C + 2 => i + 1 \in 1 .. m + n /\ CertOfRow(i + 1) = c /\ Local(i + 1) = l + 1
  BY <1>1, <1>2, <1>4, <1>7
<1>15. QED
  BY <1>1, <1>8, <1>9, <1>10, <1>11, <1>12, <1>13, <1>14 DEF c, l, m

LEMMA ScheduleKept ==
    ASSUME ClaimBuilt
    PROVE  KeepsSchedule
<1> SUFFICES ASSUME NEW i \in DOMAIN AllChainRows
             PROVE  <<AllChainRows[i].kind, AllChainRows[i].step>> = ScheduledAt(i)
  BY DEF KeepsSchedule
<1> DEFINE l == Local(i)
           c == CertOfRow(i)
           m == ChainLength(1)
           w == C + 2
           local == (i - 1) % w
<1>1. /\ l \in 1 .. C + 2 /\ i = l + (IF c = 1 THEN 0 ELSE m)
      /\ AllChainRows[i] = chains[c][l] /\ RowKept(c, l)
  BY RowPlaces
<1>2. m \in {0, C + 2} /\ C \in Nat /\ C # 0
  BY ChainLengths, ChunksPositive
<1>3. AllChainRows[i].kind = KindAt(l) /\ AllChainRows[i].step = StepAt(l)
  BY <1>1 DEF RowKept
<1>4. ScheduledAt(i) = CASE local = 0 -> <<"msb", 0>>
                         [] local = w - 2 -> <<"table16", 0>>
                         [] local = w - 1 -> <<"lsb", 0>>
                         [] OTHER -> <<"step", w - 2 - local>>
  BY DEF ScheduledAt, RowsPerActiveCert
<1> HIDE DEF l, c, m
<1>5. local = l - 1
  <2> DEFINE a == i - 1
             r == l - 1
  <2>1. w \in Nat \ {0} /\ r \in 0 .. w - 1 /\ (a = r \/ a = w + r)
    BY <1>1, <1>2
  <2>2. \E q \in Int : a = q * w + r
    <3>1. CASE a = r
      <4>1. 0 * w + r = r
        BY <2>1
      <4>2. QED
        BY <3>1, <4>1
    <3>2. CASE a = w + r
      <4>1. 1 * w + r = w + r
        BY <2>1
      <4>2. QED
        BY <3>2, <4>1
    <3>3. QED
      BY <2>1, <3>1, <3>2
  <2>3. PICK q \in Int : a = q * w + r
    BY <2>2
  <2> HIDE DEF a, r, w
  <2>4. a % w = r
    BY <2>1, <2>3, UniqueDivision
  <2>5. QED
    BY <2>4 DEF a, r
<1> HIDE DEF local
<1>6. w = C + 2
  OBVIOUS
<1> HIDE DEF w
<1>7. CASE l = 1
  <2>1. local = 0 /\ w - 2 # 0 /\ w - 1 # 0
    BY <1>2, <1>5, <1>6, <1>7
  <2>2. ScheduledAt(i) = <<"msb", 0>>
    BY <1>4, <2>1
  <2>3. KindAt(l) = "msb" /\ StepAt(l) = 0
    BY <1>7 DEF KindAt, StepAt
  <2>4. QED
    BY <1>3, <2>2, <2>3
<1>8. CASE l = C + 1
  <2>1. local = w - 2 /\ local # 0 /\ local # w - 1 /\ l # 1 /\ ~(l <= C)
    BY <1>2, <1>5, <1>6, <1>8
  <2>2. ScheduledAt(i) = <<"table16", 0>>
    BY <1>4, <2>1
  <2>3. KindAt(l) = "table16" /\ StepAt(l) = 0
    BY <1>8, <2>1 DEF KindAt, StepAt
  <2>4. QED
    BY <1>3, <2>2, <2>3
<1>9. CASE l = C + 2
  <2>1. local = w - 1 /\ local # 0 /\ local # w - 2 /\ l # 1 /\ l # C + 1 /\ ~(l <= C)
    BY <1>2, <1>5, <1>6, <1>9
  <2>2. ScheduledAt(i) = <<"lsb", 0>>
    BY <1>4, <2>1
  <2>3. KindAt(l) = "lsb" /\ StepAt(l) = 0
    BY <1>9, <2>1 DEF KindAt, StepAt
  <2>4. QED
    BY <1>3, <2>2, <2>3
<1>10. CASE l # 1 /\ l # C + 1 /\ l # C + 2
  <2>1. local # 0 /\ local # w - 2 /\ local # w - 1 /\ w - 2 - local = C + 1 - l /\ 1 < l /\ l <= C
    BY <1>1, <1>2, <1>5, <1>6, <1>10
  <2>2. ScheduledAt(i) = <<"step", C + 1 - l>>
    BY <1>4, <2>1
  <2>3. KindAt(l) = "step" /\ StepAt(l) = C + 1 - l
    BY <1>10, <2>1 DEF KindAt, StepAt
  <2>4. QED
    BY <1>3, <2>2, <2>3
<1>11. QED
  BY <1>7, <1>8, <1>9, <1>10

LEMMA EndsHold ==
    ASSUME ClaimBuilt
    PROVE  ContinuityHolds
<1> SUFFICES ASSUME NEW i \in DOMAIN AllChainRows
             PROVE  LET row == AllChainRows[i] IN
                    /\ FirstOfCert(i) => row.before = Infinity /\ row.after = row.operand
                    /\ LastOfCert(i) => row.after = tables[CertOfRow(i)].r3
  BY DEF ContinuityHolds
<1> DEFINE row == AllChainRows[i]
           c == CertOfRow(i)
           l == Local(i)
<1>1. /\ c \in Certs /\ Active(c) /\ row = chains[c][l] /\ RowKept(c, l)
      /\ FirstOfCert(i) <=> l = 1
      /\ LastOfCert(i) <=> l = C + 2
  BY RowPlaces
<1> HIDE DEF c, l, row
<1>2. ASSUME l = 1
      PROVE  row.before = Infinity /\ row.after = row.operand
  BY <1>1, <1>2 DEF RowKept, AfterAt
<1>3. ASSUME l = C + 2
      PROVE  row.after = tables[c].r3
  <2>1. chains[c][C + 2].after = tables[c].r3
    BY <1>1, BuiltFacts DEF ChainDone
  <2>2. QED
    BY <1>1, <1>3, <2>1
<1>4. QED
  BY <1>1, <1>2, <1>3 DEF c, row

LEMMA AccumulatorBalanced ==
    ASSUME ClaimBuilt
    PROVE  Balanced(AccumulatorEntries)
<1> DEFINE Inner == {j \in DOMAIN AllChainRows : ~LastOfCert(j)}
           Later == {j \in DOMAIN AllChainRows : ~FirstOfCert(j)}
           A(i) == <<i, CertOfRow(i), AllChainRows[i].after>>
           B(i) == <<i - 1, CertOfRow(i), AllChainRows[i].before>>
           Ts == {A(i) : i \in Inner}
           Us == {B(i) : i \in Later}
<1>1. ASSUME NEW i \in Later
      PROVE  i - 1 \in Inner /\ B(i) = A(i - 1)
  <2>1. /\ i \in DOMAIN AllChainRows /\ i - 1 \in DOMAIN AllChainRows
        /\ CertOfRow(i - 1) = CertOfRow(i) /\ Local(i - 1) = Local(i) - 1
        /\ Local(i) \in 1 .. C + 2 /\ RowKept(CertOfRow(i), Local(i)) /\ Local(i) # 1
        /\ AllChainRows[i] = chains[CertOfRow(i)][Local(i)]
    BY RowPlaces
  <2> DEFINE j == i - 1
  <2>2. j \in DOMAIN AllChainRows /\ AllChainRows[j] = chains[CertOfRow(j)][Local(j)]
        /\ (LastOfCert(j) <=> Local(j) = C + 2)
    <3>1. j \in DOMAIN AllChainRows
      BY <2>1
    <3> HIDE DEF j
    <3>2. QED
      BY <3>1, RowPlaces
  <2>3. Local(j) # C + 2
    BY <2>1, ChunksPositive
  <2>4. AllChainRows[i].before = chains[CertOfRow(i)][Local(i) - 1].after
    BY <2>1 DEF RowKept
  <2>5. AllChainRows[j].after = chains[CertOfRow(i)][Local(i) - 1].after
    BY <2>1, <2>2
  <2>6. QED
    BY <2>1, <2>2, <2>3, <2>4, <2>5
<1>2. ASSUME NEW i \in Inner
      PROVE  i + 1 \in Later /\ (i + 1) - 1 = i
  <2>1. /\ i \in DOMAIN AllChainRows /\ i + 1 \in DOMAIN AllChainRows
        /\ Local(i + 1) = Local(i) + 1 /\ Local(i) \in 1 .. C + 2
    BY RowPlaces
  <2> DEFINE j == i + 1
  <2>2. FirstOfCert(j) <=> Local(j) = 1
    <3>1. j \in DOMAIN AllChainRows
      BY <2>1
    <3> HIDE DEF j
    <3>2. QED
      BY <3>1, RowPlaces
  <2>3. Local(j) # 1
    BY <2>1
  <2>4. i \in Int
    BY <2>1, ChainLengths, ChunksPositive
  <2>5. QED
    BY <2>1, <2>2, <2>3, <2>4
<1>3. AccumulatorEntries = {Provide("after", t) : t \in Ts} \cup {Use("before", t) : t \in Us}
  BY DEF AccumulatorEntries
<1> HIDE DEF Inner, Later, A, B
<1>4. Us = Ts
  <2>1. Us \subseteq Ts
    BY <1>1
  <2>2. ASSUME NEW i \in Inner
        PROVE  A(i) \in Us
    <3> DEFINE j == i + 1
    <3>1. j \in Later /\ j - 1 = i
      BY <1>2
    <3> HIDE DEF j
    <3>2. B(j) = A(i)
      BY <1>1, <3>1
    <3>3. QED
      BY <3>1, <3>2
  <2>3. QED
    BY <2>1, <2>2
<1>5. AccumulatorEntries = {Provide("after", t) : t \in Ts} \cup {Use("before", t) : t \in Ts}
  BY <1>3, <1>4
<1> HIDE DEF Ts, Us
<1>6. QED
  BY <1>5, MatchedBalanced

OperationLength(c) == IF Active(c) THEN 3 * C + 1 ELSE 0

(* The operations of the first rows of both chains. *)
OperationsOf(n) ==
    IF n = 0 THEN 0
    ELSE (IF CertOfRow(n) = 1 THEN 0 ELSE OperationLength(1)) + OperationsIn(Local(n))

LEMMA Widths ==
    ASSUME ClaimBuilt, NEW i \in DOMAIN AllChainRows
    PROVE  /\ OperationsOf(i) \in Int
           /\ OperationsOf(i) = OperationsOf(i - 1) + WidthOf(AllChainRows[i])
           /\ Local(i) # 1 => OperationsOf(i - 1)
                                = (IF CertOfRow(i) = 1 THEN 0 ELSE OperationLength(1))
                                  + OperationsBefore(Local(i))
<1> DEFINE c == CertOfRow(i)
           l == Local(i)
           m == ChainLength(1)
           o == OperationLength(1)
           base == IF c = 1 THEN 0 ELSE o
           width == WidthOf(AllChainRows[i])
<1>1. /\ c \in Certs /\ Active(c) /\ l \in 1 .. C + 2 /\ RowKept(c, l)
      /\ AllChainRows[i] = chains[c][l]
      /\ i = l + (IF c = 1 THEN 0 ELSE m)
      /\ FirstOfCert(i) <=> l = 1
      /\ ~FirstOfCert(i) => CertOfRow(i - 1) = c /\ Local(i - 1) = l - 1 /\ i - 1 \in DOMAIN AllChainRows
  BY RowPlaces
<1>2. /\ m \in {0, C + 2} /\ C \in Nat /\ C # 0 /\ Len(chains[1]) = m
      /\ (m = 0 <=> ~Active(1)) /\ DOMAIN AllChainRows = 1 .. m + ChainLength(2)
      /\ ChainLength(2) \in {0, C + 2}
  BY ChainLengths, ChunksPositive DEF ChainLength, Certs
<1>3. o = IF m = 0 THEN 0 ELSE 3 * C + 1
  BY <1>2 DEF OperationLength
<1>4. i # 0 /\ i \in Nat /\ OperationsOf(i) = base + OperationsIn(l)
  BY <1>2 DEF OperationsOf
<1>5. width = IF l = 1 THEN 0 ELSE IF l = C + 2 THEN 1 ELSE 3
  <2> DEFINE kind == AllChainRows[i].kind
  <2>1. kind = KindAt(l)
    BY <1>1 DEF RowKept
  <2>2. width = CASE kind = "msb" -> 0 [] kind = "lsb" -> 1 [] OTHER -> 3
    BY DEF WidthOf
  <2>3. KindAt(l) = IF l = 1 THEN "msb" ELSE IF l = C + 1 THEN "table16"
                    ELSE IF l = C + 2 THEN "lsb" ELSE "step"
    BY DEF KindAt
  <2> HIDE DEF kind, width, l, c, m
  <2>4. l \in Int /\ C + 2 # 1 /\ C + 1 # C + 2
    BY <1>1, <1>2
  <2>5. CASE l = 1
    BY <2>1, <2>2, <2>3, <2>5
  <2>6. CASE l = C + 2
    <3>1. kind = "lsb" /\ l # 1
      BY <2>1, <2>3, <2>4, <2>6
    <3>2. QED
      BY <2>2, <2>6, <3>1
  <2>7. CASE l # 1 /\ l # C + 2
    <3>1. kind \in {"table16", "step"}
      BY <2>1, <2>3, <2>7
    <3>2. QED
      BY <2>2, <2>7, <3>1
  <2>8. QED
    BY <2>5, <2>6, <2>7
<1>6. \A n : OperationsIn(n) = IF n = C + 2 THEN 3 * C + 1 ELSE 3 * (n - 1)
  BY DEF OperationsIn
<1>7. OperationsBefore(l) = IF l = 1 THEN 0 ELSE 3 * (l - 2)
  BY DEF OperationsBefore
<1> HIDE DEF c, l, m, o, width
<1>8. l \in Nat /\ l >= 1 /\ l <= C + 2 /\ o \in Nat /\ base \in Nat
  BY <1>1, <1>2, <1>3
<1>9. l # 1 => OperationsOf(i - 1) = base + OperationsIn(l - 1)
  <2>1. SUFFICES ASSUME l # 1 PROVE OperationsOf(i - 1) = base + OperationsIn(l - 1)
    OBVIOUS
  <2>2. i - 1 # 0 /\ CertOfRow(i - 1) = c /\ Local(i - 1) = l - 1
    BY <1>1, <1>2, <2>1
  <2>3. QED
    BY <2>2 DEF OperationsOf, o
<1>10. l = 1 => OperationsOf(i - 1) = base
  <2>1. CASE c = 1 \/ m = 0
    <3>1. SUFFICES ASSUME l = 1 PROVE OperationsOf(i - 1) = base
      OBVIOUS
    <3>2. i - 1 = 0 /\ base = 0
      BY <1>1, <1>3, <2>1, <3>1
    <3>3. QED
      BY <3>2 DEF OperationsOf
  <2>2. CASE c # 1 /\ m # 0
    <3>1. SUFFICES ASSUME l = 1 PROVE OperationsOf(i - 1) = base
      OBVIOUS
    <3>2. i - 1 = C + 2 /\ m = C + 2 /\ base = 3 * C + 1
      BY <1>1, <1>2, <1>3, <2>2, <3>1
    <3>3. CertOfRow(i - 1) = 1 /\ Local(i - 1) = C + 2
      BY <1>2, <3>2 DEF CertOfRow, Local
    <3>4. i - 1 # 0 /\ OperationsOf(i - 1) = 0 + OperationsIn(C + 2)
      BY <1>2, <3>2, <3>3 DEF OperationsOf
    <3>5. OperationsIn(C + 2) = 3 * C + 1
      BY <1>6
    <3> DEFINE u == OperationsOf(i - 1)
               v == OperationsIn(C + 2)
    <3>6. u = 0 + v /\ v = 3 * C + 1 /\ base = 3 * C + 1
      BY <3>2, <3>4, <3>5
    <3> HIDE DEF u, v, base
    <3>7. u = base
      BY <1>2, <3>6
    <3>8. QED
      BY <3>7 DEF u
  <2>3. QED
    BY <2>1, <2>2
<1>11. OperationsIn(l) \in Int /\ OperationsIn(1) = 0
  BY <1>2, <1>6, <1>8
<1>12. OperationsOf(i) = OperationsOf(i - 1) + width
  <2>1. CASE l = 1
    BY <1>4, <1>5, <1>8, <1>10, <1>11, <2>1
  <2>2. CASE l = C + 2
    <3>1. OperationsIn(l) = 3 * C + 1 /\ OperationsIn(l - 1) = 3 * (l - 1 - 1) /\ width = 1 /\ l # 1
      BY <1>2, <1>5, <1>6, <1>8, <2>2
    <3>2. QED
      BY <1>2, <1>4, <1>8, <1>9, <2>2, <3>1
  <2>3. CASE l # 1 /\ l # C + 2
    <3>1. OperationsIn(l) = 3 * (l - 1) /\ OperationsIn(l - 1) = 3 * (l - 1 - 1) /\ width = 3
      BY <1>2, <1>5, <1>6, <1>8, <2>3
    <3>2. QED
      BY <1>2, <1>4, <1>8, <1>9, <2>3, <3>1
  <2>4. QED
    BY <2>1, <2>2, <2>3
<1>13. l # 1 => OperationsOf(i - 1) = base + OperationsBefore(l)
  <2>1. l # 1 => OperationsIn(l - 1) = 3 * (l - 2)
    BY <1>2, <1>6, <1>8
  <2>2. QED
    BY <1>7, <1>9, <2>1
<1>14. OperationsOf(i) \in Int
  BY <1>4, <1>8, <1>11
<1>15. QED
  BY <1>12, <1>13, <1>14 DEF c, l, o, width

LEMMA StartsAt ==
    ASSUME ClaimBuilt, NEW i \in DOMAIN AllChainRows
    PROVE  StartOf(i) = Len(TablePart) + OperationsOf(i - 1)
<1> DEFINE L == Len(TablePart)
           J == 0 .. i - 1
           Is(f) == f = [j \in J |-> IF j = 0 THEN L ELSE f[j - 1] + WidthOf(AllChainRows[j])]
           g == [j \in J |-> L + OperationsOf(j)]
           f == CHOOSE f : Is(f)
<1>1. L \in Nat
  <2>1. Sequence(TableRowsOf(1)) /\ Sequence(TableRowsOf(2))
    <3>1. \A c \in Certs : Sequence(TableRowsOf(c))
      <4>1. Sequence(<<>>)
        BY Few
      <4>2. QED
        BY <4>1, TableRowsNow
    <3>2. QED
      BY <3>1 DEF Certs
  <2>2. Len(TableRowsOf(1) \o TableRowsOf(2)) \in Nat
    <3> DEFINE s == TableRowsOf(1)
               t == TableRowsOf(2)
    <3>1. Sequence(s) /\ Sequence(t)
      BY <2>1
    <3> HIDE DEF s, t
    <3>2. Len(s \o t) = Len(s) + Len(t) /\ Len(s) \in Nat /\ Len(t) \in Nat
      BY <3>1, Joined
    <3>3. Len(s \o t) \in Nat
      BY <3>2
    <3>4. QED
      BY <3>3 DEF s, t
  <2>3. QED
    BY <2>2 DEF TablePart
<1>2. i \in Nat /\ i >= 1 /\ \A j \in 1 .. i - 1 : j \in DOMAIN AllChainRows
  BY ChainLengths, ChunksPositive
<1>3. StartOf(i) = f[i - 1]
  BY DEF StartOf
<1> HIDE DEF L
<1>4. OperationsOf(0) = 0
  BY DEF OperationsOf
<1>5. ASSUME NEW j \in J
      PROVE  g[j] = IF j = 0 THEN L ELSE g[j - 1] + WidthOf(AllChainRows[j])
  <2>1. CASE j = 0
    BY <1>1, <1>4, <2>1
  <2>2. CASE j # 0
    <3>1. j \in 1 .. i - 1 /\ j - 1 \in J /\ j \in Nat
      BY <1>2, <2>2
    <3>2. j \in DOMAIN AllChainRows
      BY <1>2, <3>1
    <3> DEFINE a == OperationsOf(j)
               b == OperationsOf(j - 1)
               w == WidthOf(AllChainRows[j])
    <3>3. a = b + w /\ g[j] = L + a /\ g[j - 1] = L + b
      BY <3>1, <3>2, Widths
    <3>4. b \in Int /\ w \in Int
      <4>1. b \in Int
        <5>1. CASE j = 1
          <6>1. j - 1 = 0
            BY <5>1
          <6>2. QED
            BY <1>4, <6>1
        <5>2. CASE j # 1
          <6>1. j - 1 \in DOMAIN AllChainRows
            BY <1>2, <3>1, <5>2
          <6> DEFINE k == j - 1
          <6>2. k \in DOMAIN AllChainRows
            BY <6>1
          <6> HIDE DEF k
          <6>3. OperationsOf(k) \in Int
            BY <6>2, Widths
          <6>4. QED
            BY <6>3 DEF k
        <5>3. QED
          BY <5>1, <5>2
      <4>2. w \in Int
        BY DEF WidthOf
      <4>3. QED
        BY <4>1, <4>2
    <3> HIDE DEF a, b, w, g
    <3>5. g[j] = g[j - 1] + w
      BY <1>1, <3>3, <3>4
    <3>6. QED
      BY <2>2, <3>5 DEF w
  <2>3. QED
    BY <2>1, <2>2
<1>6. Is(g)
  <2> DEFINE h == [j \in J |-> IF j = 0 THEN L ELSE g[j - 1] + WidthOf(AllChainRows[j])]
  <2>1. \A j \in J : g[j] = h[j]
    BY <1>5
  <2>2. g = h
    BY <2>1
  <2>3. QED
    BY <2>2
<1>7. Is(f)
  <2> HIDE DEF Is, g
  <2>1. QED
    BY <1>6
<1>8. ASSUME NEW j \in J
      PROVE  f[j] = IF j = 0 THEN L ELSE f[j - 1] + WidthOf(AllChainRows[j])
  <2> HIDE DEF f
  <2> DEFINE h == [k \in J |-> IF k = 0 THEN L ELSE f[k - 1] + WidthOf(AllChainRows[k])]
  <2>1. f = h
    BY <1>7
  <2>2. h[j] = IF j = 0 THEN L ELSE f[j - 1] + WidthOf(AllChainRows[j])
    OBVIOUS
  <2>3. QED
    BY <2>1, <2>2
<1> HIDE DEF f, Is, g
<1> DEFINE Bad == {j \in J : f[j] # g[j]}
<1>9. ASSUME Bad # {}
      PROVE  FALSE
  <2>1. Bad \in SUBSET Nat
    BY <1>2
  <2>2. PICK j \in Bad : \A k \in Bad : ~(k < j)
    <3> HIDE DEF Bad
    <3>1. QED
      BY <1>9, <2>1, LeastElement
  <2>3. j \in J /\ f[j] # g[j] /\ j \in Nat
    BY <2>1, <2>2
  <2>4. j # 0
    BY <1>5, <1>8, <2>3
  <2>5. j - 1 \in J /\ j - 1 < j
    BY <1>2, <2>3, <2>4
  <2>6. f[j - 1] = g[j - 1]
    BY <2>2, <2>5
  <2>7. f[j] = g[j]
    BY <1>5, <1>8, <2>3, <2>4, <2>6
  <2>8. QED
    BY <2>3, <2>7
<1>10. f[i - 1] = g[i - 1]
  <2>1. i - 1 \in J
    BY <1>2
  <2>2. QED
    BY <1>9, <2>1
<1>11. g[i - 1] = L + OperationsOf(i - 1)
  <2>1. i - 1 \in J
    BY <1>2
  <2>2. QED
    BY <2>1 DEF g
<1>12. QED
  BY <1>3, <1>10, <1>11 DEF L

LEMMA OperationLengths ==
    ASSUME ClaimBuilt
    PROVE  /\ \A c \in Certs : Sequence(prims[c]) /\ Len(prims[c]) = OperationLength(c)
                               /\ prims[c] \in Seq(Rows)
           /\ Len(prims[1]) = OperationLength(1) /\ Len(prims[2]) = OperationLength(2)
           /\ OperationLength(1) \in {0, 3 * C + 1} /\ OperationLength(2) \in {0, 3 * C + 1}
           /\ Sequence(prims[1] \o prims[2])
           /\ Len(prims[1] \o prims[2]) = OperationLength(1) + OperationLength(2)
           /\ \A n \in 1 .. OperationLength(1) + OperationLength(2) :
                 (prims[1] \o prims[2])[n]
                    = IF n <= OperationLength(1) THEN prims[1][n]
                      ELSE prims[2][n - OperationLength(1)]
<1>1. ASSUME NEW c \in Certs
      PROVE  Sequence(prims[c]) /\ Len(prims[c]) = OperationLength(c) /\ prims[c] \in Seq(Rows)
  <2>1. prims[c] \in Seq(Rows)
    BY BuiltFacts DEF RowInv, RowsMade
  <2>2. CASE Active(c)
    <3>1. Len(prims[c]) = OperationsIn(C + 2)
      BY <2>2, BuiltFacts DEF ChainDone, Walked
    <3>2. OperationsIn(C + 2) = 3 * C + 1
      BY DEF OperationsIn
    <3>3. QED
      BY <2>1, <2>2, <3>1, <3>2 DEF Sequence, OperationLength
  <2>3. CASE ~Active(c)
    <3>1. prims[c] = <<>>
      BY <2>3, BuiltFacts, KindRows
    <3>2. Sequence(<<>>) /\ Len(<<>>) = 0
      BY Few
    <3>3. QED
      BY <2>1, <2>3, <3>1, <3>2 DEF OperationLength
  <2>4. QED
    BY <2>2, <2>3
<1> DEFINE s == prims[1]
           t == prims[2]
<1>2. /\ Sequence(s) /\ Len(s) = OperationLength(1) /\ Sequence(t) /\ Len(t) = OperationLength(2)
  BY <1>1 DEF Certs
<1>3. OperationLength(1) \in {0, 3 * C + 1} /\ OperationLength(2) \in {0, 3 * C + 1}
  BY DEF OperationLength
<1>4. /\ Sequence(s \o t) /\ Len(s \o t) = Len(s) + Len(t)
      /\ \A i \in 1 .. Len(s) + Len(t) : (s \o t)[i] = IF i <= Len(s) THEN s[i] ELSE t[i - Len(s)]
  <2> HIDE DEF s, t
  <2>1. QED
    BY <1>2, Joined
<1>5. /\ Sequence(s \o t) /\ Len(s \o t) = OperationLength(1) + OperationLength(2)
      /\ \A i \in 1 .. OperationLength(1) + OperationLength(2) :
            (s \o t)[i] = IF i <= OperationLength(1) THEN s[i] ELSE t[i - OperationLength(1)]
  <2> HIDE DEF s, t
  <2>1. QED
    BY <1>2, <1>4
<1>6. QED
  BY <1>1, <1>2, <1>3, <1>5

(* What a row of a chain stands for, as the expansion computes it. *)
LEMMA RowExpands ==
    ASSUME ClaimBuilt, NEW i \in DOMAIN AllChainRows
    PROVE  /\ Local(i) = 1 => ExpandedRows(AllChainRows[i]) = <<>>
           /\ Local(i) # 1 => ExpandedRows(AllChainRows[i])
                                = OperationsAt(Local(i), AllChainRows[i].before, AllChainRows[i].operand)
<1> DEFINE row == AllChainRows[i]
           l == Local(i)
           before == row.before
           operand == row.operand
           after == row.after
           twice == AddPoints(before, before)
           kind == row.kind
           a == <<Row("Chain", "add", before, operand, after)>>
           b == <<DoubleRow("Chain", before), DoubleRow("Chain", twice),
                  Row("Chain", "add", AddPoints(twice, twice), operand, after)>>
<1>1. /\ l \in 1 .. C + 2 /\ RowKept(CertOfRow(i), l) /\ row = chains[CertOfRow(i)][l]
  BY RowPlaces
<1>2. kind = KindAt(l) /\ after = AfterAt(l, before, operand)
  BY <1>1 DEF RowKept
<1>3. ExpandedRows(row) = CASE kind = "msb" -> <<>> [] kind = "lsb" -> a [] OTHER -> b
  BY DEF ExpandedRows
<1>4. KindAt(l) = IF l = 1 THEN "msb" ELSE IF l = C + 1 THEN "table16"
                  ELSE IF l = C + 2 THEN "lsb" ELSE "step"
  BY DEF KindAt
<1>5. C + 2 # 1 /\ C + 1 # C + 2
  BY ChunksPositive
<1>6. l = C + 2 => after = AddPoints(before, operand)
  BY <1>2, <1>5 DEF AfterAt
<1>7. l # 1 /\ l # C + 2 => after = AddPoints(FourTimes(before), operand)
  BY <1>2 DEF AfterAt
<1>8. l = C + 2 => OperationsAt(l, before, operand) = a
  BY <1>6 DEF OperationsAt, AddRow
<1>9. l # 1 /\ l # C + 2 => OperationsAt(l, before, operand) = b
  BY <1>7 DEF OperationsAt, StepRows, AddRow, FourTimes
<1> HIDE DEF a, b, kind, l, row
<1>10. l = 1 => ExpandedRows(row) = <<>>
  BY <1>2, <1>3, <1>4
<1>11. l = C + 2 => ExpandedRows(row) = a
  <2>1. SUFFICES ASSUME l = C + 2 PROVE ExpandedRows(row) = a
    OBVIOUS
  <2>2. kind = "lsb"
    BY <1>2, <1>4, <1>5, <2>1
  <2>3. QED
    BY <1>3, <2>2
<1>12. l # 1 /\ l # C + 2 => ExpandedRows(row) = b
  <2>1. SUFFICES ASSUME l # 1, l # C + 2 PROVE ExpandedRows(row) = b
    OBVIOUS
  <2>2. kind \in {"table16", "step"}
    BY <1>2, <1>4, <2>1
  <2>3. QED
    BY <1>3, <2>2
<1>13. QED
  BY <1>8, <1>9, <1>10, <1>11, <1>12 DEF row, l

(* An operation of a row among those of both chains. *)
LEMMA ExpandedPlace ==
    ASSUME ClaimBuilt, NEW i \in DOMAIN AllChainRows,
           NEW k \in DOMAIN ExpandedRows(AllChainRows[i])
    PROVE  LET n == OperationsOf(i - 1) + k IN
           /\ k \in Nat /\ OperationsOf(i - 1) \in Int
           /\ n \in 1 .. OperationLength(1) + OperationLength(2)
           /\ (IF n <= OperationLength(1) THEN 1 ELSE 2) = CertOfRow(i)
           /\ (prims[1] \o prims[2])[n] = ExpandedRows(AllChainRows[i])[k]
<1> DEFINE c == CertOfRow(i)
           l == Local(i)
           row == AllChainRows[i]
           rows == ExpandedRows(row)
           o == OperationLength(1)
           o2 == OperationLength(2)
           base == IF c = 1 THEN 0 ELSE o
           m == OperationsOf(i - 1)
           b == OperationsBefore(l)
<1>1. /\ c \in Certs /\ Active(c) /\ l \in 1 .. C + 2 /\ RowKept(c, l) /\ row = chains[c][l]
  BY RowPlaces
<1>2. l # 1
  <2>1. CASE l = 1
    <3>1. rows = <<>>
      BY <2>1, RowExpands
    <3>2. DOMAIN <<>> = {}
      OBVIOUS
    <3>3. QED
      BY <3>1, <3>2
  <2>2. QED
    BY <2>1
<1>3. rows = OperationsAt(l, row.before, row.operand)
  BY <1>2, RowExpands
<1>4. prims[c][b + k] = rows[k]
  BY <1>1, <1>2, <1>3 DEF RowKept
<1>5. k \in Nat /\ 1 <= k /\ b + k \in 1 .. OperationsIn(C + 2)
  <2> DEFINE n == C + 2
             x == row.before
             y == row.operand
  <2>1. n \in 1 .. C + 2 /\ l \in 2 .. n /\ k \in DOMAIN OperationsAt(l, x, y)
    BY <1>1, <1>2, <1>3, ChunksPositive
  <2> HIDE DEF n, l, x, y, b
  <2>2. k \in Nat /\ 1 <= k /\ OperationsBefore(l) + k \in 1 .. OperationsIn(n)
    BY <2>1, OperationPlaces
  <2>3. QED
    BY <2>2 DEF n, b
<1>6. OperationsIn(C + 2) = 3 * C + 1
  BY DEF OperationsIn
<1>7. m = base + b
  BY <1>2, Widths
<1>8. b \in Int /\ C \in Nat
  BY <1>1, ChunksPositive DEF OperationsBefore
<1>9. /\ o \in {0, 3 * C + 1} /\ o2 \in {0, 3 * C + 1}
      /\ \A n \in 1 .. o + o2 : (prims[1] \o prims[2])[n] = IF n <= o THEN prims[1][n] ELSE prims[2][n - o]
  BY OperationLengths
<1>10. (c = 1 => o = 3 * C + 1) /\ (c # 1 => c = 2 /\ o2 = 3 * C + 1)
  BY <1>1 DEF OperationLength, Certs
<1> HIDE DEF c, l, row, rows, o, o2, m, b
<1>11. CASE c = 1
  <2> DEFINE n == m + k
  <2>1. n = b + k /\ n \in 1 .. o + o2 /\ n <= o
    BY <1>5, <1>6, <1>7, <1>8, <1>9, <1>10, <1>11
  <2>2. m \in Int
    BY <1>7, <1>8, <1>11
  <2> HIDE DEF n
  <2>3. (prims[1] \o prims[2])[n] = rows[k]
    BY <1>4, <1>9, <1>11, <2>1
  <2>4. QED
    BY <1>5, <1>11, <2>1, <2>2, <2>3 DEF n, m, o, o2, c, rows, row
<1>12. CASE c # 1
  <2> DEFINE n == m + k
  <2>1. n = o + (b + k) /\ n \in 1 .. o + o2 /\ ~(n <= o) /\ n - o = b + k
    BY <1>5, <1>6, <1>7, <1>8, <1>9, <1>10, <1>12
  <2>2. m \in Int
    BY <1>7, <1>8, <1>9, <1>12
  <2> HIDE DEF n
  <2>3. (prims[1] \o prims[2])[n] = rows[k]
    BY <1>4, <1>9, <1>10, <1>12, <2>1
  <2>4. QED
    BY <1>5, <1>10, <1>12, <2>1, <2>2, <2>3 DEF n, m, o, o2, c, rows, row
<1>13. QED
  BY <1>11, <1>12

(* Every operation of the chains is one of a row. *)
LEMMA EveryOperation ==
    ASSUME ClaimBuilt, NEW n \in 1 .. OperationLength(1) + OperationLength(2)
    PROVE  \E i \in DOMAIN AllChainRows :
              \E k \in DOMAIN ExpandedRows(AllChainRows[i]) : n = OperationsOf(i - 1) + k
<1> DEFINE o == OperationLength(1)
           m == ChainLength(1)
           c == IF n <= o THEN 1 ELSE 2
           p == IF n <= o THEN n ELSE n - o
           d == (p - 1) \div 3
           l == IF p = 3 * C + 1 THEN C + 2 ELSE d + 2
           i == l + (IF c = 1 THEN 0 ELSE m)
           k == IF p = 3 * C + 1 THEN 1 ELSE p - 3 * d
<1>1. /\ o \in {0, 3 * C + 1} /\ OperationLength(2) \in {0, 3 * C + 1} /\ C \in Nat /\ C # 0
  BY OperationLengths, ChunksPositive
<1>2. /\ m = (IF o = 0 THEN 0 ELSE C + 2)
      /\ ChainLength(2) = (IF OperationLength(2) = 0 THEN 0 ELSE C + 2)
  BY <1>1 DEF OperationLength, ChainLength
<1>3. /\ n \in Int /\ p \in 1 .. 3 * C + 1 /\ (c = 1 => o = 3 * C + 1 /\ n = p)
      /\ (c = 2 => OperationLength(2) = 3 * C + 1 /\ n = o + p) /\ c \in {1, 2}
  BY <1>1
<1> HIDE DEF o, m, p
<1>4. d \in Int /\ 3 * d <= p - 1 /\ p - 1 < 3 * d + 3
  <2> DEFINE a == p - 1
  <2>1. a \in Int /\ a = p - 1
    BY <1>3
  <2> HIDE DEF a
  <2>2. a \div 3 \in Int /\ a % 3 \in Int /\ a = 3 * (a \div 3) + (a % 3) /\ 0 <= a % 3 /\ a % 3 < 3
    BY <2>1, Z3
  <2> DEFINE q == a \div 3
             r == a % 3
  <2>3. q \in Int /\ r \in Int /\ a = 3 * q + r /\ 0 <= r /\ r < 3
    BY <2>2
  <2> HIDE DEF q, r
  <2>4. 3 * q <= a /\ a < 3 * q + 3
    BY <2>1, <2>3
  <2>5. d = q
    BY <2>1 DEF q
  <2> HIDE DEF d
  <2>6. QED
    BY <2>1, <2>3, <2>4, <2>5
<1> HIDE DEF d
<1>5. l \in 2 .. C + 2 /\ k \in 1 .. (IF l = C + 2 THEN 1 ELSE 3) /\ p = 3 * (l - 2) + k
  <2>1. CASE p = 3 * C + 1
    BY <1>1, <1>3, <2>1
  <2>2. CASE p # 3 * C + 1
    <3>1. p <= 3 * C /\ l = d + 2 /\ k = p - 3 * d
      BY <1>1, <1>3, <2>2
    <3>2. 0 <= d /\ d < C
      BY <1>1, <1>3, <1>4, <3>1
    <3> HIDE DEF l, k
    <3>3. QED
      BY <1>1, <1>3, <1>4, <3>1, <3>2
  <2>3. QED
    BY <2>1, <2>2
<1> HIDE DEF l, k, c
<1>6. /\ i \in 1 .. m + ChainLength(2) /\ CertOfRow(i) = c /\ Local(i) = l
  <2>1. Len(chains[1]) = m
    BY ChainLengths DEF Certs, m
  <2>2. CASE c = 1
    <3>1. i = l /\ l <= m /\ l \in Int /\ m \in Nat /\ ChainLength(2) \in Nat
      BY <1>1, <1>2, <1>3, <1>5, <2>2
    <3>2. QED
      BY <1>5, <2>1, <2>2, <3>1 DEF CertOfRow, Local
  <2>3. CASE c = 2
    <3>1. i = m + l /\ ~(i <= m) /\ l \in Int /\ m \in Nat /\ i - m = l /\ ChainLength(2) = C + 2
      BY <1>1, <1>2, <1>3, <1>5, <2>3
    <3>2. i \in 1 .. m + ChainLength(2)
      BY <1>1, <1>5, <3>1
    <3>3. CertOfRow(i) = 2 /\ Local(i) = i - m
      BY <2>1, <3>1 DEF CertOfRow, Local
    <3>4. QED
      BY <2>3, <3>1, <3>2, <3>3
  <2>4. QED
    BY <1>3, <2>2, <2>3
<1> HIDE DEF i
<1>7. i \in DOMAIN AllChainRows
  BY <1>6, ChainLengths DEF m
<1>8. OperationsOf(i - 1) = (IF c = 1 THEN 0 ELSE o) + 3 * (l - 2)
  <2>1. Local(i) # 1 /\ l # 1
    BY <1>5, <1>6
  <2>2. OperationsBefore(l) = 3 * (l - 2)
    BY <2>1 DEF OperationsBefore
  <2>3. QED
    BY <1>6, <1>7, <2>1, <2>2, Widths DEF o
<1>9. n = OperationsOf(i - 1) + k
  BY <1>1, <1>3, <1>5, <1>8
<1>10. k \in DOMAIN ExpandedRows(AllChainRows[i])
  <2> DEFINE x == AllChainRows[i].before
             y == AllChainRows[i].operand
             rows == OperationsAt(l, x, y)
  <2>1. ExpandedRows(AllChainRows[i]) = rows
    BY <1>5, <1>6, <1>7, RowExpands
  <2> HIDE DEF x, y
  <2>2. l \in Nat
    BY <1>1, <1>5
  <2>3. Sequence(rows) /\ Len(rows) = (IF l = C + 2 THEN 1 ELSE 3)
    BY <2>2, OperationsShape
  <2> HIDE DEF rows
  <2>4. DOMAIN rows = 1 .. Len(rows)
    BY <2>3, Numbered
  <2>5. QED
    BY <1>5, <2>1, <2>3, <2>4
<1>11. QED
  BY <1>7, <1>9, <1>10

LEMMA ExpansionBalanced ==
    ASSUME ClaimBuilt
    PROVE  Balanced(ExpansionEntries)
<1> DEFINE L == Len(TablePart)
           All == prims[1] \o prims[2]
           o == OperationLength(1)
           last == OperationLength(1) + OperationLength(2)
           X(i, k) == Primitive(StartOf(i) + k - 1, CertOfRow(i), ExpandedRows(AllChainRows[i])[k])
           Y(n) == Primitive(L + n - 1, IF n <= Len(prims[1]) THEN 1 ELSE 2, All[n])
           P(i) == {Provide("row", X(i, k)) : k \in DOMAIN ExpandedRows(AllChainRows[i])}
           Ts == {Y(n) : n \in 1 .. last}
           A == UNION {P(i) : i \in DOMAIN AllChainRows}
           B == {Use("operation", Y(n)) : n \in 1 .. Len(prims[1]) + Len(prims[2])}
<1>1. ExpansionEntries = A \cup B
  BY DEF ExpansionEntries
<1>2. Len(prims[1]) = o /\ Len(prims[1]) + Len(prims[2]) = last
  BY OperationLengths
<1>3. L \in Nat
  <2> DEFINE s == TableRowsOf(1)
             t == TableRowsOf(2)
  <2>1. Sequence(s) /\ Sequence(t)
    <3>1. \A c \in Certs : Sequence(TableRowsOf(c))
      <4>1. Sequence(<<>>)
        BY Few
      <4>2. QED
        BY <4>1, TableRowsNow
    <3>2. QED
      BY <3>1 DEF Certs
  <2> HIDE DEF s, t
  <2>2. Len(s \o t) = Len(s) + Len(t) /\ Len(s) \in Nat /\ Len(t) \in Nat
    BY <2>1, Joined
  <2>3. Len(s \o t) \in Nat
    BY <2>2
  <2>4. QED
    BY <2>3 DEF s, t, TablePart
<1>4. ASSUME NEW i \in DOMAIN AllChainRows, NEW k \in DOMAIN ExpandedRows(AllChainRows[i])
      PROVE  LET n == OperationsOf(i - 1) + k IN n \in 1 .. last /\ X(i, k) = Y(n)
  <2> DEFINE m == OperationsOf(i - 1)
             n == m + k
  <2>1. /\ k \in Nat /\ m \in Int /\ n \in 1 .. last
        /\ (IF n <= o THEN 1 ELSE 2) = CertOfRow(i) /\ All[n] = ExpandedRows(AllChainRows[i])[k]
    BY ExpandedPlace
  <2>2. StartOf(i) = L + m
    BY StartsAt
  <2>3. StartOf(i) + k - 1 = L + n - 1
    <3> HIDE DEF L, m
    <3>1. QED
      BY <1>3, <2>1, <2>2
  <2>4. (IF n <= Len(prims[1]) THEN 1 ELSE 2) = CertOfRow(i)
    BY <1>2, <2>1
  <2>5. Y(n) = Primitive(L + n - 1, CertOfRow(i), ExpandedRows(AllChainRows[i])[k])
    BY <2>1, <2>4
  <2>6. X(i, k) = Y(n)
    BY <2>3, <2>5
  <2>7. QED
    BY <2>1, <2>6
<1> HIDE DEF X, Y, L, All, o
<1>5. B = {Use("operation", t) : t \in Ts}
  BY <1>2
<1>6. A = {Provide("row", t) : t \in Ts}
  <2>1. A \subseteq {Provide("row", t) : t \in Ts}
    <3>1. ASSUME NEW i \in DOMAIN AllChainRows, NEW k \in DOMAIN ExpandedRows(AllChainRows[i])
          PROVE  X(i, k) \in Ts
      <4> DEFINE n == OperationsOf(i - 1) + k
      <4>1. n \in 1 .. last /\ X(i, k) = Y(n)
        BY <1>4
      <4> HIDE DEF n, last
      <4>2. QED
        BY <4>1
    <3> HIDE DEF Ts
    <3>2. QED
      BY <3>1
  <2>2. ASSUME NEW n \in 1 .. last
        PROVE  Provide("row", Y(n)) \in A
    <3>1. PICK i \in DOMAIN AllChainRows :
              \E k \in DOMAIN ExpandedRows(AllChainRows[i]) : n = OperationsOf(i - 1) + k
      BY EveryOperation
    <3>2. PICK k \in DOMAIN ExpandedRows(AllChainRows[i]) : n = OperationsOf(i - 1) + k
      BY <3>1
    <3>3. X(i, k) = Y(n)
      BY <1>4, <3>2
    <3>4. Provide("row", X(i, k)) \in P(i)
      OBVIOUS
    <3>5. P(i) \subseteq A
      OBVIOUS
    <3> HIDE DEF A, P
    <3>6. QED
      BY <3>3, <3>4, <3>5
  <2>3. QED
    BY <2>1, <2>2
<1>7. Balanced({Provide("row", t) : t \in Ts} \cup {Use("operation", t) : t \in Ts})
  <2> HIDE DEF Ts
  <2>1. QED
    BY MatchedBalanced
<1> DEFINE V == {Provide("row", t) : t \in Ts}
           U == {Use("operation", t) : t \in Ts}
<1>8. A = V /\ B = U /\ Balanced(V \cup U)
  BY <1>5, <1>6, <1>7
<1> HIDE DEF A, B, V, U
<1>9. QED
  BY <1>1, <1>8

-----------------------------------------------------------------------------
(* The multiplications.                                                    *)

Worked(row) == row.op \in {"double", "add"}

LEMMA TablePartRows ==
    /\ Sequence(TablePart) /\ Len(TablePart) \in Nat
    /\ DOMAIN TablePart = 1 .. Len(TablePart)
    /\ \A i \in DOMAIN TablePart : Worked(TablePart[i])
<1> DEFINE s == TableRowsOf(1)
           t == TableRowsOf(2)
<1>1. ASSUME NEW c \in Certs
      PROVE  /\ Sequence(TableRowsOf(c))
             /\ \A i \in 1 .. Len(TableRowsOf(c)) : Worked(TableRowsOf(c)[i])
  <2>1. CASE Active(c)
    <3>1. /\ Sequence(TableRowsOf(c)) /\ Len(TableRowsOf(c)) = 13 - Skip(c)
          /\ \A i \in 1 .. 13 - Skip(c) : /\ i + Skip(c) \in 1 .. 13
                                          /\ TableRowsOf(c)[i] = TableAt(tables[c], i + Skip(c))
      BY <2>1, TableRowsNow
    <3>2. ASSUME NEW i \in 1 .. Len(TableRowsOf(c))
          PROVE  Worked(TableRowsOf(c)[i])
      <4> DEFINE j == i + Skip(c)
                 tab == tables[c]
      <4>1. j \in 1 .. 13 /\ TableRowsOf(c)[i] = TableAt(tab, j)
        BY <3>1
      <4> HIDE DEF j, tab
      <4>2. QED
        BY <4>1, TableKinds DEF Worked
    <3>3. QED
      BY <3>1, <3>2
  <2>2. CASE ~Active(c)
    <3>1. TableRowsOf(c) = <<>>
      BY <2>2, TableRowsNow
    <3>2. Sequence(<<>>) /\ Len(<<>>) = 0
      BY Few
    <3>3. QED
      BY <3>1, <3>2
  <2>3. QED
    BY <2>1, <2>2
<1>2. /\ Sequence(s) /\ Sequence(t)
      /\ \A i \in 1 .. Len(s) : Worked(s[i])
      /\ \A i \in 1 .. Len(t) : Worked(t[i])
  <2>1. 1 \in Certs /\ 2 \in Certs
    BY DEF Certs
  <2>2. QED
    BY <1>1, <2>1
<1>3. TablePart = s \o t
  BY DEF TablePart
<1> HIDE DEF s, t
<1> DEFINE w == s \o t
<1>4. /\ Sequence(w) /\ Len(w) = Len(s) + Len(t) /\ Len(s) \in Nat /\ Len(t) \in Nat
      /\ \A i \in 1 .. Len(s) + Len(t) : w[i] = IF i <= Len(s) THEN s[i] ELSE t[i - Len(s)]
  BY <1>2, Joined
<1> HIDE DEF w
<1>5. Len(w) \in Nat /\ DOMAIN w = 1 .. Len(w)
  BY <1>4, Numbered
<1>6. ASSUME NEW i \in DOMAIN w
      PROVE  Worked(w[i])
  <2>1. i \in 1 .. Len(s) + Len(t)
    BY <1>4, <1>5
  <2>2. CASE i <= Len(s)
    <3>1. w[i] = s[i] /\ i \in 1 .. Len(s)
      BY <1>4, <2>1, <2>2
    <3>2. QED
      BY <1>2, <3>1
  <2>3. CASE ~(i <= Len(s))
    <3>1. w[i] = t[i - Len(s)] /\ i - Len(s) \in 1 .. Len(t)
      BY <1>4, <2>1, <2>3
    <3>2. QED
      BY <1>2, <3>1
  <2>4. QED
    BY <2>2, <2>3
<1>7. QED
  BY <1>3, <1>4, <1>5, <1>6 DEF w

LEMMA MulsMatched ==
    ASSUME ClaimBuilt
    PROVE  MulProviders = MulUses
<1> DEFINE s == TablePart
           t == prims[1] \o prims[2]
           L == Len(s)
           M == Len(t)
           second == IF SignBit(1) # SignBit(2) THEN Negate(Oriented[2]) ELSE Oriented[2]
           Ends(n, a, b) == {Muls(n, "final", a, b, final.x3), Muls(n + 1, "curve", input.d, input.d, 0)}
           Drawn(row) == row.op = "double" \/ row.rhs # Infinity
           Given == {MulsOfRow(i - 1, EcRows[i]) : i \in {j \in DOMAIN EcRows : RowHasMuls(EcRows[j])}}
           Front == {MulsOfRow(0 + i - 1, s[i]) : i \in {j \in DOMAIN s : Drawn(s[j])}}
           Back == {MulsOfRow(L + i - 1, t[i]) : i \in {j \in DOMAIN t : Drawn(t[j])}}
<1>1. /\ Sequence(s) /\ L \in Nat /\ DOMAIN s = 1 .. L /\ \A i \in DOMAIN s : Worked(s[i])
  BY TablePartRows
<1>2. /\ Sequence(t) /\ M \in Nat /\ DOMAIN t = 1 .. M /\ \A i \in DOMAIN t : Worked(t[i])
  <2>1. prims[1] \in Seq(Rows) /\ prims[2] \in Seq(Rows)
    BY OperationLengths DEF Certs
  <2>2. t \in Seq(Rows)
    BY <2>1, ConcatProperties
  <2> HIDE DEF t
  <2>3. M \in Nat /\ DOMAIN t = 1 .. M /\ Sequence(t)
    BY <2>2, LenProperties DEF Sequence
  <2>4. \A i \in 1 .. M : t[i] \in Rows
    BY <2>2, ElementOfSeq
  <2>5. QED
    BY <2>3, <2>4 DEF Rows, Worked
<1>3. EcRows = s \o t
  <2>1. EcRows = s \o prims[1] \o prims[2]
    BY DEF EcRows
  <2>2. PICK S : s \in Seq(S)
    BY <1>1 DEF Sequence
  <2>3. prims[1] \in Seq(Rows) /\ prims[2] \in Seq(Rows)
    BY OperationLengths DEF Certs
  <2> DEFINE V == S \cup Rows
             p == prims[1]
             q == prims[2]
  <2>4. s \in Seq(V) /\ p \in Seq(V) /\ q \in Seq(V)
    <3>1. S \subseteq V /\ Rows \subseteq V
      OBVIOUS
    <3> HIDE DEF V, s
    <3>2. QED
      BY <2>2, <2>3, <3>1, SeqMonotonic
  <2> HIDE DEF V, p, q, s
  <2>5. (s \o p) \o q = s \o (p \o q)
    BY <2>4, ConcatAssociative
  <2>6. QED
    BY <2>1, <2>5 DEF p, q
<1>4. /\ Len(EcRows) = L + M /\ DOMAIN EcRows = 1 .. L + M
      /\ \A i \in 1 .. L + M : EcRows[i] = IF i <= L THEN s[i] ELSE t[i - L]
  <2> HIDE DEF s, t
  <2> DEFINE w == s \o t
  <2>1. /\ Sequence(w) /\ Len(w) = L + M
        /\ \A i \in 1 .. L + M : w[i] = IF i <= L THEN s[i] ELSE t[i - L]
    BY <1>1, <1>2, Joined
  <2> HIDE DEF w
  <2>2. DOMAIN w = 1 .. Len(w)
    BY <2>1, Numbered
  <2>3. QED
    BY <1>3, <2>1, <2>2 DEF w
<1>5. \A row : Worked(row) => (RowHasMuls(row) <=> Drawn(row))
  BY DEF Worked, RowHasMuls
<1>6. Addends[1] = Oriented[1] /\ Addends[2] = second
  BY DEF Addends, Oriented, Certs
<1>7. MulProviders = Given \cup Ends(Len(EcRows), Addends[1], Addends[2])
  BY DEF MulProviders
<1>8. MulUses = (Front \cup Back) \cup Ends(L + M, Oriented[1], second)
  BY DEF MulUses, UsesOf
<1> HIDE DEF s, t, Ends, second, Drawn
<1> HIDE DEF L, M
<1>9. Given \subseteq Front \cup Back
  <2>1. ASSUME NEW i \in DOMAIN EcRows, RowHasMuls(EcRows[i])
        PROVE  MulsOfRow(i - 1, EcRows[i]) \in Front \cup Back
    <3>1. i \in 1 .. L + M /\ i \in Int
      BY <1>1, <1>2, <1>4
    <3>2. CASE i <= L
      <4>1. EcRows[i] = s[i] /\ i \in DOMAIN s /\ 0 + i - 1 = i - 1
        BY <1>1, <1>2, <1>4, <3>1, <3>2
      <4>2. Drawn(s[i])
        BY <1>1, <1>5, <2>1, <4>1
      <4>3. MulsOfRow(0 + i - 1, s[i]) \in Front
        BY <4>1, <4>2
      <4> HIDE DEF Front, Back
      <4>4. QED
        BY <4>1, <4>3
    <3>3. CASE ~(i <= L)
      <4> DEFINE j == i - L
      <4>1. EcRows[i] = t[j] /\ j \in DOMAIN t /\ L + j - 1 = i - 1
        BY <1>1, <1>2, <1>4, <3>1, <3>3
      <4> HIDE DEF j
      <4>2. Drawn(t[j])
        BY <1>2, <1>5, <2>1, <4>1
      <4>3. MulsOfRow(L + j - 1, t[j]) \in Back
        BY <4>1, <4>2
      <4> HIDE DEF Front, Back
      <4>4. QED
        BY <4>1, <4>3
    <3>4. QED
      BY <3>2, <3>3
  <2> HIDE DEF Front, Back
  <2>2. QED
    BY <2>1
<1>10. Front \subseteq Given
  <2>1. ASSUME NEW i \in DOMAIN s, Drawn(s[i])
        PROVE  MulsOfRow(0 + i - 1, s[i]) \in Given
    <3>1. i \in DOMAIN EcRows /\ EcRows[i] = s[i] /\ 0 + i - 1 = i - 1
      BY <1>1, <1>2, <1>4, <2>1
    <3>2. RowHasMuls(EcRows[i])
      BY <1>1, <1>5, <2>1, <3>1
    <3>3. MulsOfRow(i - 1, EcRows[i]) \in Given
      BY <3>1, <3>2
    <3> HIDE DEF Given
    <3>4. QED
      BY <3>1, <3>3
  <2> HIDE DEF Given
  <2>2. QED
    BY <2>1
<1>11. Back \subseteq Given
  <2>1. ASSUME NEW j \in DOMAIN t, Drawn(t[j])
        PROVE  MulsOfRow(L + j - 1, t[j]) \in Given
    <3> DEFINE i == L + j
    <3>1. i \in DOMAIN EcRows /\ EcRows[i] = t[j] /\ L + j - 1 = i - 1
      <4>1. i \in 1 .. L + M /\ ~(i <= L) /\ i - L = j /\ L + j - 1 = i - 1
        BY <1>1, <1>2
      <4> HIDE DEF i
      <4>2. QED
        BY <1>4, <4>1
    <3> HIDE DEF i
    <3>2. RowHasMuls(EcRows[i])
      BY <1>2, <1>5, <2>1, <3>1
    <3>3. MulsOfRow(i - 1, EcRows[i]) \in Given
      BY <3>1, <3>2
    <3> HIDE DEF Given
    <3>4. QED
      BY <3>1, <3>3
  <2> HIDE DEF Given
  <2>2. QED
    BY <2>1
<1> HIDE DEF Given, Front, Back
<1>12. Given = Front \cup Back
  BY <1>9, <1>10, <1>11
<1>13. QED
  BY <1>4, <1>6, <1>7, <1>8, <1>12

LEMMA MulBalanced ==
    ASSUME ClaimBuilt
    PROVE  Balanced(MulEntries)
<1> DEFINE T == MulProviders
<1>1. MulEntries = {Provide("mul", t) : t \in T} \cup {Use("row", t) : t \in T}
  BY MulsMatched DEF MulEntries
<1> HIDE DEF T
<1>2. QED
  BY <1>1, MatchedBalanced

-----------------------------------------------------------------------------
(* The cells of the prepared tables that hold the same point.              *)

LEMMA TwoMembers ==
    ASSUME NEW a, NEW b, a # b
    PROVE  IsFiniteSet({a, b}) /\ Cardinality({a, b}) = 2
<1>1. IsFiniteSet({a}) /\ Cardinality({a}) = 1 /\ b \notin {a}
  BY FS_Singleton
<1>2. IsFiniteSet({a} \cup {b}) /\ Cardinality({a} \cup {b}) = 2
  BY <1>1, FS_AddElement
<1>3. {a} \cup {b} = {a, b}
  OBVIOUS
<1>4. QED
  BY <1>2, <1>3

LEMMA ThreeMembers ==
    ASSUME NEW a, NEW b, NEW c, a # b, a # c, b # c
    PROVE  IsFiniteSet({a, b, c}) /\ Cardinality({a, b, c}) = 3
<1>1. IsFiniteSet({a, b}) /\ Cardinality({a, b}) = 2 /\ c \notin {a, b}
  BY TwoMembers
<1>2. IsFiniteSet({a, b} \cup {c}) /\ Cardinality({a, b} \cup {c}) = 3
  BY <1>1, FS_AddElement
<1>3. {a, b} \cup {c} = {a, b, c}
  OBVIOUS
<1>4. QED
  BY <1>2, <1>3

LEMMA FourMembers ==
    ASSUME NEW a, NEW b, NEW c, NEW d, a # b, a # c, a # d, b # c, b # d, c # d
    PROVE  IsFiniteSet({a, b, c, d}) /\ Cardinality({a, b, c, d}) = 4
<1>1. IsFiniteSet({a, b, c}) /\ Cardinality({a, b, c}) = 3 /\ d \notin {a, b, c}
  BY ThreeMembers
<1>2. IsFiniteSet({a, b, c} \cup {d}) /\ Cardinality({a, b, c} \cup {d}) = 4
  BY <1>1, FS_AddElement
<1>3. {a, b, c} \cup {d} = {a, b, c, d}
  OBVIOUS
<1>4. QED
  BY <1>2, <1>3

LEMMA OneMore ==
    ASSUME NEW S, IsFiniteSet(S), NEW x, x \notin S
    PROVE  IsFiniteSet(S \cup {x}) /\ Cardinality(S \cup {x}) = Cardinality(S) + 1
  BY FS_AddElement

(* As many users as the set that numbers them has members. *)
LEMMA AsManyUsers ==
    ASSUME NEW J, NEW f, IsFiniteSet(J), \A i, j \in J : f[i] = f[j] => i = j
    PROVE  IsFiniteSet({f[j] : j \in J}) /\ Cardinality({f[j] : j \in J}) = Cardinality(J)
<1> DEFINE U == {f[j] : j \in J}
           g == [j \in J |-> f[j]]
<1>1. g \in Bijection(J, U)
  BY DEF Bijection, Injection, Surjection, IsInjective
<1>2. ExistsBijection(J, U)
  BY <1>1 DEF ExistsBijection
<1> HIDE DEF U
<1>3. IsFiniteSet(U) /\ Cardinality(U) = Cardinality(J)
  BY <1>2, FS_Bijection
<1>4. QED
  BY <1>3 DEF U

LEMMA GroupProvided ==
    ASSUME NEW E, NEW t, NEW p, NEW U, IsFiniteSet(U),
           {e \in E : e.t = t} = {p} \cup U, \A u \in U : u.m = 1, p.m = -Cardinality(U)
    PROVE  Provided(E, t)
<1>1. Cardinality(U) \in Nat
  BY FS_CardinalityType
<1>2. p \notin U
  BY <1>1
<1>3. QED
  BY <1>2 DEF Provided

PinIn(S, kind, role, cell, mult) ==
    \E p \in S : p.kind = kind /\ p.role = role /\ p.cell = cell /\ p.mult = mult

LEMMA PinFound ==
    \A role, cell, mult, kinds, k, r, c, m :
        PinIn(Pin(role, cell, mult, kinds), k, r, c, m)
           <=> r = role /\ c = cell /\ m = mult /\ k \in kinds
<1>1. ASSUME NEW role, NEW cell, NEW mult, NEW kinds, NEW k, NEW r, NEW c, NEW m
      PROVE  PinIn(Pin(role, cell, mult, kinds), k, r, c, m)
                <=> r = role /\ c = cell /\ m = mult /\ k \in kinds
  <2>1. k \in kinds => [role |-> role, cell |-> cell, mult |-> mult, kind |-> k]
                         \in Pin(role, cell, mult, kinds)
    BY DEF Pin
  <2>2. QED
    BY <2>1 DEF Pin, PinIn
<1>2. QED
  BY <1>1

(* The schedule by place: who takes part in a role, from which cell, how often. *)
PinnedAt(j, role, cell, mult) ==
    \/ role = "P" /\ cell = "lhs" /\ mult = 1 /\ j \in {6, 7, 10, 11, 1}
    \/ role = "P" /\ cell = "rhs" /\ mult = 1 /\ j = 2
    \/ role = "P3" /\ cell = "out" /\ mult = -4 /\ j = 2
    \/ role = "P3" /\ cell = "three" /\ mult = -4 /\ j = 3
    \/ role = "R" /\ cell = "lhs" /\ mult = -3 /\ j = 3
    \/ role = "R3" /\ cell = "out" /\ mult = -3 /\ j = 4
    \/ role = "NegR" /\ cell = "neg" /\ mult = -2 /\ j = 3
    \/ role = "NegR3" /\ cell = "neg" /\ mult = -2 /\ j = 4
    \/ role = "P2" /\ cell = "out" /\ mult = -1 /\ j = 1
    \/ role = "R2" /\ cell = "out" /\ mult = -1 /\ j = 3
    \/ role = "P3" /\ cell = "lhs" /\ mult = 1 /\ j \in {5, 8, 9, 12}
    \/ role = "R" /\ cell = "rhs" /\ mult = 1 /\ j \in {4, 7, 8}
    \/ role = "R3" /\ cell = "rhs" /\ mult = 1 /\ j \in {11, 12, 13}
    \/ role = "NegR" /\ cell = "rhs" /\ mult = 1 /\ j \in {5, 6}
    \/ role = "NegR3" /\ cell = "rhs" /\ mult = 1 /\ j \in {9, 10}
    \/ role = "P2" /\ cell = "lhs" /\ mult = 1 /\ j = 2
    \/ role = "R2" /\ cell = "lhs" /\ mult = 1 /\ j = 4

LEMMA KindPlaces ==
    ASSUME NEW j \in 1 .. 13
    PROVE  /\ TableKind[j] = "DoubleP" <=> j = 1
           /\ TableKind[j] = "AddP2P" <=> j = 2
           /\ TableKind[j] = "DoubleR" <=> j = 3
           /\ TableKind[j] = "AddR2R" <=> j = 4
           /\ TableKind[j] = "Base0" <=> j = 5
           /\ TableKind[j] = "Base1" <=> j = 6
           /\ TableKind[j] = "Base2" <=> j = 7
           /\ TableKind[j] = "Base3" <=> j = 8
           /\ TableKind[j] = "Base4" <=> j = 9
           /\ TableKind[j] = "Base5" <=> j = 10
           /\ TableKind[j] = "Base6" <=> j = 11
           /\ TableKind[j] = "Base7" <=> j = 12
           /\ TableKind[j] = "Table16" <=> j = 13
<1>1. j \in {1, 2, 3, 4, 5, 6, 7, 8, 9, 10, 11, 12, 13}
  OBVIOUS
<1>2. QED
  BY <1>1 DEF TableKind

PinKeys == {"P", "P3", "R", "R3", "NegR", "NegR3", "P2", "R2"}

LEMMA PinPlaces ==
    ASSUME NEW j \in 1 .. 13, NEW role, NEW cell, NEW mult
    PROVE  PinnedAt(j, role, cell, mult) <=>
              PinIn(PinSchedule, TableKind[j], role, cell, mult)
<1> DEFINE k == TableKind[j]
           A1 == Pin("P", "lhs", 1, {"Base1", "Base2", "Base5", "Base6", "DoubleP"})
           A2 == Pin("P", "rhs", 1, {"AddP2P"})
           A3 == Pin("P3", "out", -4, {"AddP2P"})
           A4 == Pin("P3", "three", -4, {"DoubleR"})
           A5 == Pin("R", "lhs", -3, {"DoubleR"})
           A6 == Pin("R3", "out", -3, {"AddR2R"})
           A7 == Pin("NegR", "neg", -2, {"DoubleR"})
           A8 == Pin("NegR3", "neg", -2, {"AddR2R"})
           A9 == Pin("P2", "out", -1, {"DoubleP"})
           A10 == Pin("R2", "out", -1, {"DoubleR"})
           A11 == Pin("P3", "lhs", 1, {"Base0", "Base3", "Base4", "Base7"})
           A12 == Pin("R", "rhs", 1, {"AddR2R", "Base2", "Base3"})
           A13 == Pin("R3", "rhs", 1, {"Base6", "Base7", "Table16"})
           A14 == Pin("NegR", "rhs", 1, {"Base0", "Base1"})
           A15 == Pin("NegR3", "rhs", 1, {"Base4", "Base5"})
           A16 == Pin("P2", "lhs", 1, {"AddP2P"})
           A17 == Pin("R2", "lhs", 1, {"AddR2R"})
           Found(S) == PinIn(S, k, role, cell, mult)
<1>1. PinSchedule = (A1 \cup A2) \cup (UNION {A3, A4, A5, A6, A7, A8, A9, A10})
                    \cup (UNION {A11, A12, A13, A14, A15, A16, A17})
  BY DEF PinSchedule, BasePins, CanonicalProviders, CanonicalUses
<1>2. /\ Found(A1) <=> role = "P" /\ cell = "lhs" /\ mult = 1
                       /\ k \in {"Base1", "Base2", "Base5", "Base6", "DoubleP"}
      /\ Found(A2) <=> role = "P" /\ cell = "rhs" /\ mult = 1 /\ k \in {"AddP2P"}
      /\ Found(A3) <=> role = "P3" /\ cell = "out" /\ mult = -4 /\ k \in {"AddP2P"}
      /\ Found(A4) <=> role = "P3" /\ cell = "three" /\ mult = -4 /\ k \in {"DoubleR"}
      /\ Found(A5) <=> role = "R" /\ cell = "lhs" /\ mult = -3 /\ k \in {"DoubleR"}
      /\ Found(A6) <=> role = "R3" /\ cell = "out" /\ mult = -3 /\ k \in {"AddR2R"}
      /\ Found(A7) <=> role = "NegR" /\ cell = "neg" /\ mult = -2 /\ k \in {"DoubleR"}
      /\ Found(A8) <=> role = "NegR3" /\ cell = "neg" /\ mult = -2 /\ k \in {"AddR2R"}
      /\ Found(A9) <=> role = "P2" /\ cell = "out" /\ mult = -1 /\ k \in {"DoubleP"}
      /\ Found(A10) <=> role = "R2" /\ cell = "out" /\ mult = -1 /\ k \in {"DoubleR"}
      /\ Found(A11) <=> role = "P3" /\ cell = "lhs" /\ mult = 1
                       /\ k \in {"Base0", "Base3", "Base4", "Base7"}
      /\ Found(A12) <=> role = "R" /\ cell = "rhs" /\ mult = 1 /\ k \in {"AddR2R", "Base2", "Base3"}
      /\ Found(A13) <=> role = "R3" /\ cell = "rhs" /\ mult = 1
                       /\ k \in {"Base6", "Base7", "Table16"}
      /\ Found(A14) <=> role = "NegR" /\ cell = "rhs" /\ mult = 1
                       /\ k \in {"Base0", "Base1"}
      /\ Found(A15) <=> role = "NegR3" /\ cell = "rhs" /\ mult = 1
                       /\ k \in {"Base4", "Base5"}
      /\ Found(A16) <=> role = "P2" /\ cell = "lhs" /\ mult = 1 /\ k \in {"AddP2P"}
      /\ Found(A17) <=> role = "R2" /\ cell = "lhs" /\ mult = 1 /\ k \in {"AddR2R"}
  <2> HIDE DEF k
  <2>1. QED
    BY PinFound
<1>3. /\ k \in {"Base1", "Base2", "Base5", "Base6", "DoubleP"} <=> j \in {6, 7, 10, 11, 1}
      /\ k \in {"AddP2P"} <=> j = 2
      /\ k \in {"DoubleR"} <=> j = 3
      /\ k \in {"AddR2R"} <=> j = 4
      /\ k \in {"DoubleP"} <=> j = 1
      /\ k \in {"Base0", "Base3", "Base4", "Base7"} <=> j \in {5, 8, 9, 12}
      /\ k \in {"AddR2R", "Base2", "Base3"} <=> j \in {4, 7, 8}
      /\ k \in {"Base6", "Base7", "Table16"} <=> j \in {11, 12, 13}
      /\ k \in {"Base0", "Base1"} <=> j \in {5, 6}
      /\ k \in {"Base4", "Base5"} <=> j \in {9, 10}
  <2>1. k = TableKind[j]
    OBVIOUS
  <2> HIDE DEF k
  <2>2. QED
    BY <2>1, KindPlaces
<1> HIDE DEF k, A1, A2, A3, A4, A5, A6, A7, A8, A9, A10, A11, A12, A13, A14, A15, A16, A17
<1>4. Found(PinSchedule) <=>
         \/ Found(A1) \/ Found(A2) \/ Found(A3) \/ Found(A4) \/ Found(A5) \/ Found(A6)
         \/ Found(A7) \/ Found(A8) \/ Found(A9) \/ Found(A10) \/ Found(A11) \/ Found(A12)
         \/ Found(A13) \/ Found(A14) \/ Found(A15) \/ Found(A16) \/ Found(A17)
  BY <1>1 DEF PinIn
<1> HIDE DEF Found
<1>5. Found(PinSchedule) <=> PinnedAt(j, role, cell, mult)
  BY <1>2, <1>3, <1>4 DEF PinnedAt
<1>6. QED
  BY <1>5 DEF Found, k

(* The roles of a certificate, the cell that provides each and the cells that use it. *)
RolesOf(c) == IF c = 1 THEN PinKeys \ {"P2"} ELSE PinKeys

GiverPlace(c, role) ==
    IF role = "P2" THEN 1
    ELSE IF role = "P3" /\ c # 1 THEN 2
    ELSE IF role \in {"R3", "NegR3"} THEN 4 ELSE 3

GiverCell(c, role) ==
    IF role \in {"NegR", "NegR3"} THEN "neg"
    ELSE IF role = "R" THEN "lhs"
    ELSE IF role = "P3" /\ c = 1 THEN "three" ELSE "out"

UserPlaces(c, role) ==
    IF role = "P" THEN (IF c = 1 THEN {6, 7, 10, 11} ELSE {6, 7, 10, 11} \cup {1} \cup {2})
    ELSE IF role = "P3" THEN {5, 8, 9, 12}
    ELSE IF role = "R" THEN {4, 7, 8}
    ELSE IF role = "R3" THEN {11, 12, 13}
    ELSE IF role = "NegR" THEN {5, 6}
    ELSE IF role = "NegR3" THEN {9, 10}
    ELSE IF role = "P2" THEN {2} ELSE {4}

UserCell(role, j) ==
    IF role \in {"P3", "P2", "R2"} \/ (role = "P" /\ j # 2) THEN "lhs" ELSE "rhs"

RoleValue(tab, role) ==
    IF role = "P" THEN tab.p
    ELSE IF role = "P3" THEN tab.p3
    ELSE IF role = "R" THEN tab.r
    ELSE IF role = "R3" THEN tab.r3
    ELSE IF role = "NegR" THEN Negate(tab.r)
    ELSE IF role = "NegR3" THEN Negate(tab.r3)
    ELSE IF role = "P2" THEN AddPoints(tab.p, tab.p) ELSE AddPoints(tab.r, tab.r)

LEMMA PlaceCounts ==
    ASSUME NEW c \in Certs, NEW role \in RolesOf(c)
    PROVE  /\ IsFiniteSet(UserPlaces(c, role)) /\ UserPlaces(c, role) \subseteq 1 + Skip(c) .. 13
           /\ role = "P" => Cardinality(UserPlaces(c, role)) = IF c = 1 THEN 4 ELSE 6
           /\ role = "P3" => Cardinality(UserPlaces(c, role)) = 4
           /\ role \in {"R", "R3"} => Cardinality(UserPlaces(c, role)) = 3
           /\ role \in {"NegR", "NegR3"} => Cardinality(UserPlaces(c, role)) = 2
           /\ role \in {"P2", "R2"} => Cardinality(UserPlaces(c, role)) = 1
<1>1. /\ IsFiniteSet({6, 7, 10, 11}) /\ Cardinality({6, 7, 10, 11}) = 4
      /\ IsFiniteSet({5, 8, 9, 12}) /\ Cardinality({5, 8, 9, 12}) = 4
  <2>3. IsFiniteSet({6, 7, 10, 11}) /\ Cardinality({6, 7, 10, 11}) = 4
    <3> DEFINE x == 6
               y == 7
               z == 10
               w == 11
    <3>1. x # y /\ x # z /\ x # w /\ y # z /\ y # w /\ z # w
      OBVIOUS
    <3> HIDE DEF x, y, z, w
    <3>2. IsFiniteSet({x, y, z, w}) /\ Cardinality({x, y, z, w}) = 4
      BY <3>1, FourMembers, Zenon
    <3>3. QED
      BY <3>2 DEF x, y, z, w
  <2>4. IsFiniteSet({5, 8, 9, 12}) /\ Cardinality({5, 8, 9, 12}) = 4
    <3> DEFINE x == 5
               y == 8
               z == 9
               w == 12
    <3>1. x # y /\ x # z /\ x # w /\ y # z /\ y # w /\ z # w
      OBVIOUS
    <3> HIDE DEF x, y, z, w
    <3>2. IsFiniteSet({x, y, z, w}) /\ Cardinality({x, y, z, w}) = 4
      BY <3>1, FourMembers, Zenon
    <3>3. QED
      BY <3>2 DEF x, y, z, w
  <2>5. QED
    BY <2>3, <2>4
<1>2. /\ IsFiniteSet({4, 7, 8}) /\ Cardinality({4, 7, 8}) = 3
      /\ IsFiniteSet({11, 12, 13}) /\ Cardinality({11, 12, 13}) = 3
  <2>1. 4 # 7 /\ 4 # 8 /\ 7 # 8
    OBVIOUS
  <2>3. IsFiniteSet({4, 7, 8}) /\ Cardinality({4, 7, 8}) = 3
    BY <2>1, ThreeMembers, Zenon
  <2>4. IsFiniteSet({11, 12, 13}) /\ Cardinality({11, 12, 13}) = 3
    <3> DEFINE x == 11
               y == 12
               z == 13
    <3>1. x # y /\ x # z /\ y # z
      OBVIOUS
    <3> HIDE DEF x, y, z
    <3>2. IsFiniteSet({x, y, z}) /\ Cardinality({x, y, z}) = 3
      BY <3>1, ThreeMembers, Zenon
    <3>3. QED
      BY <3>2 DEF x, y, z
  <2>5. QED
    BY <2>3, <2>4
<1>3. /\ IsFiniteSet({5, 6}) /\ Cardinality({5, 6}) = 2
      /\ IsFiniteSet({9, 10}) /\ Cardinality({9, 10}) = 2
      /\ IsFiniteSet({2}) /\ Cardinality({2}) = 1
      /\ IsFiniteSet({4}) /\ Cardinality({4}) = 1
  <2>1. 5 # 6
    OBVIOUS
  <2>2. 9 # 10
    OBVIOUS
  <2>3. IsFiniteSet({5, 6}) /\ Cardinality({5, 6}) = 2
    BY <2>1, TwoMembers, Zenon
  <2>4. IsFiniteSet({9, 10}) /\ Cardinality({9, 10}) = 2
    BY <2>2, TwoMembers, Zenon
  <2>5. QED
    BY <2>3, <2>4, FS_Singleton
<1>4. /\ IsFiniteSet({6, 7, 10, 11} \cup {1} \cup {2})
      /\ Cardinality({6, 7, 10, 11} \cup {1} \cup {2}) = 6
  <2>1. IsFiniteSet({6, 7, 10, 11} \cup {1}) /\ Cardinality({6, 7, 10, 11} \cup {1}) = 5
    <3>1. 1 \notin {6, 7, 10, 11} /\ 4 + 1 = 5
      OBVIOUS
    <3> DEFINE four == {6, 7, 10, 11}
    <3>2. IsFiniteSet(four) /\ Cardinality(four) = 4 /\ 1 \notin four
      BY <1>1, <3>1
    <3> HIDE DEF four
    <3>3. IsFiniteSet(four \cup {1}) /\ Cardinality(four \cup {1}) = Cardinality(four) + 1
      BY <3>2, OneMore
    <3>4. QED
      BY <3>1, <3>2, <3>3 DEF four
  <2>2. 2 \notin {6, 7, 10, 11} \cup {1}
    OBVIOUS
  <2>3. QED
    BY <2>1, <2>2, OneMore
<1>5. role \in PinKeys /\ (c = 1 => role # "P2") /\ c \in {1, 2}
  BY DEF RolesOf, Certs
<1>6. UserPlaces(c, role) \subseteq 1 + Skip(c) .. 13
  BY <1>5 DEF UserPlaces, Skip, PinKeys
<1>7. CASE role \in {"P", "P3"}
  BY <1>1, <1>4, <1>5, <1>6, <1>7 DEF UserPlaces
<1>8. CASE role \in {"R", "R3"}
  BY <1>2, <1>6, <1>8 DEF UserPlaces
<1>9. CASE role \in {"NegR", "NegR3", "P2", "R2"}
  BY <1>3, <1>6, <1>9 DEF UserPlaces
<1>10. QED
  BY <1>5, <1>7, <1>8, <1>9 DEF PinKeys

(* The schedule, one role of a certificate at a time. *)
LEMMA PinsByRole ==
    ASSUME NEW c \in Certs, NEW j \in 1 + Skip(c) .. 13, NEW role, NEW cell, NEW mult
    PROVE  PinnedAt(j, role, cell, mult) /\ (cell = "three" => c = 1) <=>
              /\ role \in RolesOf(c)
              /\ \/ /\ j \in UserPlaces(c, role) /\ cell = UserCell(role, j) /\ mult = 1
                 \/ /\ role # "P" /\ j = GiverPlace(c, role) /\ cell = GiverCell(c, role)
                    /\ mult = -Cardinality(UserPlaces(c, role))
<1> DEFINE J == UserPlaces(c, role)
           n == Cardinality(J)
           User == j \in J /\ cell = UserCell(role, j) /\ mult = 1
           Giver == j = GiverPlace(c, role) /\ cell = GiverCell(c, role)
<1>1. c \in {1, 2} /\ j \in 1 .. 13 /\ (c = 1 => j \notin {1, 2})
  BY DEF Certs, Skip
<1>2. role \in RolesOf(c) <=> role \in PinKeys /\ (c = 1 => role # "P2")
  BY DEF RolesOf
<1>3. PinnedAt(j, role, cell, mult) => role \in PinKeys
  BY DEF PinnedAt, PinKeys
<1>4. CASE role = "P"
  <2>1. PinnedAt(j, role, cell, mult) <=>
           \/ cell = "lhs" /\ mult = 1 /\ j \in {6, 7, 10, 11, 1}
           \/ cell = "rhs" /\ mult = 1 /\ j = 2
    BY <1>4 DEF PinnedAt
  <2>2. User <=> /\ j \in {6, 7, 10, 11} \/ (c # 1 /\ j \in {1, 2})
                 /\ cell = IF j = 2 THEN "rhs" ELSE "lhs"
                 /\ mult = 1
    BY <1>4 DEF UserPlaces, UserCell
  <2>3. QED
    BY <1>1, <1>2, <1>4, <2>1, <2>2 DEF PinKeys
<1>5. CASE role = "P3"
  <2>1. PinnedAt(j, role, cell, mult) <=>
           \/ cell = "out" /\ mult = -4 /\ j = 2
           \/ cell = "three" /\ mult = -4 /\ j = 3
           \/ cell = "lhs" /\ mult = 1 /\ j \in {5, 8, 9, 12}
    BY <1>5 DEF PinnedAt
  <2>2. role \in RolesOf(c)
    BY <1>2, <1>5 DEF PinKeys
  <2>3. n = 4
    BY <1>5, <2>2, PlaceCounts
  <2>4. User <=> j \in {5, 8, 9, 12} /\ cell = "lhs" /\ mult = 1
    BY <1>5 DEF UserPlaces, UserCell
  <2>5. Giver <=> \/ c = 1 /\ j = 3 /\ cell = "three"
                  \/ c # 1 /\ j = 2 /\ cell = "out"
    BY <1>5 DEF GiverPlace, GiverCell
  <2> HIDE DEF User, Giver, n
  <2>6. PinnedAt(j, role, cell, mult) /\ (cell = "three" => c = 1) <=> User \/ (Giver /\ mult = -n)
    BY <1>1, <2>1, <2>3, <2>4, <2>5
  <2>7. QED
    BY <1>5, <2>2, <2>6 DEF User, Giver, n
<1>6. CASE role = "R" \/ role = "R3"
  <2>1. PinnedAt(j, role, cell, mult) <=>
           \/ role = "R" /\ cell = "lhs" /\ mult = -3 /\ j = 3
           \/ role = "R" /\ cell = "rhs" /\ mult = 1 /\ j \in {4, 7, 8}
           \/ role = "R3" /\ cell = "out" /\ mult = -3 /\ j = 4
           \/ role = "R3" /\ cell = "rhs" /\ mult = 1 /\ j \in {11, 12, 13}
    BY <1>6 DEF PinnedAt
  <2>2. role \in RolesOf(c)
    BY <1>2, <1>6 DEF PinKeys
  <2>3. n = 3
    BY <1>6, <2>2, PlaceCounts
  <2>4. User <=> /\ j \in IF role = "R" THEN {4, 7, 8} ELSE {11, 12, 13}
                 /\ cell = "rhs" /\ mult = 1
    BY <1>6 DEF UserPlaces, UserCell
  <2>5. Giver <=> IF role = "R" THEN j = 3 /\ cell = "lhs" ELSE j = 4 /\ cell = "out"
    BY <1>6 DEF GiverPlace, GiverCell
  <2> HIDE DEF User, Giver, n
  <2>6. PinnedAt(j, role, cell, mult) /\ (cell = "three" => c = 1) <=> User \/ (Giver /\ mult = -n)
    BY <1>6, <2>1, <2>3, <2>4, <2>5
  <2>7. QED
    BY <1>6, <2>2, <2>6 DEF User, Giver, n
<1>7. CASE role = "NegR" \/ role = "NegR3"
  <2>1. PinnedAt(j, role, cell, mult) <=>
           \/ role = "NegR" /\ cell = "neg" /\ mult = -2 /\ j = 3
           \/ role = "NegR" /\ cell = "rhs" /\ mult = 1 /\ j \in {5, 6}
           \/ role = "NegR3" /\ cell = "neg" /\ mult = -2 /\ j = 4
           \/ role = "NegR3" /\ cell = "rhs" /\ mult = 1 /\ j \in {9, 10}
    BY <1>7 DEF PinnedAt
  <2>2. role \in RolesOf(c)
    BY <1>2, <1>7 DEF PinKeys
  <2>3. n = 2
    BY <1>7, <2>2, PlaceCounts
  <2>4. User <=> /\ j \in IF role = "NegR" THEN {5, 6} ELSE {9, 10}
                 /\ cell = "rhs" /\ mult = 1
    BY <1>7 DEF UserPlaces, UserCell
  <2>5. Giver <=> IF role = "NegR" THEN j = 3 /\ cell = "neg" ELSE j = 4 /\ cell = "neg"
    BY <1>7 DEF GiverPlace, GiverCell
  <2> HIDE DEF User, Giver, n
  <2>6. PinnedAt(j, role, cell, mult) /\ (cell = "three" => c = 1) <=> User \/ (Giver /\ mult = -n)
    BY <1>7, <2>1, <2>3, <2>4, <2>5
  <2>7. QED
    BY <1>7, <2>2, <2>6 DEF User, Giver, n
<1>8. CASE role = "P2" /\ c = 1
  <2>1. ~PinnedAt(j, role, cell, mult)
    BY <1>1, <1>8 DEF PinnedAt
  <2>2. QED
    BY <1>2, <1>8, <2>1
<1>9. CASE role = "R2" \/ (role = "P2" /\ c # 1)
  <2>1. PinnedAt(j, role, cell, mult) <=>
           \/ role = "P2" /\ cell = "out" /\ mult = -1 /\ j = 1
           \/ role = "P2" /\ cell = "lhs" /\ mult = 1 /\ j = 2
           \/ role = "R2" /\ cell = "out" /\ mult = -1 /\ j = 3
           \/ role = "R2" /\ cell = "lhs" /\ mult = 1 /\ j = 4
    BY <1>9 DEF PinnedAt
  <2>2. role \in RolesOf(c)
    BY <1>2, <1>9 DEF PinKeys
  <2>3. n = 1
    BY <1>9, <2>2, PlaceCounts
  <2>4. User <=> /\ j = IF role = "P2" THEN 2 ELSE 4
                 /\ cell = "lhs" /\ mult = 1
    BY <1>9 DEF UserPlaces, UserCell
  <2>5. Giver <=> /\ j = IF role = "P2" THEN 1 ELSE 3
                  /\ cell = "out"
    BY <1>9 DEF GiverPlace, GiverCell
  <2> HIDE DEF User, Giver, n
  <2>6. PinnedAt(j, role, cell, mult) /\ (cell = "three" => c = 1) <=> User \/ (Giver /\ mult = -n)
    BY <1>9, <2>1, <2>3, <2>4, <2>5
  <2>7. QED
    BY <1>9, <2>2, <2>6 DEF User, Giver, n
<1>10. CASE role \notin PinKeys
  BY <1>2, <1>3, <1>10
<1>11. QED
  BY <1>4, <1>5, <1>6, <1>7, <1>8, <1>9, <1>10 DEF PinKeys

LEMMA CellParts ==
    ASSUME NEW row
    PROVE  /\ Cell(row, "lhs") = row.lhs /\ Cell(row, "rhs") = row.rhs /\ Cell(row, "out") = row.out
           /\ Cell(row, "three") = 3
           /\ row.kind = "DoubleR" => Cell(row, "neg") = Negate(row.lhs)
           /\ row.kind # "DoubleR" => Cell(row, "neg") = Negate(row.out)
<1>1. Cell(row, "neg") = Negate(IF row.kind = "DoubleR" THEN row.lhs ELSE row.out)
  BY DEF Cell
<1>2. QED
  BY <1>1 DEF Cell

(* A point three times over is added up from it. *)
LEMMA AddedTwice ==
    ASSUME NEW a \in Int
    PROVE  AddPoints(AddPoints(a, a), a) = Times(3, a)
<1> DEFINE s == a + a
<1>1. s \in Int /\ s + a = 3 * a
  OBVIOUS
<1> HIDE DEF s
<1>2. ((s % N) + a) % N = (s + a) % N
  BY <1>1, RemainderOfSum
<1>3. AddPoints(a, a) = s % N
  BY DEF AddPoints, s
<1>4. QED
  BY <1>1, <1>2, <1>3 DEF AddPoints, Times

(* Every cell of a role holds the same point. *)
LEMMA RoleCells ==
    ASSUME ClaimBuilt, NEW c \in Certs, Active(c), NEW role \in RolesOf(c)
    PROVE  /\ \A j \in UserPlaces(c, role) :
                 Cell(TableAt(tables[c], j), UserCell(role, j)) = RoleValue(tables[c], role)
           /\ role # "P" => Cell(TableAt(tables[c], GiverPlace(c, role)), GiverCell(c, role))
                            = RoleValue(tables[c], role)
<1> DEFINE tab == tables[c]
           T(j) == TableAt(tab, j)
           p == tab.p
           p3 == tab.p3
           r == tab.r
           r3 == tab.r3
           p2 == AddPoints(p, p)
           r2 == AddPoints(r, r)
           V == RoleValue(tab, role)
<1>1. /\ p3 = AddPoints(p2, p) /\ r3 = AddPoints(r2, r) /\ (c = 1 => p3 = 3)
  <2>1. p = BaseOf(c) /\ p3 = Times(3, BaseOf(c)) /\ r3 = Times(3, r) /\ p \in Points /\ r \in Points
    BY TableNamesOf
  <2>2. p \in Int /\ r \in Int
    BY <2>1, OrderFacts DEF Points
  <2>3. c = 1 => p3 = 3
    <3>1. Times(3, 1) = 3
      <4>1. 3 * 1 = 3 /\ 3 \in 0 .. N - 1
        BY OrderFacts
      <4>2. 3 % N = 3
        BY <4>1, SmallRemainder
      <4>3. QED
        BY <4>1, <4>2 DEF Times
    <3>2. QED
      BY <2>1, <3>1 DEF BaseOf
  <2> HIDE DEF p, r, p3, r3
  <2>4. AddPoints(AddPoints(p, p), p) = Times(3, p) /\ AddPoints(AddPoints(r, r), r) = Times(3, r)
    BY <2>2, AddedTwice
  <2>5. QED
    BY <2>1, <2>3, <2>4
<1>2. \A kind, op, lhs, rhs, out :
         /\ Row(kind, op, lhs, rhs, out).kind = kind
         /\ Row(kind, op, lhs, rhs, out).lhs = lhs
         /\ Row(kind, op, lhs, rhs, out).rhs = rhs
         /\ Row(kind, op, lhs, rhs, out).out = out
  BY RowParts
<1>3. \A kind, a, b : AddRow(kind, a, b).lhs = a /\ AddRow(kind, a, b).rhs = b
  BY <1>2 DEF AddRow
<1>4. /\ T(1) = Row("DoubleP", "double", p, Infinity, p2)
      /\ T(2) = Row("AddP2P", "add", p2, p, AddPoints(p2, p))
      /\ T(3) = Row("DoubleR", "double", r, Infinity, r2)
      /\ T(4) = Row("AddR2R", "add", r2, r, AddPoints(r2, r))
  BY TableCells
<1>5. /\ T(5) = AddRow("Base0", p3, Negate(r)) /\ T(6) = AddRow("Base1", p, Negate(r))
      /\ T(7) = AddRow("Base2", p, r) /\ T(8) = AddRow("Base3", p3, r)
      /\ T(9) = AddRow("Base4", p3, Negate(r3)) /\ T(10) = AddRow("Base5", p, Negate(r3))
      /\ T(11) = AddRow("Base6", p, r3) /\ T(12) = AddRow("Base7", p3, r3)
      /\ T(13) = AddRow("Table16", tab.first, r3)
  BY TableCells
<1>6. V = RoleValue(tab, role)
  OBVIOUS
<1>7. /\ role = "P" => V = p
      /\ role = "P3" => V = p3
      /\ role = "R" => V = r
      /\ role = "R3" => V = r3
      /\ role = "NegR" => V = Negate(r)
      /\ role = "NegR3" => V = Negate(r3)
      /\ role = "P2" => V = p2
      /\ role = "R2" => V = r2
  BY DEF RoleValue
<1> HIDE DEF T, V, p, p3, r, r3, p2, r2
<1>8. /\ T(1).kind = "DoubleP" /\ T(1).lhs = p /\ T(1).out = p2
      /\ T(2).lhs = p2 /\ T(2).rhs = p /\ T(2).out = p3
      /\ T(3).kind = "DoubleR" /\ T(3).lhs = r /\ T(3).out = r2
      /\ T(4).kind = "AddR2R" /\ T(4).lhs = r2 /\ T(4).rhs = r /\ T(4).out = r3
  BY <1>1, <1>2, <1>4
<1>9. /\ T(5).lhs = p3 /\ T(5).rhs = Negate(r) /\ T(6).lhs = p /\ T(6).rhs = Negate(r)
      /\ T(7).lhs = p /\ T(7).rhs = r /\ T(8).lhs = p3 /\ T(8).rhs = r
      /\ T(9).lhs = p3 /\ T(9).rhs = Negate(r3) /\ T(10).lhs = p /\ T(10).rhs = Negate(r3)
      /\ T(11).lhs = p /\ T(11).rhs = r3 /\ T(12).lhs = p3 /\ T(12).rhs = r3
      /\ T(13).rhs = r3
  BY <1>3, <1>5
<1>10. /\ Cell(T(3), "neg") = Negate(r) /\ Cell(T(4), "neg") = Negate(r3)
  BY <1>8, CellParts
<1>11. \A j : /\ Cell(T(j), "lhs") = T(j).lhs /\ Cell(T(j), "rhs") = T(j).rhs
              /\ Cell(T(j), "out") = T(j).out /\ Cell(T(j), "three") = 3
  BY CellParts
<1>12. role \in PinKeys /\ (c = 1 => role # "P2")
  BY DEF RolesOf
<1>13. ASSUME NEW j \in UserPlaces(c, role)
       PROVE  Cell(T(j), UserCell(role, j)) = V
  <2>1. CASE role = "P"
    <3>1. j = 2 \/ j \in {1, 6, 7, 10, 11}
      BY <1>13, <2>1 DEF UserPlaces
    <3>2. UserCell(role, j) = IF j = 2 THEN "rhs" ELSE "lhs"
      BY <2>1 DEF UserCell
    <3>3. QED
      BY <1>7, <1>8, <1>9, <1>11, <2>1, <3>1, <3>2
  <2>2. CASE role = "P3"
    <3>1. j \in {5, 8, 9, 12} /\ UserCell(role, j) = "lhs"
      BY <1>13, <2>2 DEF UserPlaces, UserCell
    <3>2. QED
      BY <1>7, <1>9, <1>11, <2>2, <3>1
  <2>3. CASE role = "R"
    <3>1. j \in {4, 7, 8} /\ UserCell(role, j) = "rhs"
      BY <1>13, <2>3 DEF UserPlaces, UserCell
    <3>2. QED
      BY <1>7, <1>8, <1>9, <1>11, <2>3, <3>1
  <2>4. CASE role = "R3"
    <3>1. j \in {11, 12, 13} /\ UserCell(role, j) = "rhs"
      BY <1>13, <2>4 DEF UserPlaces, UserCell
    <3>2. QED
      BY <1>7, <1>9, <1>11, <2>4, <3>1
  <2>5. CASE role = "NegR"
    <3>1. j \in {5, 6} /\ UserCell(role, j) = "rhs"
      BY <1>13, <2>5 DEF UserPlaces, UserCell
    <3>2. QED
      BY <1>7, <1>9, <1>11, <2>5, <3>1
  <2>6. CASE role = "NegR3"
    <3>1. j \in {9, 10} /\ UserCell(role, j) = "rhs"
      BY <1>13, <2>6 DEF UserPlaces, UserCell
    <3>2. QED
      BY <1>7, <1>9, <1>11, <2>6, <3>1
  <2>7. CASE role = "P2"
    <3>1. j = 2 /\ UserCell(role, j) = "lhs"
      BY <1>13, <2>7 DEF UserPlaces, UserCell
    <3>2. QED
      BY <1>7, <1>8, <1>11, <2>7, <3>1
  <2>8. CASE role = "R2"
    <3>1. j = 4 /\ UserCell(role, j) = "lhs"
      BY <1>13, <2>8 DEF UserPlaces, UserCell
    <3>2. QED
      BY <1>7, <1>8, <1>11, <2>8, <3>1
  <2>9. QED
    BY <1>12, <2>1, <2>2, <2>3, <2>4, <2>5, <2>6, <2>7, <2>8 DEF PinKeys
<1>14. ASSUME role # "P"
       PROVE  Cell(T(GiverPlace(c, role)), GiverCell(c, role)) = V
  <2> DEFINE j == GiverPlace(c, role)
             cell == GiverCell(c, role)
  <2>1. /\ role = "P3" /\ c # 1 => j = 2 /\ cell = "out"
        /\ role = "P3" /\ c = 1 => j = 3 /\ cell = "three"
        /\ role = "R" => j = 3 /\ cell = "lhs"
        /\ role = "R3" => j = 4 /\ cell = "out"
        /\ role = "NegR" => j = 3 /\ cell = "neg"
        /\ role = "NegR3" => j = 4 /\ cell = "neg"
        /\ role = "P2" => j = 1 /\ cell = "out"
        /\ role = "R2" => j = 3 /\ cell = "out"
    BY DEF GiverPlace, GiverCell
  <2> HIDE DEF j, cell
  <2>2. role = "P3" => Cell(T(j), cell) = V
    BY <1>1, <1>7, <1>8, <1>11, <2>1
  <2>3. (role = "R" \/ role = "R3") => Cell(T(j), cell) = V
    BY <1>7, <1>8, <1>11, <2>1
  <2>4. (role = "NegR" \/ role = "NegR3") => Cell(T(j), cell) = V
    BY <1>7, <1>10, <2>1
  <2>5. (role = "P2" \/ role = "R2") => Cell(T(j), cell) = V
    BY <1>7, <1>8, <1>11, <2>1
  <2>6. Cell(T(j), cell) = V
    BY <1>12, <1>14, <2>2, <2>3, <2>4, <2>5 DEF PinKeys
  <2>7. QED
    BY <2>6 DEF j, cell
<1>15. QED
  BY <1>13, <1>14 DEF T, V

(* A role's entries: one provider, and a user for each place. *)
GiverEntry(c, role) ==
    IF role = "P" THEN BaseProvider(c)
    ELSE Entry(<<c, GiverPlace(c, role) - Skip(c), GiverCell(c, role)>>,
               <<c, role, RoleValue(tables[c], role)>>, -Cardinality(UserPlaces(c, role)))

UserEntry(c, role, j) ==
    Use(<<c, j - Skip(c), UserCell(role, j)>>, <<c, role, RoleValue(tables[c], role)>>)

RoleEntries(c, role) ==
    {GiverEntry(c, role)} \cup {UserEntry(c, role, j) : j \in UserPlaces(c, role)}

LEMMA GiverPlaces ==
    ASSUME NEW c \in Certs, NEW role \in RolesOf(c)
    PROVE  GiverPlace(c, role) \in 1 + Skip(c) .. 13
<1>1. c \in {1, 2} /\ (c = 1 => role # "P2")
  BY DEF Certs, RolesOf
<1>2. GiverPlace(c, role) \in IF c = 1 THEN {3, 4} ELSE {1, 2, 3, 4}
  BY <1>1 DEF GiverPlace
<1>3. 1 + Skip(c) = IF c = 1 THEN 3 ELSE 1
  BY DEF Skip
<1>4. QED
  BY <1>1, <1>2, <1>3

(* The row at a place of an active certificate's table. *)
LEMMA RowAtPlace ==
    ASSUME NEW c \in Certs, Active(c)
    PROVE  /\ \A i \in DOMAIN TableRowsOf(c) :
                 /\ i + Skip(c) \in 1 + Skip(c) .. 13 /\ i = (i + Skip(c)) - Skip(c)
                 /\ TableRowsOf(c)[i] = TableAt(tables[c], i + Skip(c))
                 /\ TableRowsOf(c)[i].kind = TableKind[i + Skip(c)]
           /\ \A j \in 1 + Skip(c) .. 13 :
                 /\ j \in 1 .. 13 /\ j - Skip(c) \in DOMAIN TableRowsOf(c)
                 /\ TableRowsOf(c)[j - Skip(c)] = TableAt(tables[c], j)
                 /\ TableRowsOf(c)[j - Skip(c)].kind = TableKind[j]
<1> DEFINE rows == TableRowsOf(c)
           s == Skip(c)
           tab == tables[c]
<1>1. s \in {0, 2}
  BY DEF Skip
<1>2. /\ DOMAIN rows = 1 .. 13 - s
      /\ \A i \in 1 .. 13 - s : /\ rows[i] = TableAt(tab, i + s)
                                /\ rows[i].kind = TableKind[i + s]
  BY TableRowsNow
<1> HIDE DEF rows, s, tab
<1>3. ASSUME NEW i \in DOMAIN rows
      PROVE  /\ i + s \in 1 + s .. 13 /\ i = (i + s) - s
             /\ rows[i] = TableAt(tab, i + s) /\ rows[i].kind = TableKind[i + s]
  BY <1>1, <1>2
<1>4. ASSUME NEW j \in 1 + s .. 13
      PROVE  /\ j \in 1 .. 13 /\ j - s \in DOMAIN rows
             /\ rows[j - s] = TableAt(tab, j) /\ rows[j - s].kind = TableKind[j]
  <2>1. j \in 1 .. 13 /\ j - s \in 1 .. 13 - s /\ (j - s) + s = j
    BY <1>1
  <2> DEFINE i == j - s
  <2>2. i \in 1 .. 13 - s /\ i + s = j
    BY <2>1
  <2> HIDE DEF i
  <2>3. i \in DOMAIN rows /\ rows[i] = TableAt(tab, j) /\ rows[i].kind = TableKind[j]
    BY <1>2, <2>2
  <2>4. QED
    BY <2>1, <2>3 DEF i
<1>5. QED
  BY <1>3, <1>4 DEF rows, s, tab

LEMMA RowPinGrouped ==
    ASSUME ClaimBuilt, NEW c \in Certs, Active(c), NEW i \in DOMAIN TableRowsOf(c),
           NEW e \in PinEntriesOfRow(c, i)
    PROVE  \E role \in RolesOf(c) : e \in RoleEntries(c, role)
<1> DEFINE row == TableRowsOf(c)[i]
           j == i + Skip(c)
<1>1. /\ j \in 1 + Skip(c) .. 13 /\ i = j - Skip(c)
      /\ row = TableAt(tables[c], j) /\ row.kind = TableKind[j]
  BY RowAtPlace
<1>2. PICK p \in PinsOf(c, row) :
         e = Entry(<<c, i, p.cell>>, <<c, p.role, Cell(row, p.cell)>>, p.mult)
  BY DEF PinEntriesOfRow
<1> HIDE DEF row
<1>3. p \in PinSchedule /\ p.kind = row.kind /\ (p.cell = "three" => c = 1)
  BY DEF PinsOf
<1> HIDE DEF j
<1>4. j \in 1 .. 13
  <2>1. Skip(c) \in {0, 2}
    BY DEF Skip
  <2>2. QED
    BY <1>1, <2>1
<1> DEFINE role == p.role
           cell == p.cell
           mult == p.mult
<1>5. PinnedAt(j, role, cell, mult)
  BY <1>1, <1>3, <1>4, PinPlaces DEF PinIn
<1>6. e = Entry(<<c, j - Skip(c), cell>>, <<c, role, Cell(TableAt(tables[c], j), cell)>>, mult)
  BY <1>1, <1>2
<1>7. cell = "three" => c = 1
  BY <1>3
<1> HIDE DEF role, cell, mult
<1>8. /\ role \in RolesOf(c)
      /\ \/ /\ j \in UserPlaces(c, role) /\ cell = UserCell(role, j) /\ mult = 1
         \/ /\ role # "P" /\ j = GiverPlace(c, role) /\ cell = GiverCell(c, role)
            /\ mult = -Cardinality(UserPlaces(c, role))
  BY <1>1, <1>5, <1>7, PinsByRole
<1>9. CASE j \in UserPlaces(c, role) /\ cell = UserCell(role, j) /\ mult = 1
  <2>1. Cell(TableAt(tables[c], j), UserCell(role, j)) = RoleValue(tables[c], role)
    BY <1>8, <1>9, RoleCells
  <2>2. e = UserEntry(c, role, j)
    BY <1>6, <1>9, <2>1 DEF UserEntry, Use
  <2>3. QED
    BY <1>8, <1>9, <2>2 DEF RoleEntries
<1>10. CASE /\ role # "P" /\ j = GiverPlace(c, role) /\ cell = GiverCell(c, role)
            /\ mult = -Cardinality(UserPlaces(c, role))
  <2>1. Cell(TableAt(tables[c], j), cell) = RoleValue(tables[c], role)
    BY <1>8, <1>10, RoleCells
  <2>2. e = GiverEntry(c, role)
    BY <1>6, <1>10, <2>1 DEF GiverEntry
  <2>3. QED
    BY <1>8, <2>2 DEF RoleEntries
<1>11. QED
  BY <1>8, <1>9, <1>10

LEMMA PlaceEntered ==
    ASSUME NEW c \in Certs, Active(c), NEW j \in 1 + Skip(c) .. 13,
           NEW role, NEW cell, NEW mult, PinnedAt(j, role, cell, mult), cell = "three" => c = 1
    PROVE  Entry(<<c, j - Skip(c), cell>>, <<c, role, Cell(TableAt(tables[c], j), cell)>>, mult)
              \in PinEntries
<1> DEFINE i == j - Skip(c)
           row == TableRowsOf(c)[i]
<1>1. /\ j \in 1 .. 13 /\ i \in DOMAIN TableRowsOf(c)
      /\ row = TableAt(tables[c], j) /\ row.kind = TableKind[j]
  BY RowAtPlace
<1>2. PICK p \in PinSchedule : /\ p.kind = TableKind[j]
                               /\ p.role = role /\ p.cell = cell /\ p.mult = mult
  BY <1>1, PinPlaces DEF PinIn
<1> HIDE DEF i
<1>3. p \in PinsOf(c, row)
  BY <1>1, <1>2 DEF PinsOf
<1>4. Entry(<<c, i, p.cell>>, <<c, p.role, Cell(row, p.cell)>>, p.mult) \in PinEntriesOfRow(c, i)
  BY <1>3 DEF PinEntriesOfRow
<1> HIDE DEF row
<1> DEFINE e == Entry(<<c, i, cell>>, <<c, role, Cell(TableAt(tables[c], j), cell)>>, mult)
<1>5. e \in PinEntriesOfRow(c, i)
  BY <1>1, <1>2, <1>4
<1> HIDE DEF e
<1>6. e \in PinEntries
  BY <1>1, <1>5 DEF PinEntries
<1>7. QED
  BY <1>6 DEF e, i

LEMMA RoleEntered ==
    ASSUME ClaimBuilt, NEW c \in Certs, Active(c), NEW role \in RolesOf(c)
    PROVE  RoleEntries(c, role) \subseteq PinEntries
<1> DEFINE J == UserPlaces(c, role)
           V == RoleValue(tables[c], role)
<1>1. J \subseteq 1 + Skip(c) .. 13
  BY PlaceCounts
<1>2. ASSUME NEW j \in J
      PROVE  UserEntry(c, role, j) \in PinEntries
  <2> DEFINE cell == UserCell(role, j)
  <2>1. PinnedAt(j, role, cell, 1) /\ (cell = "three" => c = 1)
    <3>1. j \in 1 + Skip(c) .. 13
      BY <1>1
    <3> HIDE DEF cell
    <3>2. PinnedAt(j, role, cell, 1) /\ (cell = "three" => c = 1) <=>
             /\ role \in RolesOf(c)
             /\ \/ /\ j \in UserPlaces(c, role) /\ cell = UserCell(role, j) /\ 1 = 1
                \/ /\ role # "P" /\ j = GiverPlace(c, role) /\ cell = GiverCell(c, role)
                   /\ 1 = -Cardinality(UserPlaces(c, role))
      BY <3>1, PinsByRole
    <3>3. QED
      BY <3>2 DEF cell
  <2>2. Cell(TableAt(tables[c], j), cell) = V
    BY RoleCells
  <2> HIDE DEF cell
  <2>3. Entry(<<c, j - Skip(c), cell>>, <<c, role, Cell(TableAt(tables[c], j), cell)>>, 1)
           \in PinEntries
    BY <1>1, <2>1, PlaceEntered
  <2>4. QED
    BY <2>2, <2>3 DEF UserEntry, Use, cell
<1>3. ASSUME role # "P"
      PROVE  GiverEntry(c, role) \in PinEntries
  <2> DEFINE j == GiverPlace(c, role)
             cell == GiverCell(c, role)
             mult == -Cardinality(J)
  <2>1. j \in 1 + Skip(c) .. 13
    BY GiverPlaces
  <2>2. Cell(TableAt(tables[c], j), cell) = V
    BY <1>3, RoleCells
  <2>3. GiverEntry(c, role) = Entry(<<c, j - Skip(c), cell>>, <<c, role, V>>, mult)
    BY <1>3 DEF GiverEntry
  <2>4. j = GiverPlace(c, role) /\ cell = GiverCell(c, role) /\ mult = -Cardinality(UserPlaces(c, role))
    OBVIOUS
  <2> HIDE DEF j, cell, mult
  <2>5. PinnedAt(j, role, cell, mult) /\ (cell = "three" => c = 1)
    BY <1>3, <2>1, <2>4, PinsByRole
  <2>6. Entry(<<c, j - Skip(c), cell>>, <<c, role, Cell(TableAt(tables[c], j), cell)>>, mult)
           \in PinEntries
    BY <2>1, <2>5, PlaceEntered
  <2>7. QED
    BY <2>2, <2>3, <2>6
<1>4. ASSUME role = "P"
      PROVE  GiverEntry(c, role) \in PinEntries
  <2>1. BaseProvider(c) \in PinEntries
    BY DEF PinEntries, ActiveCerts
  <2>2. QED
    BY <1>4, <2>1 DEF GiverEntry
<1>5. QED
  BY <1>2, <1>3, <1>4 DEF RoleEntries

LEMMA PinsGrouped ==
    ASSUME ClaimBuilt, NEW e \in PinEntries
    PROVE  \E c \in ActiveCerts : \E role \in RolesOf(c) : e \in RoleEntries(c, role)
<1>1. CASE \E c \in ActiveCerts : e = BaseProvider(c)
  <2>1. PICK c \in ActiveCerts : e = BaseProvider(c)
    BY <1>1
  <2>2. "P" \in RolesOf(c)
    BY DEF RolesOf, PinKeys
  <2>3. e = GiverEntry(c, "P")
    BY <2>1 DEF GiverEntry
  <2>4. e \in RoleEntries(c, "P")
    BY <2>3 DEF RoleEntries
  <2>5. QED
    BY <2>2, <2>4
<1>2. CASE \E c \in Certs : \E i \in DOMAIN TableRowsOf(c) : e \in PinEntriesOfRow(c, i)
  <2>1. PICK c \in Certs : \E i \in DOMAIN TableRowsOf(c) : e \in PinEntriesOfRow(c, i)
    BY <1>2
  <2>2. Active(c)
    BY <2>1, TableRowsNow
  <2>3. \E role \in RolesOf(c) : e \in RoleEntries(c, role)
    BY <2>1, <2>2, RowPinGrouped
  <2>4. QED
    BY <2>2, <2>3 DEF ActiveCerts
<1>3. QED
  BY <1>1, <1>2 DEF PinEntries

LEMMA RoleTuples ==
    ASSUME ClaimBuilt, NEW c \in Certs, Active(c), NEW role, NEW e \in RoleEntries(c, role)
    PROVE  e.t = <<c, role, RoleValue(tables[c], role)>>
<1>1. CASE e = GiverEntry(c, role)
  <2>1. CASE role = "P"
    <3>1. e = BaseProvider(c)
      BY <1>1, <2>1 DEF GiverEntry
    <3>2. BaseOf(c) = tables[c].p
      BY TableNamesOf
    <3>3. e.t = <<c, "P", BaseOf(c)>>
      BY <3>1, EntryParts DEF BaseProvider
    <3>4. RoleValue(tables[c], role) = tables[c].p
      BY <2>1 DEF RoleValue
    <3>5. QED
      BY <2>1, <3>2, <3>3, <3>4
  <2>2. CASE role # "P"
    BY <1>1, <2>2, EntryParts DEF GiverEntry
  <2>3. QED
    BY <2>1, <2>2
<1>2. CASE \E j \in UserPlaces(c, role) : e = UserEntry(c, role, j)
  BY <1>2, UseParts DEF UserEntry
<1>3. QED
  BY <1>1, <1>2 DEF RoleEntries

LEMMA PinBalanced ==
    ASSUME ClaimBuilt
    PROVE  Balanced(PinEntries)
<1>1. ASSUME NEW d \in PinEntries
      PROVE  Provided(PinEntries, d.t)
  <2>1. PICK c \in ActiveCerts : \E role \in RolesOf(c) : d \in RoleEntries(c, role)
    BY PinsGrouped
  <2>2. PICK role \in RolesOf(c) : d \in RoleEntries(c, role)
    BY <2>1
  <2>3. c \in Certs /\ Active(c)
    BY DEF ActiveCerts
  <2> DEFINE J == UserPlaces(c, role)
             V == RoleValue(tables[c], role)
             t == <<c, role, V>>
             f == [j \in J |-> UserEntry(c, role, j)]
             p == GiverEntry(c, role)
  <2>4. d.t = t
    BY <2>2, <2>3, RoleTuples
  <2>5. {e \in PinEntries : e.t = t} = RoleEntries(c, role)
    <3>1. RoleEntries(c, role) \subseteq PinEntries
      BY <2>3, RoleEntered
    <3>2. \A e \in RoleEntries(c, role) : e.t = t
      BY <2>3, RoleTuples
    <3>3. ASSUME NEW e \in PinEntries, e.t = t
          PROVE  e \in RoleEntries(c, role)
      <4>1. PICK b \in ActiveCerts : \E other \in RolesOf(b) : e \in RoleEntries(b, other)
        BY PinsGrouped
      <4>2. PICK other \in RolesOf(b) : e \in RoleEntries(b, other)
        BY <4>1
      <4>3. e.t = <<b, other, RoleValue(tables[b], other)>>
        BY <4>2, RoleTuples DEF ActiveCerts
      <4>4. b = c /\ other = role
        BY <3>3, <4>3
      <4>5. QED
        BY <4>2, <4>4
    <3>4. QED
      BY <3>1, <3>2, <3>3
  <2>6. RoleEntries(c, role) = {p} \cup {f[j] : j \in J}
    BY DEF RoleEntries
  <2>7. IsFiniteSet(J) /\ J \subseteq 1 + Skip(c) .. 13
    BY <2>3, PlaceCounts
  <2>8. \A j \in J : f[j].m = 1
    BY UseParts DEF UserEntry
  <2>9. \A i, j \in J : f[i] = f[j] => i = j
    <3>1. ASSUME NEW i \in J, NEW j \in J, f[i] = f[j]
          PROVE  i = j
      <4>1. /\ f[i].at = <<c, i - Skip(c), UserCell(role, i)>>
            /\ f[j].at = <<c, j - Skip(c), UserCell(role, j)>>
        BY UseParts DEF UserEntry
      <4>2. i - Skip(c) = j - Skip(c)
        BY <3>1, <4>1
      <4>3. i \in Int /\ j \in Int /\ Skip(c) \in Int
        BY <2>7 DEF Skip
      <4> DEFINE s == Skip(c)
      <4> HIDE DEF s, J, f
      <4>4. QED
        BY <4>2, <4>3 DEF s
    <3>2. QED
      BY <3>1
  <2>10. p.m = -Cardinality(J)
    <3>1. CASE role = "P"
      <4>1. p = BaseProvider(c)
        BY <3>1 DEF GiverEntry
      <4>2. p.m = IF c = 1 THEN -4 ELSE -6
        BY <4>1, EntryParts DEF BaseProvider
      <4>3. Cardinality(J) = IF c = 1 THEN 4 ELSE 6
        BY <2>3, <3>1, PlaceCounts
      <4>4. QED
        BY <4>2, <4>3
    <3>2. CASE role # "P"
      BY <3>2, EntryParts DEF GiverEntry
    <3>3. QED
      BY <3>1, <3>2
  <2> DEFINE U == {f[j] : j \in J}
  <2> HIDE DEF J, V, f, p, t
  <2>11. IsFiniteSet(U) /\ Cardinality(U) = Cardinality(J)
    BY <2>7, <2>9, AsManyUsers
  <2>12. Provided(PinEntries, t)
    <3>1. \A u \in U : u.m = 1
      BY <2>8
    <3>2. {e \in PinEntries : e.t = t} = {p} \cup U
      BY <2>5, <2>6
    <3> HIDE DEF U
    <3>3. QED
      BY <2>10, <2>11, <3>1, <3>2, GroupProvided
  <2>13. QED
    BY <2>4, <2>12
<1>2. QED
  BY <1>1, ProvidedBalanced

-----------------------------------------------------------------------------
(* The draws of the chains.                                                *)

(* The table point chunk j draws. *)
DrawnBy(c, j) == Decode(Selectors(c).at[j]).index

Corrected(c) == Selectors(c).lsb = <<0, 0>>

(* Where the draw of a chunk stands: the first chunk has its own place. *)
DrawOf(j) == IF j = 0 THEN 2 ELSE C + 2 - j

LEMMA DrawsInOrder ==
    ASSUME NEW c
    PROVE  /\ DOMAIN Draws(c) = 1 .. IF Corrected(c) THEN C + 3 ELSE C + 2
           /\ Draws(c)[1] = Selectors(c).init
           /\ Draws(c)[2] = DrawnBy(c, 0)
           /\ \A n \in 3 .. C + 1 : Draws(c)[n] = DrawnBy(c, C + 2 - n)
           /\ Draws(c)[C + 2] = 16
           /\ Corrected(c) => Draws(c)[C + 3] = 2
<1> DEFINE init == Selectors(c).init
           zero == DrawnBy(c, 0)
           At(j) == DrawnBy(c, j)
           a == <<init, zero>>
           b == [i \in 1 .. C - 1 |-> At(C - i)]
           d == <<TABLE16_INDEX>>
           e == IF Corrected(c) THEN <<2>> ELSE <<>>
           ab == a \o b
           abd == ab \o d
           w == abd \o e
           m == Len(e)
<1>1. Draws(c) = w
  BY DEF Draws, DrawnBy, Corrected
<1>2. C \in Nat /\ C # 0 /\ C \in Int
  BY ChunksPositive
<1>3. Sequence(a) /\ Len(a) = 2 /\ a[1] = init /\ a[2] = zero
  <2> HIDE DEF init, zero
  <2>1. QED
    BY Few
<1>4. Sequence(d) /\ Len(d) = 1 /\ d[1] = 16
  BY Few DEF TABLE16_INDEX
<1>5. Sequence(e) /\ m = (IF Corrected(c) THEN 1 ELSE 0) /\ (Corrected(c) => e[1] = 2)
  <2>1. CASE Corrected(c)
    <3>1. e = <<2>>
      BY <2>1
    <3> HIDE DEF e
    <3>2. Sequence(<<2>>) /\ Len(<<2>>) = 1 /\ <<2>>[1] = 2
      BY Few
    <3>3. QED
      BY <2>1, <3>1, <3>2
  <2>2. CASE ~Corrected(c)
    <3>1. e = <<>>
      BY <2>2
    <3> HIDE DEF e
    <3>2. Sequence(<<>>) /\ Len(<<>>) = 0
      BY Few
    <3>3. QED
      BY <2>2, <3>1, <3>2
  <2>3. QED
    BY <2>1, <2>2
<1>6. Sequence(b) /\ Len(b) = C - 1 /\ \A i \in 1 .. C - 1 : b[i] = At(C - i)
  <2> DEFINE S == {At(C - i) : i \in 1 .. C - 1}
             n == C - 1
  <2>1. n \in Nat /\ b \in [1 .. n -> S]
    BY <1>2
  <2>2. \A i \in 1 .. n : b[i] = At(C - i)
    OBVIOUS
  <2> HIDE DEF b, S, n
  <2>3. b \in Seq(S)
    BY <2>1
  <2>4. Len(b) = n
    <3>1. DOMAIN b = 1 .. n /\ DOMAIN b = 1 .. Len(b) /\ Len(b) \in Nat
      BY <2>1, <2>3, LenProperties
    <3>2. QED
      BY <2>1, <3>1
  <2>5. Sequence(b)
    BY <2>3 DEF Sequence
  <2>6. QED
    BY <2>2, <2>4, <2>5 DEF n
<1> HIDE DEF a, b, d, e, init, zero, At
<1>7. /\ Sequence(ab) /\ Len(ab) = C + 1
      /\ \A n \in 1 .. C + 1 : ab[n] = IF n <= 2 THEN a[n] ELSE b[n - 2]
  <2>1. /\ Sequence(a \o b) /\ Len(a \o b) = Len(a) + Len(b)
        /\ \A n \in 1 .. Len(a) + Len(b) :
              (a \o b)[n] = IF n <= Len(a) THEN a[n] ELSE b[n - Len(a)]
    BY <1>3, <1>6, Joined
  <2>2. Len(a) = 2 /\ Len(b) = C - 1 /\ 2 + (C - 1) = C + 1
    BY <1>2, <1>3, <1>6
  <2>3. QED
    BY <2>1, <2>2
<1> HIDE DEF ab
<1>8. /\ Sequence(abd) /\ Len(abd) = C + 2
      /\ \A n \in 1 .. C + 2 : abd[n] = IF n <= C + 1 THEN ab[n] ELSE d[n - (C + 1)]
  <2>1. /\ Sequence(ab \o d) /\ Len(ab \o d) = Len(ab) + Len(d)
        /\ \A n \in 1 .. Len(ab) + Len(d) :
              (ab \o d)[n] = IF n <= Len(ab) THEN ab[n] ELSE d[n - Len(ab)]
    BY <1>4, <1>7, Joined
  <2>2. Len(ab) = C + 1 /\ Len(d) = 1 /\ (C + 1) + 1 = C + 2
    BY <1>2, <1>4, <1>7
  <2>3. QED
    BY <2>1, <2>2
<1> HIDE DEF abd
<1>9. /\ Sequence(w) /\ Len(w) = C + 2 + m
      /\ \A n \in 1 .. C + 2 + m : w[n] = IF n <= C + 2 THEN abd[n] ELSE e[n - (C + 2)]
  <2>1. /\ Sequence(abd \o e) /\ Len(abd \o e) = Len(abd) + Len(e)
        /\ \A n \in 1 .. Len(abd) + Len(e) :
              (abd \o e)[n] = IF n <= Len(abd) THEN abd[n] ELSE e[n - Len(abd)]
    BY <1>5, <1>8, Joined
  <2>2. QED
    BY <1>8, <2>1
<1>10. DOMAIN w = 1 .. C + 2 + m
  BY <1>9, Numbered
<1> HIDE DEF w, m
<1>11. m \in {0, 1} /\ (Corrected(c) <=> m = 1)
  BY <1>5
<1>12. DOMAIN w = 1 .. IF Corrected(c) THEN C + 3 ELSE C + 2
  BY <1>2, <1>10, <1>11
<1>13. /\ w[1] = init /\ w[2] = zero
  <2>1. 1 \in 1 .. C + 2 + m /\ 2 \in 1 .. C + 2 + m /\ 1 <= C + 1 /\ 2 <= C + 1 /\ 1 <= C + 2 /\ 2 <= C + 2
    BY <1>2, <1>11
  <2>2. 1 \in 1 .. C + 1 /\ 2 \in 1 .. C + 1 /\ 1 \in 1 .. C + 2 /\ 2 \in 1 .. C + 2
    BY <1>2
  <2>3. w[1] = abd[1] /\ w[2] = abd[2]
    BY <1>9, <2>1
  <2>4. abd[1] = ab[1] /\ abd[2] = ab[2]
    BY <1>8, <2>1, <2>2
  <2>5. ab[1] = a[1] /\ ab[2] = a[2]
    BY <1>7, <2>2
  <2>6. QED
    BY <1>3, <2>3, <2>4, <2>5
<1>14. ASSUME NEW n \in 3 .. C + 1
       PROVE  w[n] = At(C + 2 - n)
  <2>1. /\ n \in 1 .. C + 2 + m /\ n <= C + 2 /\ n \in 1 .. C + 2 /\ n <= C + 1 /\ n \in 1 .. C + 1
        /\ ~(n <= 2) /\ n - 2 \in 1 .. C - 1 /\ C - (n - 2) = C + 2 - n
    BY <1>2, <1>11
  <2>2. w[n] = abd[n] /\ abd[n] = ab[n] /\ ab[n] = b[n - 2]
    BY <1>7, <1>8, <1>9, <2>1
  <2>3. b[n - 2] = At(C - (n - 2))
    BY <1>6, <2>1
  <2>4. QED
    BY <2>1, <2>2, <2>3
<1>15. w[C + 2] = 16
  <2> DEFINE n == C + 2
  <2>1. n \in 1 .. C + 2 + m /\ n <= C + 2 /\ n \in 1 .. C + 2 /\ ~(n <= C + 1) /\ n - (C + 1) = 1
    BY <1>2, <1>11
  <2> HIDE DEF n
  <2>2. w[n] = abd[n] /\ abd[n] = d[n - (C + 1)]
    BY <1>8, <1>9, <2>1
  <2>3. QED
    BY <1>4, <2>1, <2>2 DEF n
<1>16. Corrected(c) => w[C + 3] = 2
  <2> DEFINE n == C + 3
  <2>1. Corrected(c) => n \in 1 .. C + 2 + m /\ ~(n <= C + 2) /\ n - (C + 2) = 1
    BY <1>2, <1>11
  <2> HIDE DEF n
  <2>2. Corrected(c) => w[n] = e[n - (C + 2)]
    BY <1>9, <2>1
  <2>3. QED
    BY <1>5, <2>1, <2>2 DEF n
<1>17. QED
  BY <1>1, <1>12, <1>13, <1>14, <1>15, <1>16 DEF init, zero, At

(* The draws of one table point are as many as its use count. *)
LEMMA DrawsCounted ==
    ASSUME ClaimBuilt, NEW c \in Certs, Active(c), NEW i \in 0 .. 7
    PROVE  LET drawn == {n \in DOMAIN Draws(c) : Draws(c)[n] = i} IN
           /\ IsFiniteSet(drawn)
           /\ Cardinality(drawn) = UseCounts(Selectors(c))[i]
<1> DEFINE init == Selectors(c).init
           At(j) == DrawnBy(c, j)
           K == {j \in 0 .. C - 1 : At(j) = i}
           f == [j \in K |-> DrawOf(j)]
           A == {f[j] : j \in K}
           B == IF init = i THEN A \cup {1} ELSE A
           D == IF Corrected(c) /\ i = 2 THEN B \cup {C + 3} ELSE B
           w == Draws(c)
           drawn == {n \in DOMAIN w : w[n] = i}
<1>1. C \in Nat /\ C # 0 /\ C \in Int
  BY ChunksPositive
<1>2. IsFiniteSet(K) /\ K \subseteq 0 .. C - 1
  <2>1. IsFiniteSet(0 .. C - 1)
    BY <1>1, FS_Interval
  <2>2. QED
    BY <2>1, FS_Subset
<1>3. \A j \in K : DrawOf(j) \in 2 .. C + 1
  BY <1>1 DEF DrawOf
<1>4. \A j, k \in K : DrawOf(j) = DrawOf(k) => j = k
  BY <1>1 DEF DrawOf
<1>5. \A j \in K : f[j] = DrawOf(j)
  OBVIOUS
<1>6. IsFiniteSet(A) /\ Cardinality(A) = Cardinality(K) /\ A \subseteq 2 .. C + 1
  <2>1. A \subseteq 2 .. C + 1
    BY <1>3
  <2>2. \A j, k \in K : f[j] = f[k] => j = k
    BY <1>4, <1>5
  <2> HIDE DEF K, f
  <2>3. IsFiniteSet({f[j] : j \in K}) /\ Cardinality({f[j] : j \in K}) = Cardinality(K)
    BY <1>2, <2>2, AsManyUsers
  <2>4. QED
    BY <2>1, <2>3
<1>7. drawn = D
  <2>1. /\ DOMAIN w = 1 .. IF Corrected(c) THEN C + 3 ELSE C + 2
        /\ w[1] = init /\ w[2] = At(0)
        /\ \A n \in 3 .. C + 1 : w[n] = At(C + 2 - n)
        /\ w[C + 2] = 16
        /\ Corrected(c) => w[C + 3] = 2
    BY DrawsInOrder
  <2>2. A = {n \in 2 .. C + 1 : w[n] = i}
    <3>1. ASSUME NEW j \in K
          PROVE  w[DrawOf(j)] = i
      <4>1. j \in 0 .. C - 1 /\ At(j) = i
        OBVIOUS
      <4> HIDE DEF w, At, K
      <4>2. CASE j = 0
        BY <2>1, <4>1, <4>2 DEF DrawOf
      <4>3. CASE j # 0
        <5> DEFINE n == C + 2 - j
        <5>1. n \in 3 .. C + 1 /\ C + 2 - n = j /\ DrawOf(j) = n
          BY <1>1, <4>1, <4>3 DEF DrawOf
        <5> HIDE DEF n
        <5>2. w[n] = At(C + 2 - n)
          BY <2>1, <5>1
        <5>3. QED
          BY <4>1, <5>1, <5>2
      <4>4. QED
        BY <4>2, <4>3
    <3>2. ASSUME NEW n \in 2 .. C + 1, w[n] = i
          PROVE  \E j \in K : n = DrawOf(j)
      <4> DEFINE j == IF n = 2 THEN 0 ELSE C + 2 - n
      <4>1. j \in 0 .. C - 1 /\ DrawOf(j) = n
        BY <1>1 DEF DrawOf
      <4>2. w[n] = At(j)
        <5>1. CASE n = 2
          <6> HIDE DEF w, At
          <6>1. QED
            BY <2>1, <5>1
        <5>2. CASE n # 2
          <6>1. n \in 3 .. C + 1 /\ j = C + 2 - n
            BY <1>1, <5>2
          <6> HIDE DEF w, At, j
          <6>2. w[n] = At(C + 2 - n)
            BY <2>1, <6>1
          <6>3. QED
            BY <6>1, <6>2
        <5>3. QED
          BY <5>1, <5>2
      <4> HIDE DEF j
      <4>3. j \in K
        BY <3>2, <4>1, <4>2
      <4>4. QED
        BY <4>1, <4>3
    <3> HIDE DEF w, K
    <3>3. QED
      BY <1>3, <3>1, <3>2
  <2> HIDE DEF w, A, init, At
  <2>3. ASSUME NEW n
        PROVE  n \in drawn <=> n \in D
    <3>1. CASE n \in 2 .. C + 1
      <4>1. n \in DOMAIN w /\ n # 1 /\ n # C + 3
        BY <1>1, <2>1, <3>1
      <4>2. n \in D <=> n \in A
        BY <4>1
      <4>3. n \in drawn <=> n \in A
        BY <2>2, <3>1, <4>1
      <4>4. QED
        BY <4>2, <4>3
    <3>2. CASE n = 1
      <4>1. n \in DOMAIN w /\ n \notin A /\ n # C + 3
        BY <1>1, <1>6, <2>1, <3>2
      <4>2. n \in D <=> init = i
        BY <3>2, <4>1
      <4>3. n \in drawn <=> init = i
        BY <2>1, <3>2, <4>1
      <4>4. QED
        BY <4>2, <4>3
    <3>3. CASE n = C + 3
      <4>1. n \notin A /\ n # 1
        BY <1>1, <1>6, <3>3
      <4>2. n \in D <=> Corrected(c) /\ i = 2
        BY <3>3, <4>1
      <4>3. n \in DOMAIN w <=> Corrected(c)
        BY <1>1, <2>1, <3>3
      <4>4. n \in drawn <=> Corrected(c) /\ i = 2
        BY <2>1, <3>3, <4>3
      <4>5. QED
        BY <4>2, <4>4
    <3>4. CASE n = C + 2
      <4>1. n \notin A /\ n # 1 /\ n # C + 3
        BY <1>1, <1>6, <3>4
      <4>2. n \notin D
        BY <4>1
      <4>3. w[n] # i
        BY <2>1, <3>4
      <4>4. QED
        BY <4>2, <4>3
    <3>5. CASE n \notin 2 .. C + 1 /\ n # 1 /\ n # C + 2 /\ n # C + 3
      <4>1. n \notin A
        BY <1>6, <3>5
      <4>2. n \notin D
        BY <3>5, <4>1
      <4>3. n \notin DOMAIN w
        BY <1>1, <2>1, <3>5
      <4>4. QED
        BY <4>2, <4>3
    <3>6. QED
      BY <3>1, <3>2, <3>3, <3>4, <3>5
  <2> HIDE DEF drawn, D
  <2>4. QED
    BY <2>3
<1> DEFINE x == IF init = i THEN 1 ELSE 0
           y == IF Corrected(c) /\ i = 2 THEN 1 ELSE 0
<1> HIDE DEF A, K
<1>8. Cardinality(A) \in Nat
  BY <1>6, FS_CardinalityType
<1>9. IsFiniteSet(B) /\ Cardinality(B) = Cardinality(A) + x /\ B \subseteq 1 .. C + 1
  <2>1. 1 \notin A
    BY <1>6
  <2>2. IsFiniteSet(A \cup {1}) /\ Cardinality(A \cup {1}) = Cardinality(A) + 1
    BY <1>6, <2>1, OneMore
  <2>3. Cardinality(A) = Cardinality(A) + 0
    BY <1>8
  <2>4. B \subseteq 1 .. C + 1
    BY <1>1, <1>6
  <2> HIDE DEF init
  <2>5. QED
    BY <1>6, <2>2, <2>3, <2>4
<1> HIDE DEF B, init
<1>10. IsFiniteSet(D) /\ Cardinality(D) = Cardinality(B) + y
  <2>1. C + 3 \notin B
    BY <1>1, <1>9
  <2>2. IsFiniteSet(B \cup {C + 3}) /\ Cardinality(B \cup {C + 3}) = Cardinality(B) + 1
    BY <1>9, <2>1, OneMore
  <2>3. Cardinality(B) \in Nat
    BY <1>9, FS_CardinalityType
  <2>4. Cardinality(B) = Cardinality(B) + 0
    BY <2>3
  <2>5. QED
    BY <1>9, <2>2, <2>4
<1>11. UseCounts(Selectors(c))[i] = x + y + Cardinality(K)
  BY DEF UseCounts, DrawnBy, Corrected, init, K
<1>12. Cardinality(D) = UseCounts(Selectors(c))[i]
  <2>1. x \in Nat /\ y \in Nat
    OBVIOUS
  <2> HIDE DEF x, y, D
  <2>2. QED
    BY <1>6, <1>8, <1>9, <1>10, <1>11, <2>1
<1>13. QED
  BY <1>7, <1>10, <1>12

LEMMA DrawsRange ==
    ASSUME ClaimBuilt, NEW c \in Certs, Active(c)
    PROVE  /\ \A n \in DOMAIN Draws(c) : Draws(c)[n] \in (0 .. 7) \cup {16}
           /\ {n \in DOMAIN Draws(c) : Draws(c)[n] = 16} = {C + 2}
           /\ DOMAIN Draws(c) \subseteq Int
<1> DEFINE w == Draws(c)
           init == Selectors(c).init
           At(j) == DrawnBy(c, j)
<1>1. C \in Nat /\ C # 0 /\ C \in Int
  BY ChunksPositive
<1>2. /\ DOMAIN w = 1 .. IF Corrected(c) THEN C + 3 ELSE C + 2
      /\ w[1] = init /\ w[2] = At(0)
      /\ \A n \in 3 .. C + 1 : w[n] = At(C + 2 - n)
      /\ w[C + 2] = 16
      /\ Corrected(c) => w[C + 3] = 2
  BY DrawsInOrder
<1>3. init \in 0 .. 7 /\ \A j \in 0 .. C - 1 : At(j) \in 0 .. 7
  BY SelectorRange DEF DrawnBy
<1> HIDE DEF w, init, At
<1>4. ASSUME NEW n \in DOMAIN w, n # C + 2
      PROVE  w[n] \in 0 .. 7
  <2>1. n = 1 \/ n = 2 \/ n \in 3 .. C + 1 \/ (n = C + 3 /\ Corrected(c))
    BY <1>1, <1>2, <1>4
  <2>2. CASE n = 1
    BY <1>2, <1>3, <2>2
  <2>3. CASE n = 2
    <3>1. 0 \in 0 .. C - 1
      BY <1>1
    <3>2. QED
      BY <1>2, <1>3, <2>3, <3>1
  <2>4. CASE n \in 3 .. C + 1
    <3>1. C + 2 - n \in 0 .. C - 1
      BY <1>1, <2>4
    <3>2. QED
      BY <1>2, <1>3, <2>4, <3>1
  <2>5. CASE n = C + 3 /\ Corrected(c)
    BY <1>2, <2>5
  <2>6. QED
    BY <2>1, <2>2, <2>3, <2>4, <2>5
<1>5. C + 2 \in DOMAIN w /\ DOMAIN w \subseteq Int
  BY <1>1, <1>2
<1>6. \A n \in DOMAIN w : w[n] \in (0 .. 7) \cup {16}
  BY <1>2, <1>4
<1>7. {n \in DOMAIN w : w[n] = 16} = {C + 2}
  <2>1. \A n \in DOMAIN w : n # C + 2 => w[n] # 16
    BY <1>4
  <2>2. QED
    BY <1>2, <1>5, <2>1
<1>8. QED
  BY <1>5, <1>6, <1>7 DEF w

(* The entries of one certificate's table point. *)
PointTuple(c, i) == <<c, i, PointAtIndex(c, i)>>
PointGiver(c, i) ==
    Entry(<<c, -1, i>>, PointTuple(c, i),
          IF i = TABLE16_INDEX THEN -1 ELSE -UseCounts(Selectors(c))[i])
PointUser(c, n, i) == Use(<<c, n, i>>, PointTuple(c, i))

LEMMA PointMembers ==
    ASSUME NEW e
    PROVE  e \in PointEntries <=> \E c \in ActiveCerts :
              \/ \E k \in (0 .. 7) \cup {16} : e = PointGiver(c, k)
              \/ \E n \in DOMAIN Draws(c) : e = PointUser(c, n, Draws(c)[n])
<1> DEFINE G(c) == {PointGiver(c, k) : k \in (0 .. 7) \cup {16}}
           U(c) == {PointUser(c, n, Draws(c)[n]) : n \in DOMAIN Draws(c)}
<1>1. \A c : PointProviders(c) = G(c)
  BY DEF PointProviders, PointGiver, PointTuple
<1>2. \A c : U(c) = {Use(<<c, n, Draws(c)[n]>>, <<c, Draws(c)[n], PointAtIndex(c, Draws(c)[n])>>) :
                      n \in DOMAIN Draws(c)}
  BY DEF PointUser, PointTuple
<1>3. PointEntries = UNION {G(c) \cup U(c) : c \in ActiveCerts}
  <2> DEFINE X(c) == PointProviders(c)
                     \cup {Use(<<c, n, Draws(c)[n]>>,
                               <<c, Draws(c)[n], PointAtIndex(c, Draws(c)[n])>>) :
                              n \in DOMAIN Draws(c)}
  <2>1. PointEntries = UNION {X(c) : c \in ActiveCerts}
    BY DEF PointEntries
  <2>2. \A c : X(c) = G(c) \cup U(c)
    BY <1>1, <1>2
  <2> HIDE DEF G, U, X
  <2>3. QED
    BY <2>1, <2>2
<1>4. \A c : /\ e \in G(c) <=> \E k \in (0 .. 7) \cup {16} : e = PointGiver(c, k)
             /\ e \in U(c) <=> \E n \in DOMAIN Draws(c) : e = PointUser(c, n, Draws(c)[n])
  OBVIOUS
<1> HIDE DEF G, U
<1>5. e \in PointEntries <=> \E c \in ActiveCerts : e \in G(c) \/ e \in U(c)
  BY <1>3
<1>6. QED
  BY <1>4, <1>5

LEMMA PointProvided ==
    ASSUME ClaimBuilt, NEW c \in ActiveCerts, NEW i \in (0 .. 7) \cup {16}
    PROVE  Provided(PointEntries, PointTuple(c, i))
<1> DEFINE E == PointEntries
           t == PointTuple(c, i)
           p == PointGiver(c, i)
           J == {n \in DOMAIN Draws(c) : Draws(c)[n] = i}
           f == [n \in J |-> PointUser(c, n, i)]
           U == {f[n] : n \in J}
<1>1. c \in Certs /\ Active(c)
  BY DEF ActiveCerts
<1>2. IsFiniteSet(J) /\ p.m = -Cardinality(J) /\ J \subseteq Int
  <2>1. J \subseteq Int
    BY <1>1, DrawsRange
  <2>2. CASE i = 16
    <3>1. J = {C + 2}
      BY <1>1, <2>2, DrawsRange
    <3> HIDE DEF J
    <3>2. IsFiniteSet(J) /\ Cardinality(J) = 1
      BY <3>1, FS_Singleton
    <3>3. p.m = -1
      BY <2>2, EntryParts DEF PointGiver, TABLE16_INDEX
    <3>4. QED
      BY <2>1, <3>2, <3>3
  <2>3. CASE i \in 0 .. 7
    <3>1. IsFiniteSet(J) /\ Cardinality(J) = UseCounts(Selectors(c))[i]
      BY <1>1, <2>3, DrawsCounted
    <3>2. p.m = -UseCounts(Selectors(c))[i]
      <4>1. i # TABLE16_INDEX
        BY <2>3 DEF TABLE16_INDEX
      <4>2. QED
        BY <4>1, EntryParts DEF PointGiver
    <3> HIDE DEF J, p
    <3>3. QED
      BY <2>1, <3>1, <3>2
  <2>4. QED
    BY <2>2, <2>3
<1>3. /\ \A n \in J : f[n] = PointUser(c, n, i)
      /\ \A n \in J : f[n].m = 1
      /\ \A m, n \in J : f[m] = f[n] => m = n
  <2>1. \A n \in J : f[n].m = 1 /\ f[n].at = <<c, n, i>>
    BY UseParts DEF PointUser
  <2>2. ASSUME NEW m \in J, NEW n \in J, f[m] = f[n]
        PROVE  m = n
    <3>1. <<c, m, i>> = <<c, n, i>>
      BY <2>1, <2>2
    <3>2. QED
      BY <3>1
  <2>3. QED
    BY <2>1, <2>2
<1>4. \A e : e \in E <=> \E b \in ActiveCerts :
                 \/ \E k \in (0 .. 7) \cup {16} : e = PointGiver(b, k)
                 \/ \E n \in DOMAIN Draws(b) : e = PointUser(b, n, Draws(b)[n])
  BY PointMembers
<1>5. /\ \A b, k : PointGiver(b, k).t = PointTuple(b, k)
      /\ \A b, n, k : PointUser(b, n, k).t = PointTuple(b, k)
  BY EntryParts, UseParts DEF PointGiver, PointUser
<1>6. \A b, k : PointTuple(b, k) = t => b = c /\ k = i
  BY DEF PointTuple
<1>7. U = {PointUser(c, n, i) : n \in J}
  OBVIOUS
<1>8. p = PointGiver(c, i)
  OBVIOUS
<1>9. \A n : n \in J <=> n \in DOMAIN Draws(c) /\ Draws(c)[n] = i
  OBVIOUS
<1> HIDE DEF E, p, J, f, U
<1>10. ASSUME NEW e \in E, e.t = t
       PROVE  e \in {p} \cup U
  <2>1. PICK b \in ActiveCerts :
           \/ \E k \in (0 .. 7) \cup {16} : e = PointGiver(b, k)
           \/ \E n \in DOMAIN Draws(b) : e = PointUser(b, n, Draws(b)[n])
    BY <1>4
  <2>2. CASE \E k \in (0 .. 7) \cup {16} : e = PointGiver(b, k)
    <3>1. PICK k \in (0 .. 7) \cup {16} : e = PointGiver(b, k)
      BY <2>2
    <3>2. PointTuple(b, k) = t
      BY <1>5, <1>10, <3>1
    <3>3. b = c /\ k = i
      BY <1>6, <3>2
    <3>4. QED
      BY <1>8, <3>1, <3>3
  <2>3. CASE \E n \in DOMAIN Draws(b) : e = PointUser(b, n, Draws(b)[n])
    <3>1. PICK n \in DOMAIN Draws(b) : e = PointUser(b, n, Draws(b)[n])
      BY <2>3
    <3>2. PointTuple(b, Draws(b)[n]) = t
      BY <1>5, <1>10, <3>1
    <3>3. b = c /\ Draws(b)[n] = i
      BY <1>6, <3>2
    <3>4. n \in J /\ e = PointUser(c, n, i)
      BY <1>9, <3>1, <3>3
    <3>5. QED
      BY <1>7, <3>4
  <2>4. QED
    BY <2>1, <2>2, <2>3
<1>11. ASSUME NEW e \in {p} \cup U
       PROVE  e \in E /\ e.t = t
  <2>1. CASE e = p
    BY <1>4, <1>5, <1>8, <2>1
  <2>2. CASE e \in U
    <3>1. PICK n \in J : e = PointUser(c, n, i)
      BY <1>7, <2>2
    <3>2. n \in DOMAIN Draws(c) /\ Draws(c)[n] = i
      BY <1>9
    <3>3. e = PointUser(c, n, Draws(c)[n])
      BY <3>1, <3>2
    <3>4. QED
      BY <1>4, <1>5, <3>1, <3>2, <3>3
  <2>3. QED
    BY <1>11, <2>1, <2>2
<1>12. {e \in E : e.t = t} = {p} \cup U
  BY <1>10, <1>11
<1>13. IsFiniteSet(U) /\ Cardinality(U) = Cardinality(J) /\ \A u \in U : u.m = 1
  <2>1. \A m, n \in J : f[m] = f[n] => m = n
    BY <1>3
  <2>2. IsFiniteSet({f[n] : n \in J}) /\ Cardinality({f[n] : n \in J}) = Cardinality(J)
    BY <1>2, <2>1, AsManyUsers
  <2>3. QED
    BY <1>3, <2>2 DEF U
<1> HIDE DEF t
<1>14. Provided(E, t)
  BY <1>2, <1>12, <1>13, GroupProvided
<1>15. QED
  BY <1>14 DEF E, t

LEMMA PointBalanced ==
    ASSUME ClaimBuilt
    PROVE  Balanced(PointEntries)
<1>1. ASSUME NEW e \in PointEntries
      PROVE  Provided(PointEntries, e.t)
  <2>1. PICK c \in ActiveCerts :
           \/ \E i \in (0 .. 7) \cup {16} : e = PointGiver(c, i)
           \/ \E n \in DOMAIN Draws(c) : e = PointUser(c, n, Draws(c)[n])
    BY PointMembers
  <2>2. \E i \in (0 .. 7) \cup {16} : e.t = PointTuple(c, i)
    <3>1. \A n \in DOMAIN Draws(c) : Draws(c)[n] \in (0 .. 7) \cup {16}
      BY DrawsRange DEF ActiveCerts
    <3>2. CASE \E i \in (0 .. 7) \cup {16} : e = PointGiver(c, i)
      BY <3>2, EntryParts DEF PointGiver
    <3>3. CASE \E n \in DOMAIN Draws(c) : e = PointUser(c, n, Draws(c)[n])
      BY <3>1, <3>3, UseParts DEF PointUser
    <3>4. QED
      BY <2>1, <3>2, <3>3
  <2>3. QED
    BY <2>2, PointProvided
<1>2. QED
  BY <1>1, ProvidedBalanced

LEMMA BuiltBalances ==
    ASSUME HintInv, ClaimInv, ChainInv, RowInv, ChainsMade, FinalMade
    PROVE  RelationsBalance
<1>1. ASSUME phase = "built"
      PROVE  /\ Balanced(PinEntries) /\ Balanced(ScalarEntries)
             /\ Balanced(OperandEntries) /\ Balanced(LsbProviders \cup LsbUses)
             /\ Balanced(PointEntries)
             /\ Balanced(AccumulatorEntries) /\ Balanced(ExpansionEntries)
             /\ Balanced(MulEntries) /\ Balanced(HintEntries) /\ Balanced(SignEntries)
             /\ Balanced(ResultEntries)
             /\ KeepsSchedule /\ ContinuityHolds
  <2>1. ClaimBuilt
    BY <1>1 DEF ClaimBuilt
  <2>2. /\ Balanced(PinEntries) /\ Balanced(ScalarEntries) /\ Balanced(PointEntries)
    BY <2>1, PinBalanced, ScalarBalanced, PointBalanced
  <2>3. /\ Balanced(OperandEntries) /\ Balanced(LsbProviders \cup LsbUses)
    BY <2>1, OperandBalanced, LsbBalanced
  <2>4. /\ Balanced(AccumulatorEntries) /\ Balanced(ExpansionEntries) /\ Balanced(MulEntries)
    BY <2>1, AccumulatorBalanced, ExpansionBalanced, MulBalanced
  <2>5. /\ Balanced(HintEntries) /\ Balanced(SignEntries) /\ Balanced(ResultEntries)
    BY <2>1, HintBalanced, SignBalanced, ResultBalanced
  <2>6. KeepsSchedule /\ ContinuityHolds
    BY <2>1, ScheduleKept, EndsHold
  <2>7. QED
    BY <2>2, <2>3, <2>4, <2>5, <2>6
<1>2. QED
  BY <1>1 DEF RelationsBalance

(* Whatever group, word size and inputs: in every claim the builder finishes,
   with one active certificate or two, each relation between its tables sums
   to zero, the chain rows fall on the schedule and the chains end where the
   air expects them. *)
THEOREM BuiltRelationsBalance == Spec => []RelationsBalance
<1> DEFINE Inv == HintInv /\ ClaimInv /\ ChainInv /\ RowInv /\ ChainsMade /\ FinalMade
<1>1. Init => Inv
  BY InitHintInv, InitClaimInv, InitChainInv, InitRowInv, InitChains, InitFinal
<1>2. Inv /\ [Next]_vars => Inv'
  BY NextHintInv, NextClaimInv, NextChainInv, NextRowInv, NextChains, NextFinal
<1>3. Inv => RelationsBalance
  BY BuiltBalances
<1> HIDE DEF Inv
<1>4. QED
  BY <1>1, <1>2, <1>3, PTL DEF Spec
=============================================================================
