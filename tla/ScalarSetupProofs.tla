-------------------------- MODULE ScalarSetupProofs --------------------------
(***************************************************************************)
(* The scalar rows of stwo-p256 accept nothing but the ECDSA scalars, for  *)
(* every order, every size of limbs and rows, every prime field large      *)
(* enough for the equations of a row, and every input.                     *)
(*                                                                         *)
(* An equation of a row is one in the field; FieldAssumption keeps its     *)
(* terms below the modulus, so it is one of integers (SmallVanishes).      *)
(* The equations of the limbs of a row, chained by their carries, are one  *)
(* equation of the values (CarryChain).  A product is checked digit by     *)
(* digit: ProductState says that what the digits so far have settled is    *)
(* what the two windows and the carry still owe, at the current place      *)
(* (DigitStep); after the last digit nothing is owed, so the product of    *)
(* the factors is the quotient times the order plus the result             *)
(* (ProductOfValues).  A half scalar is worth its selectors' bits, and     *)
(* selected_s1 is s1 or the order less s1 (HalfValue, SelectedValue).      *)
(***************************************************************************)
EXTENDS ScalarSetup, WellFoundedInduction, TLAPS

(* The quotient and the remainder of a division. *)
LEMMA Division ==
    ASSUME NEW a \in Int, NEW b \in Nat \ {0}
    PROVE  /\ a \div b \in Int /\ a % b \in Int
           /\ a = b * (a \div b) + (a % b)
           /\ 0 <= a % b /\ a % b < b
  BY Z3

(* A product is at least each factor when the other is positive. *)
LEMMA ProductAtLeast ==
    ASSUME NEW a \in Nat, NEW b \in Nat, 1 <= a
    PROVE  a * b >= b
  BY Z3

(* Products of naturals follow the order of a factor. *)
LEMMA ProductMonotone ==
    ASSUME NEW a \in Nat, NEW b \in Nat, NEW c \in Nat, a <= b
    PROVE  a * c <= b * c
  BY Z3

(* and decide it when the other factor is positive. *)
LEMMA ProductStrict ==
    ASSUME NEW a \in Int, NEW b \in Int, NEW c \in Nat \ {0}, a * c < b * c
    PROVE  a < b
  BY Z3

(* A difference distributes over a product. *)
LEMMA Distribute ==
    ASSUME NEW a \in Int, NEW b \in Int, NEW c \in Int
    PROVE  (a - b) * c = a * c - b * c
  BY Z3

(* A quotient and a remainder below the divisor are those of the division. *)
LEMMA UniqueDivision ==
    ASSUME NEW b \in Nat \ {0}, NEW d0 \in Int, NEW r \in 0 .. b - 1
    PROVE  (d0 * b + r) % b = r /\ (d0 * b + r) \div b = d0
<1> DEFINE a == d0 * b + r
<1>1. a \in Int /\ r \in Int /\ 0 <= r /\ r < b
  OBVIOUS
<1> DEFINE d == a \div b
           e == a % b
<1>2. d \in Int /\ e \in Int /\ a = b * d + e /\ 0 <= e /\ e < b
  BY <1>1, Division
<1>3. d0 * b + r = b * d + e
  BY <1>2
<1> HIDE DEF a, d, e
<1>4. (d0 - d) * b = e - r
  BY <1>1, <1>2, <1>3, Z3
<1>5. d0 - d < 1
  <2>1. (d0 - d) * b < 1 * b
    BY <1>1, <1>2, <1>4
  <2>2. QED
    BY <1>2, <2>1, ProductStrict
<1>6. -1 < d0 - d
  <2>1. (-1) * b < (d0 - d) * b
    BY <1>1, <1>2, <1>4
  <2>2. QED
    BY <1>2, <2>1, ProductStrict
<1>7. d0 = d
  BY <1>2, <1>5, <1>6
<1>8. e = r
  BY <1>1, <1>2, <1>4, <1>7
<1>9. QED
  BY <1>7, <1>8 DEF a, d, e

(* The order of the naturals, as a relation. *)
NatLess == {ss \in Nat \X Nat : ss[1] < ss[2]}

(* A nonempty set of naturals has a least element. *)
LEMMA LeastElement ==
    ASSUME NEW Low \in SUBSET Nat, Low # {}
    PROVE  \E x \in Low : \A y \in Low : ~(y < x)
<1>1. IsWellFoundedOn(NatLess, Nat)
  BY NatLessThanWellFounded DEF OpToRel, NatLess
<1>2. PICK x \in Low : \A y \in Low : ~(<<y, x>> \in NatLess)
  BY <1>1, WFMin
<1>3. QED
  BY <1>2 DEF NatLess

-----------------------------------------------------------------------------
(* Sums: the recursive function of Total is defined at every length, and a  *)
(* longer sum is the shorter one and its last entry.                        *)

(* What holds at 0 and climbs from each number to the next holds up to n. *)
LEMMA Climb ==
    ASSUME NEW n \in Nat, NEW G, 0 \in G,
           \A i \in 0 .. n - 1 : i \in G => i + 1 \in G
    PROVE  \A i \in 0 .. n : i \in G
<1> DEFINE Low == {i \in 0 .. n : i \notin G}
<1>1. CASE Low # {}
  <2>1. Low \in SUBSET Nat
    OBVIOUS
  <2>2. PICK x \in Low : \A y \in Low : ~(y < x)
    BY <1>1, <2>1, LeastElement
  <2>3. x \in 1 .. n
    BY <2>2
  <2>4. x - 1 \in 0 .. n - 1 /\ x - 1 < x /\ (x - 1) + 1 = x /\ x - 1 \in 0 .. n
    BY <2>3
  <2>5. x - 1 \in G
    BY <2>2, <2>4
  <2>6. QED
    BY <2>2, <2>4, <2>5
<1>2. QED
  BY <1>1

(* f lists the partial sums of the terms t. *)
IsSums(f, n, t) == f = [i \in 0 .. n |-> IF i = 0 THEN 0 ELSE f[i - 1] + t[i - 1]]
SumsExist(n, t) == \E f : IsSums(f, n, t)

(* Partial sums can be continued by one term, *)
LEMMA SumsGrow ==
    ASSUME NEW n \in Nat, NEW t, SumsExist(n, t)
    PROVE  SumsExist(n + 1, t)
<1>1. PICK f : IsSums(f, n, t)
  BY DEF SumsExist
<1> DEFINE w == [i \in 0 .. n + 1 |-> IF i = n + 1 THEN f[n] + t[n] ELSE f[i]]
<1>2. ASSUME NEW i \in 0 .. n + 1
      PROVE  w[i] = IF i = 0 THEN 0 ELSE w[i - 1] + t[i - 1]
  <2>1. CASE i = n + 1
    <3>1. i # 0 /\ i - 1 = n /\ n \in 0 .. n + 1 /\ n # n + 1
      BY <2>1
    <3>2. QED
      BY <2>1, <3>1
  <2>2. CASE i # n + 1
    <3>1. i \in 0 .. n
      BY <2>2
    <3>2. f[i] = IF i = 0 THEN 0 ELSE f[i - 1] + t[i - 1]
      BY <1>1, <3>1 DEF IsSums
    <3>3. i # 0 => i - 1 \in 0 .. n + 1 /\ i - 1 # n + 1
      BY <3>1
    <3>4. QED
      BY <2>2, <3>2, <3>3
  <2>3. QED
    BY <2>1, <2>2
<1>3. w = [i \in 0 .. n + 1 |-> IF i = 0 THEN 0 ELSE w[i - 1] + t[i - 1]]
  BY <1>2
<1>4. IsSums(w, n + 1, t)
  BY <1>3 DEF IsSums
<1>5. QED
  BY <1>4 DEF SumsExist

(* so they exist for every number of terms: a least number without them has
   none before it. *)
LEMMA SumsDefined ==
    ASSUME NEW n \in Nat, NEW t
    PROVE  SumsExist(n, t)
<1> DEFINE G == {i \in Nat : SumsExist(i, t)}
<1>1. 0 \in G
  <2> DEFINE f == [i \in 0 .. 0 |-> 0]
  <2>1. \A i \in 0 .. 0 : i = 0
    OBVIOUS
  <2>2. f = [i \in 0 .. 0 |-> IF i = 0 THEN 0 ELSE f[i - 1] + t[i - 1]]
    BY <2>1
  <2>3. IsSums(f, 0, t)
    BY <2>2 DEF IsSums
  <2>4. QED
    BY <2>3 DEF SumsExist
<1>2. \A i \in 0 .. n - 1 : i \in G => i + 1 \in G
  BY SumsGrow
<1> HIDE DEF G
<1>3. \A i \in 0 .. n : i \in G
  BY <1>1, <1>2, Climb
<1>4. n \in G
  BY <1>3
<1>5. QED
  BY <1>4 DEF G

(* Two solutions agree as far as both go. *)
LEMMA SumsUnique ==
    ASSUME NEW m \in Nat, NEW n \in Nat, m <= n, NEW t, NEW f, NEW w,
           IsSums(f, m, t), IsSums(w, n, t)
    PROVE  \A i \in 0 .. m : f[i] = w[i]
<1> DEFINE G == {i \in 0 .. m : f[i] = w[i]}
<1>0. /\ \A i \in 0 .. m : f[i] = IF i = 0 THEN 0 ELSE f[i - 1] + t[i - 1]
      /\ \A i \in 0 .. n : w[i] = IF i = 0 THEN 0 ELSE w[i - 1] + t[i - 1]
  BY DEF IsSums
<1>1. 0 \in G
  BY <1>0
<1>2. ASSUME NEW i \in 0 .. m - 1, i \in G PROVE i + 1 \in G
  <2>1. i + 1 \in 0 .. m /\ i + 1 \in 0 .. n /\ i + 1 # 0 /\ (i + 1) - 1 = i
    OBVIOUS
  <2>2. f[i + 1] = f[i] + t[i] /\ w[i + 1] = w[i] + t[i]
    BY <1>0, <2>1
  <2>3. QED
    BY <1>2, <2>1, <2>2
<1> HIDE DEF G
<1>3. \A i \in 0 .. m : i \in G
  BY <1>1, <1>2, Climb
<1>4. QED
  BY <1>3 DEF G

(* Total is the last of the partial sums its recursion describes. *)
LEMMA TotalIsLast ==
    ASSUME NEW n \in Nat, NEW t
    PROVE  \E f : IsSums(f, n, t) /\ Total(n, t) = f[n]
<1> DEFINE v == CHOOSE f : IsSums(f, n, t)
<1>1. IsSums(v, n, t)
  BY SumsDefined DEF SumsExist
<1>2. Total(n, t) = v[n]
  BY DEF Total, IsSums
<1> HIDE DEF v
<1>3. QED
  BY <1>1, <1>2

(* The recursion of Total: no term, *)
LEMMA TotalZero ==
    ASSUME NEW t
    PROVE  Total(0, t) = 0
<1>1. PICK f : IsSums(f, 0, t) /\ Total(0, t) = f[0]
  BY TotalIsLast
<1>2. QED
  BY <1>1 DEF IsSums

(* one more term. *)
LEMMA TotalStep ==
    ASSUME NEW n \in Nat, NEW t
    PROVE  Total(n + 1, t) = Total(n, t) + t[n]
<1>1. PICK f : IsSums(f, n, t) /\ Total(n, t) = f[n]
  BY TotalIsLast
<1>2. PICK w : IsSums(w, n + 1, t) /\ Total(n + 1, t) = w[n + 1]
  <2>1. n + 1 \in Nat
    OBVIOUS
  <2>2. QED
    BY <2>1, TotalIsLast
<1>3. \A i \in 0 .. n : f[i] = w[i]
  <2>1. n + 1 \in Nat /\ n <= n + 1
    OBVIOUS
  <2>2. QED
    BY <1>1, <1>2, <2>1, SumsUnique
<1>4. w[n + 1] = w[n] + t[n]
  <2>1. n + 1 \in 0 .. n + 1 /\ n + 1 # 0 /\ (n + 1) - 1 = n
    OBVIOUS
  <2>2. QED
    BY <1>2, <2>1 DEF IsSums
<1>5. n \in 0 .. n
  OBVIOUS
<1>6. QED
  BY <1>1, <1>2, <1>3, <1>4, <1>5

(* Sums of integers are integers, of naturals naturals. *)
LEMMA TotalInt ==
    ASSUME NEW n \in Nat, NEW t, \A i \in 0 .. n - 1 : t[i] \in Int
    PROVE  \A i \in 0 .. n : Total(i, t) \in Int
<1> DEFINE G == {i \in 0 .. n : Total(i, t) \in Int}
<1>1. 0 \in G
  BY TotalZero
<1>2. ASSUME NEW i \in 0 .. n - 1, i \in G PROVE i + 1 \in G
  <2>1. Total(i + 1, t) = Total(i, t) + t[i]
    BY TotalStep
  <2>2. QED
    BY <1>2, <2>1
<1> HIDE DEF G
<1>3. \A i \in 0 .. n : i \in G
  BY <1>1, <1>2, Climb
<1>4. QED
  BY <1>3 DEF G

(* Sums of naturals are naturals. *)
LEMMA TotalNat ==
    ASSUME NEW n \in Nat, NEW t, \A i \in 0 .. n - 1 : t[i] \in Nat
    PROVE  \A i \in 0 .. n : Total(i, t) \in Nat
<1> DEFINE G == {i \in 0 .. n : Total(i, t) \in Nat}
<1>1. 0 \in G
  BY TotalZero
<1>2. ASSUME NEW i \in 0 .. n - 1, i \in G PROVE i + 1 \in G
  <2>1. Total(i + 1, t) = Total(i, t) + t[i]
    BY TotalStep
  <2>2. QED
    BY <1>2, <2>1
<1> HIDE DEF G
<1>3. \A i \in 0 .. n : i \in G
  BY <1>1, <1>2, Climb
<1>4. QED
  BY <1>3 DEF G

(* Sums of equal entries are equal, and a sum of combinations is the        *)
(* combination of the sums.                                                 *)
LEMMA TotalSame ==
    ASSUME NEW n \in Nat, NEW s, NEW t, \A i \in 0 .. n - 1 : s[i] = t[i]
    PROVE  \A i \in 0 .. n : Total(i, s) = Total(i, t)
<1> DEFINE G == {i \in 0 .. n : Total(i, s) = Total(i, t)}
<1>1. 0 \in G
  BY TotalZero
<1>2. ASSUME NEW i \in 0 .. n - 1, i \in G PROVE i + 1 \in G
  <2>1. Total(i + 1, s) = Total(i, s) + s[i] /\ Total(i + 1, t) = Total(i, t) + t[i]
    BY TotalStep
  <2>2. QED
    BY <1>2, <2>1
<1> HIDE DEF G
<1>3. \A i \in 0 .. n : i \in G
  BY <1>1, <1>2, Climb
<1>4. QED
  BY <1>3 DEF G

Combines(n, k, s, t, r) ==
    \A i \in 0 .. n - 1 : s[i] \in Int /\ t[i] \in Int /\ r[i] = s[i] + k * t[i]
SumsCombine(n, k, s, t, r) ==
    \A i \in 0 .. n : Total(i, r) = Total(i, s) + k * Total(i, t)

(* A sum of combined terms is the combination of the sums. *)
LEMMA TotalCombine ==
    ASSUME NEW n \in Nat, NEW k \in Int, NEW s, NEW t, NEW r, Combines(n, k, s, t, r)
    PROVE  SumsCombine(n, k, s, t, r)
<1> USE DEF Combines, SumsCombine
<1> DEFINE G == {i \in 0 .. n : Total(i, r) = Total(i, s) + k * Total(i, t)}
<1>0. \A i \in 0 .. n : Total(i, s) \in Int /\ Total(i, t) \in Int
  BY TotalInt
<1>1. 0 \in G
  BY TotalZero
<1>2. ASSUME NEW i \in 0 .. n - 1, i \in G PROVE i + 1 \in G
  <2> DEFINE a == Total(i, s)
             b == Total(i, t)
             c == s[i]
             d == t[i]
             e == Total(i, r)
  <2>1. /\ Total(i + 1, s) = a + c /\ Total(i + 1, t) = b + d
        /\ Total(i + 1, r) = e + r[i] /\ r[i] = c + k * d
    BY TotalStep
  <2>2. a \in Int /\ b \in Int /\ c \in Int /\ d \in Int /\ e = a + k * b
    BY <1>0, <1>2
  <2> HIDE DEF a, b, c, d, e
  <2>3. e + (c + k * d) = (a + c) + k * (b + d)
    BY <2>2, Z3
  <2>4. QED
    BY <2>1, <2>3
<1> HIDE DEF G
<1>3. \A i \in 0 .. n : i \in G
  BY <1>1, <1>2, Climb
<1>4. QED
  BY <1>3 DEF G
-----------------------------------------------------------------------------
(* Powers: of two, which cut a half scalar, and of the base of a limb.      *)

(* g lists the powers of b. *)
IsPowers(g, b, m) == g = [n \in 0 .. m |-> IF n = 0 THEN 1 ELSE b * g[n - 1]]
PowersExist(b, m) == \E g : IsPowers(g, b, m)

(* Powers can be continued by one, *)
LEMMA PowersGrow ==
    ASSUME NEW b, NEW n \in Nat, PowersExist(b, n)
    PROVE  PowersExist(b, n + 1)
<1>1. PICK v : IsPowers(v, b, n)
  BY DEF PowersExist
<1> DEFINE w == [i \in 0 .. n + 1 |-> IF i = n + 1 THEN b * v[n] ELSE v[i]]
<1>2. ASSUME NEW i \in 0 .. n + 1
      PROVE  w[i] = IF i = 0 THEN 1 ELSE b * w[i - 1]
  <2>1. CASE i = n + 1
    <3>1. i # 0 /\ i - 1 = n /\ n \in 0 .. n + 1 /\ n # n + 1
      BY <2>1
    <3>2. QED
      BY <2>1, <3>1
  <2>2. CASE i # n + 1
    <3>1. i \in 0 .. n
      BY <2>2
    <3>2. v[i] = IF i = 0 THEN 1 ELSE b * v[i - 1]
      BY <1>1, <3>1 DEF IsPowers
    <3>3. i # 0 => i - 1 \in 0 .. n + 1 /\ i - 1 # n + 1
      BY <3>1
    <3>4. QED
      BY <2>2, <3>2, <3>3
  <2>3. QED
    BY <2>1, <2>2
<1>3. w = [i \in 0 .. n + 1 |-> IF i = 0 THEN 1 ELSE b * w[i - 1]]
  BY <1>2
<1>4. IsPowers(w, b, n + 1)
  BY <1>3 DEF IsPowers
<1>5. QED
  BY <1>4 DEF PowersExist

(* so they exist up to every exponent. *)
LEMMA PowersDefined ==
    ASSUME NEW b, NEW n \in Nat
    PROVE  PowersExist(b, n)
<1> DEFINE G == {i \in Nat : PowersExist(b, i)}
<1>1. 0 \in G
  <2> DEFINE v == [i \in 0 .. 0 |-> 1]
  <2>1. \A i \in 0 .. 0 : i = 0
    OBVIOUS
  <2>2. v = [i \in 0 .. 0 |-> IF i = 0 THEN 1 ELSE b * v[i - 1]]
    BY <2>1
  <2>3. IsPowers(v, b, 0)
    BY <2>2 DEF IsPowers
  <2>4. QED
    BY <2>3 DEF PowersExist
<1>2. \A i \in 0 .. n - 1 : i \in G => i + 1 \in G
  BY PowersGrow
<1> HIDE DEF G
<1>3. \A i \in 0 .. n : i \in G
  BY <1>1, <1>2, Climb
<1>4. n \in G
  BY <1>3
<1>5. QED
  BY <1>4 DEF G

(* A solution starts at one, and every entry is the base times the last.    *)
LEMMA PowerSteps ==
    ASSUME NEW g, NEW b \in Nat \ {0}, NEW m \in Nat, IsPowers(g, b, m)
    PROVE  /\ g[0] = 1
           /\ \A n \in 0 .. m - 1 : g[n + 1] = b * g[n]
           /\ \A n \in 0 .. m : g[n] \in Nat \ {0}
<1>0. \A n \in 0 .. m : g[n] = IF n = 0 THEN 1 ELSE b * g[n - 1]
  BY DEF IsPowers
<1>1. g[0] = 1
  BY <1>0
<1>2. ASSUME NEW n \in 0 .. m - 1 PROVE g[n + 1] = b * g[n]
  <2>1. n + 1 \in 0 .. m /\ n + 1 # 0 /\ (n + 1) - 1 = n
    OBVIOUS
  <2>2. QED
    BY <1>0, <2>1
<1> DEFINE G == {n \in 0 .. m : g[n] \in Nat \ {0}}
<1>3. 0 \in G
  BY <1>1
<1>4. ASSUME NEW n \in 0 .. m - 1, n \in G PROVE n + 1 \in G
  <2> DEFINE x == g[n]
  <2>1. x \in Nat \ {0} /\ g[n + 1] = b * x
    BY <1>2, <1>4
  <2> HIDE DEF x
  <2>2. b * x \in Nat \ {0}
    BY <2>1, Z3
  <2>3. QED
    BY <2>1, <2>2
<1>5. \A n \in 0 .. m : n \in G
  <2> HIDE DEF G
  <2>1. QED
    BY <1>3, <1>4, Climb
<1>6. QED
  BY <1>1, <1>2, <1>5

(* A power of a sum of exponents is a product of powers. *)
LEMMA PowerOfSum ==
    ASSUME NEW g, NEW b \in Nat \ {0}, NEW m \in Nat, IsPowers(g, b, m),
           NEW i \in Nat, NEW k \in Nat, i + k <= m
    PROVE  g[i + k] = g[i] * g[k]
<1> DEFINE G == {n \in 0 .. k : g[i + n] = g[i] * g[n]}
           p == g[i]
<1>0. /\ g[0] = 1 /\ \A n \in 0 .. m - 1 : g[n + 1] = b * g[n]
      /\ \A n \in 0 .. m : g[n] \in Nat \ {0}
  BY PowerSteps
<1>1. 0 \in G
  <2>1. i + 0 = i /\ p \in Int
    BY <1>0
  <2>2. QED
    BY <1>0, <2>1
<1>2. ASSUME NEW n \in 0 .. k - 1, n \in G PROVE n + 1 \in G
  <2> DEFINE x == g[n]
             y == g[i + n]
  <2>1. x \in Int /\ p \in Int /\ y = p * x
    BY <1>0, <1>2
  <2>2. g[n + 1] = b * x
    BY <1>0
  <2>3. g[i + (n + 1)] = b * y
    <3>1. i + n \in 0 .. m - 1 /\ i + (n + 1) = (i + n) + 1
      OBVIOUS
    <3>2. QED
      BY <1>0, <3>1
  <2> HIDE DEF x, y, p
  <2>4. b * (p * x) = p * (b * x)
    BY <2>1, Z3
  <2>5. g[i + (n + 1)] = p * g[n + 1]
    BY <2>1, <2>2, <2>3, <2>4
  <2>6. n + 1 \in 0 .. k
    OBVIOUS
  <2>7. QED
    BY <2>5, <2>6 DEF p
<1> HIDE DEF G
<1>3. \A n \in 0 .. k : n \in G
  BY <1>1, <1>2, Climb
<1>4. k \in G
  BY <1>3
<1>5. QED
  BY <1>4 DEF G

(* The constants. *)
LEMMA OrderFacts == N \in Nat /\ C \in Nat /\ 1 <= C /\ 3 < N /\ HalfBound \in Nat
<1> HIDE DEF Root, HalfBound
<1>1. QED
  BY OrderAssumption

(* TwoTo lists the powers of two, *)
LEMMA TwoToIsPowers == IsPowers(TwoTo, 2, 2 * C + 2)
<1>1. 2 * C + 2 \in Nat
  BY OrderFacts
<1>2. QED
  BY <1>1, PowersDefined DEF TwoTo, IsPowers, PowersExist

(* each twice the one before it. *)
LEMMA TwoToFacts ==
    /\ TwoTo[0] = 1
    /\ \A n \in 0 .. 2 * C + 1 : TwoTo[n + 1] = 2 * TwoTo[n]
    /\ \A n \in 0 .. 2 * C + 2 : TwoTo[n] \in Nat \ {0}
<1> DEFINE m == 2 * C + 2
<1>1. m \in Nat /\ 0 .. m - 1 = 0 .. 2 * C + 1 /\ 2 \in Nat \ {0}
  BY OrderFacts
<1>2. IsPowers(TwoTo, 2, m)
  BY TwoToIsPowers
<1> HIDE DEF m
<1>3. /\ TwoTo[0] = 1
      /\ \A n \in 0 .. m - 1 : TwoTo[n + 1] = 2 * TwoTo[n]
      /\ \A n \in 0 .. m : TwoTo[n] \in Nat \ {0}
  BY <1>1, <1>2, PowerSteps
<1>4. QED
  BY <1>1, <1>3 DEF m

(* The sizes of limbs and rows, from LimbAssumption. *)
LEMMA LimbFacts ==
    /\ LimbBits \in 1 .. 2 * C + 2 /\ B = TwoTo[LimbBits]
    /\ B \in Nat /\ 2 <= B
    /\ K \in Nat /\ 2 <= K /\ KS \in 1 .. K - 1 /\ KS \in Nat
    /\ TopB \in 1 .. B /\ TopB \in Nat
    /\ P \in Nat
<1>1. /\ LimbBits \in 1 .. 2 * C + 2 /\ B = TwoTo[LimbBits]
      /\ K \in Nat /\ KS \in 1 .. K - 1 /\ TopB \in 1 .. B /\ P \in Nat
  <2> HIDE DEF HalfBound, Place, TwoTo
  <2>1. QED
    BY LimbAssumption
<1>2. B \in Nat /\ 2 <= B
  <2> DEFINE n == LimbBits - 1
             t == TwoTo[n]
  <2>1. n \in 0 .. 2 * C + 1 /\ n + 1 = LimbBits /\ n \in 0 .. 2 * C + 2
    BY <1>1, OrderFacts
  <2> HIDE DEF n
  <2>2. TwoTo[LimbBits] = 2 * t /\ t \in Nat \ {0}
    BY <2>1, TwoToFacts
  <2> HIDE DEF t
  <2>3. QED
    BY <1>1, <2>2
<1>3. QED
  BY <1>1, <1>2

(* Place lists the weights of the limbs, powers of the limb base, *)
LEMMA PlaceIsPowers == IsPowers(Place, B, 2 * K)
<1>1. 2 * K \in Nat
  BY LimbFacts
<1>2. QED
  BY <1>1, PowersDefined DEF Place, IsPowers, PowersExist

(* each B times the one before it, *)
LEMMA PlaceFacts ==
    /\ Place[0] = 1
    /\ \A n \in 0 .. 2 * K - 1 : Place[n + 1] = B * Place[n]
    /\ \A n \in 0 .. 2 * K : Place[n] \in Nat \ {0}
<1>1. 2 * K \in Nat /\ B \in Nat \ {0}
  BY LimbFacts
<1>2. IsPowers(Place, B, 2 * K)
  BY PlaceIsPowers
<1> HIDE DEF Place
<1>3. QED
  BY <1>1, <1>2, PowerSteps

(* and the weight of a sum of places is the product of their weights. *)
LEMMA PlaceOfSum ==
    ASSUME NEW i \in Nat, NEW k \in Nat, i + k <= 2 * K
    PROVE  Place[i + k] = Place[i] * Place[k]
<1>1. 2 * K \in Nat /\ B \in Nat \ {0}
  BY LimbFacts
<1>2. IsPowers(Place, B, 2 * K)
  BY PlaceIsPowers
<1> HIDE DEF Place
<1>3. QED
  BY <1>1, <1>2, PowerOfSum
-----------------------------------------------------------------------------
(* Values of rows of limbs.                                                 *)

(* The places of a row are the numbers below K. *)
LEMMA Indexes == At = 0 .. K - 1 /\ (\A i \in At : i \in Nat /\ i \in 0 .. 2 * K - 1 /\ i \in 0 .. 2 * K)
BY LimbFacts DEF At

(* A weighted limb. *)
LEMMA WeightedAt ==
    ASSUME NEW x, NEW i \in At
    PROVE  Weighted(x)[i] = x[i] * Place[i]
BY DEF Weighted

(* Weighted integers are integers, *)
LEMMA WeightedInt ==
    ASSUME NEW x, \A i \in At : x[i] \in Int
    PROVE  \A i \in 0 .. K - 1 : Weighted(x)[i] \in Int
<1> SUFFICES ASSUME NEW i \in 0 .. K - 1 PROVE Weighted(x)[i] \in Int
  OBVIOUS
<1> DEFINE a == x[i]
           p == Place[i]
<1>1. i \in At /\ a \in Int /\ p \in Int
  BY Indexes, PlaceFacts
<1>2. Weighted(x)[i] = a * p
  BY <1>1, WeightedAt
<1> HIDE DEF a, p
<1>3. QED
  BY <1>1, <1>2

(* so a row of integers has an integer as its value, *)
LEMMA ValueInt ==
    ASSUME NEW x, \A i \in At : x[i] \in Int
    PROVE  ValueOf(x) \in Int
<1>1. \A i \in 0 .. K : Total(i, Weighted(x)) \in Int
  BY WeightedInt, TotalInt, LimbFacts
<1>2. K \in 0 .. K
  BY LimbFacts
<1>3. QED
  BY <1>1, <1>2 DEF ValueOf

(* and a row of naturals a natural. *)
LEMMA ValueNat ==
    ASSUME NEW x, \A i \in At : x[i] \in Nat
    PROVE  ValueOf(x) \in Nat
<1>1. ASSUME NEW i \in 0 .. K - 1 PROVE Weighted(x)[i] \in Nat
  <2> DEFINE a == x[i]
             p == Place[i]
  <2>1. i \in At /\ a \in Nat /\ p \in Nat
    BY Indexes, PlaceFacts
  <2>2. Weighted(x)[i] = a * p
    BY <2>1, WeightedAt
  <2> HIDE DEF a, p
  <2>3. a * p \in Nat
    BY <2>1, Z3
  <2>4. QED
    BY <2>2, <2>3
<1>2. \A i \in 0 .. K : Total(i, Weighted(x)) \in Nat
  BY <1>1, TotalNat, LimbFacts
<1>3. K \in 0 .. K
  BY LimbFacts
<1>4. QED
  BY <1>2, <1>3 DEF ValueOf

LimbsCombine(k, x, y, r) ==
    \A i \in At : x[i] \in Int /\ y[i] \in Int /\ r[i] = x[i] + k * y[i]

(* The value of a combination of rows is the combination of their values. *)
LEMMA ValueCombine ==
    ASSUME NEW k \in Int, NEW x, NEW y, NEW r, LimbsCombine(k, x, y, r)
    PROVE  ValueOf(r) = ValueOf(x) + k * ValueOf(y)
<1> USE DEF LimbsCombine
<1> DEFINE s == Weighted(x)
           t == Weighted(y)
           w == Weighted(r)
<1>1. ASSUME NEW i \in 0 .. K - 1
      PROVE  s[i] \in Int /\ t[i] \in Int /\ w[i] = s[i] + k * t[i]
  <2> DEFINE a == x[i]
             b == y[i]
             c == r[i]
             p == Place[i]
  <2>1. i \in At /\ a \in Int /\ b \in Int /\ c = a + k * b /\ p \in Int
    BY Indexes, PlaceFacts
  <2>2. s[i] = a * p /\ t[i] = b * p /\ w[i] = c * p
    BY <2>1, WeightedAt
  <2> HIDE DEF a, b, c, p, s, t, w
  <2>3. (a + k * b) * p = a * p + k * (b * p)
    BY <2>1, Z3
  <2>4. a * p \in Int /\ b * p \in Int
    BY <2>1
  <2>5. QED
    BY <2>1, <2>2, <2>3, <2>4
<1> HIDE DEF s, t, w
<1>2. \A i \in 0 .. K : Total(i, w) = Total(i, s) + k * Total(i, t)
  <2>1. K \in Nat
    BY LimbFacts
  <2>2. QED
    <3>1. Combines(K, k, s, t, w)
      BY <1>1 DEF Combines
    <3>2. SumsCombine(K, k, s, t, w)
      BY <2>1, <3>1, TotalCombine
    <3>3. QED
      BY <3>2 DEF SumsCombine
<1>3. K \in 0 .. K
  BY LimbFacts
<1>4. QED
  BY <1>2, <1>3 DEF ValueOf, s, t, w

(* The value depends on the limbs only. *)
LEMMA ValueSame ==
    ASSUME NEW x, NEW y, \A i \in At : x[i] = y[i]
    PROVE  ValueOf(x) = ValueOf(y)
<1>1. \A i \in 0 .. K - 1 : Weighted(x)[i] = Weighted(y)[i]
  BY WeightedAt DEF At
<1>2. \A i \in 0 .. K : Total(i, Weighted(x)) = Total(i, Weighted(y))
  BY <1>1, TotalSame, LimbFacts
<1>3. K \in 0 .. K
  BY LimbFacts
<1>4. QED
  BY <1>2, <1>3 DEF ValueOf

(* A row whose entries are carried from limb to limb is worth its last      *)
(* cs.                                                                   *)
Carries(e, cs) ==
    \A i \in At : e[i] \in Int /\ cs[i] \in Int /\ e[i] + Into(cs, i) = B * cs[i]

(* Limb equations with carries say of the whole row that its value is the
   last carry at the place past its end. *)
LEMMA CarryChain ==
    ASSUME NEW e, NEW cs, Carries(e, cs)
    PROVE  ValueOf(e) = cs[K - 1] * Place[K]
<1> USE DEF Carries
<1> DEFINE t == Weighted(e)
           G == {i \in 0 .. K : Total(i, t) = Into(cs, i) * Place[i]}
<1>0. 0 \in 0 .. K /\ K \in 0 .. K /\ K \in Nat /\ K # 0
  BY LimbFacts
<1>1. 0 \in G
  <2>1. Into(cs, 0) = 0 /\ Place[0] \in Int
    BY PlaceFacts DEF Into
  <2>2. QED
    BY <1>0, <2>1, TotalZero
<1>2. ASSUME NEW i \in 0 .. K - 1, i \in G PROVE i + 1 \in G
  <2> DEFINE a == e[i]
             c == cs[i]
             d == Into(cs, i)
             p == Place[i]
             pp == Place[i + 1]
  <2>0. i \in At /\ i \in 0 .. 2 * K - 1 /\ i \in 0 .. 2 * K /\ i + 1 \in 0 .. K
    BY <1>0, Indexes
  <2>1. i \in At /\ a \in Int /\ c \in Int /\ a + d = B * c /\ p \in Int /\ pp = B * p /\ B \in Int
    BY <2>0, PlaceFacts, LimbFacts
  <2>2. d \in Int
    <3>1. i # 0 => i - 1 \in At
      BY <1>0 DEF At
    <3>2. QED
      BY <3>1 DEF Into
  <2>3. Total(i, t) = d * p
    BY <1>2
  <2>4. Total(i + 1, t) = Total(i, t) + t[i] /\ t[i] = a * p
    BY <2>1, TotalStep, WeightedAt
  <2>5. Into(cs, i + 1) = c
    BY DEF Into
  <2> HIDE DEF a, c, d, p, pp, t
  <2>6. d * p + a * p = c * (B * p)
    <3>1. d * p + a * p = (a + d) * p
      BY <2>1, <2>2, Z3
    <3>2. (B * c) * p = c * (B * p)
      BY <2>1, Z3
    <3>3. QED
      BY <2>1, <3>1, <3>2
  <2>7. Total(i + 1, t) = Into(cs, i + 1) * pp
    BY <2>1, <2>3, <2>4, <2>5, <2>6
  <2>8. QED
    BY <2>0, <2>7 DEF pp
<1> HIDE DEF G
<1>3. \A i \in 0 .. K : i \in G
  BY <1>0, <1>1, <1>2, Climb
<1>4. K \in G
  BY <1>0, <1>3
<1>5. Into(cs, K) = cs[K - 1]
  BY <1>0 DEF Into
<1>6. QED
  BY <1>4, <1>5 DEF G, ValueOf

(* Dividing by t and then by b divides by their product; the remainder is the
   next digit. *)
LEMMA DivideTwice ==
    ASSUME NEW n \in Nat, NEW t \in Nat \ {0}, NEW b \in Nat \ {0}
    PROVE  /\ n \div t \in Nat /\ (n \div t) % b \in 0 .. b - 1
           /\ n \div t = b * (n \div (b * t)) + ((n \div t) % b)
<1> DEFINE d == n \div t
           e == n % t
<1>1. d \in Int /\ e \in Int /\ n = t * d + e /\ 0 <= e /\ e < t
  BY Division
<1> HIDE DEF d, e
<1>2. 0 <= d
  <2>1. (-1) * t < d * t
    BY <1>1, Z3
  <2>2. -1 < d
    BY <1>1, <2>1, ProductStrict
  <2>3. QED
    BY <1>1, <2>2
<1> DEFINE f == d \div b
           c == d % b
<1>3. f \in Int /\ c \in Int /\ d = b * f + c /\ 0 <= c /\ c < b
  BY <1>1, Division
<1> HIDE DEF f, c
<1> DEFINE rest == c * t + e
           m == b * t
<1>4. m \in Nat \ {0}
  BY Z3
<1>5. rest \in 0 .. m - 1
  <2>1. rest \in Nat
    <3>1. c * t \in Nat
      BY <1>3, Z3
    <3>2. QED
      BY <1>1, <3>1
  <2>2. (c + 1) * t <= b * t
    <3>1. c + 1 \in Nat /\ c + 1 <= b
      BY <1>3
    <3>2. QED
      BY <3>1, ProductMonotone
  <2>3. (c + 1) * t = c * t + t
    BY <1>3, Z3
  <2> DEFINE ct == c * t
  <2>4. ct \in Int /\ ct + t <= m /\ rest = ct + e
    BY <1>3, <2>2, <2>3
  <2> HIDE DEF ct, m, rest
  <2>5. QED
    BY <1>1, <1>4, <2>1, <2>4
<1>6. n = f * m + rest
  <2>1. t * d = f * (b * t) + c * t
    BY <1>1, <1>3, Z3
  <2> DEFINE x == t * d
             y == f * (b * t)
             z == c * t
  <2>2. x \in Int /\ y \in Int /\ z \in Int /\ x = y + z /\ n = x + e
    BY <1>1, <1>3, <2>1
  <2> HIDE DEF x, y, z
  <2>3. n = y + (z + e)
    BY <1>1, <2>2
  <2>4. QED
    BY <2>3 DEF y, z
<1> HIDE DEF m, rest
<1>7. n \div m = f
  BY <1>3, <1>4, <1>5, <1>6, UniqueDivision
<1>8. QED
  BY <1>1, <1>2, <1>3, <1>7 DEF d, c, m

(* The limbs of a number have its value. *)
LEMMA ValueOfLimbs ==
    ASSUME NEW n \in Nat, n < Place[K]
    PROVE  LimbsOf(n) \in [At -> Limb] /\ ValueOf(LimbsOf(n)) = n
<1> DEFINE x == LimbsOf(n)
           t == Weighted(x)
           G == {i \in 0 .. K : n = Total(i, t) + Place[i] * (n \div Place[i])}
<1>0. 0 \in 0 .. K /\ K \in 0 .. K /\ K \in Nat /\ B \in Nat \ {0} /\ B \in Nat
  BY LimbFacts
<1>a. ASSUME NEW i \in 0 .. K - 1
      PROVE  /\ x[i] \in Limb /\ n \div Place[i] \in Nat
             /\ n \div Place[i] = B * (n \div Place[i + 1]) + x[i]
  <2> DEFINE p == Place[i]
  <2>1. i \in At /\ p \in Nat \ {0} /\ Place[i + 1] = B * p
    BY Indexes, PlaceFacts
  <2>2. x[i] = (n \div p) % B
    BY <2>1 DEF LimbsOf
  <2> HIDE DEF p, x
  <2>3. /\ n \div p \in Nat /\ (n \div p) % B \in 0 .. B - 1
        /\ n \div p = B * (n \div (B * p)) + ((n \div p) % B)
    BY <1>0, <2>1, DivideTwice
  <2>4. QED
    BY <2>1, <2>2, <2>3 DEF Limb, p
<1>b. x \in [At -> Limb]
  <2>1. x = [i \in At |-> (n \div Place[i]) % B]
    BY DEF LimbsOf
  <2>2. \A i \in At : x[i] \in Limb
    BY <1>a DEF At
  <2> HIDE DEF x
  <2>3. x = [i \in At |-> x[i]]
    BY <2>1
  <2>4. QED
    BY <2>2, <2>3
<1> HIDE DEF x
<1>c. \A i \in 0 .. K : Total(i, t) \in Int
  <2>1. \A i \in At : x[i] \in Int
    BY <1>b, <1>0 DEF Limb
  <2>2. QED
    BY <1>0, <2>1, WeightedInt, TotalInt
<1>1. 0 \in G
  <2>1. Place[0] = 1 /\ Total(0, t) = 0
    BY PlaceFacts, TotalZero
  <2>2. n \div 1 = n
    OBVIOUS
  <2>3. QED
    BY <1>0, <2>1, <2>2
<1>2. ASSUME NEW i \in 0 .. K - 1, i \in G PROVE i + 1 \in G
  <2> DEFINE p == Place[i]
             d == n \div p
             f == n \div Place[i + 1]
             a == x[i]
             T == Total(i, t)
  <2>1. i \in At /\ p \in Int /\ Place[i + 1] = B * p
    BY Indexes, PlaceFacts
  <2>2. a \in Int /\ d \in Int /\ d = B * f + a /\ T \in Int /\ n = T + p * d
    BY <1>0, <1>2, <1>a, <1>c DEF Limb
  <2>3. f \in Int
    <3> DEFINE pp == Place[i + 1]
    <3>1. i + 1 \in 0 .. 2 * K
      BY <1>0
    <3>2. pp \in Nat \ {0}
      BY <3>1, PlaceFacts
    <3> HIDE DEF pp
    <3>3. n \div pp \in Int
      BY <3>2, Division
    <3>4. QED
      BY <3>3 DEF pp
  <2>4. Total(i + 1, t) = T + a * p
    BY <2>1, TotalStep, WeightedAt
  <2> HIDE DEF p, d, f, a, T
  <2>5. p * d = (B * p) * f + a * p
    BY <1>0, <2>1, <2>2, <2>3, Z3
  <2> DEFINE uu == p * d
             v == (B * p) * f
             w == a * p
  <2>6. uu \in Int /\ v \in Int /\ w \in Int /\ uu = v + w /\ n = T + uu
    BY <1>0, <2>1, <2>2, <2>3, <2>5
  <2> HIDE DEF uu, v, w
  <2>7. n = (T + w) + v
    BY <2>2, <2>6
  <2>8. n = Total(i + 1, t) + Place[i + 1] * (n \div Place[i + 1])
    BY <2>1, <2>4, <2>7 DEF v, w, f
  <2>9. i + 1 \in 0 .. K
    BY <1>0
  <2>10. QED
    BY <2>8, <2>9
<1> HIDE DEF G
<1>3. \A i \in 0 .. K : i \in G
  BY <1>0, <1>1, <1>2, Climb
<1>4. n = Total(K, t) + Place[K] * (n \div Place[K])
  BY <1>0, <1>3 DEF G
<1>5. n \div Place[K] = 0
  <2> DEFINE p == Place[K]
  <2>1. p \in Nat \ {0} /\ n \in 0 .. p - 1
    BY <1>0, PlaceFacts
  <2> HIDE DEF p
  <2>2. (0 * p + n) \div p = 0
    BY <2>1, UniqueDivision
  <2>3. 0 * p + n = n
    BY <2>1
  <2>4. QED
    BY <2>2, <2>3 DEF p
<1>6. Place[K] * 0 = 0
  BY <1>0, PlaceFacts
<1>7. n = Total(K, t)
  BY <1>0, <1>4, <1>5, <1>6, <1>c
<1>8. QED
  BY <1>7, <1>b DEF ValueOf, x
-----------------------------------------------------------------------------
(* The field: a small number that vanishes is zero, and a bit is 0 or 1.    *)

(* What FieldAssumption leaves room for in the field, and that P is prime. *)
LEMMA FieldFacts ==
    /\ P \in Nat \ {0} /\ 4 * B < P
    /\ B * (2 * B + 1) < P /\ (2 * B + 1) * CarryBound < P /\ 3 * B * (C + 3) < P
    /\ \A a \in 2 .. P - 1 : P % a # 0
<1>1. B * (2 * B + 1) < P /\ (2 * B + 1) * CarryBound < P /\ 3 * B * (C + 3) < P
  <2> HIDE DEF CarryBound
  <2>1. QED
    BY FieldAssumption
<1>2. B \in Nat /\ 2 <= B /\ P \in Nat
  BY LimbFacts
<1>3. 4 * B <= B * (2 * B + 1)
  BY <1>2, Z3
<1> HIDE DEF CarryBound
<1>4. B * (2 * B + 1) \in Int
  BY <1>2
<1>5. 4 * B < P
  <2> DEFINE x == B * (2 * B + 1)
  <2>1. x \in Int /\ x < P /\ 4 * B <= x
    BY <1>1, <1>3, <1>4
  <2> HIDE DEF x
  <2>2. QED
    BY <1>2, <2>1
<1>6. \A a \in 2 .. P - 1 : P % a # 0
  <2> HIDE DEF HalfBound, Place, TwoTo
  <2>1. QED
    BY LimbAssumption
<1>7. P # 0
  BY <1>2, <1>5
<1>8. QED
  BY <1>1, <1>2, <1>5, <1>6, <1>7

(* A residue is the number itself when that is not negative, and wraps once
   below. *)
LEMMA Residue ==
    ASSUME NEW x \in Int, -P < x, x < P
    PROVE  x % P = IF x >= 0 THEN x ELSE x + P
<1>0. P \in Nat \ {0}
  BY FieldFacts
<1>1. CASE x >= 0
  <2>1. x \in 0 .. P - 1 /\ 0 \in Int
    BY <1>0, <1>1
  <2>2. (0 * P + x) % P = x
    BY <1>0, <2>1, UniqueDivision
  <2>3. 0 * P + x = x
    BY <1>0
  <2>4. QED
    BY <1>1, <2>2, <2>3
<1>2. CASE ~(x >= 0)
  <2>1. x + P \in 0 .. P - 1 /\ -1 \in Int
    BY <1>0, <1>2
  <2>2. ((-1) * P + (x + P)) % P = x + P
    BY <1>0, <2>1, UniqueDivision
  <2>3. (-1) * P + (x + P) = x
    BY <1>0
  <2>4. QED
    BY <1>2, <2>2, <2>3
<1>3. QED
  BY <1>1, <1>2

(* A number of absolute value below P vanishes only when it is zero. *)
LEMMA SmallVanishes ==
    ASSUME NEW x \in Int, -P < x, x < P, Vanishes(x)
    PROVE  x = 0
<1>1. x % P = 0
  BY DEF Vanishes
<1>2. x % P = IF x >= 0 THEN x ELSE x + P
  BY Residue
<1>3. P \in Nat \ {0}
  BY FieldFacts
<1>4. QED
  BY <1>1, <1>2, <1>3

(* A multiple vanishes, whatever the factor. *)
LEMMA MultipleOf ==
    ASSUME NEW x \in Int, NEW m \in Nat \ {0}
    PROVE  x % m = 0 <=> \E k \in Int : x = k * m
<1>1. ASSUME x % m = 0 PROVE \E k \in Int : x = k * m
  <2> DEFINE k == x \div m
             e == x % m
  <2>1. k \in Int /\ e \in Int /\ x = m * k + e
    BY Division
  <2>2. e = 0
    BY <1>1
  <2> HIDE DEF k, e
  <2>3. x = k * m
    BY <2>1, <2>2, Z3
  <2>4. QED
    BY <2>1, <2>3
<1>2. ASSUME NEW k \in Int, x = k * m PROVE x % m = 0
  <2>1. 0 \in 0 .. m - 1
    OBVIOUS
  <2>2. (k * m + 0) % m = 0
    BY <2>1, UniqueDivision
  <2>3. k * m + 0 = x
    BY <1>2
  <2>4. QED
    BY <2>2, <2>3
<1>3. QED
  BY <1>1, <1>2

(* Euclid's lemma: P is prime, so of two numbers below P with a multiple of
   P as their product, one is zero. *)
LEMMA NoZeroDivisors ==
    ASSUME NEW x \in 1 .. P - 1, NEW y \in 1 .. P - 1
    PROVE  ~Vanishes(x * y)
<1> SUFFICES ASSUME Vanishes(x * y) PROVE FALSE
  OBVIOUS
<1>0. P \in Nat \ {0} /\ x \in Nat /\ y \in Nat
  BY FieldFacts
<1> DEFINE M == {m \in Nat : m # 0 /\ \E k \in Int : m * y = k * P}
<1>1. x \in M
  <2>1. (x * y) % P = 0
    BY DEF Vanishes
  <2>2. x * y \in Int
    BY <1>0
  <2>3. \E k \in Int : x * y = k * P
    BY <1>0, <2>1, <2>2, MultipleOf
  <2>4. QED
    BY <1>0, <2>3
<1>2. PICK m \in M : \A n \in M : ~(n < m)
  <2>1. M \in SUBSET Nat /\ M # {}
    BY <1>1
  <2> HIDE DEF M
  <2>2. QED
    BY <2>1, LeastElement
<1>3. m \in Nat \ {0} /\ m <= x
  BY <1>0, <1>1, <1>2
<1>4. PICK k \in Int : m * y = k * P
  BY <1>2
<1> DEFINE d == P \div m
           e == P % m
<1>5. d \in Int /\ e \in Int /\ P = m * d + e /\ 0 <= e /\ e < m
  BY <1>0, <1>3, Division
<1>6. e = 0
  <2>1. SUFFICES ASSUME e # 0 PROVE FALSE
    OBVIOUS
  <2>2. e \in Nat /\ e # 0
    BY <1>5, <2>1
  <2> HIDE DEF d, e
  <2>3. e * y = (y - d * k) * P
    <3>1. e * y = (P - m * d) * y
      BY <1>0, <1>5
    <3>2. (P - m * d) * y = P * y - d * (m * y)
      BY <1>0, <1>3, <1>5, Z3
    <3>3. d * (k * P) = (d * k) * P
      BY <1>0, <1>4, <1>5, Z3
    <3>4. (y - d * k) * P = P * y - (d * k) * P
      BY <1>0, <1>4, <1>5, Z3
    <3>5. QED
      BY <1>4, <3>1, <3>2, <3>3, <3>4
  <2>4. y - d * k \in Int
    BY <1>0, <1>4, <1>5
  <2>5. e \in M
    BY <2>2, <2>3, <2>4
  <2>6. QED
    BY <1>2, <1>5, <2>5
<1>7. m \notin 2 .. P - 1
  BY <1>6, FieldFacts
<1>8. m = 1
  BY <1>0, <1>3, <1>7
<1>9. y = k * P
  BY <1>0, <1>4, <1>8
<1>10. y % P = 0
  BY <1>0, <1>9, MultipleOf
<1>11. y % P = y
  BY <1>0, Residue
<1>12. QED
  BY <1>10, <1>11

(* x (x - 1) = 0 has the solutions 0 and 1 only: the field has no divisors of
   zero. *)
LEMMA BitsAreBits == Bits = {0, 1}
<1>0. P \in Nat \ {0} /\ 4 * B < P /\ 2 <= B /\ B \in Nat
  BY FieldFacts, LimbFacts
<1>1. 0 \in Bits /\ 1 \in Bits
  <2>1. 0 % P = 0
    BY <1>0, Residue
  <2>2. 0 * (0 - 1) = 0 /\ 1 * (1 - 1) = 0
    OBVIOUS
  <2>3. Vanishes(0 * (0 - 1)) /\ Vanishes(1 * (1 - 1))
    BY <2>1, <2>2 DEF Vanishes
  <2>4. 0 \in Field /\ 1 \in Field
    BY <1>0 DEF Field
  <2>5. QED
    BY <2>3, <2>4 DEF Bits
<1>2. ASSUME NEW x \in Bits, x # 0, x # 1 PROVE FALSE
  <2>1. x \in Field /\ Vanishes(x * (x - 1))
    BY DEF Bits
  <2>2. x \in 1 .. P - 1 /\ x - 1 \in 1 .. P - 1
    BY <1>0, <1>2, <2>1 DEF Field
  <2> DEFINE y == x - 1
  <2>3. y \in 1 .. P - 1 /\ Vanishes(x * y)
    BY <2>1, <2>2
  <2> HIDE DEF y
  <2>4. QED
    BY <2>2, <2>3, NoZeroDivisors
<1>3. QED
  BY <1>1, <1>2

(* A sum with an inverse is not zero. *)
LEMMA NonzeroSum ==
    ASSUME NEW x, NonzeroRow(x)
    PROVE  LimbSum(x) # 0
<1>1. PICK inv \in Field : Vanishes(LimbSum(x) * inv - 1)
  BY DEF NonzeroRow, Invertible
<1>2. SUFFICES ASSUME LimbSum(x) = 0 PROVE FALSE
  OBVIOUS
<1>3. P \in Nat \ {0} /\ 4 * B < P /\ 2 <= B /\ B \in Nat
  BY FieldFacts, LimbFacts
<1>4. 0 * inv - 1 = -1
  BY <1>1 DEF Field
<1>5. Vanishes(-1)
  BY <1>1, <1>2, <1>4
<1>6. -1 = 0
  BY <1>3, <1>5, SmallVanishes
<1>7. QED
  BY <1>6
-----------------------------------------------------------------------------
(* Canonical rows: no equation wraps, so the slack is the distance to the   *)
(* order.                                                                   *)

(* Entries that are zero add nothing. *)
LEMMA TotalTail ==
    ASSUME NEW n \in Nat, NEW m \in 0 .. n, NEW t, \A i \in 0 .. n - 1 : t[i] \in Int,
           \A i \in m .. n - 1 : t[i] = 0
    PROVE  Total(n, t) = Total(m, t)
<1> DEFINE G == {k \in 0 .. n - m : Total(m + k, t) = Total(m, t)}
<1>0. \A i \in 0 .. n : Total(i, t) \in Int
  BY TotalInt
<1>1. 0 \in G
  OBVIOUS
<1>2. ASSUME NEW k \in 0 .. (n - m) - 1, k \in G PROVE k + 1 \in G
  <2>1. m + k \in Nat /\ m + k \in m .. n - 1 /\ m + (k + 1) = (m + k) + 1 /\ m \in 0 .. n
    OBVIOUS
  <2>2. Total(m + (k + 1), t) = Total(m + k, t) + t[m + k]
    BY <2>1, TotalStep
  <2>3. t[m + k] = 0
    BY <2>1
  <2>4. Total(m + k, t) = Total(m, t) /\ Total(m, t) \in Int
    BY <1>0, <1>2, <2>1
  <2>5. QED
    BY <2>2, <2>3, <2>4
<1>3. n - m \in Nat
  OBVIOUS
<1> HIDE DEF G
<1>4. \A k \in 0 .. n - m : k \in G
  BY <1>1, <1>2, <1>3, Climb
<1>5. n - m \in G
  BY <1>3, <1>4
<1>6. m + (n - m) = n
  OBVIOUS
<1>7. QED
  BY <1>5, <1>6 DEF G

(* An entry is at most the sum of naturals it belongs to. *)
LEMMA EntryAtMost ==
    ASSUME NEW n \in Nat, NEW t, \A i \in 0 .. n - 1 : t[i] \in Nat, NEW k \in 0 .. n - 1
    PROVE  t[k] <= Total(n, t)
<1> DEFINE G == {m \in 0 .. n : k < m => t[k] <= Total(m, t)}
<1>0. \A i \in 0 .. n : Total(i, t) \in Nat
  BY TotalNat
<1>1. 0 \in G
  OBVIOUS
<1>2. ASSUME NEW m \in 0 .. n - 1, m \in G PROVE m + 1 \in G
  <2>1. Total(m + 1, t) = Total(m, t) + t[m] /\ Total(m, t) \in Nat /\ t[m] \in Nat /\ t[k] \in Nat
    BY <1>0, TotalStep
  <2>2. k < m => t[k] <= Total(m, t)
    BY <1>2
  <2>3. k < m + 1 => k < m \/ k = m
    OBVIOUS
  <2>4. k < m + 1 => t[k] <= Total(m + 1, t)
    BY <2>1, <2>2, <2>3
  <2>5. QED
    BY <2>4
<1> HIDE DEF G
<1>3. \A m \in 0 .. n : m \in G
  BY <1>1, <1>2, Climb
<1>4. n \in G /\ k < n
  BY <1>3
<1>5. QED
  BY <1>4 DEF G

(* Limbs below the base are worth less than the next place. *)
LEMMA LimbsBelowPlace ==
    ASSUME NEW x, \A i \in At : x[i] \in Limb
    PROVE  \A i \in 0 .. K : Total(i, Weighted(x)) \in 0 .. Place[i] - 1
<1> DEFINE t == Weighted(x)
           G == {i \in 0 .. K : Total(i, t) \in 0 .. Place[i] - 1}
<1>0. 0 \in 0 .. K /\ K \in Nat /\ B \in Nat
  BY LimbFacts
<1>1. 0 \in G
  BY <1>0, TotalZero, PlaceFacts
<1>2. ASSUME NEW i \in 0 .. K - 1, i \in G PROVE i + 1 \in G
  <2> DEFINE a == x[i]
             p == Place[i]
             T == Total(i, t)
  <2>1. i \in At /\ p \in Nat \ {0} /\ Place[i + 1] = B * p /\ a \in 0 .. B - 1
    BY Indexes, PlaceFacts DEF Limb
  <2>2. T \in 0 .. p - 1
    BY <1>2
  <2>3. Total(i + 1, t) = T + a * p
    BY <2>1, TotalStep, WeightedAt
  <2> HIDE DEF a, p, T
  <2>4. a * p \in Nat /\ (a + 1) * p <= B * p /\ (a + 1) * p = a * p + p
    <3>1. a \in Nat /\ a + 1 \in Nat /\ a + 1 <= B
      BY <1>0, <2>1
    <3>2. a * p \in Nat
      BY <2>1, <3>1, Z3
    <3>3. (a + 1) * p <= B * p
      BY <1>0, <2>1, <3>1, ProductMonotone
    <3>4. (a + 1) * p = a * p + p
      BY <2>1, <3>1, Z3
    <3>5. QED
      BY <3>2, <3>3, <3>4
  <2> DEFINE w == a * p
             v == B * p
  <2>5. w \in Nat /\ w + p <= v /\ v \in Int /\ T \in Int /\ p \in Int
    BY <1>0, <2>1, <2>2, <2>4
  <2> HIDE DEF w, v
  <2>6. T + w \in 0 .. v - 1
    BY <2>1, <2>2, <2>5
  <2>7. Total(i + 1, t) \in 0 .. Place[i + 1] - 1 /\ i + 1 \in 0 .. K
    BY <1>0, <2>1, <2>3, <2>6 DEF w, v
  <2>8. QED
    BY <2>7
<1> HIDE DEF G
<1>3. \A i \in 0 .. K : i \in G
  BY <1>0, <1>1, <1>2, Climb
<1>4. QED
  BY <1>3 DEF G

(* The limbs of the order have its value, and its top limb is TopB - 1. *)
LEMMA OrderLimbs ==
    /\ N < Place[K] /\ N < TopB * Place[K - 1] /\ TopB * Place[K - 1] < 2 * N
    /\ Order \in [At -> Limb] /\ ValueOf(Order) = N
<1>1. N < TopB * Place[K - 1] /\ TopB * Place[K - 1] < 2 * N
  <2> HIDE DEF HalfBound, Place, TwoTo
  <2>1. QED
    BY LimbAssumption
<1>2. N < Place[K]
  <2> DEFINE p == Place[K - 1]
  <2>1. K - 1 \in 0 .. 2 * K - 1 /\ K - 1 \in 0 .. 2 * K /\ (K - 1) + 1 = K
    BY LimbFacts
  <2>2. p \in Nat \ {0} /\ Place[K] = B * p
    BY <2>1, PlaceFacts
  <2>3. TopB * p <= B * p
    BY <2>2, LimbFacts, ProductMonotone
  <2>4. N < TopB * p
    BY <1>1
  <2> HIDE DEF p
  <2>5. TopB * p \in Int /\ B * p \in Int
    BY <2>2, LimbFacts
  <2> DEFINE v == TopB * p
             w == B * p
  <2>6. v \in Int /\ w \in Int /\ N < v /\ v <= w
    BY <2>3, <2>4, <2>5
  <2> HIDE DEF v, w
  <2>7. N < w
    BY <2>6, OrderFacts
  <2>8. QED
    BY <2>2, <2>7 DEF w
<1>3. QED
  BY <1>1, <1>2, ValueOfLimbs, OrderFacts DEF Order

(* One in the lowest limb is worth one. *)
OneLimbs == [i \in At |-> IF i = 0 THEN 1 ELSE 0]

(* The row of one. *)
LEMMA OneValue == ValueOf(OneLimbs) = 1 /\ \A i \in At : OneLimbs[i] \in 0 .. 1
<1> DEFINE t == Weighted(OneLimbs)
<1>0. K \in Nat /\ 0 \in At /\ 1 \in 0 .. K /\ At = 0 .. K - 1
  BY LimbFacts DEF At
<1>1. \A i \in At : OneLimbs[i] \in 0 .. 1 /\ OneLimbs[i] \in Int
  BY DEF OneLimbs
<1>2. \A i \in 0 .. K - 1 : t[i] \in Int
  BY <1>1, WeightedInt
<1>3. ASSUME NEW i \in 1 .. K - 1 PROVE t[i] = 0
  <2> DEFINE p == Place[i]
  <2>1. i \in At /\ OneLimbs[i] = 0 /\ p \in Int
    BY <1>0, Indexes, PlaceFacts DEF OneLimbs
  <2>2. t[i] = 0 * p
    BY <2>1, WeightedAt
  <2> HIDE DEF p
  <2>3. QED
    BY <2>1, <2>2
<1>4. Total(1, t) = 1
  <2>1. Total(0 + 1, t) = Total(0, t) + t[0]
    BY TotalStep
  <2>2. t[0] = OneLimbs[0] * Place[0]
    BY <1>0, WeightedAt
  <2>3. OneLimbs[0] = 1 /\ Place[0] = 1
    BY <1>0, PlaceFacts DEF OneLimbs
  <2>4. QED
    BY <2>1, <2>2, <2>3, TotalZero
<1> HIDE DEF t
<1>5. Total(K, t) = Total(1, t)
  BY <1>0, <1>2, <1>3, TotalTail
<1>6. QED
  BY <1>1, <1>4, <1>5 DEF ValueOf, t

(* add_canonical_lt_fixed_bound: a canonical row is one of limbs, and its value
   lies below the order. *)
LEMMA CanonicalBelowOrder ==
    ASSUME NEW x \in Canonical
    PROVE  x \in [At -> Limb] /\ ValueOf(x) \in 0 .. N - 1
<1>0. K \in Nat /\ B \in Nat /\ 2 <= B /\ K - 1 \in At /\ Limb = 0 .. B - 1
  BY LimbFacts DEF At, Limb
<1>1. x \in [At -> Limb]
  BY DEF Canonical
<1>2. PICK cs \in [At -> Bits] :
         /\ cs[K - 1] = 0
         /\ \A i \in At : \E sl \in Limb :
                Vanishes(x[i] + sl + (IF i = 0 THEN 1 ELSE cs[i - 1]) - Order[i] - B * cs[i])
  BY DEF Canonical
<1> DEFINE slack == [i \in At |-> CHOOSE sl \in Limb :
                Vanishes(x[i] + sl + (IF i = 0 THEN 1 ELSE cs[i - 1]) - Order[i] - B * cs[i])]
           e == [i \in At |-> x[i] + slack[i] + OneLimbs[i] - Order[i]]
<1>3. \A i \in At : slack[i] \in Limb
          /\ Vanishes(x[i] + slack[i] + (IF i = 0 THEN 1 ELSE cs[i - 1]) - Order[i] - B * cs[i])
  BY <1>2
<1> HIDE DEF slack
<1>4. ASSUME NEW i \in At
      PROVE  /\ e[i] \in Int /\ cs[i] \in Int
             /\ e[i] + Into(cs, i) = B * cs[i]
  <2> DEFINE a == x[i]
             s == slack[i]
             o == Order[i]
             w == OneLimbs[i]
             c == cs[i]
             d == Into(cs, i)
  <2>1. a \in 0 .. B - 1 /\ s \in 0 .. B - 1 /\ o \in 0 .. B - 1 /\ c \in 0 .. 1
    BY <1>0, <1>1, <1>2, <1>3, OrderLimbs, BitsAreBits
  <2>2. i # 0 => i - 1 \in At
    BY <1>0 DEF At
  <2>3. d \in 0 .. 1 /\ w \in 0 .. 1 /\ w + d = (IF i = 0 THEN 1 ELSE cs[i - 1])
    BY <1>2, <2>2, BitsAreBits DEF Into, OneLimbs
  <2>4. Vanishes(a + s + (IF i = 0 THEN 1 ELSE cs[i - 1]) - o - B * c)
    BY <1>3
  <2>5. e[i] = a + s + w - o
    OBVIOUS
  <2> HIDE DEF a, s, o, w, c, d, e
  <2> DEFINE y == a + s + (w + d) - o - B * c
  <2>6. y \in Int /\ -(4 * B) < y /\ y < 4 * B
    <3>1. B * c \in 0 .. B
      BY <1>0, <2>1
    <3>2. QED
      BY <1>0, <2>1, <2>3, <3>1
  <2>7. Vanishes(y)
    BY <2>3, <2>4
  <2>8. -P < y /\ y < P
    BY <1>0, <2>6, FieldFacts
  <2> HIDE DEF y
  <2>9. y = 0
    BY <2>6, <2>7, <2>8, SmallVanishes
  <2>10. B * c \in Int
    BY <1>0, <2>1
  <2> DEFINE bc == B * c
  <2>11. a + s + (w + d) - o - bc = 0 /\ bc \in Int
    BY <2>9, <2>10 DEF y
  <2> HIDE DEF bc
  <2>12. e[i] \in Int /\ e[i] + d = bc
    BY <1>0, <2>1, <2>3, <2>5, <2>11
  <2>13. QED
    BY <2>1, <2>12 DEF bc, c, d
<1>5. ValueOf(e) = 0
  <2>1. Carries(e, cs)
    BY <1>4 DEF Carries
  <2>2. ValueOf(e) = cs[K - 1] * Place[K]
    BY <2>1, CarryChain
  <2>3. Place[K] \in Int
    <3>1. K \in 0 .. 2 * K
      BY <1>0
    <3>2. QED
      BY <3>1, PlaceFacts
  <2>4. QED
    BY <1>2, <2>2, <2>3
<1> DEFINE xs == [i \in At |-> x[i] + 1 * slack[i]]
           xso == [i \in At |-> xs[i] + 1 * OneLimbs[i]]
           r == [i \in At |-> xso[i] + (-1) * Order[i]]
<1>6a. \A i \in At : x[i] \in Nat /\ slack[i] \in Nat /\ Order[i] \in Nat /\ OneLimbs[i] \in Nat
  BY <1>0, <1>1, <1>3, OrderLimbs, OneValue
<1>6b. \A i \in At : xs[i] = x[i] + 1 * slack[i] /\ xs[i] \in Int
  BY <1>6a
<1>6c. \A i \in At : xso[i] = xs[i] + 1 * OneLimbs[i] /\ xso[i] \in Int
  <2> HIDE DEF xs
  <2>1. QED
    BY <1>6a, <1>6b
<1>6d. \A i \in At : r[i] = xso[i] + (-1) * Order[i]
  OBVIOUS
<1>6e. \A i \in At : r[i] = e[i]
  <2> HIDE DEF xs, xso, r
  <2>1. QED
    BY <1>6a, <1>6b, <1>6c, <1>6d
<1>6. \A i \in At : x[i] \in Nat /\ slack[i] \in Nat /\ Order[i] \in Nat /\ OneLimbs[i] \in Nat
         /\ xs[i] \in Int /\ xso[i] \in Int
  <2> HIDE DEF xs, xso
  <2>1. QED
    BY <1>6a, <1>6b, <1>6c
<1> HIDE DEF xs, xso, r
<1>7. ValueOf(xs) = ValueOf(x) + 1 * ValueOf(slack)
  <2>1. LimbsCombine(1, x, slack, xs)
    BY <1>6, <1>6b DEF LimbsCombine
  <2>2. QED
    BY <2>1, ValueCombine
<1>8. ValueOf(xso) = ValueOf(xs) + 1 * ValueOf(OneLimbs)
  <2>1. LimbsCombine(1, xs, OneLimbs, xso)
    BY <1>6, <1>6c DEF LimbsCombine
  <2>2. QED
    BY <2>1, ValueCombine
<1>9. ValueOf(r) = ValueOf(xso) + (-1) * ValueOf(Order)
  <2>1. LimbsCombine(-1, xso, Order, r)
    BY <1>6, <1>6d DEF LimbsCombine
  <2>2. QED
    BY <2>1, ValueCombine
<1>10. ValueOf(r) = ValueOf(e)
  <2> HIDE DEF e
  <2>1. QED
    BY <1>6e, ValueSame
<1>11. ValueOf(x) \in Nat /\ ValueOf(slack) \in Nat
  BY <1>6, ValueNat
<1> HIDE DEF e
<1>12. QED
  BY <1>1, <1>5, <1>7, <1>8, <1>9, <1>10, <1>11, OneValue, OrderLimbs, OrderFacts

-----------------------------------------------------------------------------
(* Rows that are zero, and rows that are not.                               *)

(* The zero row has value 0; *)
LEMMA ZeroRowValue == ValueOf(ZeroLimbs) = 0 /\ ZeroLimbs \in [At -> Limb]
<1>1. ZeroLimbs \in [At -> Limb]
  BY LimbFacts DEF ZeroLimbs, Limb
<1> DEFINE t == Weighted(ZeroLimbs)
<1>2. ASSUME NEW i \in 0 .. K - 1 PROVE t[i] = 0
  <2> DEFINE p == Place[i]
  <2>1. i \in At /\ ZeroLimbs[i] = 0 /\ p \in Int
    BY Indexes, PlaceFacts DEF ZeroLimbs
  <2>2. t[i] = 0 * p
    BY <2>1, WeightedAt
  <2> HIDE DEF p
  <2>3. QED
    BY <2>1, <2>2
<1> HIDE DEF t
<1>3. K \in Nat /\ 0 \in 0 .. K
  BY LimbFacts
<1>4. Total(K, t) = Total(0, t)
  BY <1>2, <1>3, TotalTail
<1>5. QED
  BY <1>1, <1>4, TotalZero DEF ValueOf, t

(* it is the only row of limbs that has. *)
LEMMA ValueOfNonzero ==
    ASSUME NEW x \in [At -> Limb]
    PROVE  /\ ValueOf(x) \in Nat
           /\ ValueOf(x) = 0 => x = ZeroLimbs
<1>0. K \in Nat /\ B \in Nat /\ Limb = 0 .. B - 1 /\ \A i \in At : x[i] \in Nat
  BY LimbFacts DEF Limb
<1>1. ValueOf(x) \in Nat
  BY <1>0, ValueNat
<1>2. ASSUME ValueOf(x) = 0, NEW i \in At PROVE x[i] = 0
  <2> DEFINE t == Weighted(x)
  <2>1. ASSUME NEW k \in At PROVE t[k] \in Nat /\ x[k] <= t[k]
    <3> DEFINE a == x[k]
               p == Place[k]
    <3>0. k \in 0 .. 2 * K
      BY Indexes
    <3>1. a \in Nat /\ p \in Nat /\ 1 <= p /\ t[k] = a * p
      <4>1. p \in Nat \ {0}
        BY <3>0, PlaceFacts
      <4>2. t[k] = a * p
        BY WeightedAt
      <4> HIDE DEF p
      <4>3. QED
        BY <1>0, <4>1, <4>2
    <3> HIDE DEF a, p
    <3>2. p * a >= a /\ p * a = a * p /\ a * p \in Nat
      BY <3>1, ProductAtLeast, Z3
    <3>3. a * p >= a
      BY <3>2
    <3> DEFINE v == a * p
    <3>4. v \in Nat /\ v >= a /\ t[k] = v
      BY <3>1, <3>2, <3>3
    <3> HIDE DEF v
    <3>5. t[k] \in Nat /\ a <= t[k]
      BY <3>1, <3>4
    <3>6. QED
      BY <3>5 DEF a
  <2> HIDE DEF t
  <2>2. i \in 0 .. K - 1 /\ \A k \in 0 .. K - 1 : t[k] \in Nat
    BY <2>1 DEF At
  <2>3. t[i] <= Total(K, t)
    BY <1>0, <2>2, EntryAtMost
  <2>4. Total(K, t) = 0
    BY <1>2 DEF ValueOf, t
  <2>5. x[i] <= t[i] /\ t[i] \in Nat /\ x[i] \in Nat
    BY <1>0, <2>1
  <2>6. QED
    BY <2>3, <2>4, <2>5
<1>3. ASSUME ValueOf(x) = 0 PROVE x = ZeroLimbs
  <2>1. x = [i \in At |-> x[i]]
    OBVIOUS
  <2>2. QED
    BY <1>2, <1>3, <2>1 DEF ZeroLimbs
<1>4. QED
  BY <1>1, <1>3

(* enforce_nonzero: a sum of limbs with an inverse is not the sum of zero limbs. *)
LEMMA NonzeroValue ==
    ASSUME NEW x \in [At -> Limb], NonzeroRow(x)
    PROVE  ValueOf(x) \in Nat /\ 1 <= ValueOf(x)
<1>1. ValueOf(x) \in Nat /\ (ValueOf(x) = 0 => x = ZeroLimbs)
  BY ValueOfNonzero
<1>2. LimbSum(ZeroLimbs) = 0
  <2>1. \A i \in 0 .. K - 1 : ZeroLimbs[i] = 0
    BY DEF ZeroLimbs, At
  <2>2. K \in Nat /\ 0 \in 0 .. K
    BY LimbFacts
  <2> HIDE DEF ZeroLimbs
  <2>3. Total(K, ZeroLimbs) = Total(0, ZeroLimbs)
    BY <2>1, <2>2, TotalTail
  <2>4. QED
    BY <2>3, TotalZero DEF LimbSum
<1>3. LimbSum(x) # 0
  BY NonzeroSum
<1>4. QED
  BY <1>1, <1>2, <1>3

-----------------------------------------------------------------------------
(* The digest: reduced once at most, and that is fully.                     *)

(* A number with a small top limb is below that limb's bound times its place. *)
LEMMA TopLimbBounds ==
    ASSUME NEW x \in [At -> Limb], x[K - 1] < TopB
    PROVE  ValueOf(x) \in Nat /\ ValueOf(x) < 2 * N
<1> DEFINE t == Weighted(x)
           n == K - 1
           a == x[n]
           p == Place[n]
           T == Total(n, t)
<1>0. /\ K \in Nat /\ n \in Nat /\ n + 1 = K /\ n \in At /\ n \in 0 .. K /\ B \in Nat
      /\ Limb = 0 .. B - 1 /\ TopB \in Nat /\ n \in 0 .. 2 * K
  BY LimbFacts DEF At, Limb
<1>1. a \in Nat /\ a + 1 <= TopB /\ p \in Nat \ {0}
  BY <1>0, PlaceFacts
<1>2. T \in 0 .. p - 1
  BY <1>0, LimbsBelowPlace
<1>3. Total(n + 1, t) = T + t[n] /\ t[n] = a * p
  BY <1>0, TotalStep, WeightedAt
<1>4. TopB * p < 2 * N
  BY OrderLimbs
<1>5. ValueOf(x) = T + a * p
  BY <1>0, <1>3 DEF ValueOf
<1> HIDE DEF n, a, p, T, t
<1>6. a * p \in Nat /\ (a + 1) * p <= TopB * p /\ (a + 1) * p = a * p + p /\ TopB * p \in Int
  <2>1. a * p \in Nat /\ a + 1 \in Nat /\ TopB * p \in Int
    BY <1>0, <1>1, Z3
  <2>2. (a + 1) * p <= TopB * p
    BY <1>0, <1>1, <2>1, ProductMonotone
  <2>3. (a + 1) * p = a * p + p
    BY <1>1, Z3
  <2>4. QED
    BY <2>1, <2>2, <2>3
<1> DEFINE v == a * p
           w == TopB * p
<1>7. v \in Nat /\ w \in Int /\ v + p <= w /\ w < 2 * N /\ ValueOf(x) = T + v
  BY <1>1, <1>4, <1>5, <1>6
<1> HIDE DEF v, w
<1>8. QED
  BY <1>1, <1>2, <1>7, OrderFacts

(* add_digest_reduction: the reduced digest is the digest modulo the order. *)
LEMMA DigestReduced ==
    ASSUME NEW z \in [At -> Limb], NEW red, DigestRow(z, red)
    PROVE  red \in Canonical /\ ValueOf(z) \in Nat /\ ValueOf(red) = ValueOf(z) % N
<1>0. K \in Nat /\ B \in Nat /\ 2 <= B /\ K - 1 \in At /\ Limb = 0 .. B - 1
  BY LimbFacts DEF At, Limb
<1>1. red \in Canonical /\ z[K - 1] < TopB
  BY <1>0 DEF DigestRow
<1>2. PICK ge \in Bits, cs \in [At -> DigestCarries] :
          /\ cs[K - 1] = 0
          /\ \A i \in At : Vanishes(z[i] - red[i] - ge * Order[i] + Into(cs, i) - B * cs[i])
  BY DEF DigestRow
<1>3. red \in [At -> Limb] /\ ValueOf(red) \in 0 .. N - 1 /\ ge \in 0 .. 1
  BY <1>1, <1>2, CanonicalBelowOrder, BitsAreBits
<1> DEFINE zr == [i \in At |-> z[i] + (-1) * red[i]]
           e == [i \in At |-> zr[i] + (-ge) * Order[i]]
<1>4. \A i \in At : z[i] \in Int /\ red[i] \in Int /\ Order[i] \in Int /\ zr[i] \in Int
  BY <1>0, <1>3, OrderLimbs
<1>5. ASSUME NEW i \in At
      PROVE  /\ e[i] \in Int /\ cs[i] \in Int
             /\ e[i] + Into(cs, i) = B * cs[i]
  <2> DEFINE a == z[i]
             s == red[i]
             o == Order[i]
             c == cs[i]
             d == Into(cs, i)
  <2>1. a \in 0 .. B - 1 /\ s \in 0 .. B - 1 /\ o \in 0 .. B - 1 /\ c \in -1 .. 1
    BY <1>0, <1>2, <1>3, OrderLimbs DEF DigestCarries
  <2>2. i # 0 => i - 1 \in At
    BY <1>0 DEF At
  <2>3. d \in -1 .. 1
    BY <1>2, <2>2 DEF Into, DigestCarries
  <2>4. Vanishes(a - s - ge * o + d - B * c)
    BY <1>2
  <2>5. e[i] = a + (-1) * s + (-ge) * o
    OBVIOUS
  <2> HIDE DEF a, s, o, c, d, e
  <2> DEFINE go == ge * o
             bc == B * c
  <2>6. go \in 0 .. B - 1 /\ bc \in -B .. B /\ (-ge) * o = -go
    <3>1. ge = 0 \/ ge = 1
      BY <1>3
    <3>2. c = -1 \/ c = 0 \/ c = 1
      BY <2>1
    <3>3. go \in 0 .. B - 1 /\ (-ge) * o = -go
      BY <1>0, <2>1, <3>1
    <3>4. bc \in -B .. B
      BY <1>0, <3>2
    <3>5. QED
      BY <3>3, <3>4
  <2> HIDE DEF go, bc
  <2> DEFINE y == a - s - go + d - bc
  <2>7. y \in Int /\ -(4 * B) < y /\ y < 4 * B
    BY <1>0, <2>1, <2>3, <2>6
  <2>8. Vanishes(y)
    BY <2>4 DEF go, bc
  <2>9. -P < y /\ y < P
    BY <1>0, <2>7, FieldFacts
  <2> HIDE DEF y
  <2>10. y = 0
    BY <2>7, <2>8, <2>9, SmallVanishes
  <2>11. e[i] = a - s - go /\ a - s - go + d = bc
    BY <2>1, <2>3, <2>5, <2>6, <2>10 DEF y
  <2>12. QED
    BY <2>1, <2>3, <2>6, <2>11 DEF bc, c, d
<1>6. ValueOf(e) = 0
  <2>1. Carries(e, cs)
    BY <1>5 DEF Carries
  <2>2. ValueOf(e) = cs[K - 1] * Place[K]
    BY <2>1, CarryChain
  <2>3. Place[K] \in Int
    <3>1. K \in 0 .. 2 * K
      BY <1>0
    <3>2. QED
      BY <3>1, PlaceFacts
  <2>4. QED
    BY <1>2, <2>2, <2>3
<1>7. ValueOf(zr) = ValueOf(z) + (-1) * ValueOf(red)
  <2>1. LimbsCombine(-1, z, red, zr)
    BY <1>4 DEF LimbsCombine
  <2> HIDE DEF zr
  <2>2. QED
    BY <2>1, ValueCombine
<1>8. ValueOf(e) = ValueOf(zr) + (-ge) * ValueOf(Order)
  <2>1. LimbsCombine(-ge, zr, Order, e)
    BY <1>4 DEF LimbsCombine
  <2>2. -ge \in Int
    BY <1>3
  <2> HIDE DEF zr, e
  <2>3. QED
    BY <2>1, <2>2, ValueCombine
<1>9. ValueOf(z) \in Nat /\ ValueOf(z) < 2 * N
  BY <1>1, TopLimbBounds
<1> HIDE DEF zr, e
<1> DEFINE v == ValueOf(z)
           r == ValueOf(red)
<1>10. v \in Nat /\ v < 2 * N /\ r \in 0 .. N - 1 /\ v = ge * N + r
  <2>1. 0 = (v + (-1) * r) + (-ge) * N
    BY <1>6, <1>7, <1>8, OrderLimbs
  <2>2. v \in Nat /\ v < 2 * N /\ r \in 0 .. N - 1
    BY <1>3, <1>9
  <2> HIDE DEF v, r
  <2>3. ge = 0 \/ ge = 1
    BY <1>3
  <2>4. QED
    BY <2>1, <2>2, <2>3, OrderFacts
<1> HIDE DEF v, r
<1>11. N \in Nat \ {0} /\ ge \in Int
  BY <1>3, OrderFacts
<1>12. (ge * N + r) % N = r
  BY <1>10, <1>11, UniqueDivision
<1>13. QED
  BY <1>1, <1>10, <1>12 DEF v, r
-----------------------------------------------------------------------------
(* The digits of a coefficient.                                             *)

DigitsOf(s, n, v) ==
    /\ s[1] \in 0 .. n * (B - 1) /\ s[2] \in 0 .. n * (B - 1) /\ s[3] \in 0 .. n
    /\ s[1] + B * s[2] + B * B * s[3] = v

(* A chunk has one set of digits: its row's equation does not wrap. *)
LEMMA ChunkExact ==
    ASSUME NEW v \in 0 .. 2 * ((B - 1) * (B - 1)), NEW d \in ChunkDigits(v)
    PROVE  DigitsOf(d, 1, v)
<1>0. B \in Nat /\ 2 <= B /\ Limb = 0 .. B - 1 /\ P \in Nat \ {0} /\ B * (2 * B + 1) < P
  BY LimbFacts, FieldFacts DEF Limb
<1>1. PICK x \in Limb, t \in TopDigits :
         d = <<(v - B * x - B * B * t) % P, x, t>> /\ (v - B * x - B * B * t) % P \in Limb
  BY DEF ChunkDigits
<1>2. x \in 0 .. B - 1 /\ t \in 0 .. 1
  BY <1>0, <1>1, BitsAreBits DEF TopDigits
<1> DEFINE bb == B * B
           bx == B * x
           bbt == bb * t
           y == (v - bx - bbt) % P
           e == v - bx - bbt
<1>3. /\ bb \in Nat /\ bx \in 0 .. bb - B /\ bbt \in 0 .. bb /\ 2 * bb + B < P
      /\ v \in Nat /\ v <= 2 * bb - 4 * B + 2
  <2>1. bb \in Nat /\ B * (2 * B + 1) = 2 * bb + B /\ (B - 1) * (B - 1) = bb - 2 * B + 1
    BY <1>0, Z3
  <2>2. bx \in Nat /\ bx <= bb - B
    <3>1. x * B <= (B - 1) * B
      BY <1>0, <1>2, ProductMonotone
    <3>2. x * B = B * x /\ (B - 1) * B = bb - B /\ B * x \in Nat
      BY <1>0, <1>2, Z3
    <3>3. QED
      BY <3>1, <3>2
  <2>3. bbt \in 0 .. bb
    <3>1. t = 0 \/ t = 1
      BY <1>2
    <3> HIDE DEF bb
    <3>2. QED
      BY <2>1, <3>1
  <2> HIDE DEF bx, bbt, bb
  <2>4. v \in Nat /\ v <= 2 * (bb - 2 * B + 1)
    BY <1>0, <2>1
  <2>5. QED
    BY <1>0, <2>1, <2>2, <2>3, <2>4
<1>4. y \in 0 .. B - 1 /\ d = <<y, x, t>>
  BY <1>0, <1>1
<1> HIDE DEF bb, bx, bbt
<1>5. e \in Int /\ -P < e /\ e < P
  BY <1>0, <1>3
<1>6. y = IF e >= 0 THEN e ELSE e + P
  <2> HIDE DEF e
  <2>1. e % P = IF e >= 0 THEN e ELSE e + P
    BY <1>5, Residue
  <2>2. QED
    BY <2>1 DEF e
<1> HIDE DEF y
<1>7. y = e
  BY <1>0, <1>3, <1>4, <1>6
<1>8. y + bx + bbt = v
  BY <1>0, <1>3, <1>4, <1>7
<1>9. d[1] = y /\ d[2] = x /\ d[3] = t
  BY <1>4
<1>10. 1 * (B - 1) = B - 1
  BY <1>0
<1>11. d[1] + B * d[2] + B * B * d[3] = v
  BY <1>8, <1>9 DEF bx, bbt, bb
<1>12. QED
  BY <1>2, <1>4, <1>9, <1>10, <1>11 DEF DigitsOf

(* Adding a chunk's three digits to those gathered so far adds their values and
   widens the range of each digit by one chunk. *)
LEMMA AddExact ==
    ASSUME NEW n \in Nat, NEW v \in Int, NEW w \in Int, NEW s, NEW d,
           DigitsOf(s, n, v), DigitsOf(d, 1, w)
    PROVE  DigitsOf(AddDigits(s, d), n + 1, v + w)
<1>0. B \in Nat /\ 2 <= B
  BY LimbFacts
<1> DEFINE s1 == s[1]
           s2 == s[2]
           s3 == s[3]
           d1 == d[1]
           d2 == d[2]
           d3 == d[3]
           r == AddDigits(s, d)
           m == n * (B - 1)
<1>1. m \in Int /\ (n + 1) * (B - 1) = m + (B - 1) /\ 1 * (B - 1) = B - 1
  BY <1>0, Z3
<1>2. /\ s1 \in 0 .. m /\ s2 \in 0 .. m /\ s3 \in 0 .. n
      /\ s1 + B * s2 + B * B * s3 = v
      /\ d1 \in 0 .. B - 1 /\ d2 \in 0 .. B - 1 /\ d3 \in 0 .. 1
      /\ d1 + B * d2 + B * B * d3 = w
  BY <1>1 DEF DigitsOf
<1>3. r[1] = s1 + d1 /\ r[2] = s2 + d2 /\ r[3] = s3 + d3
  BY DEF AddDigits
<1> HIDE DEF s1, s2, s3, d1, d2, d3, r, m
<1>4. r[1] \in 0 .. m + (B - 1) /\ r[2] \in 0 .. m + (B - 1) /\ r[3] \in 0 .. n + 1
  BY <1>0, <1>1, <1>2, <1>3
<1>5. (s1 + d1) + B * (s2 + d2) + B * B * (s3 + d3)
          = (s1 + B * s2 + B * B * s3) + (d1 + B * d2 + B * B * d3)
  <2>1. s1 \in Int /\ s2 \in Int /\ s3 \in Int /\ d1 \in Int /\ d2 \in Int /\ d3 \in Int
    BY <1>1, <1>2
  <2> DEFINE bb == B * B
  <2>2. bb \in Int
    BY <1>0
  <2> HIDE DEF bb
  <2>3. (s1 + d1) + B * (s2 + d2) + bb * (s3 + d3)
          = (s1 + B * s2 + bb * s3) + (d1 + B * d2 + bb * d3)
    BY <1>0, <2>1, <2>2, Z3
  <2>4. QED
    BY <2>3 DEF bb
<1>6. r[1] + B * r[2] + B * B * r[3] = v + w
  BY <1>2, <1>3, <1>5
<1>7. QED
  BY <1>1, <1>4, <1>6 DEF DigitsOf, r

-----------------------------------------------------------------------------
(* A coefficient of a product, as a sum over the limbs of one factor.       *)

Term(x, y, c) == [i \in At |-> IF c - i \in At THEN x[i] * y[c - i] ELSE 0]
Coef(x, y, c) == Total(K, Term(x, y, c))

(* The products of limbs that meet at one place are integers, *)
LEMMA TermInt ==
    ASSUME NEW x, NEW y, NEW c \in Int, \A i \in At : x[i] \in Int /\ y[i] \in Int
    PROVE  \A i \in 0 .. K - 1 : Term(x, y, c)[i] \in Int
<1>1. ASSUME NEW i \in 0 .. K - 1 PROVE Term(x, y, c)[i] \in Int
  <2>1. i \in At /\ Term(x, y, c)[i] = IF c - i \in At THEN x[i] * y[c - i] ELSE 0
    BY DEF At, Term
  <2>2. CASE c - i \in At
    <3> DEFINE u1 == x[i]
               u2 == y[c - i]
    <3>1. u1 \in Int /\ u2 \in Int /\ Term(x, y, c)[i] = u1 * u2
      BY <2>1, <2>2
    <3> HIDE DEF u1, u2
    <3>2. QED
      BY <3>1
  <2>3. CASE c - i \notin At
    BY <2>1, <2>3
  <2>4. QED
    BY <2>2, <2>3
<1>2. QED
  BY <1>1

(* and so is their sum, the coefficient. *)
LEMMA CoefInt ==
    ASSUME NEW x, NEW y, NEW c \in Int, \A i \in At : x[i] \in Int /\ y[i] \in Int
    PROVE  Coef(x, y, c) \in Int
<1>1. K \in Nat /\ K \in 0 .. K
  BY LimbFacts
<1>2. \A i \in 0 .. K - 1 : Term(x, y, c)[i] \in Int
  BY TermInt
<1>3. \A i \in 0 .. K : Total(i, Term(x, y, c)) \in Int
  BY <1>1, <1>2, TotalInt
<1>4. QED
  BY <1>1, <1>3 DEF Coef

(* coefficient_pairs: the products that meet at a place lie between its first and
   last index, and its chunks of two cover them. *)
LEMMA Spans ==
    ASSUME NEW c \in 0 .. 2 * K - 2
    PROVE  /\ FirstOf(c) \in At /\ LastOf(c) \in At /\ FirstOf(c) <= LastOf(c)
           /\ \A i \in At : c - i \in At <=> i \in FirstOf(c) .. LastOf(c)
           /\ ChunkCount(c) \in Nat \ {0} /\ ChunkCount(c) <= (K + 1) \div 2
           /\ \A j \in 0 .. ChunkCount(c) - 1 : FirstOf(c) + 2 * j <= LastOf(c)
           /\ FirstOf(c) + 2 * ChunkCount(c) >= LastOf(c) + 1
<1>0. K \in Nat /\ 2 <= K /\ At = 0 .. K - 1
  BY LimbFacts DEF At
<1> DEFINE f == FirstOf(c)
           l == LastOf(c)
<1>1. f \in At /\ l \in At /\ f <= l /\ \A i \in At : c - i \in At <=> i \in f .. l
  BY <1>0 DEF FirstOf, LastOf
<1> DEFINE w == l - f
           h == w \div 2
           e == w % 2
           kh == (K + 1) \div 2
           ke == (K + 1) % 2
<1>2. h \in Int /\ w = 2 * h + e /\ e \in Int /\ 0 <= e /\ e < 2
  <2>1. w \in Int /\ 2 \in Nat \ {0}
    BY <1>0, <1>1
  <2> HIDE DEF w
  <2>2. QED
    BY <2>1, Division
<1>3. kh \in Int /\ K + 1 = 2 * kh + ke /\ ke \in Int /\ 0 <= ke /\ ke < 2
  <2>1. K + 1 \in Int /\ 2 \in Nat \ {0}
    BY <1>0
  <2>2. QED
    BY <2>1, Division
<1>4. ChunkCount(c) = h + 1
  BY DEF ChunkCount
<1> HIDE DEF f, l, h, e, kh, ke
<1>5. /\ h + 1 \in Nat \ {0} /\ h + 1 <= kh
      /\ \A j \in 0 .. h : f + 2 * j <= l
      /\ f + 2 * (h + 1) >= l + 1
  BY <1>0, <1>1, <1>2, <1>3
<1>6. \A j \in 0 .. ChunkCount(c) - 1 : f + 2 * j <= l
  <2>1. 0 .. ChunkCount(c) - 1 = 0 .. h
    BY <1>2, <1>4
  <2>2. QED
    BY <1>5, <2>1
<1>7. ChunkCount(c) \in Nat \ {0} /\ ChunkCount(c) <= kh /\ f + 2 * ChunkCount(c) >= l + 1
  BY <1>4, <1>5
<1>8. QED
  BY <1>1, <1>6, <1>7 DEF f, l, kh

(* Where the first j chunks of a coefficient end. *)
ChunkEnd(c, j) == IF FirstOf(c) + 2 * j <= LastOf(c) THEN FirstOf(c) + 2 * j ELSE LastOf(c) + 1

(* A chunk adds the one or two products of its indexes, below twice a square. *)
LEMMA ChunkAdds ==
    ASSUME NEW x \in [At -> Limb], NEW y \in [At -> Limb], NEW c \in 0 .. 2 * K - 2,
           NEW j \in 0 .. ChunkCount(c) - 1
    PROVE  /\ ChunkSum(x, y, c, j) \in 0 .. 2 * ((B - 1) * (B - 1))
           /\ Total(ChunkEnd(c, j + 1), Term(x, y, c))
                  = Total(ChunkEnd(c, j), Term(x, y, c)) + ChunkSum(x, y, c, j)
<1> DEFINE f == FirstOf(c)
           l == LastOf(c)
           i == f + 2 * j
           t == Term(x, y, c)
           top == (B - 1) * (B - 1)
<1>0. /\ K \in Nat /\ 2 <= K /\ At = 0 .. K - 1 /\ B \in Nat /\ 2 <= B /\ Limb = 0 .. B - 1
      /\ ChunkCount(c) \in Nat
  BY LimbFacts, Spans DEF At, Limb
<1>1. /\ f \in At /\ l \in At /\ i <= l /\ i \in f .. l /\ i \in At
      /\ \A k \in At : c - k \in At <=> k \in f .. l
  <2>1. f \in At /\ l \in At /\ i <= l
    BY Spans
  <2>2. \A k \in At : c - k \in At <=> k \in f .. l
    BY Spans
  <2>3. j \in Nat
    BY <1>0
  <2> HIDE DEF f, l
  <2>4. i \in f .. l /\ i \in At
    BY <1>0, <2>1, <2>3
  <2>5. QED
    BY <2>1, <2>2, <2>4
<1>2. ASSUME NEW k \in f .. l
      PROVE  /\ k \in At /\ c - k \in At
             /\ t[k] = x[k] * y[c - k] /\ t[k] \in 0 .. top
  <2>1. k \in At /\ c - k \in At
    <3> HIDE DEF f, l
    <3>1. k \in At
      BY <1>0, <1>1
    <3>2. QED
      BY <1>1, <3>1
  <2> DEFINE a == x[k]
             b == y[c - k]
  <2>2. t[k] = a * b /\ a \in 0 .. B - 1 /\ b \in 0 .. B - 1
    BY <1>0, <2>1 DEF Term
  <2> HIDE DEF a, b
  <2>3. a * b \in Nat /\ a * b <= (B - 1) * b /\ b * (B - 1) <= (B - 1) * (B - 1)
    <3>1. a \in Nat /\ b \in Nat /\ B - 1 \in Nat /\ a <= B - 1 /\ b <= B - 1
      BY <1>0, <2>2
    <3>2. a * b \in Nat
      BY <3>1, Z3
    <3>3. QED
      BY <3>1, <3>2, ProductMonotone
  <2>4. (B - 1) * b = b * (B - 1) /\ b * (B - 1) \in Int /\ top \in Int
    BY <1>0, <2>2, Z3
  <2> DEFINE ab == a * b
             m == b * (B - 1)
  <2>5. ab \in Nat /\ ab <= m /\ m <= top /\ m \in Int /\ top \in Int
    BY <2>3, <2>4
  <2> HIDE DEF ab, m, top
  <2>6. ab \in 0 .. top
    BY <2>5
  <2>7. QED
    BY <2>1, <2>2, <2>6 DEF a, b, ab
<1>3. ChunkSum(x, y, c, j) = t[i] + (IF i < l THEN t[i + 1] ELSE 0)
  <2>1. ChunkSum(x, y, c, j)
          = x[i] * y[c - i] + (IF i < l THEN x[i + 1] * y[c - i - 1] ELSE 0)
    BY DEF ChunkSum
  <2>2. t[i] = x[i] * y[c - i]
    BY <1>1, <1>2
  <2>3. CASE i < l
    <3> HIDE DEF t, f, l
    <3>1. i + 1 \in f .. l /\ c - (i + 1) = c - i - 1
      BY <1>0, <1>1, <2>3
    <3>2. t[i + 1] = x[i + 1] * y[c - (i + 1)]
      BY <1>2, <3>1
    <3>3. t[i + 1] = x[i + 1] * y[c - i - 1]
      BY <3>1, <3>2
    <3> HIDE DEF i
    <3>4. QED
      BY <2>1, <2>2, <2>3, <3>3
  <2>4. CASE ~(i < l)
    <3> HIDE DEF t, i, f, l
    <3>1. QED
      BY <2>1, <2>2, <2>4
  <2>5. QED
    BY <2>3, <2>4
<1>4. ChunkSum(x, y, c, j) \in 0 .. 2 * top
  <2>1. t[i] \in 0 .. top /\ top \in Nat
    <3>1. top \in Nat
      <4> DEFINE m == B - 1
      <4>1. m \in Nat
        BY <1>0
      <4> HIDE DEF m
      <4>2. m * m \in Nat
        BY <4>1, Z3
      <4>3. QED
        BY <4>2 DEF m
    <3>2. QED
      BY <1>1, <1>2, <3>1
  <2>2. i < l => i + 1 \in f .. l
    <3> HIDE DEF f, l
    <3>1. QED
      BY <1>0, <1>1
  <2>3. i < l => t[i + 1] \in 0 .. top
    BY <1>2, <2>2
  <2> HIDE DEF i, t, top, f, l
  <2>4. QED
    BY <1>3, <2>1, <2>3
<1>5. ChunkEnd(c, j) = i
  BY <1>1 DEF ChunkEnd
<1>6. ChunkEnd(c, j + 1) = IF i < l THEN i + 2 ELSE i + 1
  <2>1. f + 2 * (j + 1) = i + 2 /\ i \in Int /\ l \in Int
    BY <1>0, <1>1
  <2>2. ChunkEnd(c, j + 1) = IF f + 2 * (j + 1) <= l THEN f + 2 * (j + 1) ELSE l + 1
    BY DEF ChunkEnd
  <2> HIDE DEF i, f, l
  <2>3. ChunkEnd(c, j + 1) = IF i + 2 <= l THEN i + 2 ELSE l + 1
    BY <2>1, <2>2
  <2>4. QED
    BY <1>1, <2>1, <2>3
<1>7. Total(i + 1, t) = Total(i, t) + t[i] /\ Total((i + 1) + 1, t) = Total(i + 1, t) + t[i + 1]
  <2> HIDE DEF i, t
  <2>1. i \in Nat /\ i + 1 \in Nat
    BY <1>0, <1>1
  <2>2. QED
    BY <2>1, TotalStep
<1>8. Total(i, t) \in Int /\ t[i] \in Int /\ (i < l => t[i + 1] \in Int) /\ i \in Nat
  <2>1. \A k \in 0 .. K - 1 : t[k] \in Int
    <3>1. \A k \in At : x[k] \in Int /\ y[k] \in Int
      BY <1>0
    <3>2. QED
      BY <3>1, TermInt
  <2>2. \A k \in 0 .. K : Total(k, t) \in Int
    <3> HIDE DEF t
    <3>1. QED
      BY <1>0, <2>1, TotalInt
  <2> HIDE DEF i, t, f, l
  <2>3. i \in 0 .. K /\ (i < l => i + 1 \in 0 .. K - 1) /\ i \in Nat
    <3>1. i \in 0 .. K - 1 /\ l \in 0 .. K - 1
      BY <1>0, <1>1
    <3>2. QED
      BY <1>0, <3>1
  <2>4. QED
    BY <1>0, <1>1, <2>1, <2>2, <2>3
<1>9. Total(ChunkEnd(c, j + 1), t) = Total(ChunkEnd(c, j), t) + ChunkSum(x, y, c, j)
  <2> HIDE DEF i, t, f, l
  <2>1. CASE i < l
    <3>1. ChunkEnd(c, j + 1) = (i + 1) + 1
      BY <1>6, <1>8, <2>1
    <3>2. QED
      BY <1>3, <1>5, <1>7, <1>8, <2>1, <3>1
  <2>2. CASE ~(i < l)
    <3>1. ChunkEnd(c, j + 1) = i + 1
      BY <1>6, <2>2
    <3>2. QED
      BY <1>3, <1>5, <1>7, <1>8, <2>2, <3>1
  <2>3. QED
    BY <2>1, <2>2
<1>10. QED
  BY <1>4, <1>9

-----------------------------------------------------------------------------
(* The digits a coefficient's rows admit add up to the coefficient.         *)

ChunkChoices(x, y, c, exact, j) ==
    {e \in ChunkDigits(ChunkSum(x, y, c, j)) : exact => e = SplitChunk(ChunkSum(x, y, c, j))}

MoreDigits(g, x, y, c, exact, j) ==
    {AddDigits(s, d) : s \in g, d \in ChunkChoices(x, y, c, exact, j)}

IsDigitSums(f, n, x, y, c, exact) ==
    f = [j \in 0 .. n |->
            IF j = 0 THEN {<<0, 0, 0>>} ELSE MoreDigits(f[j - 1], x, y, c, exact, j - 1)]
DigitSumsExist(n, x, y, c, exact) == \E f : IsDigitSums(f, n, x, y, c, exact)

(* The sets of digit sums can be continued by one chunk, *)
LEMMA DigitSumsGrow ==
    ASSUME NEW n \in Nat, NEW x, NEW y, NEW c, NEW exact, DigitSumsExist(n, x, y, c, exact)
    PROVE  DigitSumsExist(n + 1, x, y, c, exact)
<1>1. PICK f : IsDigitSums(f, n, x, y, c, exact)
  BY DEF DigitSumsExist
<1> DEFINE More(g, j) == MoreDigits(g, x, y, c, exact, j)
           w == [i \in 0 .. n + 1 |-> IF i = n + 1 THEN More(f[n], n) ELSE f[i]]
<1>2. ASSUME NEW i \in 0 .. n + 1
      PROVE  w[i] = IF i = 0 THEN {<<0, 0, 0>>} ELSE More(w[i - 1], i - 1)
  <2>1. CASE i = n + 1
    <3>1. i # 0 /\ i - 1 = n /\ n \in 0 .. n + 1 /\ n # n + 1
      BY <2>1
    <3>2. w[n] = f[n]
      BY <3>1
    <3>3. w[i] = More(f[n], n)
      BY <2>1
    <3> HIDE DEF w, More
    <3>4. QED
      BY <3>1, <3>2, <3>3
  <2>2. CASE i # n + 1
    <3>1. i \in 0 .. n
      BY <2>2
    <3>2. f[i] = IF i = 0 THEN {<<0, 0, 0>>} ELSE More(f[i - 1], i - 1)
      BY <1>1, <3>1 DEF IsDigitSums
    <3>3. i # 0 => i - 1 \in 0 .. n + 1 /\ i - 1 # n + 1
      BY <3>1
    <3>4. w[i] = f[i] /\ (i # 0 => w[i - 1] = f[i - 1])
      BY <2>2, <3>3
    <3> HIDE DEF w, More
    <3>5. QED
      BY <3>2, <3>4
  <2>3. QED
    BY <2>1, <2>2
<1>3. w = [i \in 0 .. n + 1 |-> IF i = 0 THEN {<<0, 0, 0>>} ELSE More(w[i - 1], i - 1)]
  <2>1. w = [i \in 0 .. n + 1 |-> w[i]]
    OBVIOUS
  <2> HIDE DEF w, More
  <2>2. QED
    BY <1>2, <2>1
<1>4. IsDigitSums(w, n + 1, x, y, c, exact)
  <2> HIDE DEF w
  <2>1. QED
    BY <1>3 DEF IsDigitSums
<1>5. QED
  BY <1>4 DEF DigitSumsExist

(* so they exist for every number of chunks. *)
LEMMA DigitSumsDefined ==
    ASSUME NEW n \in Nat, NEW x, NEW y, NEW c, NEW exact
    PROVE  DigitSumsExist(n, x, y, c, exact)
<1> DEFINE G == {i \in Nat : DigitSumsExist(i, x, y, c, exact)}
<1>1. 0 \in G
  <2> DEFINE f == [i \in 0 .. 0 |-> {<<0, 0, 0>>}]
  <2>1. \A i \in 0 .. 0 : i = 0
    OBVIOUS
  <2>2. f = [j \in 0 .. 0 |->
            IF j = 0 THEN {<<0, 0, 0>>}
            ELSE MoreDigits(f[j - 1], x, y, c, exact, j - 1)]
    BY <2>1
  <2>3. IsDigitSums(f, 0, x, y, c, exact)
    BY <2>2 DEF IsDigitSums
  <2>4. QED
    BY <2>3 DEF DigitSumsExist
<1>2. \A i \in 0 .. n - 1 : i \in G => i + 1 \in G
  BY DigitSumsGrow
<1> HIDE DEF G
<1>3. \A i \in 0 .. n : i \in G
  BY <1>1, <1>2, Climb
<1>4. n \in G
  BY <1>3
<1>5. QED
  BY <1>4 DEF G

(* CoefficientDigits is the last of the sets its recursion describes. *)
LEMMA DigitSetIsLast ==
    ASSUME NEW x, NEW y, NEW c \in 0 .. 2 * K - 2, NEW exact
    PROVE  \E f : /\ IsDigitSums(f, ChunkCount(c), x, y, c, exact)
                  /\ CoefficientDigits(x, y, c, exact) = f[ChunkCount(c)]
<1> DEFINE n == ChunkCount(c)
           v == CHOOSE f : IsDigitSums(f, n, x, y, c, exact)
<1>0. n \in Nat /\ c # 2 * K - 1
  BY Spans, LimbFacts
<1>1. IsDigitSums(v, n, x, y, c, exact)
  <2> HIDE DEF n
  <2>1. QED
    BY <1>0, DigitSumsDefined DEF DigitSumsExist
<1>2. CoefficientDigits(x, y, c, exact) = v[n]
  BY <1>0 DEF CoefficientDigits, IsDigitSums, MoreDigits, ChunkChoices
<1> HIDE DEF v
<1>3. QED
  BY <1>1, <1>2

(* Whatever digits a prover puts into the chunks of a coefficient, their sums add
   up to the coefficient. *)
LEMMA CoefficientExact ==
    ASSUME NEW x \in [At -> Limb], NEW y \in [At -> Limb], NEW c \in 0 .. 2 * K - 2, NEW exact,
           NEW s \in CoefficientDigits(x, y, c, exact)
    PROVE  DigitsOf(s, ChunkCount(c), Coef(x, y, c))
<1> DEFINE n == ChunkCount(c)
           t == Term(x, y, c)
           first == FirstOf(c)
           last == LastOf(c)
<1>0. /\ n \in Nat /\ K \in Nat /\ B \in Nat /\ 2 <= B /\ At = 0 .. K - 1 /\ Limb = 0 .. B - 1
      /\ first \in At /\ last \in At /\ first <= last /\ first + 2 * n >= last + 1
  BY Spans, LimbFacts DEF At, Limb
<1>1. PICK f : IsDigitSums(f, n, x, y, c, exact) /\ CoefficientDigits(x, y, c, exact) = f[n]
  BY DigitSetIsLast
<1>2. \A k \in 0 .. K - 1 : t[k] \in Int
  <2>1. \A k \in At : x[k] \in Int /\ y[k] \in Int
    BY <1>0
  <2>2. QED
    BY <2>1, TermInt
<1>3. \A k \in 0 .. K : Total(k, t) \in Int
  <2> HIDE DEF t
  <2>1. QED
    BY <1>0, <1>2, TotalInt
<1>4. \A j \in 0 .. n : ChunkEnd(c, j) \in 0 .. K
  <2>1. ChunkEnd(c, 0) \in Int /\ first \in Int /\ last \in 0 .. K - 1
    BY <1>0 DEF ChunkEnd
  <2>2. ASSUME NEW j \in 0 .. n PROVE ChunkEnd(c, j) \in 0 .. K
    <3>1. ChunkEnd(c, j) = IF first + 2 * j <= last THEN first + 2 * j ELSE last + 1
      BY DEF ChunkEnd
    <3> HIDE DEF first, last, n
    <3>2. j \in Nat
      BY <1>0
    <3>3. QED
      BY <1>0, <3>1, <3>2
  <2>3. QED
    BY <2>2
<1> DEFINE G == {j \in 0 .. n : \A r \in f[j] : DigitsOf(r, j, Total(ChunkEnd(c, j), t))}
<1>5. 0 \in G
  <2>1. f[0] = {<<0, 0, 0>>}
    BY <1>0, <1>1 DEF IsDigitSums
  <2>2. ChunkEnd(c, 0) = first
    BY <1>0 DEF ChunkEnd
  <2>3. Total(first, t) = Total(0, t)
    <3>1. ASSUME NEW k \in 0 .. first - 1 PROVE t[k] = 0
      <4>1. k \in At /\ c - k \notin At
        <5>1. k \in At /\ k \notin first .. last
          <6> HIDE DEF first, last
          <6>1. QED
            BY <1>0
        <5>2. QED
          BY <5>1, Spans
      <4>2. QED
        BY <4>1 DEF Term
    <3> HIDE DEF t, first, last
    <3>2. first \in Nat /\ 0 \in 0 .. first /\ \A k \in 0 .. first - 1 : t[k] \in Int
      BY <1>0, <1>2
    <3>3. QED
      BY <3>1, <3>2, TotalTail
  <2>4. Total(0, t) = 0
    BY TotalZero
  <2>5. DigitsOf(<<0, 0, 0>>, 0, 0)
    <3>1. 0 * (B - 1) = 0 /\ 0 + B * 0 + B * B * 0 = 0
      BY <1>0
    <3>2. QED
      BY <3>1 DEF DigitsOf
  <2> HIDE DEF t, first, last
  <2>6. \A r \in f[0] : DigitsOf(r, 0, Total(ChunkEnd(c, 0), t))
    BY <2>1, <2>2, <2>3, <2>4, <2>5
  <2>7. 0 \in 0 .. n
    BY <1>0
  <2>8. QED
    BY <2>6, <2>7
<1>6. ASSUME NEW j \in 0 .. n - 1, j \in G PROVE j + 1 \in G
  <2> DEFINE v == Total(ChunkEnd(c, j), t)
             w == ChunkSum(x, y, c, j)
  <2>0. j \in 0 .. n /\ j + 1 \in 0 .. n /\ j + 1 # 0 /\ (j + 1) - 1 = j /\ j \in Nat
    BY <1>0
  <2>1. f[j + 1] = {AddDigits(r, d) : r \in f[j], d \in ChunkChoices(x, y, c, exact, j)}
    <3>1. f[j + 1] = MoreDigits(f[j], x, y, c, exact, j)
      BY <1>1, <2>0 DEF IsDigitSums
    <3>2. QED
      BY <3>1 DEF MoreDigits
  <2>2. /\ w \in 0 .. 2 * ((B - 1) * (B - 1))
        /\ Total(ChunkEnd(c, j + 1), t) = v + w
    BY ChunkAdds
  <2>3. v \in Int /\ w \in Int
    <3>1. v \in Int
      BY <1>3, <1>4, <2>0
    <3>2. QED
      BY <2>2, <3>1
  <2>4. \A r \in f[j] : DigitsOf(r, j, v)
    BY <1>6
  <2>5. ASSUME NEW r \in f[j], NEW d \in ChunkChoices(x, y, c, exact, j)
        PROVE  DigitsOf(AddDigits(r, d), j + 1, v + w)
    <3>1. d \in ChunkDigits(w)
      BY DEF ChunkChoices
    <3>2. DigitsOf(d, 1, w)
      BY <2>2, <3>1, ChunkExact
    <3>3. DigitsOf(r, j, v)
      BY <2>4
    <3> HIDE DEF v, w
    <3>4. QED
      BY <2>0, <2>3, <3>2, <3>3, AddExact
  <2> HIDE DEF v, w, t
  <2>6. \A r \in f[j + 1] : DigitsOf(r, j + 1, Total(ChunkEnd(c, j + 1), t))
    BY <2>1, <2>2, <2>5
  <2>7. QED
    BY <2>0, <2>6
<1> HIDE DEF G
<1>7. \A j \in 0 .. n : j \in G
  <2> HIDE DEF n
  <2>1. QED
    BY <1>0, <1>5, <1>6, Climb
<1>8. n \in G
  BY <1>0, <1>7
<1>9. DigitsOf(s, n, Total(ChunkEnd(c, n), t))
  BY <1>1, <1>8 DEF G
<1>10. ChunkEnd(c, n) = last + 1
  <2>1. ChunkEnd(c, n) = IF first + 2 * n <= last THEN first + 2 * n ELSE last + 1
    BY DEF ChunkEnd
  <2> HIDE DEF first, last, n
  <2>2. QED
    BY <1>0, <2>1
<1>11. Total(K, t) = Total(last + 1, t)
  <2>1. ASSUME NEW k \in last + 1 .. K - 1 PROVE t[k] = 0
    <3>1. k \in At /\ c - k \notin At
      <4>1. k \in At /\ k \notin first .. last
        <5> HIDE DEF first, last
        <5>1. QED
          BY <1>0
      <4>2. QED
        BY <4>1, Spans
    <3>2. QED
      BY <3>1 DEF Term
  <2> HIDE DEF t, first, last
  <2>2. last + 1 \in 0 .. K
    BY <1>0
  <2>3. QED
    BY <1>0, <1>2, <2>1, <2>2, TotalTail
<1>12. QED
  BY <1>9, <1>10, <1>11 DEF Coef

(* The last coefficient is one product of limbs: it has no third digit.  The
   one after it is zero. *)
LEMMA TopCoefficient ==
    ASSUME NEW x \in [At -> Limb], NEW y \in [At -> Limb], NEW exact,
           NEW s \in CoefficientDigits(x, y, 2 * K - 2, exact)
    PROVE  s[3] = 0
<1> DEFINE c == 2 * K - 2
           n == K - 1
           t == Term(x, y, c)
<1>0. /\ K \in Nat /\ B \in Nat /\ 2 <= B /\ At = 0 .. K - 1 /\ Limb = 0 .. B - 1
      /\ c \in 0 .. 2 * K - 2 /\ n \in Nat /\ n \in At /\ n + 1 = K /\ c - n = n
  BY LimbFacts DEF At, Limb
<1>1. DigitsOf(s, ChunkCount(c), Coef(x, y, c)) /\ ChunkCount(c) \in Nat
  <2>1. s \in CoefficientDigits(x, y, c, exact)
    OBVIOUS
  <2> HIDE DEF c
  <2>2. QED
    BY <1>0, <2>1, CoefficientExact, Spans
<1>2. \A i \in 0 .. n - 1 : t[i] = 0
  <2>1. ASSUME NEW i \in 0 .. n - 1 PROVE t[i] = 0
    <3>1. i \in At /\ c - i \notin At
      BY <1>0
    <3>2. QED
      BY <3>1 DEF Term
  <2>2. QED
    BY <2>1
<1>3. t[n] = x[n] * y[n]
  BY <1>0 DEF Term
<1>4. Total(n, t) = 0
  <2> HIDE DEF t, n
  <2>1. 0 \in 0 .. n /\ n \in Nat
    BY <1>0
  <2>2. /\ \A i \in 0 .. n - 1 : t[i] \in Int
        /\ \A i \in 0 .. n - 1 : t[i] = 0
    BY <1>2
  <2>3. Total(n, t) = Total(0, t)
    BY <2>1, <2>2, TotalTail
  <2>4. QED
    BY <2>3, TotalZero
<1>5. Total(n + 1, t) = Total(n, t) + t[n]
  <2> HIDE DEF t, n
  <2>1. QED
    BY <1>0, TotalStep
<1> DEFINE a == x[n]
           b == y[n]
<1>6. a \in 0 .. B - 1 /\ b \in 0 .. B - 1
  BY <1>0
<1>7. Coef(x, y, c) = 0 + a * b
  BY <1>0, <1>3, <1>4, <1>5 DEF Coef
<1> DEFINE bb == B * B
           ab == a * b
<1> HIDE DEF a, b, t, c, n
<1>8. ab \in Nat /\ ab < bb /\ bb \in Nat
  <2>1. a \in Nat /\ b \in Nat /\ a <= B /\ b + 1 <= B
    BY <1>0, <1>6
  <2>2. a * b <= B * b /\ b * B <= (B - 1) * B
    <3>1. b <= B - 1 /\ B - 1 \in Nat
      BY <1>0, <2>1
    <3>2. QED
      BY <1>0, <2>1, <3>1, ProductMonotone
  <2>3. B * b = b * B /\ (B - 1) * B = bb - B /\ ab \in Nat /\ b * B \in Int /\ bb \in Nat
    BY <1>0, <2>1, Z3
  <2> DEFINE w == b * B
  <2>4. ab <= w /\ w <= bb - B /\ w \in Int
    BY <2>2, <2>3
  <2> HIDE DEF w, ab, bb
  <2>5. QED
    BY <1>0, <2>3, <2>4
<1> DEFINE m == ChunkCount(c) * (B - 1)
           s1 == s[1]
           s2 == s[2]
           s3 == s[3]
<1>9. /\ m \in Int /\ s1 \in 0 .. m /\ s2 \in 0 .. m /\ s3 \in Nat
      /\ s1 + B * s2 + bb * s3 = ab
  <2>1. s1 \in 0 .. m /\ s2 \in 0 .. m /\ s3 \in 0 .. ChunkCount(c)
    BY <1>1 DEF DigitsOf
  <2>2. m \in Int
    BY <1>0, <1>1
  <2>3. s1 + B * s2 + bb * s3 = 0 + a * b
    BY <1>1, <1>7 DEF DigitsOf
  <2>4. 0 + a * b = ab
    BY <1>8
  <2>5. s3 \in Nat
    BY <1>1, <2>1
  <2>6. QED
    BY <2>1, <2>2, <2>3, <2>4, <2>5
<1> HIDE DEF m, s1, s2, s3, ab, bb
<1>10. B * s2 \in Nat /\ bb * s3 \in Nat
  BY <1>0, <1>8, <1>9, Z3
<1>11. SUFFICES ASSUME s3 # 0 PROVE FALSE
  BY DEF s3
<1>12. s3 * bb >= bb /\ s3 * bb = bb * s3
  <2>1. 1 <= s3
    BY <1>9, <1>11
  <2>2. QED
    BY <1>8, <1>9, <2>1, ProductAtLeast, Z3
<1> DEFINE x1 == B * s2
           x2 == bb * s3
<1>13. x1 \in Nat /\ x2 \in Nat /\ x2 >= bb /\ s1 + x1 + x2 = ab
  BY <1>9, <1>10, <1>12
<1> HIDE DEF x1, x2
<1>14. QED
  BY <1>8, <1>9, <1>13

(* No products meet at the last place. *)
LEMMA LastCoefficient ==
    ASSUME NEW x \in [At -> Limb], NEW y \in [At -> Limb], NEW exact
    PROVE  /\ CoefficientDigits(x, y, 2 * K - 1, exact) = {<<0, 0, 0>>}
           /\ Coef(x, y, 2 * K - 1) = 0
<1> DEFINE c == 2 * K - 1
           t == Term(x, y, c)
<1>0. K \in Nat /\ 2 <= K /\ At = 0 .. K - 1
  BY LimbFacts DEF At
<1>1. CoefficientDigits(x, y, c, exact) = {<<0, 0, 0>>}
  BY DEF CoefficientDigits
<1>2. ASSUME NEW i \in 0 .. K - 1 PROVE t[i] = 0
  <2>1. i \in At /\ c - i \notin At
    BY <1>0
  <2>2. QED
    BY <2>1 DEF Term
<1> HIDE DEF t
<1>3. Total(K, t) = Total(0, t)
  <2>1. 0 \in 0 .. K
    BY <1>0
  <2>2. QED
    BY <1>0, <1>2, <2>1, TotalTail
<1>4. QED
  BY <1>1, <1>3, TotalZero DEF Coef, t
-----------------------------------------------------------------------------
(* The coefficients of a product of rows, at their places, are worth the    *)
(* product of their values.                                                 *)

AtPlaces(f) == [c \in 0 .. 2 * K - 1 |-> f[c] * Place[c]]
TermRow(x, y, k) == [c \in 0 .. 2 * K - 1 |-> Term(x, y, c)[k]]
CoefTo(x, y, k) == [c \in 0 .. 2 * K - 1 |-> Total(k, Term(x, y, c))]

(* One limb against a row: the row, shifted by the limb's index. *)
LEMMA ShiftedRow ==
    ASSUME NEW x, NEW y, NEW k \in At, \A i \in At : x[i] \in Int /\ y[i] \in Int
    PROVE  Total(2 * K, AtPlaces(TermRow(x, y, k))) = (x[k] * Place[k]) * ValueOf(y)
<1> DEFINE t == AtPlaces(TermRow(x, y, k))
           w == Weighted(y)
           a == x[k]
           p == Place[k]
           ap == a * p
           G == {j \in 0 .. K : Total(k + j, t) = ap * Total(j, w)}
<1>0. /\ K \in Nat /\ 2 <= K /\ At = 0 .. K - 1 /\ k \in Nat /\ k < K
      /\ 2 * K \in Nat /\ k + K \in 0 .. 2 * K /\ k \in 0 .. 2 * K /\ 0 \in 0 .. K /\ K \in 0 .. K
  BY LimbFacts DEF At
<1>a. a \in Int /\ p \in Int /\ ap \in Int
  <2>1. a \in Int /\ p \in Int
    BY <1>0, PlaceFacts
  <2> HIDE DEF a, p
  <2>2. QED
    BY <2>1
<1>b. ASSUME NEW c \in 0 .. 2 * K - 1
      PROVE  t[c] = (IF c - k \in At THEN x[k] * y[c - k] ELSE 0) * Place[c]
  <2>1. Term(x, y, c)[k] = IF c - k \in At THEN x[k] * y[c - k] ELSE 0
    BY DEF Term
  <2>2. QED
    BY <2>1 DEF AtPlaces, TermRow
<1>c. ASSUME NEW c \in 0 .. 2 * K - 1, c - k \notin At PROVE t[c] = 0
  <2> DEFINE pc == Place[c]
  <2>1. t[c] = 0 * pc
    BY <1>b, <1>c
  <2>2. pc \in Int
    <3>1. c \in 0 .. 2 * K
      BY <1>0
    <3>2. QED
      BY <3>1, PlaceFacts
  <2> HIDE DEF pc
  <2>3. QED
    BY <2>1, <2>2
<1>d. ASSUME NEW j \in 0 .. K - 1 PROVE t[k + j] = ap * w[j] /\ w[j] \in Int
  <2> DEFINE b == y[j]
             pj == Place[j]
             pc == Place[k + j]
  <2>0. j \in At /\ j \in Nat /\ k + j \in 0 .. 2 * K - 1 /\ (k + j) - k = j /\ k + j <= 2 * K
        /\ j \in 0 .. 2 * K
    BY <1>0
  <2>1. t[k + j] = (a * b) * pc
    <3>1. t[k + j] = (IF (k + j) - k \in At THEN x[k] * y[(k + j) - k] ELSE 0) * Place[k + j]
      BY <1>b, <2>0
    <3> HIDE DEF t
    <3>2. QED
      BY <2>0, <3>1
  <2>2. pc = p * pj
    BY <1>0, <2>0, PlaceOfSum
  <2>3. b \in Int /\ pj \in Int /\ w[j] = b * pj
    BY <2>0, PlaceFacts, WeightedAt
  <2> HIDE DEF a, b, p, pj, pc, t, w
  <2>4. (a * b) * (p * pj) = (a * p) * (b * pj)
    BY <1>a, <2>3, Z3
  <2>5. b * pj \in Int
    BY <2>3
  <2>6. QED
    BY <2>1, <2>2, <2>3, <2>4, <2>5
<1>e. \A c \in 0 .. 2 * K - 1 : t[c] \in Int
  <2>1. ASSUME NEW c \in 0 .. 2 * K - 1 PROVE t[c] \in Int
    <3>1. CASE c - k \in At
      <4> DEFINE j == c - k
      <4>1. j \in 0 .. K - 1 /\ k + j = c
        BY <1>0, <3>1
      <4> HIDE DEF j, t, w, ap
      <4>2. t[k + j] = ap * w[j] /\ w[j] \in Int
        BY <1>d, <4>1
      <4> DEFINE wj == w[j]
      <4>3. t[c] = ap * wj /\ wj \in Int
        BY <4>1, <4>2
      <4> HIDE DEF wj
      <4>4. QED
        BY <1>a, <4>3
    <3>2. CASE c - k \notin At
      <4> HIDE DEF t
      <4>1. QED
        BY <1>c, <3>2
    <3>3. QED
      BY <3>1, <3>2
  <2>2. QED
    BY <2>1
<1> HIDE DEF t, w, ap
<1>1. 0 \in G
  <2>1. ASSUME NEW c \in 0 .. k - 1 PROVE t[c] = 0
    <3>1. c \in 0 .. 2 * K - 1 /\ c - k \notin At
      BY <1>0
    <3>2. QED
      BY <1>c, <3>1
  <2>2. Total(k, t) = Total(0, t)
    <3>1. \A c \in 0 .. k - 1 : t[c] \in Int
      BY <1>0, <1>e
    <3>2. 0 \in 0 .. k
      BY <1>0
    <3>3. QED
      BY <1>0, <2>1, <3>1, <3>2, TotalTail
  <2>3. Total(0, t) = 0 /\ Total(0, w) = 0 /\ ap * 0 = 0 /\ k + 0 = k
    BY <1>0, <1>a, TotalZero
  <2>4. QED
    BY <1>0, <2>2, <2>3
<1>2. ASSUME NEW j \in 0 .. K - 1, j \in G PROVE j + 1 \in G
  <2> DEFINE T == Total(j, w)
             wj == w[j]
  <2>1. k + j \in Nat /\ k + (j + 1) = (k + j) + 1 /\ j \in Nat /\ j + 1 \in 0 .. K /\ j \in 0 .. K
    BY <1>0
  <2>2. Total((k + j) + 1, t) = Total(k + j, t) + t[k + j] /\ Total(j + 1, w) = T + wj
    BY <2>1, TotalStep
  <2>3. Total(k + j, t) = ap * T
    BY <1>2
  <2>4. t[k + j] = ap * wj /\ wj \in Int
    BY <1>d
  <2>5. T \in Int
    <3>1. \A i \in 0 .. K - 1 : w[i] \in Int
      BY <1>d
    <3>2. QED
      BY <1>0, <2>1, <3>1, TotalInt
  <2> HIDE DEF T, wj
  <2>6. ap * T + ap * wj = ap * (T + wj)
    BY <1>a, <2>4, <2>5, Z3
  <2>7. QED
    BY <2>1, <2>2, <2>3, <2>4, <2>6
<1> HIDE DEF G
<1>3. \A j \in 0 .. K : j \in G
  BY <1>0, <1>1, <1>2, Climb
<1>4. Total(k + K, t) = ap * Total(K, w)
  BY <1>0, <1>3 DEF G
<1>5. Total(2 * K, t) = Total(k + K, t)
  <2>1. ASSUME NEW c \in k + K .. 2 * K - 1 PROVE t[c] = 0
    <3>1. c \in 0 .. 2 * K - 1 /\ c - k \notin At
      BY <1>0
    <3>2. QED
      BY <1>c, <3>1
  <2>2. QED
    BY <1>0, <1>e, <2>1, TotalTail
<1>6. QED
  BY <1>4, <1>5 DEF ValueOf, t, w, ap

(* The coefficients at their places add up to the product of the two values. *)
LEMMA ProductOfValues ==
    ASSUME NEW x, NEW y, \A i \in At : x[i] \in Int /\ y[i] \in Int
    PROVE  Total(2 * K, AtPlaces([c \in 0 .. 2 * K - 1 |-> Coef(x, y, c)])) = ValueOf(x) * ValueOf(y)
<1> DEFINE w == Weighted(x)
           v == ValueOf(y)
           row(k) == AtPlaces(CoefTo(x, y, k))
           G == {k \in 0 .. K : Total(2 * K, row(k)) = Total(k, w) * v}
<1>0. K \in Nat /\ At = 0 .. K - 1 /\ 2 * K \in Nat /\ 0 \in 0 .. K /\ K \in 0 .. K /\ 2 * K \in 0 .. 2 * K
  BY LimbFacts DEF At
<1>a. v \in Int
  BY ValueInt
<1>b. \A k \in 0 .. K - 1 : w[k] = x[k] * Place[k] /\ w[k] \in Int
  <2>1. \A k \in 0 .. K - 1 : w[k] \in Int
    BY WeightedInt
  <2>2. QED
    BY <1>0, <2>1, WeightedAt
<1>c. \A k \in 0 .. K : \A c \in 0 .. 2 * K - 1 : Total(k, Term(x, y, c)) \in Int
  <2>1. ASSUME NEW k \in 0 .. K, NEW c \in 0 .. 2 * K - 1 PROVE Total(k, Term(x, y, c)) \in Int
    <3>1. c \in Int
      BY <1>0
    <3>2. \A i \in 0 .. K - 1 : Term(x, y, c)[i] \in Int
      BY <3>1, TermInt
    <3>3. QED
      BY <1>0, <3>2, TotalInt
  <2>2. QED
    BY <2>1
<1> HIDE DEF w, v
<1>1. 0 \in G
  <2>1. ASSUME NEW c \in 0 .. 2 * K - 1 PROVE row(0)[c] = 0
    <3> DEFINE p == Place[c]
    <3>1. row(0)[c] = Total(0, Term(x, y, c)) * p
      BY DEF AtPlaces, CoefTo
    <3>2. p \in Int /\ Total(0, Term(x, y, c)) = 0
      <4>1. c \in 0 .. 2 * K
        BY <1>0
      <4>2. QED
        BY <4>1, PlaceFacts, TotalZero
    <3>3. row(0)[c] = 0 * p
      BY <3>1, <3>2
    <3> HIDE DEF p, row
    <3>4. QED
      BY <3>2, <3>3
  <2> DEFINE t == row(0)
  <2> HIDE DEF t, row
  <2>2. \A c \in 0 .. 2 * K - 1 : t[c] = 0
    BY <2>1 DEF t
  <2>3. Total(2 * K, t) = Total(0, t)
    <3>1. 0 \in 0 .. 2 * K /\ \A c \in 0 .. 2 * K - 1 : t[c] \in Int
      BY <1>0, <2>2
    <3>2. QED
      BY <1>0, <2>2, <3>1, TotalTail
  <2>4. Total(0, t) = 0 /\ Total(0, w) = 0 /\ 0 * v = 0
    BY <1>a, TotalZero
  <2>5. QED
    BY <1>0, <2>3, <2>4 DEF t
<1>2. ASSUME NEW k \in 0 .. K - 1, k \in G PROVE k + 1 \in G
  <2> DEFINE s == row(k)
             t == AtPlaces(TermRow(x, y, k))
             r == row(k + 1)
  <2>0. k \in At /\ k + 1 \in 0 .. K /\ k \in 0 .. K /\ k \in Nat
    BY <1>0
  <2>1. ASSUME NEW c \in 0 .. 2 * K - 1
        PROVE  s[c] \in Int /\ t[c] \in Int /\ r[c] = s[c] + 1 * t[c]
    <3> DEFINE a == Total(k, Term(x, y, c))
               b == Term(x, y, c)[k]
               p == Place[c]
    <3>1. s[c] = a * p /\ t[c] = b * p /\ r[c] = Total(k + 1, Term(x, y, c)) * p
      BY DEF AtPlaces, CoefTo, TermRow
    <3>2. Total(k + 1, Term(x, y, c)) = a + b
      BY <2>0, TotalStep
    <3>3. a \in Int /\ p \in Int /\ b \in Int
      <4>1. c \in 0 .. 2 * K /\ c \in Int
        BY <1>0
      <4>2. p \in Int
        BY <4>1, PlaceFacts
      <4>3. b \in Int
        BY <4>1, TermInt
      <4>4. a \in Int
        BY <1>c, <2>0
      <4>5. QED
        BY <4>2, <4>3, <4>4
    <3> HIDE DEF a, b, p, s, t, r
    <3>4. (a + b) * p = a * p + 1 * (b * p) /\ a * p \in Int /\ b * p \in Int
      BY <3>3, Z3
    <3>5. QED
      BY <3>1, <3>2, <3>4
  <2>2. Total(2 * K, t) = (x[k] * Place[k]) * v
    BY <2>0, ShiftedRow DEF v
  <2> HIDE DEF s, t, r
  <2>3. Combines(2 * K, 1, s, t, r)
    BY <2>1 DEF Combines
  <2>4. SumsCombine(2 * K, 1, s, t, r)
    BY <1>0, <2>3, TotalCombine
  <2>5. Total(2 * K, r) = Total(2 * K, s) + 1 * Total(2 * K, t)
    BY <1>0, <2>4 DEF SumsCombine
  <2>6. Total(2 * K, s) = Total(k, w) * v
    BY <1>2 DEF s
  <2>7. Total(k + 1, w) = Total(k, w) + w[k]
    BY <2>0, TotalStep
  <2>8. Total(k, w) \in Int /\ w[k] \in Int /\ w[k] = x[k] * Place[k]
    BY <1>0, <1>b, <2>0, TotalInt
  <2> DEFINE T == Total(k, w)
             wk == w[k]
  <2>9. Total(2 * K, r) = T * v + 1 * (wk * v) /\ T \in Int /\ wk \in Int /\ Total(k + 1, w) = T + wk
    BY <2>2, <2>5, <2>6, <2>7, <2>8
  <2> HIDE DEF T, wk
  <2>10. T * v + 1 * (wk * v) = (T + wk) * v
    BY <1>a, <2>9, Z3
  <2>11. Total(2 * K, r) = Total(k + 1, w) * v
    BY <2>9, <2>10
  <2>12. QED
    BY <2>0, <2>11 DEF r
<1> HIDE DEF G
<1>3. \A k \in 0 .. K : k \in G
  BY <1>0, <1>1, <1>2, Climb
<1>4. Total(2 * K, row(K)) = Total(K, w) * v
  BY <1>0, <1>3 DEF G
<1>5. row(K) = AtPlaces([c \in 0 .. 2 * K - 1 |-> Coef(x, y, c)])
  BY DEF CoefTo, Coef
<1>6. QED
  BY <1>4, <1>5 DEF v, w, ValueOf
-----------------------------------------------------------------------------
(* One product, digit by digit: what the digits so far have settled is what *)
(* is due at the next place.                                                *)

ChunkLimit == (K + 1) \div 2
DigitLimit == ChunkLimit * (B - 1)

(* split_digit_carry_bound: the carry bound admits every carry of a digit
   within its limits. *)
LEMMA LimitFacts ==
    /\ ChunkLimit \in Nat /\ DigitLimit \in Nat /\ CarryBound \in Nat
    /\ 2 * (2 * DigitLimit + ChunkLimit) + (B - 1) <= B * CarryBound
<1>0. B \in Nat /\ 2 <= B /\ K \in Nat
  BY LimbFacts
<1> DEFINE h == ChunkLimit
           l == DigitLimit
<1>1. h \in Nat
  <2> DEFINE e == (K + 1) % 2
  <2>1. h \in Int /\ K + 1 = 2 * h + e /\ e \in Int /\ 0 <= e /\ e < 2
    <3>1. K + 1 \in Int /\ 2 \in Nat \ {0}
      BY <1>0
    <3>2. QED
      BY <3>1, Division DEF ChunkLimit
  <2> HIDE DEF h, e
  <2>2. QED
    BY <1>0, <2>1
<1>2. l \in Nat
  <2> DEFINE m == B - 1
  <2>1. m \in Nat /\ l = h * m
    BY <1>0 DEF DigitLimit
  <2> HIDE DEF m, h, l
  <2>2. h * m \in Nat
    BY <1>1, <2>1, Z3
  <2>3. QED
    BY <2>1, <2>2
<1> DEFINE di == 3 * l + h
           top == 2 * di + (B - 1) + B - 1
           f == top \div B
           e == top % B
<1>3. CarryBound = f
  <2>1. 3 * h * (B - 1) = 3 * l
    <3>1. l = h * (B - 1)
      BY DEF DigitLimit
    <3> HIDE DEF h, l
    <3> DEFINE m == B - 1
    <3>2. 3 * h * m = 3 * (h * m)
      <4>1. m \in Int
        BY <1>0
      <4> HIDE DEF m
      <4>2. QED
        BY <1>1, <4>1, Z3
    <3>3. QED
      BY <3>1, <3>2
  <2> HIDE DEF l
  <2>2. QED
    BY <2>1 DEF CarryBound, ChunkLimit
<1> HIDE DEF h, l
<1>4. top \in Int /\ top \in Nat
  BY <1>0, <1>1, <1>2
<1>5. f \in Int /\ e \in Int /\ top = B * f + e /\ 0 <= e /\ e < B
  <2> HIDE DEF top
  <2>1. B \in Nat \ {0}
    BY <1>0
  <2>2. QED
    BY <1>4, <2>1, Division
<1> HIDE DEF f, e
<1> DEFINE bf == B * f
<1>6. bf \in Int /\ top = bf + e
  BY <1>0, <1>5
<1>7. 2 * di + (B - 1) <= bf
  <2> HIDE DEF bf
  <2>1. QED
    BY <1>0, <1>1, <1>2, <1>5, <1>6
<1>8. f \in Nat
  <2>1. 0 * B <= bf /\ 0 * B = 0
    <3> HIDE DEF bf
    <3>1. QED
      BY <1>0, <1>1, <1>2, <1>6, <1>7
  <2>2. bf = f * B
    BY <1>0, <1>5
  <2>3. (-1) * B < f * B
    <3> HIDE DEF bf
    <3>1. QED
      BY <1>0, <1>6, <2>1, <2>2
  <2>4. -1 < f
    BY <1>0, <1>5, <2>3, ProductStrict
  <2>5. QED
    BY <1>5, <2>4
<1>9. 2 * (2 * l + h) + (B - 1) <= bf
  <2> HIDE DEF bf
  <2>1. QED
    BY <1>0, <1>1, <1>2, <1>6, <1>7
<1>10. QED
  BY <1>1, <1>2, <1>3, <1>8, <1>9 DEF h, l, bf

(* The digits of any coefficient of a product. *)
LEMMA CoefficientRows ==
    ASSUME NEW x \in [At -> Limb], NEW y \in [At -> Limb], NEW c \in 0 .. 2 * K - 1, NEW exact,
           NEW s \in CoefficientDigits(x, y, c, exact)
    PROVE  /\ s[1] \in 0 .. DigitLimit /\ s[2] \in 0 .. DigitLimit /\ s[3] \in 0 .. ChunkLimit
           /\ s[1] + B * s[2] + B * B * s[3] = Coef(x, y, c)
           /\ c >= 2 * K - 2 => s[3] = 0
           /\ c = 2 * K - 1 => s[1] = 0 /\ s[2] = 0
<1>0. K \in Nat /\ 2 <= K /\ B \in Nat /\ 2 <= B
  BY LimbFacts
<1>1. CASE c = 2 * K - 1
  <2>1. s = <<0, 0, 0>> /\ Coef(x, y, c) = 0
    BY <1>1, LastCoefficient
  <2>2. 0 + B * 0 + B * B * 0 = 0
    BY <1>0
  <2>3. s[1] = 0 /\ s[2] = 0 /\ s[3] = 0
    BY <2>1
  <2>4. QED
    BY <2>1, <2>2, <2>3, LimitFacts
<1>2. CASE c # 2 * K - 1
  <2>1. c \in 0 .. 2 * K - 2
    BY <1>0, <1>2
  <2> DEFINE n == ChunkCount(c)
             m == n * (B - 1)
  <2>2. n \in Nat /\ n <= ChunkLimit
    BY <2>1, Spans DEF ChunkLimit
  <2>3. DigitsOf(s, n, Coef(x, y, c))
    BY <2>1, CoefficientExact
  <2>4. m \in Int /\ m <= DigitLimit
    <3>1. B - 1 \in Nat
      BY <1>0
    <3> HIDE DEF n
    <3>2. n * (B - 1) <= ChunkLimit * (B - 1)
      BY <2>2, <3>1, LimitFacts, ProductMonotone
    <3>3. QED
      BY <1>0, <2>2, <3>2 DEF DigitLimit
  <2>5. s[1] \in 0 .. m /\ s[2] \in 0 .. m /\ s[3] \in 0 .. n /\ s[1] + B * s[2] + B * B * s[3] = Coef(x, y, c)
    BY <2>3 DEF DigitsOf
  <2> HIDE DEF n, m
  <2>6. c >= 2 * K - 2 => s[3] = 0
    <3>1. SUFFICES ASSUME c = 2 * K - 2 PROVE s[3] = 0
      BY <1>0, <2>1
    <3>2. s \in CoefficientDigits(x, y, 2 * K - 2, exact)
      BY <3>1
    <3>3. QED
      BY <3>2, TopCoefficient
  <2>7. s[1] \in 0 .. DigitLimit /\ s[2] \in 0 .. DigitLimit /\ s[3] \in 0 .. ChunkLimit
    BY <2>2, <2>4, <2>5, LimitFacts
  <2>8. QED
    BY <1>2, <2>5, <2>6, <2>7
<1>3. QED
  BY <1>1, <1>2

Entry(r, c) == IF c < K THEN r[c] ELSE 0

Owed(o, qq) ==
    [c \in 0 .. 2 * K - 1 |-> Coef(o.a, o.b, c) - Coef(qq, Order, c) - Entry(o.result, c)]

Settled(d, o, qq) == Total(d, AtPlaces(Owed(o, qq)))

ProductRows(o, qq) ==
    /\ o.a \in [At -> Limb] /\ o.b \in [At -> Limb] /\ o.result \in [At -> Limb]
    /\ qq \in [At -> Limb]

WindowBounds(w) == w[1] \in 0 .. DigitLimit + ChunkLimit /\ w[2] \in 0 .. ChunkLimit

Due(w, cc) == (w.ab[1] - w.qn[1]) + B * (w.ab[2] - w.qn[2]) + cc

ProductState(o, qq, d, w, cc) ==
    /\ ProductRows(o, qq)
    /\ d \in 0 .. 2 * K
    /\ \A i \in At : d <= i => qq[i] = 0
    /\ cc \in -CarryBound .. CarryBound
    /\ WindowBounds(w.ab) /\ WindowBounds(w.qn)
    /\ d >= 2 * K - 1 => w.ab[2] = 0 /\ w.qn[2] = 0
    /\ d = 2 * K => w.ab[1] = 0 /\ w.qn[1] = 0 /\ cc = 0
    /\ Settled(d, o, qq) = Place[d] * Due(w, cc)

(* The result's limb at a place, zero past its end. *)
LEMMA EntryLimb ==
    ASSUME NEW r \in [At -> Limb], NEW c \in 0 .. 2 * K - 1
    PROVE  Entry(r, c) \in 0 .. B - 1
BY LimbFacts DEF Entry, At, Limb

(* What a place leaves: the coefficient of the factors less that of quotient and
   order and less the result's limb. *)
LEMMA OwedInt ==
    ASSUME NEW o, NEW qq, ProductRows(o, qq), NEW c \in 0 .. 2 * K - 1
    PROVE  /\ Coef(o.a, o.b, c) \in Int /\ Coef(qq, Order, c) \in Int
           /\ Owed(o, qq)[c] \in Int /\ AtPlaces(Owed(o, qq))[c] \in Int
           /\ Owed(o, qq)[c] = Coef(o.a, o.b, c) - Coef(qq, Order, c) - Entry(o.result, c)
           /\ AtPlaces(Owed(o, qq))[c] = Owed(o, qq)[c] * Place[c]
<1>0. c \in Int /\ c \in 0 .. 2 * K /\ B \in Nat /\ Limb = 0 .. B - 1
  BY LimbFacts DEF Limb
<1> DEFINE a == Coef(o.a, o.b, c)
           b == Coef(qq, Order, c)
           r == Entry(o.result, c)
           p == Place[c]
           w == Owed(o, qq)[c]
           v == AtPlaces(Owed(o, qq))[c]
<1>1. a \in Int
  <2>1. \A i \in At : o.a[i] \in Int /\ o.b[i] \in Int
    BY <1>0 DEF ProductRows
  <2>2. QED
    BY <1>0, <2>1, CoefInt
<1>2. b \in Int
  <2>1. \A i \in At : qq[i] \in Int /\ Order[i] \in Int
    BY <1>0, OrderLimbs DEF ProductRows
  <2>2. QED
    BY <1>0, <2>1, CoefInt
<1>3. r \in Int /\ p \in Int
  <2>1. r \in 0 .. B - 1
    BY EntryLimb DEF ProductRows
  <2>2. p \in Int
    BY <1>0, PlaceFacts
  <2> HIDE DEF r
  <2>3. QED
    BY <1>0, <2>1, <2>2
<1>4. w = a - b - r
  BY DEF Owed
<1>5. v = w * p
  BY DEF AtPlaces
<1> HIDE DEF a, b, r, p, w, v
<1>6. w \in Int /\ w * p \in Int
  BY <1>1, <1>2, <1>3, <1>4
<1>7. QED
  BY <1>1, <1>2, <1>4, <1>5, <1>6 DEF a, b, r, p, w, v

(* A limb of the quotient not yet known does not enter the coefficients so far. *)
LEMMA SettledStays ==
    ASSUME NEW o, NEW qq, NEW kk, ProductRows(o, qq), ProductRows(o, kk),
           NEW d \in 0 .. 2 * K - 1, \A i \in At : i < d => kk[i] = qq[i]
    PROVE  Settled(d, o, kk) = Settled(d, o, qq)
<1>0. K \in Nat /\ At = 0 .. K - 1 /\ d \in Nat
  BY LimbFacts DEF At
<1>1. ASSUME NEW c \in 0 .. d - 1
      PROVE  Coef(kk, Order, c) = Coef(qq, Order, c)
  <2>1. ASSUME NEW i \in 0 .. K - 1 PROVE Term(kk, Order, c)[i] = Term(qq, Order, c)[i]
    <3>1. i \in At /\ (c - i \in At => i < d)
      BY <1>0
    <3>2. c - i \in At => kk[i] = qq[i]
      BY <3>1
    <3>3. QED
      BY <3>1, <3>2 DEF Term
  <2>2. \A i \in 0 .. K : Total(i, Term(kk, Order, c)) = Total(i, Term(qq, Order, c))
    BY <1>0, <2>1, TotalSame
  <2>3. K \in 0 .. K
    BY <1>0
  <2>4. QED
    BY <2>2, <2>3 DEF Coef
<1>2. ASSUME NEW c \in 0 .. d - 1
      PROVE  AtPlaces(Owed(o, kk))[c] = AtPlaces(Owed(o, qq))[c]
  <2>1. c \in 0 .. 2 * K - 1
    BY <1>0
  <2>2. Owed(o, kk)[c] = Owed(o, qq)[c]
    BY <1>1, <2>1, OwedInt
  <2>3. AtPlaces(Owed(o, kk))[c] = Owed(o, kk)[c] * Place[c]
    BY <2>1, OwedInt
  <2>4. AtPlaces(Owed(o, qq))[c] = Owed(o, qq)[c] * Place[c]
    BY <2>1, OwedInt
  <2>5. QED
    BY <2>2, <2>3, <2>4
<1>3. \A i \in 0 .. d : Total(i, AtPlaces(Owed(o, kk))) = Total(i, AtPlaces(Owed(o, qq)))
  BY <1>0, <1>2, TotalSame
<1>4. d \in 0 .. d
  BY <1>0
<1>5. QED
  BY <1>3, <1>4 DEF Settled

(* The reduction row of a digit does not wrap. *)
LEMMA CarryExact ==
    ASSUME NEW e \in Int, NEW out \in CarriesOut(e), NEW cc \in -CarryBound .. CarryBound,
           NEW n \in Int, e = n + cc,
           -(2 * DigitLimit + ChunkLimit + (B - 1)) <= n, n <= 2 * DigitLimit + ChunkLimit
    PROVE  out \in -CarryBound .. CarryBound /\ e = B * out
<1>0. B \in Nat /\ 2 <= B /\ P \in Nat /\ (2 * B + 1) * CarryBound < P
  BY LimbFacts, FieldFacts
<1>1. out \in -CarryBound .. CarryBound /\ Vanishes(e - B * out)
  BY DEF CarriesOut
<1> DEFINE cb == CarryBound
           l == DigitLimit
           h == ChunkLimit
           bc == B * cb
           bo == B * out
<1>2. cb \in Nat /\ l \in Nat /\ h \in Nat /\ 2 * (2 * l + h) + (B - 1) <= bc
  BY LimitFacts
<1>3. (2 * B + 1) * cb = 2 * bc + cb
  <2> HIDE DEF cb
  <2>1. QED
    BY <1>0, <1>2, Z3
<1>4. out \in -cb .. cb /\ cc \in -cb .. cb /\ 2 * bc + cb < P /\ Vanishes(e - bo)
  BY <1>0, <1>1, <1>3
<1>5. -(2 * l + h + (B - 1)) <= n /\ n <= 2 * l + h
  OBVIOUS
<1> HIDE DEF cb, l, h
<1>6. bo \in -bc .. bc /\ bc \in Nat /\ bo \in Int
  <2>1. bc \in Nat /\ bo \in Int
    BY <1>0, <1>2, <1>4, Z3
  <2>2. bo <= bc
    <3>1. (cb - out) * B >= 0
      <4> DEFINE m == cb - out
      <4>1. m \in Nat
        BY <1>2, <1>4
      <4> HIDE DEF m
      <4>2. m * B \in Nat
        BY <1>0, <4>1, Z3
      <4>3. QED
        BY <4>2 DEF m
    <3>2. (cb - out) * B = bc - bo
      BY <1>0, <1>2, <1>4, Z3
    <3>3. QED
      BY <2>1, <3>1, <3>2
  <2>3. -bc <= bo
    <3>1. (cb + out) * B >= 0
      <4> DEFINE m == cb + out
      <4>1. m \in Nat
        BY <1>2, <1>4
      <4> HIDE DEF m
      <4>2. m * B \in Nat
        BY <1>0, <4>1, Z3
      <4>3. QED
        BY <4>2 DEF m
    <3>2. (cb + out) * B = bc + bo
      BY <1>0, <1>2, <1>4, Z3
    <3>3. QED
      BY <2>1, <3>1, <3>2
  <2>4. QED
    BY <2>1, <2>2, <2>3
<1> HIDE DEF bc, bo
<1> DEFINE y == e - bo
<1>7. y \in Int /\ -P < y /\ y < P
  BY <1>0, <1>2, <1>4, <1>5, <1>6
<1>8. Vanishes(y)
  BY <1>4
<1> HIDE DEF y
<1>9. y = 0
  BY <1>7, <1>8, SmallVanishes
<1>10. e = bo
  BY <1>6, <1>9 DEF y
<1>11. QED
  BY <1>1, <1>10 DEF bo

(* One digit: what it settles is what it takes from the window and the carry,
   less what it puts there. *)
LEMMA DigitStep ==
    ASSUME NEW o, NEW qq, NEW kk, NEW d \in 0 .. 2 * K - 1, NEW w, NEW cc,
           ProductState(o, qq, d, w, cc), ProductRows(o, kk),
           \A i \in At : i < d => kk[i] = qq[i], \A i \in At : d + 1 <= i => kk[i] = 0,
           NEW exact, NEW ab \in CoefficientDigits(o.a, o.b, d, exact),
           NEW qn \in CoefficientDigits(kk, Order, d, exact),
           NEW out \in CarriesOut((w.ab[1] + ab[1] - Entry(o.result, d) + cc) - w.qn[1] - qn[1]),
           d = 2 * K - 1 => out = 0
    PROVE  ProductState(o, kk, d + 1,
                        [ab |-> <<w.ab[2] + ab[2], ab[3]>>, qn |-> <<w.qn[2] + qn[2], qn[3]>>], out)
<1> DEFINE l == DigitLimit
           h == ChunkLimit
           a1 == ab[1]
           a2 == ab[2]
           a3 == ab[3]
           q1 == qn[1]
           q2 == qn[2]
           q3 == qn[3]
           x1 == w.ab[1]
           x2 == w.ab[2]
           y1 == w.qn[1]
           y2 == w.qn[2]
           en == Entry(o.result, d)
           p == Place[d]
           pp == Place[d + 1]
           w2 == [ab |-> <<x2 + a2, a3>>, qn |-> <<y2 + q2, q3>>]
           ca == Coef(o.a, o.b, d)
           cq == Coef(kk, Order, d)
           ow == Owed(o, kk)[d]
<1>0. /\ K \in Nat /\ 2 <= K /\ B \in Nat /\ 2 <= B /\ l \in Nat /\ h \in Nat
      /\ d \in Nat /\ d + 1 \in 0 .. 2 * K /\ d \in 0 .. 2 * K
  BY LimbFacts, LimitFacts
<1>1. /\ ProductRows(o, qq) /\ cc \in -CarryBound .. CarryBound
      /\ x1 \in 0 .. l + h /\ x2 \in 0 .. h /\ y1 \in 0 .. l + h /\ y2 \in 0 .. h
      /\ d >= 2 * K - 1 => x2 = 0 /\ y2 = 0
      /\ Settled(d, o, qq) = p * ((x1 - y1) + B * (x2 - y2) + cc)
  BY DEF ProductState, WindowBounds, Due
<1>2. /\ a1 \in 0 .. l /\ a2 \in 0 .. l /\ a3 \in 0 .. h
      /\ a1 + B * a2 + B * B * a3 = ca
      /\ d >= 2 * K - 2 => a3 = 0
      /\ d = 2 * K - 1 => a1 = 0 /\ a2 = 0
  <2>1. o.a \in [At -> Limb] /\ o.b \in [At -> Limb]
    BY <1>1 DEF ProductRows
  <2>2. QED
    BY <2>1, CoefficientRows
<1>3. /\ q1 \in 0 .. l /\ q2 \in 0 .. l /\ q3 \in 0 .. h
      /\ q1 + B * q2 + B * B * q3 = cq
      /\ d >= 2 * K - 2 => q3 = 0
      /\ d = 2 * K - 1 => q1 = 0 /\ q2 = 0
  <2>1. kk \in [At -> Limb] /\ Order \in [At -> Limb]
    BY OrderLimbs DEF ProductRows
  <2>2. QED
    BY <2>1, CoefficientRows
<1>4. en \in 0 .. B - 1
  BY <1>1, EntryLimb DEF ProductRows
<1>5. /\ p \in Int /\ pp = B * p /\ ow = ca - cq - en
      /\ Settled(d + 1, o, kk) = Settled(d, o, kk) + ow * p
      /\ Settled(d, o, kk) = Settled(d, o, qq)
  <2>1. p \in Int /\ pp = B * p
    BY <1>0, PlaceFacts
  <2>2. ow = ca - cq - en /\ AtPlaces(Owed(o, kk))[d] = ow * p
    BY OwedInt
  <2>3. Settled(d + 1, o, kk) = Settled(d, o, kk) + ow * p
    BY <1>0, <2>2, TotalStep DEF Settled
  <2>4. Settled(d, o, kk) = Settled(d, o, qq)
    BY <1>1, SettledStays
  <2>5. QED
    BY <2>1, <2>2, <2>3, <2>4
<1>6. out \in CarriesOut((x1 + a1 - en + cc) - y1 - q1)
  OBVIOUS
<1>7. w2.ab[1] = x2 + a2 /\ w2.ab[2] = a3 /\ w2.qn[1] = y2 + q2 /\ w2.qn[2] = q3
  OBVIOUS
<1> HIDE DEF l, h, a1, a2, a3, q1, q2, q3, x1, x2, y1, y2, en, p, pp, w2, ca, cq, ow
<1> DEFINE n == x1 + a1 - en - y1 - q1
           e == (x1 + a1 - en + cc) - y1 - q1
<1>8. out \in -CarryBound .. CarryBound /\ e = B * out
  <2>1. /\ n \in Int /\ -(2 * l + h + (B - 1)) <= n /\ n <= 2 * l + h
    BY <1>0, <1>1, <1>2, <1>3, <1>4
  <2>2. e \in Int /\ e = n + cc
    BY <1>0, <1>1, <1>2, <1>3, <1>4, LimitFacts
  <2>3. out \in CarriesOut(e)
    BY <1>6
  <2> HIDE DEF n, e
  <2>4. QED
    BY <1>1, <2>1, <2>2, <2>3, CarryExact DEF l, h
<1>9. out \in Int /\ cc \in Int
  BY <1>1, <1>8, LimitFacts
<1>10. Settled(d + 1, o, kk) = pp * ((x2 + a2 - (y2 + q2)) + B * (a3 - q3) + out)
  <2> DEFINE s == (x1 - y1) + B * (x2 - y2) + cc
             t == (x2 + a2 - (y2 + q2)) + B * (a3 - q3) + out
  <2>1. /\ a1 \in Int /\ a2 \in Int /\ a3 \in Int /\ q1 \in Int /\ q2 \in Int /\ q3 \in Int
        /\ x1 \in Int /\ x2 \in Int /\ y1 \in Int /\ y2 \in Int /\ en \in Int /\ B \in Int
    BY <1>0, <1>1, <1>2, <1>3, <1>4
  <2>2. s + ow = B * t
    <3> DEFINE bx2 == B * x2
               by2 == B * y2
               ba2 == B * a2
               bq2 == B * q2
               ba3 == B * B * a3
               bq3 == B * B * q3
               bo == B * out
    <3>1. s = x1 - y1 + bx2 - by2 + cc
      BY <1>9, <2>1, Z3
    <3>2. ow = (a1 + ba2 + ba3) - (q1 + bq2 + bq3) - en
      BY <1>2, <1>3, <1>5
    <3>3. B * t = bx2 + ba2 - by2 - bq2 + ba3 - bq3 + bo
      <4> DEFINE bb == B * B
      <4>1. bb \in Int
        BY <2>1
      <4>2. B * (B * (a3 - q3)) = bb * (a3 - q3)
        BY <2>1, Z3
      <4>3. bb * (a3 - q3) = ba3 - bq3
        BY <2>1, <4>1, Z3
      <4>4. B * t = B * (x2 + a2 - (y2 + q2)) + B * (B * (a3 - q3)) + bo
        BY <1>9, <2>1, Z3
      <4>5. B * (x2 + a2 - (y2 + q2)) = bx2 + ba2 - by2 - bq2
        BY <2>1, Z3
      <4> DEFINE m == B * (B * (a3 - q3))
                 k == B * (x2 + a2 - (y2 + q2))
      <4>6. B * t = k + m + bo /\ k = bx2 + ba2 - by2 - bq2 /\ m = ba3 - bq3
        BY <4>2, <4>3, <4>4, <4>5
      <4>7. bx2 \in Int /\ ba2 \in Int /\ by2 \in Int /\ bq2 \in Int /\ ba3 \in Int /\ bq3 \in Int /\ bo \in Int
        BY <1>9, <2>1, <4>1
      <4> HIDE DEF m, k, bx2, ba2, by2, bq2, ba3, bq3, bo, t
      <4>8. QED
        BY <4>6, <4>7
    <3>4. bo = (x1 + a1 - en + cc) - y1 - q1
      BY <1>8
    <3>5. bx2 \in Int /\ ba2 \in Int /\ by2 \in Int /\ bq2 \in Int /\ ba3 \in Int /\ bq3 \in Int /\ bo \in Int
      <4> DEFINE bb == B * B
      <4>1. bb \in Int
        BY <2>1
      <4> HIDE DEF bb
      <4>2. bb * a3 \in Int /\ bb * q3 \in Int
        BY <2>1, <4>1
      <4>3. bx2 \in Int /\ ba2 \in Int /\ by2 \in Int /\ bq2 \in Int /\ bo \in Int
        BY <1>9, <2>1
      <4>4. QED
        BY <4>2, <4>3 DEF bb
    <3> HIDE DEF bx2, ba2, by2, bq2, ba3, bq3, bo, s, t
    <3>6. QED
      BY <1>9, <2>1, <3>1, <3>2, <3>3, <3>4, <3>5
  <2>3. Settled(d + 1, o, kk) = p * s + ow * p
    BY <1>1, <1>5
  <2>4. s \in Int /\ t \in Int /\ ow \in Int
    <3>1. s \in Int /\ t \in Int
      BY <1>9, <2>1
    <3>2. ow \in Int
      <4>1. B * t \in Int
        BY <2>1, <3>1
      <4>2. ow \in Int
        BY OwedInt DEF ow
      <4>3. QED
        BY <4>2
    <3>3. QED
      BY <3>1, <3>2
  <2>5. pp * t = B * p * t
    BY <1>5
  <2> HIDE DEF s, t
  <2>6. p * s + ow * p = p * (s + ow)
    BY <1>5, <2>4, Z3
  <2>7. p * (B * t) = B * p * t
    BY <1>5, <2>1, <2>4, Z3
  <2>8. Settled(d + 1, o, kk) = pp * t
    BY <2>2, <2>3, <2>5, <2>6, <2>7
  <2>9. QED
    BY <2>8 DEF t
<1>11. Due(w2, out) = (x2 + a2 - (y2 + q2)) + B * (a3 - q3) + out
  <2> DEFINE z1 == w2.ab[1]
             z2 == w2.ab[2]
             v1 == w2.qn[1]
             v2 == w2.qn[2]
  <2>1. Due(w2, out) = (z1 - v1) + B * (z2 - v2) + out
    BY DEF Due
  <2>2. z1 = x2 + a2 /\ z2 = a3 /\ v1 = y2 + q2 /\ v2 = q3
    BY <1>7
  <2> HIDE DEF z1, z2, v1, v2
  <2>3. x2 + a2 - (y2 + q2) = (x2 + a2) - (y2 + q2)
    BY <1>0, <1>1, <1>2, <1>3
  <2>4. QED
    BY <2>1, <2>2, <2>3
<1>12. WindowBounds(w2.ab) /\ WindowBounds(w2.qn)
  <2>1. x2 + a2 \in 0 .. l + h /\ y2 + q2 \in 0 .. l + h
    BY <1>0, <1>1, <1>2, <1>3
  <2>2. QED
    BY <1>2, <1>3, <1>7, <2>1 DEF WindowBounds, l, h
<1>13. d + 1 >= 2 * K - 1 => w2.ab[2] = 0 /\ w2.qn[2] = 0
  <2>1. d + 1 >= 2 * K - 1 => d >= 2 * K - 2
    BY <1>0
  <2>2. QED
    BY <1>2, <1>3, <1>7, <2>1
<1>14. d + 1 = 2 * K => w2.ab[1] = 0 /\ w2.qn[1] = 0 /\ out = 0
  <2>1. SUFFICES ASSUME d + 1 = 2 * K PROVE w2.ab[1] = 0 /\ w2.qn[1] = 0 /\ out = 0
    OBVIOUS
  <2>2. d = 2 * K - 1 /\ d >= 2 * K - 1
    BY <1>0, <2>1
  <2>3. x2 = 0 /\ y2 = 0 /\ a2 = 0 /\ q2 = 0 /\ out = 0
    BY <1>1, <1>2, <1>3, <2>2
  <2>4. QED
    BY <1>7, <2>3
<1>15. Settled(d + 1, o, kk) = Place[d + 1] * Due(w2, out)
  BY <1>10, <1>11 DEF pp
<1>16. ProductState(o, kk, d + 1, w2, out)
  BY <1>0, <1>8, <1>12, <1>13, <1>14, <1>15 DEF ProductState
<1>17. QED
  BY <1>16 DEF w2, x2, a2, a3, y2, q2, q3

(* A product begins with nothing settled and nothing due. *)
LEMMA ProductBegins ==
    ASSUME NEW o, ProductRows(o, ZeroLimbs)
    PROVE  ProductState(o, ZeroLimbs, 0, NoWindow, 0)
<1>0. K \in Nat /\ 2 <= K /\ B \in Nat
  BY LimbFacts
<1>1. NoWindow.ab[1] = 0 /\ NoWindow.ab[2] = 0 /\ NoWindow.qn[1] = 0 /\ NoWindow.qn[2] = 0
  BY DEF NoWindow
<1>2. Due(NoWindow, 0) = 0
  <2>1. (0 - 0) + B * (0 - 0) + 0 = 0
    BY <1>0
  <2>2. QED
    BY <1>1, <2>1 DEF Due
<1>3. Settled(0, o, ZeroLimbs) = 0
  BY TotalZero DEF Settled
<1>4. Place[0] * 0 = 0
  BY PlaceFacts
<1>5. WindowBounds(NoWindow.ab) /\ WindowBounds(NoWindow.qn)
  BY <1>1, LimitFacts DEF WindowBounds
<1>6. 0 \in 0 .. 2 * K /\ 0 # 2 * K /\ ~(0 >= 2 * K - 1) /\ 0 \in -CarryBound .. CarryBound
  BY <1>0, LimitFacts
<1>7. \A i \in At : ZeroLimbs[i] = 0
  BY DEF ZeroLimbs
<1>8. QED
  BY <1>1, <1>2, <1>3, <1>4, <1>5, <1>6, <1>7 DEF ProductState

(* With every digit settled, the product is the quotient times the order and
   the result. *)
LEMMA ProductEnds ==
    ASSUME NEW o, NEW qq, NEW w, NEW cc, ProductState(o, qq, 2 * K, w, cc)
    PROVE  ValueOf(o.a) * ValueOf(o.b) = ValueOf(qq) * N + ValueOf(o.result)
<1> DEFINE n == 2 * K
           fab == [c \in 0 .. n - 1 |-> Coef(o.a, o.b, c)]
           fqn == [c \in 0 .. n - 1 |-> Coef(qq, Order, c)]
           ab == AtPlaces(fab)
           qn == AtPlaces(fqn)
           rs == [c \in 0 .. n - 1 |-> Entry(o.result, c) * Place[c]]
           m == [c \in 0 .. n - 1 |-> ab[c] + (-1) * qn[c]]
           t == AtPlaces(Owed(o, qq))
<1>0. /\ K \in Nat /\ n \in Nat /\ n \in 0 .. n /\ K \in 0 .. n /\ B \in Nat /\ Limb = 0 .. B - 1
      /\ At = 0 .. K - 1 /\ K \in 0 .. K /\ n # n - 1 /\ n >= n - 1
  BY LimbFacts DEF At, Limb
<1>1. ProductRows(o, qq)
  BY DEF ProductState
<1>2. /\ \A i \in At : o.a[i] \in Int /\ o.b[i] \in Int /\ o.result[i] \in Nat
      /\ \A i \in At : qq[i] \in Int /\ Order[i] \in Int
  <2> DEFINE a == o.a
             b == o.b
             r == o.result
  <2>1. a \in [At -> Limb] /\ b \in [At -> Limb] /\ r \in [At -> Limb] /\ qq \in [At -> Limb]
    BY <1>1 DEF ProductRows
  <2>2. Order \in [At -> Limb] /\ \A i \in Limb : i \in Int /\ i \in Nat
    BY <1>0, OrderLimbs
  <2> HIDE DEF a, b, r
  <2>3. \A i \in At : a[i] \in Limb /\ b[i] \in Limb /\ r[i] \in Limb /\ qq[i] \in Limb /\ Order[i] \in Limb
    BY <2>1, <2>2
  <2>4. /\ \A i \in At : a[i] \in Int /\ b[i] \in Int /\ r[i] \in Nat
        /\ \A i \in At : qq[i] \in Int /\ Order[i] \in Int
    BY <2>2, <2>3
  <2>5. QED
    BY <2>4 DEF a, b, r
<1>3. Total(n, ab) = ValueOf(o.a) * ValueOf(o.b)
  BY <1>2, ProductOfValues
<1>4. Total(n, qn) = ValueOf(qq) * N
  BY <1>2, ProductOfValues, OrderLimbs
<1>5. ASSUME NEW c \in 0 .. n - 1
      PROVE  /\ ab[c] \in Int /\ qn[c] \in Int /\ rs[c] \in Int
             /\ m[c] \in Int /\ m[c] = ab[c] + (-1) * qn[c]
             /\ t[c] = m[c] + (-1) * rs[c]
  <2> DEFINE a == Coef(o.a, o.b, c)
             b == Coef(qq, Order, c)
             r == Entry(o.result, c)
             p == Place[c]
             ow == Owed(o, qq)[c]
  <2>1. ab[c] = a * p /\ qn[c] = b * p /\ rs[c] = r * p /\ m[c] = ab[c] + (-1) * qn[c]
    BY DEF AtPlaces
  <2>2. a \in Int /\ b \in Int /\ ow = a - b - r /\ t[c] = ow * p
    BY <1>1, OwedInt
  <2>3. r \in Int
    <3>1. r \in 0 .. B - 1
      BY <1>1, EntryLimb DEF ProductRows
    <3> HIDE DEF r
    <3>2. QED
      BY <1>0, <3>1
  <2>4. p \in Int
    <3>1. c \in 0 .. 2 * K
      BY <1>0
    <3>2. QED
      BY <3>1, PlaceFacts
  <2> HIDE DEF a, b, r, p, ow, ab, qn, rs, m, t, n
  <2>5. (a - b - r) * p = (a * p + (-1) * (b * p)) + (-1) * (r * p)
    BY <2>2, <2>3, <2>4, Z3
  <2>6. a * p \in Int /\ b * p \in Int /\ r * p \in Int
    BY <2>2, <2>3, <2>4
  <2>7. QED
    BY <2>1, <2>2, <2>5, <2>6
<1>6. Total(n, rs) = ValueOf(o.result)
  <2> DEFINE wr == Weighted(o.result)
  <2>1. ASSUME NEW c \in K .. n - 1 PROVE rs[c] = 0
    <3> DEFINE p == Place[c]
    <3>1. c \in 0 .. n - 1 /\ ~(c < K) /\ c \in 0 .. 2 * K
      BY <1>0
    <3>2. rs[c] = 0 * p /\ p \in Int
      BY <3>1, PlaceFacts DEF Entry
    <3> HIDE DEF p
    <3>3. QED
      BY <3>2
  <2>2. Total(n, rs) = Total(K, rs)
    <3>1. \A c \in 0 .. n - 1 : rs[c] \in Int
      BY <1>5
    <3> HIDE DEF rs, n
    <3>2. QED
      BY <1>0, <2>1, <3>1, TotalTail
  <2>3. ASSUME NEW i \in 0 .. K - 1 PROVE rs[i] = wr[i]
    <3>1. i \in At /\ i \in 0 .. n - 1 /\ i < K
      BY <1>0
    <3>2. rs[i] = o.result[i] * Place[i]
      BY <3>1 DEF Entry
    <3>3. QED
      BY <3>1, <3>2, WeightedAt
  <2> HIDE DEF rs, wr
  <2>4. \A i \in 0 .. K : Total(i, rs) = Total(i, wr)
    BY <1>0, <2>3, TotalSame
  <2>5. QED
    BY <1>0, <2>2, <2>4 DEF ValueOf, wr
<1> HIDE DEF fab, fqn, ab, qn, rs, m, t, n
<1>7. Total(n, m) = Total(n, ab) + (-1) * Total(n, qn)
  <2>1. Combines(n, -1, ab, qn, m)
    BY <1>5 DEF Combines
  <2>2. SumsCombine(n, -1, ab, qn, m)
    BY <1>0, <2>1, TotalCombine
  <2>3. QED
    BY <1>0, <2>2 DEF SumsCombine
<1>8. Total(n, t) = Total(n, m) + (-1) * Total(n, rs)
  <2>1. Combines(n, -1, m, rs, t)
    BY <1>5 DEF Combines
  <2>2. SumsCombine(n, -1, m, rs, t)
    BY <1>0, <2>1, TotalCombine
  <2>3. QED
    BY <1>0, <2>2 DEF SumsCombine
<1>9. Total(n, t) = 0
  <2>1. /\ w.ab[1] = 0 /\ w.qn[1] = 0 /\ w.ab[2] = 0 /\ w.qn[2] = 0 /\ cc = 0
        /\ Settled(2 * K, o, qq) = Place[2 * K] * Due(w, cc)
    <3>1. 2 * K >= 2 * K - 1
      BY <1>0
    <3>2. QED
      BY <3>1 DEF ProductState
  <2>2. Due(w, cc) = 0
    <3>1. (0 - 0) + B * (0 - 0) + 0 = 0
      BY <1>0
    <3>2. QED
      BY <2>1, <3>1 DEF Due
  <2>3. Place[2 * K] * 0 = 0
    <3>1. 2 * K \in 0 .. 2 * K
      BY <1>0
    <3>2. Place[2 * K] \in Int
      BY <3>1, PlaceFacts
    <3>3. QED
      BY <3>2
  <2>4. QED
    BY <2>1, <2>2, <2>3 DEF Settled, t, n
<1> DEFINE va == ValueOf(o.a) * ValueOf(o.b)
           vq == ValueOf(qq) * N
           vr == ValueOf(o.result)
<1>10. va \in Int /\ vq \in Int /\ vr \in Int
  <2> DEFINE a == ValueOf(o.a)
             b == ValueOf(o.b)
             c == ValueOf(qq)
  <2>1. a \in Int /\ b \in Int /\ c \in Int /\ vr \in Int /\ N \in Int
    BY <1>2, ValueInt, OrderFacts
  <2> HIDE DEF a, b, c
  <2>2. a * b \in Int /\ c * N \in Int
    BY <2>1
  <2>3. QED
    BY <2>1, <2>2 DEF a, b, c
<1>11. 0 = (va + (-1) * vq) + (-1) * vr
  BY <1>3, <1>4, <1>6, <1>7, <1>8, <1>9
<1> HIDE DEF va, vq, vr
<1>12. va = vq + vr
  BY <1>10, <1>11
<1>13. QED
  BY <1>12 DEF va, vq, vr
-----------------------------------------------------------------------------
(* Half scalars: their bits, gathered limb by limb, add up to them.         *)

(* A sum with one entry. *)
LEMMA TotalSingle ==
    ASSUME NEW n \in Nat, NEW t, NEW k \in 0 .. n - 1, t[k] \in Int,
           \A i \in 0 .. n - 1 : i # k => t[i] = 0
    PROVE  Total(n, t) = t[k]
<1>1. \A i \in 0 .. n - 1 : t[i] \in Int
  OBVIOUS
<1>2. Total(k, t) = Total(0, t)
  <2>1. k \in Nat /\ 0 \in 0 .. k /\ \A i \in 0 .. k - 1 : t[i] = 0 /\ t[i] \in Int
    OBVIOUS
  <2>2. QED
    BY <2>1, TotalTail
<1>3. Total(k + 1, t) = Total(k, t) + t[k]
  BY TotalStep
<1>4. Total(n, t) = Total(k + 1, t)
  <2>1. k + 1 \in 0 .. n /\ \A i \in k + 1 .. n - 1 : t[i] = 0
    OBVIOUS
  <2>2. QED
    BY <1>1, <2>1, TotalTail
<1>5. Total(0, t) = 0
  BY TotalZero
<1>6. QED
  BY <1>2, <1>3, <1>4, <1>5

(* A value at one bit, in limb i. *)
PieceAt(value, bit, i) == IF bit \div LimbBits = i THEN value * TwoTo[bit % LimbBits] ELSE 0
Piece(value, bit) == [i \in At |-> PieceAt(value, bit, i)]

Bit == 0 .. 2 * C + 1

(* What the selectors put into a limb: the lowest bit, the highest and the chunks. *)
LEMMA ContributionSplits ==
    ASSUME NEW n, NEW i
    PROVE  Contribution(n, i)
               = PieceAt(Lsb(n), 0, i) + PieceAt(Msb(n), 2 * C + 1, i)
                 + Total(C, [j \in 0 .. C - 1 |-> PieceAt(Chunk(n, j), 2 * j + 1, i)])
BY DEF Contribution, PieceAt

(* A power of two is its limb's place times what is left of it in the limb. *)
LEMMA BitPlaces ==
    \A a \in 0 .. 2 * C + 2 :
        a <= 2 * K /\ a * LimbBits <= 2 * C + 2 => TwoTo[a * LimbBits] = Place[a]
<1> DEFINE n == 2 * C + 2
           G == {a \in Nat : a <= 2 * K /\ a * LimbBits <= n => TwoTo[a * LimbBits] = Place[a]}
<1>0. /\ LimbBits \in 1 .. n /\ B = TwoTo[LimbBits] /\ B \in Nat /\ n \in Nat /\ K \in Nat
      /\ LimbBits \in Nat
  BY LimbFacts, OrderFacts
<1>1. 0 \in G
  <2>1. 0 * LimbBits = 0 /\ TwoTo[0] = 1 /\ Place[0] = 1
    BY <1>0, TwoToFacts, PlaceFacts
  <2>2. QED
    BY <2>1
<1>2. ASSUME NEW a \in 0 .. n - 1, a \in G PROVE a + 1 \in G
  <2> SUFFICES ASSUME a + 1 <= 2 * K, (a + 1) * LimbBits <= n
               PROVE  TwoTo[(a + 1) * LimbBits] = Place[a + 1]
    OBVIOUS
  <2> DEFINE al == a * LimbBits
  <2>1. al \in Nat /\ (a + 1) * LimbBits = al + LimbBits /\ a \in Nat
    BY <1>0, Z3
  <2>2. al + LimbBits <= n /\ al <= n /\ a <= 2 * K /\ a \in 0 .. 2 * K - 1
    <3> HIDE DEF al
    <3>1. QED
      BY <1>0, <2>1
  <2>3. TwoTo[al] = Place[a]
    BY <1>2, <2>1, <2>2
  <2>4. TwoTo[al + LimbBits] = TwoTo[al] * TwoTo[LimbBits]
    <3> HIDE DEF al
    <3>1. IsPowers(TwoTo, 2, n) /\ 2 \in Nat \ {0} /\ al \in Nat /\ LimbBits \in Nat
          /\ al + LimbBits <= n
      BY <1>0, <2>1, <2>2, TwoToIsPowers
    <3> HIDE DEF n, TwoTo
    <3>2. QED
      BY <1>0, <3>1, PowerOfSum
  <2>5. Place[a + 1] = B * Place[a] /\ Place[a] \in Int
    <3>1. a \in 0 .. 2 * K
      BY <2>2
    <3>2. QED
      BY <2>2, <3>1, PlaceFacts
  <2> DEFINE p == Place[a]
  <2>6. TwoTo[al + LimbBits] = p * B /\ Place[a + 1] = B * p /\ p \in Int
    BY <1>0, <2>3, <2>4, <2>5
  <2> HIDE DEF p, al
  <2>7. p * B = B * p
    BY <1>0, <2>6
  <2>8. QED
    BY <2>1, <2>6, <2>7
<1> HIDE DEF G
<1>3. \A a \in 0 .. n : a \in G
  BY <1>0, <1>1, <1>2, Climb
<1>4. QED
  BY <1>3 DEF G

(* A bit counts in the limb it falls into, by its place in there. *)
LEMMA BitInLimb ==
    ASSUME NEW bit \in Bit
    PROVE  /\ bit \div LimbBits \in SmallAt /\ bit \div LimbBits \in At
           /\ bit % LimbBits \in 0 .. LimbBits - 1 /\ bit % LimbBits \in 0 .. 2 * C + 2
           /\ TwoTo[bit] = Place[bit \div LimbBits] * TwoTo[bit % LimbBits]
<1> DEFINE n == 2 * C + 2
           a == bit \div LimbBits
           e == bit % LimbBits
           al == a * LimbBits
<1>0. /\ LimbBits \in 1 .. n /\ LimbBits \in Nat \ {0} /\ B \in Nat /\ n \in Nat /\ K \in Nat
      /\ KS \in 1 .. K - 1 /\ bit \in Nat /\ bit <= n /\ bit + 1 <= n
  BY LimbFacts, OrderFacts DEF Bit
<1>1. a \in Int /\ e \in Int /\ bit = LimbBits * a + e /\ 0 <= e /\ e < LimbBits
  BY <1>0, Division
<1> HIDE DEF a, e
<1>2. a \in Nat
  <2>1. (-1) * LimbBits < a * LimbBits
    <3> DEFINE m == LimbBits * a
    <3>1. m \in Int /\ bit = m + e
      BY <1>0, <1>1
    <3> HIDE DEF m
    <3>2. -LimbBits < m
      BY <1>0, <1>1, <3>1
    <3>3. m = a * LimbBits /\ (-1) * LimbBits = -LimbBits
      BY <1>0, <1>1 DEF m
    <3>4. QED
      BY <3>2, <3>3
  <2>2. -1 < a
    BY <1>0, <1>1, <2>1, ProductStrict
  <2>3. QED
    BY <1>1, <2>2
<1>3. al \in Nat /\ bit = al + e /\ al <= n /\ al + e <= n /\ a <= al
  <2>1. al \in Nat /\ LimbBits * a = al
    BY <1>0, <1>2, Z3
  <2>2. LimbBits * a >= a
    BY <1>0, <1>2, ProductAtLeast
  <2> HIDE DEF al
  <2>3. QED
    BY <1>0, <1>1, <1>2, <2>1, <2>2
<1>4. IsPowers(TwoTo, 2, n) /\ 2 \in Nat \ {0}
  BY TwoToIsPowers
<1>5. TwoTo[bit] = TwoTo[al] * TwoTo[e]
  <2> HIDE DEF al, n, TwoTo
  <2>1. e \in Nat
    BY <1>1
  <2>2. TwoTo[al + e] = TwoTo[al] * TwoTo[e]
    BY <1>0, <1>3, <1>4, <2>1, PowerOfSum
  <2>3. QED
    BY <1>3, <2>2
<1>6. e \in 0 .. 2 * C + 2
  BY <1>0, <1>1
<1>7. a < KS
  <2>1. SUFFICES ASSUME KS <= a PROVE FALSE
    BY <1>0, <1>2
  <2> DEFINE kl == KS * LimbBits
             rest == bit - kl
  <2>2. kl <= al /\ kl \in Nat
    BY <1>0, <1>2, <2>1, ProductMonotone, Z3
  <2>3. rest \in Nat /\ kl + rest = bit /\ kl <= n /\ KS <= n /\ KS \in 0 .. 2 * C + 2
    <3>1. LimbBits * KS >= KS /\ LimbBits * KS = kl
      BY <1>0, ProductAtLeast
    <3> HIDE DEF kl, al
    <3>2. QED
      BY <1>0, <1>1, <1>2, <1>3, <2>1, <2>2, <3>1
  <2>4. TwoTo[kl] = Place[KS]
    BY <1>0, <2>3, BitPlaces
  <2>5. TwoTo[bit] = TwoTo[kl] * TwoTo[rest]
    <3> HIDE DEF kl, rest, n, TwoTo
    <3>1. TwoTo[kl + rest] = TwoTo[kl] * TwoTo[rest]
      BY <1>0, <1>4, <2>2, <2>3, PowerOfSum
    <3>2. QED
      BY <2>3, <3>1
  <2>6. TwoTo[n] = TwoTo[bit] * TwoTo[n - bit]
    <3> HIDE DEF n, TwoTo
    <3>1. n - bit \in Nat /\ bit + (n - bit) = n /\ bit + (n - bit) <= n
      BY <1>0
    <3>2. TwoTo[bit + (n - bit)] = TwoTo[bit] * TwoTo[n - bit]
      BY <1>0, <1>4, <3>1, PowerOfSum
    <3>3. QED
      BY <3>1, <3>2
  <2>7. TwoTo[n - bit] = 2 * TwoTo[n - bit - 1]
    <3>1. n - bit - 1 \in 0 .. 2 * C + 1 /\ (n - bit - 1) + 1 = n - bit
      BY <1>0, OrderFacts
    <3>2. QED
      BY <3>1, TwoToFacts
  <2> DEFINE tb == TwoTo[bit]
             tk == TwoTo[kl]
             tr == TwoTo[rest]
             tn == TwoTo[n - bit - 1]
             th == TwoTo[n]
  <2>8. tb \in Nat \ {0} /\ tk \in Nat \ {0} /\ tr \in Nat \ {0} /\ tn \in Nat \ {0} /\ th \in Nat \ {0}
    <3>1. bit \in 0 .. 2 * C + 2 /\ kl \in 0 .. 2 * C + 2 /\ rest \in 0 .. 2 * C + 2
          /\ n - bit - 1 \in 0 .. 2 * C + 2 /\ n \in 0 .. 2 * C + 2
      <4> HIDE DEF kl, rest
      <4>1. QED
        BY <1>0, <2>2, <2>3
    <3>2. QED
      BY <3>1, TwoToFacts
  <2>9. th <= tk
    <3>1. HalfBound <= Place[KS]
      <4> HIDE DEF HalfBound, Place, TwoTo
      <4>1. QED
        BY LimbAssumption
    <3>2. QED
      BY <2>4, <3>1 DEF HalfBound
  <2>10. tb = tk * tr /\ th = tb * (2 * tn)
    BY <2>5, <2>6, <2>7
  <2> HIDE DEF tb, tk, tr, tn, th, kl, rest, n
  <2>11. tr * tk >= tk /\ tr * tk = tk * tr
    BY <2>8, ProductAtLeast
  <2>12. (2 * tn - 1) * tb >= tb
    <3> DEFINE m == 2 * tn - 1
    <3>1. m \in Nat /\ 1 <= m
      BY <2>8
    <3> HIDE DEF m
    <3>2. m * tb >= tb
      BY <2>8, <3>1, ProductAtLeast
    <3>3. QED
      BY <3>2 DEF m
  <2>13. (2 * tn - 1) * tb = tb * (2 * tn) - tb
    BY <2>8, Z3
  <2>14. tk <= tb /\ tb + tb <= th
    <3>1. tb * (2 * tn) \in Int /\ (2 * tn - 1) * tb \in Int
      BY <2>8
    <3>2. QED
      BY <2>8, <2>10, <2>11, <2>12, <2>13, <3>1
  <2>15. QED
    BY <2>8, <2>9, <2>14
<1>8. a \in SmallAt /\ a \in At /\ a <= 2 * K /\ a \in 0 .. 2 * C + 2
  <2>1. a \in 0 .. KS - 1 /\ a \in 0 .. K - 1 /\ a <= 2 * K
    BY <1>0, <1>2, <1>7
  <2>2. a \in 0 .. n
    <3> HIDE DEF al, n
    <3>1. QED
      BY <1>0, <1>2, <1>3
  <2>3. QED
    BY <2>1, <2>2 DEF SmallAt, At
<1>9. TwoTo[al] = Place[a]
  BY <1>3, <1>8, BitPlaces
<1>10. TwoTo[bit] = Place[a] * TwoTo[e]
  BY <1>5, <1>9
<1>11. e \in 0 .. LimbBits - 1
  BY <1>0, <1>1
<1>12. QED
  BY <1>6, <1>8, <1>10, <1>11 DEF a, e

(* A value at a bit is worth the value times the bit, in its limb only, and
   never more than the base times the value there. *)
LEMMA PieceFacts ==
    ASSUME NEW v \in Nat, NEW bit \in Bit
    PROVE  /\ \A i \in At : PieceAt(v, bit, i) \in 0 .. v * B
           /\ \A i \in At : i \notin SmallAt => PieceAt(v, bit, i) = 0
           /\ ValueOf(Piece(v, bit)) = v * TwoTo[bit]
<1> DEFINE a == bit \div LimbBits
           e == bit % LimbBits
           te == TwoTo[e]
           pa == Place[a]
           t == Weighted(Piece(v, bit))
<1>0. K \in Nat /\ B \in Nat /\ 2 <= B /\ At = 0 .. K - 1
  BY LimbFacts DEF At
<1>1. a \in SmallAt /\ a \in At /\ e \in 0 .. LimbBits - 1 /\ e \in 0 .. 2 * C + 2
      /\ TwoTo[bit] = pa * te
  BY BitInLimb
<1>2. te \in Nat \ {0} /\ pa \in Nat \ {0}
  <2>1. a \in 0 .. 2 * K
    <3> HIDE DEF a
    <3>1. QED
      BY <1>1, Indexes
  <2>2. QED
    BY <1>1, <2>1, TwoToFacts, PlaceFacts
<1>3. te <= B
  <2> DEFINE d == LimbBits - e
  <2>1. e \in Nat /\ d \in Nat /\ e + d = LimbBits /\ e + d <= 2 * C + 2 /\ d \in 0 .. 2 * C + 2
    <3> HIDE DEF e
    <3>1. QED
      BY <1>1, LimbFacts, OrderFacts
  <2>2. TwoTo[e + d] = TwoTo[e] * TwoTo[d]
    <3> HIDE DEF e, d, TwoTo
    <3>1. IsPowers(TwoTo, 2, 2 * C + 2) /\ 2 \in Nat \ {0} /\ 2 * C + 2 \in Nat
      BY TwoToIsPowers, OrderFacts
    <3>2. QED
      BY <2>1, <3>1, PowerOfSum
  <2> DEFINE td == TwoTo[d]
  <2>3. B = te * td /\ td \in Nat \ {0}
    BY <2>1, <2>2, TwoToFacts, LimbFacts
  <2> HIDE DEF td, te
  <2>4. td * te >= te /\ td * te = te * td
    BY <1>2, <2>3, ProductAtLeast
  <2>5. QED
    BY <1>0, <1>2, <2>3, <2>4
<1>4. \A i \in At : PieceAt(v, bit, i) = IF a = i THEN v * te ELSE 0
  BY DEF PieceAt
<1>5. v * te \in 0 .. v * B /\ v * B \in Nat
  <2> HIDE DEF te
  <2>1. v * te \in Nat /\ v * B \in Nat /\ te * v <= B * v /\ te * v = v * te /\ B * v = v * B
    BY <1>0, <1>2, <1>3, ProductMonotone, Z3
  <2> DEFINE x == v * te
             y == v * B
  <2>2. x \in Nat /\ y \in Nat /\ x <= y
    BY <2>1
  <2> HIDE DEF x, y
  <2>3. x \in 0 .. y
    BY <2>2
  <2>4. QED
    BY <2>2, <2>3 DEF x, y
<1>6. \A i \in At : PieceAt(v, bit, i) \in 0 .. v * B
  BY <1>4, <1>5
<1>7. \A i \in At : i \notin SmallAt => PieceAt(v, bit, i) = 0
  BY <1>1, <1>4
<1>8. ASSUME NEW i \in 0 .. K - 1 PROVE t[i] = (IF a = i THEN v * te ELSE 0) * Place[i]
  <2>1. i \in At
    BY <1>0
  <2>2. Piece(v, bit)[i] = IF a = i THEN v * te ELSE 0
    BY <1>4, <2>1 DEF Piece
  <2>3. t[i] = Piece(v, bit)[i] * Place[i]
    BY <2>1, WeightedAt
  <2>4. QED
    BY <2>2, <2>3
<1> HIDE DEF a, te, t
<1>9. t[a] = (v * te) * pa /\ a \in 0 .. K - 1
  BY <1>0, <1>1, <1>8
<1>10. ASSUME NEW i \in 0 .. K - 1, i # a PROVE t[i] = 0
  <2> DEFINE p == Place[i]
  <2>1. t[i] = 0 * p
    BY <1>8, <1>10
  <2>2. p \in Int
    BY <1>0, Indexes, PlaceFacts
  <2> HIDE DEF p
  <2>3. QED
    BY <2>1, <2>2
<1> HIDE DEF pa
<1>11. (v * te) * pa = v * (pa * te) /\ (v * te) * pa \in Int
  BY <1>2, Z3
<1>12. Total(K, t) = t[a]
  BY <1>0, <1>9, <1>10, <1>11, TotalSingle
<1>13. ValueOf(Piece(v, bit)) = v * TwoTo[bit]
  BY <1>1, <1>9, <1>11, <1>12 DEF ValueOf, t
<1>14. QED
  BY <1>6, <1>7, <1>13

(* A half scalar is its lowest bit, its chunks and its highest bit. *)
ChunkWeights(n) == [j \in 0 .. C - 1 |-> Chunk(n, j) * TwoTo[2 * j + 1]]

(* The chunks' bits lie within the half scalar. *)
LEMMA ChunkBits == \A j \in 0 .. C - 1 : 2 * j + 1 \in Bit /\ 2 * j + 1 \in 0 .. 2 * C + 2
BY OrderFacts DEF Bit

(* A half scalar is the sum of its lowest bit, its highest and its chunks, each at
   its place. *)
LEMMA SelectorBits ==
    ASSUME NEW n \in 0 .. HalfBound - 1
    PROVE  /\ Lsb(n) \in 0 .. 1 /\ Msb(n) \in 0 .. 1
           /\ \A j \in 0 .. C - 1 : Chunk(n, j) \in 0 .. 3
           /\ n = Lsb(n) + Msb(n) * TwoTo[2 * C + 1] + Total(C, ChunkWeights(n))
<1> DEFINE cw == ChunkWeights(n)
           G == {j \in 0 .. C : n = Lsb(n) + Total(j, cw) + TwoTo[2 * j + 1] * (n \div TwoTo[2 * j + 1])}
<1>0. C \in Nat /\ n \in Nat /\ HalfBound \in Nat /\ 0 \in 0 .. C /\ C \in 0 .. C
  BY OrderFacts
<1>1. Lsb(n) \in 0 .. 1 /\ n = Lsb(n) + 2 * (n \div 2) /\ n \div 2 \in Int
  BY <1>0, Division DEF Lsb
<1>2. TwoTo[1] = 2 /\ TwoTo[0] = 1
  <2>1. TwoTo[0 + 1] = 2 * TwoTo[0]
    BY <1>0, TwoToFacts
  <2>2. QED
    BY <2>1, TwoToFacts
<1>3. ASSUME NEW j \in 0 .. C - 1
      PROVE  /\ Chunk(n, j) \in 0 .. 3 /\ TwoTo[2 * j + 1] \in Nat \ {0}
             /\ cw[j] = Chunk(n, j) * TwoTo[2 * j + 1] /\ cw[j] \in Int
             /\ n \div TwoTo[2 * j + 1] \in Nat /\ n \div TwoTo[2 * (j + 1) + 1] \in Int
             /\ TwoTo[2 * (j + 1) + 1] = 4 * TwoTo[2 * j + 1]
             /\ n \div TwoTo[2 * j + 1] = 4 * (n \div TwoTo[2 * (j + 1) + 1]) + Chunk(n, j)
  <2> DEFINE p == TwoTo[2 * j + 1]
             b == 2 * j + 1
  <2>1. b \in 0 .. 2 * C + 2 /\ b \in 0 .. 2 * C + 1 /\ b + 1 \in 0 .. 2 * C + 1
        /\ (b + 1) + 1 = 2 * (j + 1) + 1 /\ (b + 1) + 1 \in 0 .. 2 * C + 2
    BY <1>0
  <2>2. p \in Nat \ {0} /\ TwoTo[b + 1] = 2 * p /\ TwoTo[(b + 1) + 1] = 2 * TwoTo[b + 1]
    <3> HIDE DEF b
    <3>1. TwoTo[b + 1] = 2 * TwoTo[b] /\ TwoTo[(b + 1) + 1] = 2 * TwoTo[b + 1] /\ TwoTo[b] \in Nat \ {0}
      BY <2>1, TwoToFacts
    <3>2. QED
      BY <3>1 DEF b
  <2>3. Chunk(n, j) = (n \div p) % 4
    BY DEF Chunk
  <2>4. cw[j] = Chunk(n, j) * p
    BY DEF ChunkWeights
  <2> HIDE DEF p, cw
  <2>5. TwoTo[2 * (j + 1) + 1] = 4 * p
    BY <2>1, <2>2
  <2>6. /\ n \div p \in Nat /\ (n \div p) % 4 \in 0 .. 4 - 1
        /\ n \div p = 4 * (n \div (4 * p)) + ((n \div p) % 4)
    <3>1. 4 \in Nat \ {0}
      OBVIOUS
    <3>2. QED
      BY <1>0, <2>2, <3>1, DivideTwice
  <2>7. Chunk(n, j) \in 0 .. 3
    BY <2>3, <2>6
  <2>8. cw[j] \in Int
    BY <2>2, <2>4, <2>7
  <2>9. n \div (4 * p) \in Int
    <3> DEFINE fp == 4 * p
    <3>1. fp \in Nat \ {0}
      BY <2>2
    <3> HIDE DEF fp
    <3>2. n \div fp \in Int
      BY <1>0, <3>1, Division
    <3>3. QED
      BY <3>2 DEF fp
  <2>10. QED
    BY <2>2, <2>3, <2>4, <2>5, <2>6, <2>7, <2>8, <2>9 DEF p
<1> HIDE DEF cw
<1>4. \A j \in 0 .. C : Total(j, cw) \in Int
  BY <1>0, <1>3, TotalInt
<1>5. 0 \in G
  <2>1. 2 * 0 + 1 = 1 /\ Total(0, cw) = 0
    BY TotalZero
  <2>2. n = Lsb(n) + 0 + 2 * (n \div 2)
    BY <1>1
  <2>3. QED
    BY <1>0, <1>2, <2>1, <2>2
<1>6. ASSUME NEW j \in 0 .. C - 1, j \in G PROVE j + 1 \in G
  <2> DEFINE p == TwoTo[2 * j + 1]
             d == n \div p
             pp == TwoTo[2 * (j + 1) + 1]
             f == n \div pp
             ch == Chunk(n, j)
             T == Total(j, cw)
             lo == Lsb(n)
  <2>1. ch \in 0 .. 3 /\ p \in Nat \ {0} /\ cw[j] = ch * p /\ d \in Nat /\ f \in Int /\ pp = 4 * p
        /\ d = 4 * f + ch
    BY <1>3
  <2>2. T \in Int /\ lo \in 0 .. 1 /\ n = lo + T + p * d /\ Total(j + 1, cw) = T + cw[j]
    BY <1>1, <1>4, <1>6, TotalStep
  <2> HIDE DEF p, d, pp, f, ch, T, lo
  <2>3. p * d = ch * p + (4 * p) * f /\ ch * p \in Int /\ (4 * p) * f \in Int /\ p * d \in Int
    BY <2>1, Z3
  <2> DEFINE x == p * d
             y == ch * p
             z == (4 * p) * f
  <2>4. x = y + z /\ y \in Int /\ z \in Int /\ n = lo + T + x /\ Total(j + 1, cw) = T + y /\ pp * f = z
    BY <2>1, <2>2, <2>3
  <2> HIDE DEF x, y, z
  <2>5. n = lo + Total(j + 1, cw) + pp * f
    BY <2>2, <2>4
  <2>6. j + 1 \in 0 .. C
    BY <1>0
  <2>7. QED
    BY <2>5, <2>6 DEF lo, pp, f
<1> HIDE DEF G
<1>7. \A j \in 0 .. C : j \in G
  BY <1>0, <1>5, <1>6, Climb
<1>8. n = Lsb(n) + Total(C, cw) + TwoTo[2 * C + 1] * Msb(n)
  BY <1>0, <1>7 DEF G, Msb
<1>9. Msb(n) \in 0 .. 1
  <2> DEFINE p == TwoTo[2 * C + 1]
             d == n \div p
             e == n % p
  <2>1. p \in Nat \ {0} /\ HalfBound = 2 * p
    <3>1. 2 * C + 1 \in 0 .. 2 * C + 1 /\ 2 * C + 1 \in 0 .. 2 * C + 2 /\ (2 * C + 1) + 1 = 2 * C + 2
      BY <1>0
    <3>2. QED
      BY <3>1, TwoToFacts DEF HalfBound
  <2>2. d \in Int /\ e \in Int /\ n = p * d + e /\ 0 <= e /\ e < p
    <3> HIDE DEF p
    <3>1. QED
      BY <1>0, <2>1, Division
  <2>3. Msb(n) = d /\ n < HalfBound
    BY <1>0 DEF Msb
  <2> HIDE DEF p, d, e
  <2>4. -1 < d /\ d < 2
    <3> DEFINE x == p * d
    <3>1. x \in Int /\ n = x + e /\ x = d * p
      BY <2>1, <2>2
    <3> HIDE DEF x
    <3>2. -p < x /\ x < 2 * p
      BY <1>0, <2>1, <2>2, <2>3, <3>1
    <3>3. (-1) * p = -p
      BY <2>1
    <3>4. (-1) * p < d * p /\ d * p < 2 * p
      BY <3>1, <3>2, <3>3
    <3>5. QED
      BY <2>1, <2>2, <3>4, ProductStrict
  <2>5. QED
    BY <2>2, <2>3, <2>4
<1>10. \A j \in 0 .. C - 1 : Chunk(n, j) \in 0 .. 3
  BY <1>3
<1> DEFINE p == TwoTo[2 * C + 1]
           T == Total(C, cw)
           lo == Lsb(n)
           hi == Msb(n)
<1>11. p \in Int /\ T \in Int /\ lo \in Int /\ hi \in Int /\ n = lo + T + p * hi
  <2>1. 2 * C + 1 \in 0 .. 2 * C + 2
    BY <1>0
  <2>2. p \in Int
    BY <2>1, TwoToFacts
  <2> HIDE DEF p
  <2>3. QED
    BY <1>0, <1>1, <1>4, <1>8, <1>9, <2>2 DEF p
<1> HIDE DEF p, T, lo, hi
<1>12. n = lo + hi * p + T
  BY <1>11
<1>13. QED
  BY <1>1, <1>9, <1>10, <1>12 DEF p, T, lo, hi, cw

(* The limbs gather the bits. *)
PiecesTo(n, m) == [i \in At |-> Total(m, [j \in 0 .. C - 1 |-> PieceAt(Chunk(n, j), 2 * j + 1, i)])]
Gathered(n) == [i \in At |-> Contribution(n, i)]

(* The chunks a limb gathers are few enough for the field, and none falls outside
   of the half scalar's limbs. *)
LEMMA PiecesBound ==
    ASSUME NEW n \in 0 .. HalfBound - 1, NEW i \in At
    PROVE  \A m \in 0 .. C :
               LET t == [j \in 0 .. C - 1 |-> PieceAt(Chunk(n, j), 2 * j + 1, i)]
               IN  /\ Total(m, t) \in 0 .. m * (3 * B)
                   /\ i \notin SmallAt => Total(m, t) = 0
<1> DEFINE t == [j \in 0 .. C - 1 |-> PieceAt(Chunk(n, j), 2 * j + 1, i)]
           G == {m \in 0 .. C : Total(m, t) \in 0 .. m * (3 * B) /\ (i \notin SmallAt => Total(m, t) = 0)}
<1>0. B \in Nat /\ C \in Nat /\ 0 \in 0 .. C
  BY LimbFacts, OrderFacts
<1>1. 0 \in G
  BY <1>0, TotalZero
<1>2. ASSUME NEW m \in 0 .. C - 1, m \in G PROVE m + 1 \in G
  <2> DEFINE x == PieceAt(Chunk(n, m), 2 * m + 1, i)
             T == Total(m, t)
             ch == Chunk(n, m)
  <2>1. ch \in 0 .. 3 /\ 2 * m + 1 \in Bit
    BY SelectorBits, ChunkBits
  <2>2. x \in 0 .. ch * B /\ (i \notin SmallAt => x = 0)
    <3> HIDE DEF ch
    <3>1. ch \in Nat
      BY <2>1
    <3>2. QED
      BY <2>1, <3>1, PieceFacts DEF ch
  <2>3. Total(m + 1, t) = T + t[m] /\ t[m] = x
    <3>1. t[m] = x
      OBVIOUS
    <3> HIDE DEF t, x
    <3>2. m \in Nat
      OBVIOUS
    <3>3. QED
      BY <3>1, <3>2, TotalStep
  <2>4. T \in 0 .. m * (3 * B) /\ (i \notin SmallAt => T = 0)
    BY <1>2
  <2> HIDE DEF x, T, ch, t
  <2>5. ch * B \in Nat /\ ch * B <= 3 * B
    BY <1>0, <2>1, ProductMonotone, Z3
  <2>6. m * (3 * B) \in Nat /\ (m + 1) * (3 * B) = m * (3 * B) + 3 * B
    BY <1>0, Z3
  <2> DEFINE y == ch * B
             z == m * (3 * B)
  <2>7. y \in Nat /\ y <= 3 * B /\ z \in Nat /\ (m + 1) * (3 * B) = z + 3 * B /\ x \in 0 .. y /\ T \in 0 .. z
    BY <2>2, <2>4, <2>5, <2>6
  <2> HIDE DEF y, z
  <2>8. T + x \in 0 .. z + 3 * B
    BY <1>0, <2>7
  <2>9. i \notin SmallAt => T + x = 0
    BY <2>2, <2>4
  <2>10. m + 1 \in 0 .. C
    BY <1>0
  <2>11. QED
    BY <2>3, <2>7, <2>8, <2>9, <2>10
<1> HIDE DEF G
<1>3. \A m \in 0 .. C : m \in G
  BY <1>0, <1>1, <1>2, Climb
<1>4. QED
  BY <1>3 DEF G

(* What all limbs gather from the chunks is worth the chunks. *)
LEMMA PiecesValue ==
    ASSUME NEW n \in 0 .. HalfBound - 1
    PROVE  ValueOf(PiecesTo(n, C)) = Total(C, ChunkWeights(n))
<1> DEFINE cw == ChunkWeights(n)
           G == {m \in 0 .. C : ValueOf(PiecesTo(n, m)) = Total(m, cw)}
<1>0. C \in Nat /\ 0 \in 0 .. C /\ C \in 0 .. C /\ B \in Nat
  BY OrderFacts, LimbFacts
<1>1. 0 \in G
  <2>1. \A i \in At : PiecesTo(n, 0)[i] = ZeroLimbs[i]
    BY TotalZero DEF PiecesTo, ZeroLimbs
  <2>2. ValueOf(PiecesTo(n, 0)) = ValueOf(ZeroLimbs)
    BY <2>1, ValueSame
  <2>3. QED
    BY <1>0, <2>2, ZeroRowValue, TotalZero
<1>2. ASSUME NEW m \in 0 .. C - 1, m \in G PROVE m + 1 \in G
  <2> DEFINE x == PiecesTo(n, m)
             y == Piece(Chunk(n, m), 2 * m + 1)
             r == PiecesTo(n, m + 1)
             ch == Chunk(n, m)
  <2>1. ch \in Nat /\ 2 * m + 1 \in Bit /\ m \in 0 .. C /\ m + 1 \in 0 .. C
    BY <1>0, SelectorBits, ChunkBits
  <2>2. ASSUME NEW i \in At PROVE x[i] \in Int /\ y[i] \in Int /\ r[i] = x[i] + 1 * y[i]
    <3> DEFINE t == [j \in 0 .. C - 1 |-> PieceAt(Chunk(n, j), 2 * j + 1, i)]
               T == Total(m, t)
               w == t[m]
    <3>1. x[i] = T /\ r[i] = Total(m + 1, t)
      BY DEF PiecesTo
    <3>2. Total(m + 1, t) = T + w
      <4> HIDE DEF t
      <4>1. m \in Nat
        OBVIOUS
      <4>2. QED
        BY <4>1, TotalStep
    <3>3. y[i] = w
      BY DEF Piece
    <3>4. T \in Int
      <4>1. T \in 0 .. m * (3 * B)
        BY <2>1, PiecesBound
      <4>2. m * (3 * B) \in Int
        BY <1>0
      <4> HIDE DEF T
      <4>3. QED
        BY <4>1, <4>2
    <3>5. w \in Int
      <4>1. PieceAt(ch, 2 * m + 1, i) \in 0 .. ch * B
        <5> HIDE DEF ch
        <5>1. QED
          BY <2>1, PieceFacts
      <4>2. ch * B \in Int
        BY <1>0, <2>1
      <4>3. w = PieceAt(ch, 2 * m + 1, i)
        OBVIOUS
      <4> HIDE DEF w, ch
      <4>4. QED
        BY <4>1, <4>2, <4>3
    <3> HIDE DEF x, y, r, T, w, t
    <3>6. QED
      BY <3>1, <3>2, <3>3, <3>4, <3>5
  <2>3. ValueOf(y) = ch * TwoTo[2 * m + 1]
    <3> HIDE DEF ch
    <3>1. ValueOf(Piece(ch, 2 * m + 1)) = ch * TwoTo[2 * m + 1]
      BY <2>1, PieceFacts
    <3>2. QED
      BY <3>1 DEF ch
  <2>4. cw[m] = ch * TwoTo[2 * m + 1]
    BY DEF ChunkWeights
  <2> HIDE DEF x, y, r, cw
  <2>5. ValueOf(r) = ValueOf(x) + 1 * ValueOf(y)
    <3>1. LimbsCombine(1, x, y, r)
      BY <2>2 DEF LimbsCombine
    <3>2. QED
      BY <3>1, ValueCombine
  <2>6. ValueOf(y) \in Int
    BY <2>2, ValueInt
  <2>7. Total(m + 1, cw) = Total(m, cw) + cw[m]
    BY TotalStep
  <2>8. ValueOf(x) = Total(m, cw)
    BY <1>2 DEF x
  <2>9. ValueOf(r) = Total(m + 1, cw)
    BY <2>3, <2>4, <2>5, <2>6, <2>7, <2>8
  <2>10. QED
    BY <2>1, <2>9 DEF r
<1> HIDE DEF G
<1>3. \A m \in 0 .. C : m \in G
  BY <1>0, <1>1, <1>2, Climb
<1>4. QED
  BY <1>0, <1>3 DEF G

(* What all limbs gather is worth the half scalar. *)
LEMMA GatheredFacts ==
    ASSUME NEW n \in 0 .. HalfBound - 1
    PROVE  /\ \A i \in At : Gathered(n)[i] \in 0 .. 3 * B * (C + 1)
           /\ \A i \in At : Gathered(n)[i] = Contribution(n, i)
           /\ \A i \in At : i \notin SmallAt => Gathered(n)[i] = 0
           /\ ValueOf(Gathered(n)) = n
<1> DEFINE lo == Lsb(n)
           hi == Msb(n)
           g == Gathered(n)
           y0 == Piece(lo, 0)
           y1 == Piece(hi, 2 * C + 1)
           x == PiecesTo(n, C)
           s == [i \in At |-> y0[i] + 1 * y1[i]]
           r == [i \in At |-> s[i] + 1 * x[i]]
<1>0. /\ B \in Nat /\ C \in Nat /\ C \in 0 .. C /\ 2 <= B /\ lo \in 0 .. 1 /\ hi \in 0 .. 1
      /\ 0 \in Bit /\ 2 * C + 1 \in Bit
  BY LimbFacts, OrderFacts, SelectorBits DEF Bit
<1>1. ASSUME NEW i \in At
      PROVE  /\ y0[i] \in 0 .. B /\ y1[i] \in 0 .. B /\ x[i] \in 0 .. C * (3 * B)
             /\ i \notin SmallAt => y0[i] = 0 /\ y1[i] = 0 /\ x[i] = 0
             /\ g[i] = y0[i] + y1[i] + x[i]
  <2>1. PieceAt(lo, 0, i) \in 0 .. lo * B /\ (i \notin SmallAt => PieceAt(lo, 0, i) = 0)
    <3> HIDE DEF lo
    <3>1. lo \in Nat
      BY <1>0
    <3>2. QED
      BY <1>0, <3>1, PieceFacts
  <2>2. PieceAt(hi, 2 * C + 1, i) \in 0 .. hi * B /\ (i \notin SmallAt => PieceAt(hi, 2 * C + 1, i) = 0)
    <3> HIDE DEF hi
    <3>1. hi \in Nat
      BY <1>0
    <3>2. QED
      BY <1>0, <3>1, PieceFacts
  <2>3. x[i] \in 0 .. C * (3 * B) /\ (i \notin SmallAt => x[i] = 0)
    BY <1>0, PiecesBound DEF PiecesTo
  <2>4. y0[i] = PieceAt(lo, 0, i) /\ y1[i] = PieceAt(hi, 2 * C + 1, i)
    BY DEF Piece
  <2>5. g[i] = PieceAt(lo, 0, i) + PieceAt(hi, 2 * C + 1, i) + x[i]
    <3>1. g[i] = Contribution(n, i)
      BY DEF Gathered
    <3>2. x[i] = Total(C, [j \in 0 .. C - 1 |-> PieceAt(Chunk(n, j), 2 * j + 1, i)])
      BY DEF PiecesTo
    <3> HIDE DEF g, x
    <3>3. QED
      BY <3>1, <3>2, ContributionSplits
  <2>6. lo * B <= B /\ hi * B <= B /\ lo * B \in Int /\ hi * B \in Int
    <3> HIDE DEF lo, hi
    <3>1. (lo = 0 \/ lo = 1) /\ (hi = 0 \/ hi = 1)
      BY <1>0
    <3>2. QED
      BY <1>0, <3>1
  <2> DEFINE p0 == PieceAt(lo, 0, i)
             p1 == PieceAt(hi, 2 * C + 1, i)
             lb == lo * B
             hb == hi * B
  <2>7. p0 \in 0 .. lb /\ p1 \in 0 .. hb /\ lb <= B /\ hb <= B /\ lb \in Int /\ hb \in Int
    BY <2>1, <2>2, <2>6
  <2> HIDE DEF p0, p1, lb, hb
  <2>8. p0 \in 0 .. B /\ p1 \in 0 .. B
    BY <1>0, <2>7
  <2>9. QED
    BY <2>1, <2>2, <2>3, <2>4, <2>5, <2>8 DEF p0, p1
<1>2. \A i \in At : g[i] = Contribution(n, i)
  BY DEF Gathered
<1>3. ValueOf(y0) = lo /\ ValueOf(y1) = hi * TwoTo[2 * C + 1]
  <2>1. lo \in Nat /\ hi \in Nat /\ TwoTo[0] = 1
    BY <1>0, TwoToFacts
  <2> HIDE DEF lo, hi
  <2>2. ValueOf(Piece(lo, 0)) = lo * TwoTo[0] /\ ValueOf(Piece(hi, 2 * C + 1)) = hi * TwoTo[2 * C + 1]
    BY <1>0, <2>1, PieceFacts
  <2>3. lo * 1 = lo
    BY <2>1
  <2>4. QED
    BY <2>1, <2>2, <2>3
<1>4. ValueOf(x) = Total(C, ChunkWeights(n))
  BY PiecesValue
<1> DEFINE th == 3 * B
<1>5. C * th \in Nat /\ th \in Nat /\ 3 * B * (C + 1) = C * th + th
  <2>1. th \in Nat
    BY <1>0
  <2> HIDE DEF th
  <2>2. C * th \in Nat /\ th * (C + 1) = C * th + th
    BY <1>0, <2>1, Z3
  <2>3. QED
    BY <2>1, <2>2 DEF th
<1> HIDE DEF lo, hi, g, y0, y1, x
<1>6. ASSUME NEW i \in At
      PROVE  g[i] \in 0 .. 3 * B * (C + 1) /\ (i \notin SmallAt => g[i] = 0)
  <2> DEFINE a == y0[i]
             b == y1[i]
             c == x[i]
             m == C * th
  <2>1. a \in 0 .. B /\ b \in 0 .. B /\ c \in 0 .. m /\ g[i] = a + b + c /\ m \in Nat
        /\ 3 * B * (C + 1) = m + 3 * B
    BY <1>1, <1>5
  <2>2. i \notin SmallAt => a = 0 /\ b = 0 /\ c = 0
    BY <1>1
  <2> HIDE DEF a, b, c, m
  <2>3. QED
    BY <1>0, <2>1, <2>2
<1>7. \A i \in At : y0[i] \in Int /\ y1[i] \in Int /\ x[i] \in Int
  BY <1>0, <1>1, <1>5
<1>8. \A i \in At : s[i] = y0[i] + 1 * y1[i] /\ s[i] \in Int
  BY <1>7
<1>9. \A i \in At : r[i] = s[i] + 1 * x[i]
  OBVIOUS
<1> HIDE DEF s, r
<1>10. ValueOf(s) = ValueOf(y0) + 1 * ValueOf(y1)
  <2>1. LimbsCombine(1, y0, y1, s)
    BY <1>7, <1>8 DEF LimbsCombine
  <2>2. QED
    BY <2>1, ValueCombine
<1>11. ValueOf(r) = ValueOf(s) + 1 * ValueOf(x)
  <2>1. LimbsCombine(1, s, x, r)
    BY <1>7, <1>8, <1>9 DEF LimbsCombine
  <2>2. QED
    BY <2>1, ValueCombine
<1>12. ValueOf(g) = ValueOf(r)
  <2>1. \A i \in At : g[i] = r[i]
    <3>1. ASSUME NEW i \in At PROVE g[i] = r[i]
      <4>1. g[i] = y0[i] + y1[i] + x[i] /\ r[i] = s[i] + 1 * x[i] /\ s[i] = y0[i] + 1 * y1[i]
        BY <1>1, <1>8, <1>9
      <4>2. y0[i] \in Int /\ y1[i] \in Int /\ x[i] \in Int
        BY <1>7
      <4>3. QED
        BY <4>1, <4>2
    <3>2. QED
      BY <3>1
  <2>2. QED
    BY <2>1, ValueSame
<1>13. ValueOf(g) = n
  <2>1. n = lo + hi * TwoTo[2 * C + 1] + Total(C, ChunkWeights(n))
    BY SelectorBits DEF lo, hi
  <2>2. ValueOf(y0) \in Int /\ ValueOf(y1) \in Int /\ ValueOf(x) \in Int
    BY <1>7, ValueInt
  <2>3. QED
    BY <1>3, <1>4, <1>10, <1>11, <1>12, <2>1, <2>2
<1>14. QED
  BY <1>2, <1>6, <1>13 DEF g

-----------------------------------------------------------------------------
(* The rows that bind a half scalar.                                        *)

(* What a selector row writes, before the field wraps it. *)
HalfLimbs(n, e) ==
    /\ \A i \in At : e[i] \in -B .. 3 * B * (C + 1) + 1
    /\ ValueOf(e) = n

(* constrain_selector_from_scalar: an accepted selector row holds, up to the
   field, limbs worth the half scalar that its bits show. *)
LEMMA SelectorRow ==
    ASSUME NEW r \in SelectorRows
    PROVE  /\ r.h \in 0 .. HalfBound - 1
           /\ \E e : HalfLimbs(r.h, e) /\ \A i \in At : r.limbs[i] = e[i] % P
<1> DEFINE LimbAt(n, cs, i) == IF i < KS THEN (Into(cs, i) + Contribution(n, i) - B * cs[i]) % P ELSE 0
<1>1. PICK n \in 0 .. HalfBound - 1, cs \in {c \in [SmallAt -> Bits] : c[KS - 1] = 0} :
         r = [h |-> n, limbs |-> [i \in At |-> LimbAt(n, cs, i)]]
  BY DEF SelectorRows
<1> DEFINE g == Gathered(n)
           cr == [i \in At |-> IF i < KS THEN cs[i] ELSE 0]
           e == [i \in At |-> g[i] + Into(cr, i) - B * cr[i]]
           d == [i \in At |-> g[i] + (-1) * e[i]]
<1>0. /\ K \in Nat /\ KS \in 1 .. K - 1 /\ At = 0 .. K - 1 /\ SmallAt = 0 .. KS - 1 /\ B \in Nat /\ C \in Nat
      /\ 2 <= B /\ P \in Nat \ {0} /\ 4 * B < P
  BY LimbFacts, OrderFacts, FieldFacts DEF At, SmallAt
<1>2. r.h = n /\ \A i \in At : r.limbs[i] = LimbAt(n, cs, i)
  BY <1>1
<1> HIDE DEF LimbAt
<1>3. cs \in [SmallAt -> 0 .. 1] /\ cs[KS - 1] = 0
  BY <1>1, BitsAreBits
<1>4. ASSUME NEW i \in At
      PROVE  /\ cr[i] \in 0 .. 1 /\ Into(cr, i) \in 0 .. 1 /\ cr[K - 1] = 0
             /\ i \in SmallAt => i < KS /\ cr[i] = cs[i] /\ Into(cr, i) = Into(cs, i)
             /\ i \notin SmallAt => cr[i] = 0 /\ Into(cr, i) = 0
  <2>1. i \in SmallAt <=> i < KS
    BY <1>0
  <2>2. cr[i] = IF i < KS THEN cs[i] ELSE 0
    OBVIOUS
  <2>3. i # 0 => i - 1 \in At /\ cr[i - 1] = (IF i - 1 < KS THEN cs[i - 1] ELSE 0)
    BY <1>0
  <2>4. cr[K - 1] = 0
    BY <1>0
  <2> HIDE DEF cr
  <2>5. cr[i] \in 0 .. 1
    BY <1>3, <2>1, <2>2
  <2>6. i # 0 => (i - 1 \in SmallAt <=> i - 1 < KS)
    BY <1>0
  <2>7. Into(cr, i) \in 0 .. 1
    BY <1>3, <2>3, <2>6 DEF Into
  <2>8. ASSUME i \in SmallAt PROVE cr[i] = cs[i] /\ Into(cr, i) = Into(cs, i)
    <3>1. i # 0 => i - 1 < KS
      BY <1>0, <2>8
    <3>2. QED
      BY <2>1, <2>2, <2>3, <2>8, <3>1 DEF Into
  <2>9. ASSUME i \notin SmallAt PROVE cr[i] = 0 /\ Into(cr, i) = 0
    <3>1. i # 0 /\ (i - 1 < KS => i - 1 = KS - 1)
      BY <1>0, <2>9
    <3>2. cr[i - 1] = 0
      BY <1>3, <2>3, <3>1
    <3>3. QED
      BY <2>1, <2>2, <2>9, <3>1, <3>2 DEF Into
  <2>10. QED
    BY <2>1, <2>4, <2>5, <2>7, <2>8, <2>9
<1>5. \A i \in At : /\ g[i] \in 0 .. 3 * B * (C + 1) /\ g[i] = Contribution(n, i)
                    /\ i \notin SmallAt => g[i] = 0
  BY GatheredFacts
<1>6. ValueOf(g) = n
  BY GatheredFacts
<1> DEFINE top == 3 * B * (C + 1)
<1>7. top \in Nat
  <2> DEFINE x == 3 * B
             y == C + 1
  <2>1. x \in Nat /\ y \in Nat
    BY <1>0
  <2> HIDE DEF x, y
  <2>2. x * y \in Nat
    BY <2>1, Z3
  <2>3. QED
    BY <2>2 DEF x, y
<1> HIDE DEF g, cr, top
<1>8. ASSUME NEW i \in At
      PROVE  /\ e[i] = g[i] + Into(cr, i) - B * cr[i]
             /\ e[i] \in -B .. top + 1
             /\ r.limbs[i] = e[i] % P
  <2> DEFINE a == g[i]
             b == Into(cr, i)
             c == cr[i]
             bc == B * c
  <2>1. a \in 0 .. top /\ b \in 0 .. 1 /\ c \in 0 .. 1
    BY <1>4, <1>5 DEF top
  <2>2. bc \in 0 .. B
    <3>1. c = 0 \/ c = 1
      BY <2>1
    <3>2. QED
      BY <1>0, <3>1
  <2>3. e[i] = a + b - bc
    OBVIOUS
  <2>4. r.limbs[i] = e[i] % P
    <3>1. CASE i \in SmallAt
      <4>1. r.limbs[i] = (Into(cs, i) + Contribution(n, i) - B * cs[i]) % P
        BY <1>2, <1>4, <3>1 DEF LimbAt
      <4>2. Into(cs, i) = b /\ Contribution(n, i) = a /\ B * cs[i] = bc
        BY <1>4, <1>5, <3>1
      <4> HIDE DEF a, b, bc, e
      <4>3. b + a - bc = a + b - bc
        BY <1>0, <1>7, <2>1, <2>2
      <4>4. QED
        BY <2>3, <4>1, <4>2, <4>3
    <3>2. CASE i \notin SmallAt
      <4>1. ~(i < KS)
        BY <1>0, <3>2
      <4>2. r.limbs[i] = 0
        BY <1>2, <4>1 DEF LimbAt
      <4>3. a = 0 /\ b = 0 /\ c = 0
        BY <1>4, <1>5, <3>2
      <4>4. bc = 0
        BY <1>0, <4>3
      <4> HIDE DEF a, b, bc, e
      <4>5. e[i] = 0
        BY <2>3, <4>3, <4>4
      <4>6. 0 % P = 0
        BY <1>0, Residue
      <4>7. QED
        BY <4>2, <4>5, <4>6
    <3>3. QED
      BY <3>1, <3>2
  <2> HIDE DEF a, b, c, bc
  <2>5. a + b - bc \in -B .. top + 1
    BY <1>0, <1>7, <2>1, <2>2
  <2>6. QED
    BY <2>3, <2>4, <2>5 DEF a, b, c, bc
<1> HIDE DEF e
<1>9. ValueOf(e) = n
  <2>1. ASSUME NEW i \in At
        PROVE  /\ d[i] = g[i] + (-1) * e[i] /\ d[i] \in Int /\ g[i] \in Int /\ e[i] \in Int
               /\ cr[i] \in Int /\ d[i] + Into(cr, i) = B * cr[i]
    <3> DEFINE a == g[i]
               b == Into(cr, i)
               c == cr[i]
               f == e[i]
               bc == B * c
    <3>1. a \in Int /\ b \in Int /\ c \in Int /\ f \in Int /\ f = a + b - bc
      <4>1. a \in 0 .. top /\ b \in 0 .. 1 /\ c \in 0 .. 1
        BY <1>4, <1>5 DEF top
      <4>2. f \in -B .. top + 1 /\ f = a + b - bc
        BY <1>8
      <4> HIDE DEF a, b, c, f, bc
      <4>3. QED
        BY <1>0, <1>7, <4>1, <4>2
    <3>2. bc \in Int /\ d[i] = a + (-1) * f
      BY <1>0, <3>1
    <3> HIDE DEF a, b, c, f, d, bc
    <3>3. d[i] \in Int /\ d[i] + b = bc
      BY <3>1, <3>2
    <3>4. QED
      BY <3>1, <3>2, <3>3 DEF a, b, c, f, bc
  <2> HIDE DEF d
  <2>2. ValueOf(d) = cr[K - 1] * Place[K]
    <3>1. Carries(d, cr)
      BY <2>1 DEF Carries
    <3>2. QED
      BY <3>1, CarryChain
  <2>3. ValueOf(d) = 0
    <3>1. K \in 0 .. 2 * K /\ K - 1 \in At
      BY <1>0
    <3>2. cr[K - 1] = 0
      BY <1>4, <3>1
    <3>3. Place[K] \in Int
      BY <3>1, PlaceFacts
    <3>4. QED
      BY <2>2, <3>2, <3>3
  <2>4. ValueOf(d) = ValueOf(g) + (-1) * ValueOf(e)
    <3>1. LimbsCombine(-1, g, e, d)
      BY <2>1 DEF LimbsCombine
    <3>2. QED
      BY <3>1, ValueCombine
  <2>5. ValueOf(g) \in Int /\ ValueOf(e) \in Int
    BY <2>1, ValueInt
  <2>6. QED
    BY <1>6, <2>3, <2>4, <2>5
<1>10. HalfLimbs(r.h, e)
  BY <1>2, <1>8, <1>9 DEF HalfLimbs, top
<1>11. \A i \in At : r.limbs[i] = e[i] % P
  BY <1>8
<1>12. n \in 0 .. HalfBound - 1
  OBVIOUS
<1>13. QED
  BY <1>2, <1>10, <1>11, <1>12

(* Limbs gathered from the selectors, with a carry in, stay below the field's size. *)
LEMMA HalfRange ==
    /\ 3 * B * (C + 1) \in Nat
    /\ 3 * B * (C + 1) + 6 * B < P
<1>0. B \in Nat /\ C \in Nat /\ 3 * B * (C + 3) < P /\ P \in Nat
  BY LimbFacts, OrderFacts, FieldFacts
<1> DEFINE x == 3 * B
           m == x * C
<1>1. x \in Nat /\ m \in Nat /\ x * (C + 1) = m + x /\ x * (C + 3) = m + 3 * x
  <2>1. x \in Nat
    BY <1>0
  <2> HIDE DEF x
  <2>2. QED
    BY <1>0, <2>1, Z3
<1> HIDE DEF m
<1>2. 3 * B * (C + 1) = m + 3 * B /\ 3 * B * (C + 3) = m + 9 * B
  BY <1>0, <1>1
<1>3. QED
  BY <1>0, <1>1, <1>2

(* A limb below the base wrapped nowhere. *)
LEMMA NoWrap ==
    ASSUME NEW x \in Int, -(3 * B * (C + 1) + 3 * B) <= x, x <= 3 * B * (C + 1) + 3 * B, x % P \in Limb
    PROVE  x % P = x
<1> DEFINE top == 3 * B * (C + 1)
<1>0. top \in Nat /\ top + 6 * B < P /\ B \in Nat /\ P \in Nat /\ Limb = 0 .. B - 1 /\ 2 <= B
  BY HalfRange, LimbFacts DEF Limb
<1>1. -(top + 3 * B) <= x /\ x <= top + 3 * B
  OBVIOUS
<1> HIDE DEF top
<1>2. -P < x /\ x < P
  BY <1>0, <1>1
<1>3. x % P = IF x >= 0 THEN x ELSE x + P
  BY <1>2, Residue
<1>4. x % P < B
  BY <1>0
<1>5. QED
  BY <1>0, <1>1, <1>3, <1>4

(* A row that is canonical has the value of its half scalar. *)
LEMMA HalfValue ==
    ASSUME NEW r \in SelectorRows, r.limbs \in Canonical
    PROVE  ValueOf(r.limbs) = r.h
<1>1. PICK e : HalfLimbs(r.h, e) /\ \A i \in At : r.limbs[i] = e[i] % P
  BY SelectorRow
<1> DEFINE x == r.limbs
<1>2. x \in [At -> Limb]
  BY CanonicalBelowOrder
<1>3. ASSUME NEW i \in At PROVE x[i] = e[i]
  <2> DEFINE f == e[i]
             top == 3 * B * (C + 1)
  <2>1. f \in -B .. top + 1
    BY <1>1 DEF HalfLimbs
  <2>2. x[i] = f % P /\ x[i] \in Limb
    BY <1>1, <1>2
  <2>3. top \in Nat /\ B \in Nat /\ 2 <= B
    BY HalfRange, LimbFacts
  <2> HIDE DEF f, x, top
  <2>4. f \in Int /\ -(top + 3 * B) <= f /\ f <= top + 3 * B
    BY <2>1, <2>3
  <2>5. f % P = f
    BY <2>2, <2>4, NoWrap DEF top
  <2>6. QED
    BY <2>2, <2>5 DEF f
<1> HIDE DEF x
<1>4. ValueOf(x) = ValueOf(e)
  BY <1>3, ValueSame
<1>5. QED
  BY <1>1, <1>4 DEF HalfLimbs, x

(* Subtracting the field's size does not change a residue. *)
LEMMA ResidueShift ==
    ASSUME NEW x \in Int
    PROVE  (x - P) % P = x % P
<1>0. P \in Nat \ {0}
  BY FieldFacts
<1> DEFINE d == x \div P
           e == x % P
<1>1. d \in Int /\ e \in Int /\ x = P * d + e /\ 0 <= e /\ e < P
  BY <1>0, Division
<1> HIDE DEF d, e
<1>2. x - P = (d - 1) * P + e
  <2>1. (d - 1) * P = P * d - P
    BY <1>0, <1>1, Z3
  <2> DEFINE y == P * d
  <2>2. y \in Int /\ x = y + e /\ (d - 1) * P = y - P
    BY <1>0, <1>1, <2>1
  <2> HIDE DEF y
  <2>3. QED
    BY <1>0, <1>1, <2>2
<1>3. d - 1 \in Int /\ e \in 0 .. P - 1
  BY <1>0, <1>1
<1>4. ((d - 1) * P + e) % P = e
  BY <1>0, <1>3, UniqueDivision
<1>5. QED
  BY <1>2, <1>4 DEF e

(* selected_s1 is s1 or, when the bit is not set, what is left to the order. *)
LEMMA SelectedValue ==
    ASSUME NEW r \in SelectorRows, NEW bit \in Bits,
           NEW sel \in SelectedRows(r.limbs, bit), sel \in Canonical
    PROVE  ValueOf(sel) = IF bit = 1 THEN r.h ELSE N - r.h
<1>1. CASE bit = 1
  <2>1. sel = r.limbs
    BY <1>1 DEF SelectedRows
  <2>2. QED
    BY <1>1, <2>1, HalfValue
<1>2. CASE bit # 1
  <2> DEFINE LeftAt(bw, i) == (Order[i] - r.limbs[i] - Into(bw, i) + B * bw[i]) % P
  <2>1. PICK bw \in {c \in [At -> Bits] : c[K - 1] = 0} : sel = [i \in At |-> LeftAt(bw, i)]
    BY <1>2 DEF SelectedRows
  <2>2. PICK e : HalfLimbs(r.h, e) /\ \A i \in At : r.limbs[i] = e[i] % P
    BY SelectorRow
  <2>3. sel \in [At -> Limb]
    BY CanonicalBelowOrder
  <2> DEFINE top == 3 * B * (C + 1)
             se == [i \in At |-> sel[i] + 1 * e[i]]
             d == [i \in At |-> se[i] + (-1) * Order[i]]
  <2>0. /\ K \in Nat /\ At = 0 .. K - 1 /\ B \in Nat /\ 2 <= B /\ Limb = 0 .. B - 1
        /\ P \in Nat \ {0} /\ top \in Nat /\ top + 6 * B < P /\ K - 1 \in At /\ K \in 0 .. 2 * K
    BY LimbFacts, FieldFacts, HalfRange DEF At, Limb
  <2>4. \A i \in At : sel[i] = LeftAt(bw, i)
    BY <2>1
  <2>5. bw \in [At -> 0 .. 1] /\ bw[K - 1] = 0
    BY <2>1, BitsAreBits
  <2>6. ASSUME NEW i \in At
        PROVE  /\ sel[i] \in Int /\ e[i] \in Int /\ Order[i] \in Int /\ bw[i] \in Int
               /\ sel[i] + e[i] - Order[i] + Into(bw, i) = B * bw[i]
    <3> DEFINE o == Order[i]
               l == r.limbs[i]
               b == Into(bw, i)
               c == bw[i]
               f == e[i]
               s == sel[i]
               bc == B * c
               x == o - f - b + bc
    <3>1. o \in 0 .. B - 1 /\ s \in 0 .. B - 1 /\ c \in 0 .. 1 /\ f \in -B .. top + 1 /\ l = f % P
      BY <2>0, <2>2, <2>3, <2>5, OrderLimbs DEF HalfLimbs
    <3>2. b \in 0 .. 1
      <4>1. i # 0 => i - 1 \in At
        BY <2>0
      <4>2. QED
        BY <2>5, <4>1 DEF Into
    <3>3. bc \in 0 .. B
      <4>1. c = 0 \/ c = 1
        BY <3>1
      <4>2. QED
        BY <2>0, <4>1
    <3>4. s = (o - l - b + bc) % P
      BY <2>4
    <3> HIDE DEF o, l, b, c, f, s, bc, top, LeftAt
    <3>5. l = (IF f >= 0 THEN f ELSE f + P) /\ f \in Int /\ x \in Int
      <4>1. f \in Int /\ -P < f /\ f < P /\ x \in Int
        BY <2>0, <3>1, <3>2, <3>3
      <4>2. QED
        BY <3>1, <4>1, Residue
    <3>6. s = x % P
      <4>1. CASE f >= 0
        BY <3>4, <3>5, <4>1
      <4>2. CASE ~(f >= 0)
        <5>1. o - l - b + bc = x - P
          BY <2>0, <3>1, <3>2, <3>3, <3>5, <4>2
        <5> HIDE DEF x
        <5>2. QED
          BY <3>4, <3>5, <5>1, ResidueShift
      <4>3. QED
        BY <4>1, <4>2
    <3>7. -(top + 3 * B) <= x /\ x <= top + 3 * B
      BY <2>0, <3>1, <3>2, <3>3
    <3>8. s \in Limb
      BY <2>0, <3>1
    <3> HIDE DEF x
    <3>9. s = x
      BY <3>5, <3>6, <3>7, <3>8, NoWrap DEF top
    <3>10. s + f - o + b = bc
      BY <2>0, <3>1, <3>2, <3>3, <3>5, <3>9 DEF x
    <3>11. s \in Int /\ f \in Int /\ o \in Int /\ c \in Int
      BY <3>1, <3>5
    <3>12. QED
      BY <3>10, <3>11 DEF s, f, o, b, c, bc
  <2> HIDE DEF LeftAt
  <2>7. \A i \in At : se[i] = sel[i] + 1 * e[i] /\ se[i] \in Int
    BY <2>6
  <2>8. \A i \in At : d[i] = se[i] + (-1) * Order[i]
    OBVIOUS
  <2> HIDE DEF se, d
  <2>9. ValueOf(d) = 0
    <3>1. ASSUME NEW i \in At
          PROVE  d[i] \in Int /\ bw[i] \in Int /\ d[i] + Into(bw, i) = B * bw[i]
      <4> DEFINE o == Order[i]
                 f == e[i]
                 s == sel[i]
                 b == Into(bw, i)
                 bc == B * bw[i]
      <4>1. s \in Int /\ f \in Int /\ o \in Int /\ bw[i] \in Int /\ s + f - o + b = bc
        BY <2>6
      <4>2. d[i] = (s + 1 * f) + (-1) * o
        BY <2>7, <2>8
      <4>3. b \in Int
        <5>1. i # 0 => i - 1 \in At
          BY <2>0
        <5>2. b = 0 \/ b \in 0 .. 1
          BY <2>5, <5>1 DEF Into
        <5> HIDE DEF b
        <5>3. QED
          BY <5>2
      <4> HIDE DEF o, f, s, b, bc
      <4>4. d[i] \in Int /\ d[i] + b = bc
        BY <4>1, <4>2, <4>3
      <4>5. QED
        BY <4>1, <4>4 DEF b, bc
    <3>2. Carries(d, bw)
      BY <3>1 DEF Carries
    <3>3. ValueOf(d) = bw[K - 1] * Place[K]
      BY <3>2, CarryChain
    <3>4. Place[K] \in Int
      BY <2>0, PlaceFacts
    <3>5. QED
      BY <2>5, <3>3, <3>4
  <2>10. ValueOf(se) = ValueOf(sel) + 1 * ValueOf(e)
    <3>1. LimbsCombine(1, sel, e, se)
      BY <2>6, <2>7 DEF LimbsCombine
    <3>2. QED
      BY <3>1, ValueCombine
  <2>11. ValueOf(d) = ValueOf(se) + (-1) * ValueOf(Order)
    <3>1. LimbsCombine(-1, se, Order, d)
      BY <2>6, <2>7, <2>8 DEF LimbsCombine
    <3>2. QED
      BY <3>1, ValueCombine
  <2>12. ValueOf(sel) \in Int /\ ValueOf(e) \in Int
    BY <2>6, ValueInt
  <2>13. ValueOf(e) = r.h
    BY <2>2 DEF HalfLimbs
  <2>14. ValueOf(sel) = N - ValueOf(e)
    BY <2>9, <2>10, <2>11, <2>12, OrderLimbs, OrderFacts
  <2>15. QED
    BY <1>2, <2>13, <2>14
<1>3. QED
  BY <1>1, <1>2

-----------------------------------------------------------------------------
(* The invariant: what the rows filled so far have bound.                   *)

(* The rows of canonical scalars, by value. *)
ScalarRows == {x \in [At -> Limb] : ValueOf(x) \in 0 .. N - 1}

(* r and s are usable, the digest is reduced. *)
SetupBound ==
    /\ Usable(input.r) /\ Usable(input.s)
    /\ zred \in ScalarRows /\ ValueOf(zred) = input.z % N

(* The product of u1, and the one of u2. *)
FirstBound == (input.s * ValueOf(u[1])) % N = input.z % N
SecondBound == (input.s * ValueOf(u[2])) % N = input.r

(* The rows of the current product are those the setup or the hint names. *)
FactorsNamed ==
    /\ job = 1 => op.a = S /\ op.b = u[1] /\ op.result = zred
    /\ job = 2 => op.a = S /\ op.b = u[2] /\ op.result = R
    /\ job = 3 => /\ input.follow \in 1 .. 2 /\ ValueOf(u[input.follow]) # 0
                  /\ op.a = u[input.follow]
                  /\ hint.s1 \in Nat /\ hint.s2 \in Nat \ {0}
                  /\ ValueOf(op.b) = hint.s2
                  /\ ValueOf(op.result) = IF hint.bit = 1 THEN hint.s1 ELSE N - hint.s1

(* Types, and the input. *)
InputInv ==
    /\ input \in Inputs
    /\ u \in [{1, 2} -> ScalarRows]
    /\ job \in 1 .. 3
    /\ phase \in {"setup", "factor", "digits", "certs", "hint", "done", "refused"}

(* Past the setup row. *)
SetupInv == phase \in {"factor", "digits", "certs", "hint", "done"} => SetupBound

(* The products closed so far, and the one in progress. *)
ProductsInv ==
    /\ phase = "setup" => job = 1
    /\ phase = "factor" => job # 3
    /\ phase \in {"factor", "digits"} /\ job = 2 => FirstBound
    /\ phase \in {"factor", "digits"} /\ job = 3 => FirstBound /\ SecondBound
    /\ phase \in {"certs", "hint", "done"} => FirstBound /\ SecondBound
    /\ phase = "digits" => ProductState(op, q, digit, win, carry) /\ FactorsNamed

(* The hint row, and what its product has bound. *)
HintInv ==
    /\ phase \in {"setup", "factor", "certs", "hint"} => hint = NoRows
    /\ phase = "digits" /\ job # 3 => hint = NoRows
    /\ phase = "hint" => input.follow \in 1 .. 2 /\ ValueOf(u[input.follow]) # 0
    /\ phase = "done" /\ input.follow # 0 => HintIsLattice

(* The inductive invariant. *)
RowsInv == InputInv /\ SetupInv /\ ProductsInv /\ HintInv

(* Digest, r and s are words, and their public limbs are worth them. *)
LEMMA InputFacts ==
    ASSUME input \in Inputs
    PROVE  /\ input.z \in Nat /\ input.r \in Nat /\ input.s \in Nat /\ input.follow \in 0 .. 2
           /\ Z \in [At -> Limb] /\ ValueOf(Z) = input.z
           /\ R \in [At -> Limb] /\ ValueOf(R) = input.r
           /\ S \in [At -> Limb] /\ ValueOf(S) = input.s
<1> DEFINE p == Place[K]
           z == input.z
           r == input.r
           s == input.s
<1>1. p \in Nat
  <2>1. K \in 0 .. 2 * K
    BY LimbFacts
  <2>2. QED
    BY <2>1, PlaceFacts
<1>2. z \in 0 .. p - 1 /\ r \in 0 .. p - 1 /\ s \in 0 .. p - 1 /\ input.follow \in 0 .. 2
  <2> DEFINE Word == 0 .. p - 1
  <2>1. input \in [z : Word, r : Word, s : Word, follow : 0 .. 2]
    <3> HIDE DEF Place
    <3>1. QED
      BY InputsAssumption
  <2> HIDE DEF Word
  <2>2. z \in Word /\ r \in Word /\ s \in Word /\ input.follow \in 0 .. 2
    BY <2>1
  <2>3. QED
    BY <2>2 DEF Word
<1> HIDE DEF z, r, s
<1>3. z \in Nat /\ z < Place[K] /\ r \in Nat /\ r < Place[K] /\ s \in Nat /\ s < Place[K]
  BY <1>1, <1>2
<1>4. /\ LimbsOf(z) \in [At -> Limb] /\ ValueOf(LimbsOf(z)) = z
      /\ LimbsOf(r) \in [At -> Limb] /\ ValueOf(LimbsOf(r)) = r
      /\ LimbsOf(s) \in [At -> Limb] /\ ValueOf(LimbsOf(s)) = s
  BY <1>3, ValueOfLimbs
<1>5. QED
  BY <1>2, <1>3, <1>4 DEF z, r, s, Z, R, S

(* Canonical rows are rows of scalars, *)
LEMMA CanonicalRows == Canonical \subseteq ScalarRows
BY CanonicalBelowOrder DEF ScalarRows

(* and so is the zero row. *)
LEMMA ZeroLimbsRow == ZeroLimbs \in ScalarRows
BY ZeroRowValue, OrderFacts DEF ScalarRows

(* The invariant holds before the first row. *)
LEMMA InitRows == Init => RowsInv
<1> SUFFICES ASSUME Init PROVE RowsInv
  OBVIOUS
<1> USE DEF Init
<1>1. u \in [{1, 2} -> ScalarRows]
  <2>1. u = <<ZeroLimbs, ZeroLimbs>>
    OBVIOUS
  <2> HIDE DEF Init
  <2>2. DOMAIN u = {1, 2} /\ u[1] = ZeroLimbs /\ u[2] = ZeroLimbs
    BY <2>1
  <2>3. \E g : u = [i \in {1, 2} |-> g[i]]
    <3>1. u = [i \in {1, 2} |-> u[i]]
      BY <2>1
    <3>2. QED
      BY <3>1
  <2>4. QED
    BY <2>2, <2>3, ZeroLimbsRow
<1>2. InputInv
  BY <1>1 DEF InputInv
<1>3. SetupInv /\ ProductsInv /\ HintInv
  BY DEF SetupInv, ProductsInv, HintInv
<1>4. QED
  BY <1>2, <1>3 DEF RowsInv

(* A refusal fills no row. *)
LEMMA RefuseRows == RowsInv /\ Refuse => RowsInv'
<1> SUFFICES ASSUME RowsInv, Refuse PROVE RowsInv'
  OBVIOUS
<1>1. phase' = "refused" /\ UNCHANGED <<input, u, job>>
  BY DEF Refuse
<1>2. InputInv'
  BY <1>1 DEF RowsInv, InputInv
<1>3. SetupInv' /\ ProductsInv' /\ HintInv'
  BY <1>1 DEF SetupInv, ProductsInv, HintInv
<1>4. QED
  BY <1>2, <1>3 DEF RowsInv

(* The setup row makes r and s usable and reduces the digest. *)
LEMMA SetupRowBinds == RowsInv /\ SetupRow => RowsInv'
<1> SUFFICES ASSUME RowsInv, SetupRow PROVE RowsInv'
  OBVIOUS
<1>1. /\ phase = "setup" /\ phase' = "factor" /\ UNCHANGED <<input, u, job, hint>>
      /\ R \in Canonical /\ NonzeroRow(R) /\ S \in Canonical /\ NonzeroRow(S)
      /\ zred' \in {x \in Canonical : DigestRow(Z, x)}
  <2>1. zred' \in Choices({x \in Canonical : DigestRow(Z, x)},
                          LimbsOf(IF input.z < N THEN input.z ELSE input.z - N))
    BY DEF SetupRow
  <2>2. zred' \in {x \in Canonical : DigestRow(Z, x)}
    BY <2>1 DEF Choices
  <2>3. QED
    BY <2>2 DEF SetupRow
<1>2. input \in Inputs /\ InputInv'
  BY <1>1 DEF RowsInv, InputInv
<1>3. hint = NoRows
  BY <1>1 DEF RowsInv, HintInv
<1>4. Usable(input.r) /\ Usable(input.s)
  <2>1. ValueOf(R) \in 0 .. N - 1 /\ ValueOf(S) \in 0 .. N - 1 /\ R \in [At -> Limb] /\ S \in [At -> Limb]
    BY <1>1, CanonicalBelowOrder
  <2>2. 1 <= ValueOf(R) /\ 1 <= ValueOf(S)
    BY <1>1, <2>1, NonzeroValue
  <2>3. ValueOf(R) = input.r /\ ValueOf(S) = input.s
    BY <1>2, InputFacts
  <2> HIDE DEF R, S
  <2>4. QED
    BY <2>1, <2>2, <2>3, OrderFacts DEF Usable
<1>5. zred' \in ScalarRows /\ ValueOf(zred') = input.z % N
  <2>1. zred' \in Canonical /\ DigestRow(Z, zred')
    BY <1>1
  <2>2. Z \in [At -> Limb] /\ ValueOf(Z) = input.z
    BY <1>2, InputFacts
  <2> HIDE DEF Z
  <2>3. ValueOf(zred') = ValueOf(Z) % N
    BY <2>1, <2>2, DigestReduced
  <2>4. QED
    BY <2>1, <2>2, <2>3, CanonicalRows
<1>6. SetupBound'
  BY <1>1, <1>4, <1>5 DEF SetupBound, Usable
<1>7. SetupInv' /\ HintInv'
  BY <1>1, <1>3, <1>6 DEF SetupInv, HintInv
<1>8. ProductsInv'
  <2>1. job = 1
    BY <1>1 DEF RowsInv, ProductsInv
  <2>2. QED
    BY <1>1, <2>1 DEF ProductsInv
<1>9. QED
  BY <1>2, <1>7, <1>8 DEF RowsInv

(* The canonical row of u1 or u2 names the factors of its product. *)
LEMMA StartProductRows == RowsInv /\ StartProduct => RowsInv'
<1> SUFFICES ASSUME RowsInv, StartProduct PROVE RowsInv'
  OBVIOUS
<1> DEFINE result == IF job = 1 THEN zred ELSE R
<1>1. PICK b \in Canonical :
         /\ u' = [u EXCEPT ![job] = b]
         /\ Start(S, b, result)
  BY DEF StartProduct, Choices
<1>2. phase = "factor" /\ UNCHANGED <<input, prover, zred, job, hint>>
  BY DEF StartProduct
<1>3. /\ op' = [a |-> S, b |-> b, result |-> result]
      /\ q' = ZeroLimbs /\ digit' = 0 /\ win' = NoWindow /\ carry' = 0 /\ phase' = "digits"
  BY <1>1 DEF Start
<1> HIDE DEF result
<1>4. /\ input \in Inputs /\ u \in [{1, 2} -> ScalarRows] /\ job \in 1 .. 2 /\ SetupBound
      /\ job = 2 => FirstBound
      /\ hint = NoRows
  BY <1>2 DEF RowsInv, InputInv, SetupInv, ProductsInv, HintInv
<1>5. b \in ScalarRows /\ b \in [At -> Limb]
  BY CanonicalRows, CanonicalBelowOrder
<1>6. u' \in [{1, 2} -> ScalarRows] /\ u'[job] = b /\ \A c \in {1, 2} : c # job => u'[c] = u[c]
  <2>1. job = 1 \/ job = 2
    BY <1>4
  <2>2. QED
    BY <1>1, <1>4, <1>5, <2>1
<1>7. result \in [At -> Limb]
  BY <1>4, InputFacts DEF result, SetupBound, ScalarRows
<1>8. ProductRows(op', ZeroLimbs)
  <2>1. op'.a = S /\ op'.b = b /\ op'.result = result
    BY <1>3
  <2>2. S \in [At -> Limb]
    BY <1>4, InputFacts
  <2> HIDE DEF S
  <2>3. QED
    BY <1>5, <1>7, <2>1, <2>2, ZeroRowValue DEF ProductRows
<1>9. ProductState(op, q, digit, win, carry)'
  <2>1. ProductState(op', ZeroLimbs, 0, NoWindow, 0)
    BY <1>8, ProductBegins
  <2>2. QED
    BY <1>3, <2>1
<1>10. FactorsNamed'
  <2>1. op'.a = S /\ op'.b = b /\ op'.result = result /\ job' = job /\ zred' = zred /\ input' = input
    BY <1>2, <1>3
  <2>2. S' = S /\ R' = R
    BY <2>1 DEF S, R
  <2>3. job = 1 => op'.a = S' /\ op'.b = u'[1] /\ op'.result = zred'
    BY <1>6, <2>1, <2>2 DEF result
  <2>4. job = 2 => op'.a = S' /\ op'.b = u'[2] /\ op'.result = R'
    BY <1>6, <2>1, <2>2 DEF result
  <2>5. job # 3
    BY <1>4
  <2>6. QED
    BY <2>1, <2>3, <2>4, <2>5 DEF FactorsNamed
<1>11. job = 2 => FirstBound'
  BY <1>2, <1>4, <1>6 DEF FirstBound
<1>12. InputInv'
  BY <1>2, <1>3, <1>4, <1>6 DEF InputInv
<1>13. SetupInv'
  BY <1>2, <1>4 DEF SetupInv, SetupBound, Usable
<1>14. ProductsInv'
  BY <1>2, <1>3, <1>4, <1>9, <1>10, <1>11 DEF ProductsInv
<1>15. HintInv'
  BY <1>2, <1>3, <1>4 DEF HintInv
<1>16. QED
  BY <1>12, <1>13, <1>14, <1>15 DEF RowsInv

(* One product digit keeps what is settled so far equal to what is still due. *)
LEMMA ProductDigitRows == RowsInv /\ ProductDigit => RowsInv'
<1> SUFFICES ASSUME RowsInv, ProductDigit PROVE RowsInv'
  OBVIOUS
<1>1. /\ phase = "digits" /\ digit < 2 * K /\ digit' = digit + 1
      /\ UNCHANGED <<input, prover, phase, zred, u, job, op, hint>>
  BY DEF ProductDigit
<1>2. ProductState(op, q, digit, win, carry) /\ FactorsNamed
  BY <1>1 DEF RowsInv, ProductsInv
<1> DEFINE Known(ql) == IF digit < K THEN [q EXCEPT ![digit] = ql] ELSE q
<1>3. PICK ab \in CoefficientDigits(op.a, op.b, digit, Honest), ql \in QuotientLimbs :
         \E qn \in CoefficientDigits(Known(ql), Order, digit, Honest) :
            /\ \E out \in CarriesOut((win.ab[1] + ab[1] - (IF digit < K THEN op.result[digit] ELSE 0) + carry)
                                     - win.qn[1] - qn[1]) :
                  /\ digit = 2 * K - 1 => out = 0
                  /\ carry' = out
            /\ q' = Known(ql)
            /\ win' = [ab |-> <<win.ab[2] + ab[2], ab[3]>>, qn |-> <<win.qn[2] + qn[2], qn[3]>>]
  BY DEF ProductDigit
<1> DEFINE kk == Known(ql)
<1>4. PICK qn \in CoefficientDigits(kk, Order, digit, Honest) :
            /\ \E out \in CarriesOut((win.ab[1] + ab[1] - (IF digit < K THEN op.result[digit] ELSE 0) + carry)
                                     - win.qn[1] - qn[1]) :
                  /\ digit = 2 * K - 1 => out = 0
                  /\ carry' = out
            /\ q' = kk
            /\ win' = [ab |-> <<win.ab[2] + ab[2], ab[3]>>, qn |-> <<win.qn[2] + qn[2], qn[3]>>]
  BY <1>3
<1>5. /\ carry' \in CarriesOut((win.ab[1] + ab[1] - Entry(op.result, digit) + carry) - win.qn[1] - qn[1])
      /\ digit = 2 * K - 1 => carry' = 0
  BY <1>4 DEF Entry
<1>6. K \in Nat /\ At = 0 .. K - 1 /\ Limb = 0 .. B - 1 /\ B \in Nat /\ 2 <= B
  BY LimbFacts DEF At, Limb
<1>7. digit \in 0 .. 2 * K - 1 /\ ProductRows(op, q) /\ \A i \in At : digit <= i => q[i] = 0
  BY <1>1, <1>2, <1>6 DEF ProductState
<1>8. ql \in Limb
  <2>1. 0 \in Limb
    BY <1>6
  <2>2. QED
    BY <2>1 DEF QuotientLimbs, Choices
<1>9. /\ kk \in [At -> Limb]
      /\ \A i \in At : i < digit => kk[i] = q[i]
      /\ \A i \in At : digit + 1 <= i => kk[i] = 0
  <2>1. q \in [At -> Limb]
    BY <1>7 DEF ProductRows
  <2>2. CASE digit < K
    <3>1. kk = [q EXCEPT ![digit] = ql] /\ digit \in At
      BY <1>6, <1>7, <2>2
    <3> HIDE DEF kk
    <3>2. kk \in [At -> Limb]
      BY <1>8, <2>1, <3>1
    <3>3. \A i \in At : i # digit => kk[i] = q[i]
      BY <2>1, <3>1
    <3>4. \A i \in At : (i < digit => i # digit) /\ (digit + 1 <= i => i # digit /\ digit <= i)
      BY <1>6, <1>7
    <3>5. QED
      BY <1>7, <3>2, <3>3, <3>4
  <2>3. CASE ~(digit < K)
    <3>1. kk = q
      BY <2>3
    <3> HIDE DEF kk
    <3>2. \A i \in At : digit + 1 <= i => digit <= i
      BY <1>6, <1>7
    <3>3. QED
      BY <1>7, <2>1, <3>1, <3>2
  <2>4. QED
    BY <2>2, <2>3
<1> HIDE DEF Known, kk
<1>10. ProductRows(op, kk)
  BY <1>7, <1>9 DEF ProductRows
<1>11. ProductState(op, kk, digit + 1,
                    [ab |-> <<win.ab[2] + ab[2], ab[3]>>, qn |-> <<win.qn[2] + qn[2], qn[3]>>], carry')
  BY <1>2, <1>4, <1>5, <1>7, <1>9, <1>10, DigitStep
<1>12. ProductState(op, q, digit, win, carry)'
  BY <1>1, <1>4, <1>11
<1>13. FactorsNamed'
  BY <1>1, <1>2 DEF FactorsNamed, S, R
<1>14. InputInv' /\ SetupInv' /\ HintInv'
  BY <1>1 DEF RowsInv, InputInv, SetupInv, SetupBound, HintInv, HintIsLattice, Usable
<1>15. ProductsInv'
  BY <1>1, <1>12, <1>13 DEF RowsInv, ProductsInv, FirstBound, SecondBound
<1>16. QED
  BY <1>14, <1>15 DEF RowsInv

(* What a finished product says modulo the order. *)
LEMMA ProductModulo ==
    ASSUME NEW x \in Nat, NEW y \in Nat, NEW v \in Int, NEW w \in Int, x * y = v * N + w
    PROVE  (x * y) % N = w % N /\ (w \in 0 .. N - 1 => (x * y) % N = w)
<1>0. N \in Nat \ {0}
  BY OrderFacts
<1> DEFINE d == w \div N
           e == w % N
<1>1. d \in Int /\ e \in Int /\ w = N * d + e /\ 0 <= e /\ e < N
  BY <1>0, Division
<1> HIDE DEF d, e
<1>2. v * N + w = (v + d) * N + e
  <2>1. (v + d) * N = v * N + N * d
    BY <1>0, <1>1, Z3
  <2> DEFINE a == v * N
             b == N * d
  <2>2. a \in Int /\ b \in Int /\ w = b + e /\ (v + d) * N = a + b
    BY <1>0, <1>1, <2>1
  <2> HIDE DEF a, b
  <2>3. a + w = (v + d) * N + e
    BY <1>1, <2>2
  <2>4. QED
    BY <2>3 DEF a
<1>3. v + d \in Int /\ e \in 0 .. N - 1
  BY <1>0, <1>1
<1>4. ((v + d) * N + e) % N = e
  BY <1>0, <1>3, UniqueDivision
<1>5. (x * y) % N = e
  BY <1>2, <1>4
<1>6. w \in 0 .. N - 1 => e = w
  <2>1. SUFFICES ASSUME w \in 0 .. N - 1 PROVE w % N = w
    BY DEF e
  <2>2. (0 * N + w) % N = w /\ 0 * N + w = w
    BY <1>0, <2>1, UniqueDivision
  <2>3. QED
    BY <2>2
<1>7. QED
  BY <1>5, <1>6 DEF e

(* A finished product is an equation of integers, hence one modulo the order. *)
LEMMA EndProductRows == RowsInv /\ EndProduct => RowsInv'
<1> SUFFICES ASSUME RowsInv, EndProduct PROVE RowsInv'
  OBVIOUS
<1>1. /\ phase = "digits" /\ digit = 2 * K
      /\ phase' = IF job = 1 THEN "factor" ELSE IF job = 2 THEN "certs" ELSE "done"
      /\ job' = IF job = 1 THEN 2 ELSE job
      /\ UNCHANGED <<input, prover, zred, u, hint>>
  BY DEF EndProduct
<1>2. /\ ProductState(op, q, digit, win, carry) /\ FactorsNamed /\ SetupBound /\ input \in Inputs
      /\ u \in [{1, 2} -> ScalarRows] /\ job \in 1 .. 3
      /\ job = 2 => FirstBound
      /\ job = 3 => FirstBound /\ SecondBound
      /\ job # 3 => hint = NoRows
  BY <1>1 DEF RowsInv, InputInv, SetupInv, ProductsInv, HintInv
<1>3. ValueOf(op.a) * ValueOf(op.b) = ValueOf(q) * N + ValueOf(op.result)
  <2>1. ProductState(op, q, 2 * K, win, carry)
    BY <1>1, <1>2
  <2>2. QED
    BY <2>1, ProductEnds
<1>4. /\ ValueOf(q) \in Int /\ ValueOf(op.result) \in Int
      /\ ValueOf(op.a) \in Nat /\ ValueOf(op.b) \in Nat
  <2>1. op.a \in [At -> Limb] /\ op.b \in [At -> Limb] /\ op.result \in [At -> Limb] /\ q \in [At -> Limb]
    BY <1>2 DEF ProductState, ProductRows
  <2>2. \A x \in [At -> Limb] : ValueOf(x) \in Nat
    BY ValueOfNonzero
  <2>3. QED
    BY <2>1, <2>2
<1> DEFINE va == ValueOf(op.a)
           vb == ValueOf(op.b)
           vq == ValueOf(q)
           vr == ValueOf(op.result)
<1>5. (va * vb) % N = vr % N /\ (vr \in 0 .. N - 1 => (va * vb) % N = vr)
  <2>1. va * vb = vq * N + vr /\ va \in Nat /\ vb \in Nat /\ vq \in Int /\ vr \in Int
    BY <1>3, <1>4
  <2> HIDE DEF va, vb, vq, vr
  <2>2. QED
    BY <2>1, ProductModulo
<1>6. ValueOf(S) = input.s /\ ValueOf(R) = input.r
  BY <1>2, InputFacts
<1>7. job = 1 => FirstBound'
  <2>1. SUFFICES ASSUME job = 1 PROVE FirstBound
    BY <1>1 DEF FirstBound
  <2>2. va = input.s /\ vb = ValueOf(u[1]) /\ vr = input.z % N /\ vr \in 0 .. N - 1
    BY <1>2, <1>6, <2>1 DEF FactorsNamed, SetupBound, ScalarRows
  <2>3. QED
    BY <1>5, <2>2 DEF FirstBound
<1>8. job = 2 => SecondBound
  <2>1. SUFFICES ASSUME job = 2 PROVE SecondBound
    OBVIOUS
  <2>2. va = input.s /\ vb = ValueOf(u[2]) /\ vr = input.r
    BY <1>2, <1>6, <2>1 DEF FactorsNamed
  <2>3. input.r \in 0 .. N - 1
    BY <1>2, OrderFacts DEF SetupBound, Usable
  <2>4. QED
    BY <1>5, <2>2, <2>3 DEF SecondBound
<1>9. job = 3 => HintIsLattice
  <2> SUFFICES ASSUME job = 3 PROVE HintIsLattice
    OBVIOUS
  <2> DEFINE k == ValueOf(u[input.follow])
             s1 == hint.s1
             s2 == hint.s2
  <2>1. /\ va = k /\ vb = s2 /\ vr = (IF hint.bit = 1 THEN s1 ELSE N - s1) /\ k # 0
        /\ s1 \in Nat /\ s2 \in Nat \ {0}
    BY <1>2 DEF FactorsNamed
  <2>2. va * vb = vq * N + vr /\ vq \in Int /\ va \in Nat
    BY <1>3, <1>4
  <2>3. hint.bit = 1 => (k * s2 - s1) % N = 0
    <3>1. SUFFICES ASSUME hint.bit = 1 PROVE (k * s2 - s1) % N = 0
      OBVIOUS
    <3> HIDE DEF va, vb, vq, vr, k, s1, s2
    <3>2. k * s2 = vq * N + s1
      BY <2>1, <2>2, <3>1
    <3>3. k * s2 - s1 = vq * N + 0 /\ k * s2 - s1 \in Int
      <4> DEFINE m == vq * N
      <4>1. m \in Int
        BY <2>2, OrderFacts
      <4> HIDE DEF m
      <4>2. QED
        BY <2>1, <3>2, <4>1 DEF m
    <3>4. N \in Nat \ {0} /\ 0 \in 0 .. N - 1
      BY OrderFacts
    <3>5. (vq * N + 0) % N = 0
      BY <2>2, <3>4, UniqueDivision
    <3>6. QED
      BY <3>3, <3>5
  <2>4. hint.bit # 1 => (k * s2 - (-s1)) % N = 0
    <3>1. SUFFICES ASSUME hint.bit # 1 PROVE (k * s2 - (-s1)) % N = 0
      OBVIOUS
    <3> HIDE DEF va, vb, vq, vr, k, s1, s2
    <3>2. k * s2 = vq * N + (N - s1)
      BY <2>1, <2>2, <3>1
    <3>3. k * s2 - (-s1) = (vq + 1) * N + 0
      <4> DEFINE m == vq * N
      <4>1. m \in Int /\ (vq + 1) * N = m + N
        BY <2>2, OrderFacts, Z3
      <4>2. k * s2 = m + (N - s1)
        BY <3>2
      <4> HIDE DEF m
      <4>3. QED
        BY <2>1, <4>1, <4>2, OrderFacts
    <3>4. N \in Nat \ {0} /\ 0 \in 0 .. N - 1 /\ vq + 1 \in Int
      BY <2>2, OrderFacts
    <3>5. ((vq + 1) * N + 0) % N = 0
      BY <3>4, UniqueDivision
    <3>6. QED
      BY <3>3, <3>5
  <2> HIDE DEF va, vb, vq, vr
  <2>5. QED
    BY <2>1, <2>3, <2>4 DEF HintIsLattice
<1>10. InputInv'
  BY <1>1, <1>2 DEF InputInv
<1>11. SetupInv'
  BY <1>1, <1>2 DEF SetupInv, SetupBound, Usable
<1>12. ProductsInv'
  <2>1. job = 1 \/ job = 2 \/ job = 3
    BY <1>2
  <2>2. phase' # "digits" /\ phase' # "setup" /\ phase' # "hint"
    BY <1>1, <2>1
  <2>3. (FirstBound <=> FirstBound') /\ (SecondBound <=> SecondBound')
    BY <1>1 DEF FirstBound, SecondBound
  <2> HIDE DEF va, vb, vq, vr
  <2>4. CASE job = 1
    BY <1>1, <1>7, <2>4 DEF ProductsInv
  <2>5. CASE job = 2
    BY <1>1, <1>2, <1>8, <2>3, <2>5 DEF ProductsInv
  <2>6. CASE job = 3
    BY <1>1, <1>2, <2>3, <2>6 DEF ProductsInv
  <2>7. QED
    BY <2>1, <2>4, <2>5, <2>6
<1>13. HintInv'
  <2>1. HintIsLattice <=> HintIsLattice'
    BY <1>1 DEF HintIsLattice
  <2>2. CASE job = 3
    BY <1>1, <1>9, <2>1, <2>2 DEF HintInv
  <2>3. CASE job # 3
    BY <1>1, <1>2, <2>3 DEF HintInv
  <2>4. QED
    BY <2>2, <2>3
<1>14. QED
  BY <1>10, <1>11, <1>12, <1>13 DEF RowsInv

(* The certificate rows leave only u1 to be zero. *)
LEMMA CertRowsRows == RowsInv /\ CertRows => RowsInv'
<1> SUFFICES ASSUME RowsInv, CertRows PROVE RowsInv'
  OBVIOUS
<1>1. /\ phase = "certs"
      /\ ZeroScalar(1) \/ NonzeroRow(u[1])
      /\ NonzeroRow(u[2])
      /\ phase' = IF input.follow = 0 \/ ZeroScalar(input.follow) THEN "done" ELSE "hint"
      /\ UNCHANGED <<input, prover, zred, u, job, hint>>
  BY DEF CertRows
<1>2. /\ SetupBound /\ FirstBound /\ SecondBound /\ hint = NoRows /\ input \in Inputs
      /\ u \in [{1, 2} -> ScalarRows]
  BY <1>1 DEF RowsInv, InputInv, SetupInv, ProductsInv, HintInv
<1>3. input.follow \in 0 .. 2
  BY <1>2, InputFacts
<1>4. \A c \in {1, 2} : /\ u[c] \in [At -> Limb]
                        /\ ZeroScalar(c) <=> ValueOf(u[c]) = 0
  <2>1. ASSUME NEW c \in {1, 2} PROVE u[c] \in [At -> Limb] /\ (ZeroScalar(c) <=> ValueOf(u[c]) = 0)
    <3>1. u[c] \in [At -> Limb]
      BY <1>2 DEF ScalarRows
    <3>2. ValueOf(u[c]) = 0 => u[c] = ZeroLimbs
      BY <3>1, ValueOfNonzero
    <3>3. QED
      BY <3>1, <3>2, ZeroRowValue DEF ZeroScalar
  <2>2. QED
    BY <2>1
<1>5. ValueOf(u[2]) # 0
  <2> DEFINE x == u[2]
  <2>1. x \in [At -> Limb] /\ NonzeroRow(x)
    BY <1>1, <1>4
  <2> HIDE DEF x
  <2>2. ValueOf(x) \in Nat /\ 1 <= ValueOf(x)
    BY <2>1, NonzeroValue
  <2>3. QED
    BY <2>2 DEF x
<1>6. InputInv' /\ SetupInv' /\ ProductsInv'
  BY <1>1, <1>2 DEF RowsInv, InputInv, SetupInv, SetupBound, Usable, ProductsInv, FirstBound, SecondBound
<1>7. CASE input.follow = 0
  <2>1. HintInv'
    BY <1>1, <1>2, <1>7 DEF HintInv
  <2>2. QED
    BY <1>6, <2>1 DEF RowsInv
<1>8. CASE input.follow # 0 /\ ZeroScalar(input.follow)
  <2>1. input.follow = 1 /\ ValueOf(u[input.follow]) = 0
    BY <1>3, <1>4, <1>5, <1>8
  <2>2. HintIsLattice'
    BY <1>1, <1>2, <2>1 DEF HintIsLattice
  <2>3. HintInv'
    BY <1>1, <1>8, <2>2 DEF HintInv
  <2>4. QED
    BY <1>6, <2>3 DEF RowsInv
<1>9. CASE input.follow # 0 /\ ~ZeroScalar(input.follow)
  <2>1. input.follow \in 1 .. 2 /\ ValueOf(u[input.follow]) # 0
    BY <1>3, <1>4, <1>9
  <2>2. HintInv'
    BY <1>1, <1>2, <1>9, <2>1 DEF HintInv
  <2>3. QED
    BY <1>6, <2>2 DEF RowsInv
<1>10. QED
  BY <1>6, <1>7, <1>8, <1>9 DEF RowsInv

(* The hint row, the selector rows and the canonical rows of the half scalars name
   the factors of the hint's product. *)
LEMMA HintRowsRows == RowsInv /\ HintRows => RowsInv'
<1> SUFFICES ASSUME RowsInv, HintRows PROVE RowsInv'
  OBVIOUS
<1>1. phase = "hint" /\ job' = 3 /\ UNCHANGED <<input, prover, zred, u>>
  BY DEF HintRows
<1>2. PICK bit \in Bits, r1 \in SelectorRows :
         \E sel \in SelectedRows(r1.limbs, bit) \cap Canonical :
            \E r2 \in {r \in SelectorRows : r.limbs \in Canonical /\ NonzeroRow(r.limbs)} :
               /\ hint' = [s1 |-> r1.h, s2 |-> r2.h, bit |-> bit]
               /\ Start(u[input.follow], r2.limbs, sel)
  BY Zenon DEF HintRows
<1>3. PICK sel \in SelectedRows(r1.limbs, bit) \cap Canonical,
           r2 \in {r \in SelectorRows : r.limbs \in Canonical /\ NonzeroRow(r.limbs)} :
               /\ hint' = [s1 |-> r1.h, s2 |-> r2.h, bit |-> bit]
               /\ Start(u[input.follow], r2.limbs, sel)
  BY <1>2
<1> DEFINE a == u[input.follow]
           b == r2.limbs
<1>4. /\ op' = [a |-> a, b |-> b, result |-> sel]
      /\ q' = ZeroLimbs /\ digit' = 0 /\ win' = NoWindow /\ carry' = 0 /\ phase' = "digits"
  BY <1>3 DEF Start
<1>5. /\ SetupBound /\ FirstBound /\ SecondBound /\ input \in Inputs
      /\ u \in [{1, 2} -> ScalarRows]
      /\ input.follow \in 1 .. 2 /\ ValueOf(u[input.follow]) # 0
  BY <1>1 DEF RowsInv, InputInv, SetupInv, ProductsInv, HintInv
<1>6. r2 \in SelectorRows /\ b \in Canonical /\ NonzeroRow(b) /\ sel \in Canonical
      /\ sel \in SelectedRows(r1.limbs, bit)
  BY <1>3
<1>7. ValueOf(b) = r2.h /\ b \in [At -> Limb]
  BY <1>6, HalfValue, CanonicalBelowOrder
<1>8. r2.h \in Nat \ {0}
  <2>1. ValueOf(b) \in Nat /\ 1 <= ValueOf(b)
    <3> HIDE DEF b
    <3>1. QED
      BY <1>6, <1>7, NonzeroValue
  <2>2. QED
    BY <1>7, <2>1
<1>9. r1.h \in Nat
  <2>1. r1.h \in 0 .. HalfBound - 1
    BY SelectorRow
  <2> HIDE DEF HalfBound
  <2>2. QED
    BY <2>1, OrderFacts
<1>10. ValueOf(sel) = (IF bit = 1 THEN r1.h ELSE N - r1.h) /\ sel \in [At -> Limb]
  BY <1>6, SelectedValue, CanonicalBelowOrder
<1>11. a \in [At -> Limb]
  <2>1. input.follow \in {1, 2}
    BY <1>5
  <2>2. QED
    BY <1>5, <2>1 DEF ScalarRows
<1>12. hint'.s1 = r1.h /\ hint'.s2 = r2.h /\ hint'.bit = bit
  BY <1>3
<1> HIDE DEF a, b
<1>13. op'.a = a /\ op'.b = b /\ op'.result = sel
  BY <1>4
<1>14. ProductState(op, q, digit, win, carry)'
  <2>1. ProductRows(op', ZeroLimbs)
    BY <1>7, <1>10, <1>11, <1>13, ZeroRowValue DEF ProductRows
  <2>2. ProductState(op', ZeroLimbs, 0, NoWindow, 0)
    BY <2>1, ProductBegins
  <2>3. QED
    BY <1>4, <2>2
<1>15. FactorsNamed'
  <2>1. /\ input'.follow \in 1 .. 2 /\ ValueOf(u'[input'.follow]) # 0
        /\ op'.a = u'[input'.follow]
        /\ hint'.s1 \in Nat /\ hint'.s2 \in Nat \ {0}
        /\ ValueOf(op'.b) = hint'.s2
        /\ ValueOf(op'.result) = IF hint'.bit = 1 THEN hint'.s1 ELSE N - hint'.s1
    BY <1>1, <1>5, <1>7, <1>8, <1>9, <1>10, <1>12, <1>13 DEF a
  <2>2. QED
    BY <1>1, <2>1 DEF FactorsNamed
<1>16. InputInv'
  BY <1>1, <1>4, <1>5 DEF InputInv
<1>17. SetupInv'
  BY <1>1, <1>5 DEF SetupInv, SetupBound, Usable
<1>18. ProductsInv'
  BY <1>1, <1>4, <1>5, <1>14, <1>15 DEF ProductsInv, FirstBound, SecondBound
<1>19. HintInv'
  BY <1>1, <1>4 DEF HintInv
<1>20. QED
  BY <1>16, <1>17, <1>18, <1>19 DEF RowsInv

(* Nothing is bound or lost between two rows. *)
LEMMA StutterRows == RowsInv /\ UNCHANGED vars => RowsInv'
<1> SUFFICES ASSUME RowsInv, UNCHANGED vars PROVE RowsInv'
  OBVIOUS
<1>1. /\ UNCHANGED <<input, phase, zred, u, job, op, q, digit, win, carry, hint>>
  BY DEF vars
<1>2. ProductState(op, q, digit, win, carry)' <=> ProductState(op, q, digit, win, carry)
  BY <1>1
<1>3. FactorsNamed' <=> FactorsNamed
  BY <1>1 DEF FactorsNamed, S, R
<1>4. (FirstBound' <=> FirstBound) /\ (SecondBound' <=> SecondBound) /\ (SetupBound' <=> SetupBound)
      /\ (HintIsLattice' <=> HintIsLattice)
  BY <1>1 DEF FirstBound, SecondBound, SetupBound, HintIsLattice, Usable
<1>5. QED
  BY <1>1, <1>2, <1>3, <1>4 DEF RowsInv, InputInv, SetupInv, ProductsInv, HintInv

(* Whoever fills them, the rows filled so far have bound what they are for: the
   digest is reduced, u1 and u2 solve their equations modulo the order once their
   products are closed, and a product in progress owes exactly what its windows
   and its carry hold (scalar_setup/air.rs, scalar_mod_mul/component.rs). *)
THEOREM RowsBound == Spec => []RowsInv
<1>1. Init => RowsInv
  BY InitRows
<1>2. RowsInv /\ [Next]_vars => RowsInv'
  <2> SUFFICES ASSUME RowsInv, [Next]_vars PROVE RowsInv'
    OBVIOUS
  <2>1. CASE Refuse
    BY <2>1, RefuseRows
  <2>2. CASE SetupRow
    BY <2>2, SetupRowBinds
  <2>3. CASE StartProduct
    BY <2>3, StartProductRows
  <2>4. CASE ProductDigit
    BY <2>4, ProductDigitRows
  <2>5. CASE EndProduct
    BY <2>5, EndProductRows
  <2>6. CASE CertRows
    BY <2>6, CertRowsRows
  <2>7. CASE HintRows
    BY <2>7, HintRowsRows
  <2>8. CASE UNCHANGED vars
    BY <2>8, StutterRows
  <2>9. QED
    BY <2>1, <2>2, <2>3, <2>4, <2>5, <2>6, <2>7, <2>8 DEF Next
<1>3. QED
  BY <1>1, <1>2, PTL DEF Spec

(* What the rows accept is the ECDSA scalar setup of a digest reduced fully and of
   r and s in 1 .. n - 1, and a lattice relation of the followed scalar, for every
   order, limb size, field and input that meet the assumptions. *)
THEOREM ScalarsBound == Spec => []AcceptedScalarsAreBound
<1>1. RowsInv => AcceptedScalarsAreBound
  <2> SUFFICES ASSUME RowsInv, phase = "done"
               PROVE  ScalarsAreEcdsa /\ (input.follow # 0 => HintIsLattice)
    BY DEF AcceptedScalarsAreBound
  <2>1. SetupBound /\ FirstBound /\ SecondBound /\ (input.follow # 0 => HintIsLattice)
    BY DEF RowsInv, SetupInv, ProductsInv, HintInv
  <2>2. \A c \in {1, 2} : ValueOf(u[c]) \in 0 .. N - 1
    BY DEF RowsInv, InputInv, ScalarRows
  <2>3. QED
    BY <2>1, <2>2 DEF ScalarsAreEcdsa, SetupBound, FirstBound, SecondBound
<1>2. QED
  BY <1>1, RowsBound, PTL
==============================================================================
