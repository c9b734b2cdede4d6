---------------------------- MODULE MCP256Claim -----------------------------
(***************************************************************************)
(* The inputs of the runs, over a group of 46337 points: valid signatures  *)
(* with every twelfth u2, special shapes of valid signatures, and single   *)
(* changes that make a signature invalid.                                  *)
(***************************************************************************)
EXTENDS P256Air

(* The x coordinates: distinct up to sign, three of them at the order or above. *)
AllX == [i \in 1 .. N - 1 |-> 46340 - (IF 2 * i < N THEN i ELSE N - i)]

InverseAt[i \in 1 .. N - 1] ==
    IF i = 1 THEN 1 ELSE (N - (((N \div i) * InverseAt[N % i]) % N)) % N
AllInverses == [i \in 1 .. N - 1 |-> InverseAt[i]]

Input(z, r, s, d, path, probe) ==
    [z |-> z, r |-> r, s |-> s, d |-> d, path |-> path, probe |-> probe]

(* The input whose scalars are u1 and u2, with the signature's r given. *)
WithR(u1, u2, d, r, path, probe) ==
    LET s == (r * InverseOf[u2]) % N
    IN  Input((u1 * s) % N, r, s, d, path, probe)

PointAt(u1, u2, d) == (u1 + ((u2 * d) % N)) % N

Valid(u1, u2, d, path, probe) ==
    WithR(u1, u2, d, XCoord[PointAt(u1, u2, d)] % N, path, probe)

Good(u1, u2, d) == PointAt(u1, u2, d) # 0 /\ XCoord[PointAt(u1, u2, d)] % N # 0

GoodCases(U) ==
    {c \in {<<(5 * u + 7) % N, u, 1 + ((3 * u) % (N - 1))>> : u \in U} : Good(c[1], c[2], c[3])}

Sweep == {Valid(c[1], c[2], c[3], "direct", c[2] % 50 = 7) :
             c \in GoodCases({u \in 1 .. N - 1 : u % 12 = 1})}

Spread == {u \in 1 .. N - 1 : u % 997 = 5}
Checked == {Valid(c[1], c[2], c[3], "checked", FALSE) : c \in GoodCases(Spread)}

(* The same signatures with one part changed. *)
Changed ==
    UNION {{[i EXCEPT !.r = (@ + 1) % N], [i EXCEPT !.z = (@ + 1) % N],
            [i EXCEPT !.s = 1 + (@ % (N - 1))], [i EXCEPT !.d = 1 + (@ % (N - 1))],
            [i EXCEPT !.r = 0], [i EXCEPT !.s = 0], [i EXCEPT !.r = N],
            [i EXCEPT !.s = N], [i EXCEPT !.d = 0]} :
           i \in Checked \cup {[j EXCEPT !.path = "direct"] : j \in Checked}}

(* A signature of the digest z whose final point is m. *)
OfDigest(z, u1, m) ==
    LET r  == XCoord[m] % N
        u2 == (((u1 * r) % N) * InverseOf[z]) % N
    IN  WithR(u1, u2, (((m - u1) % N) * InverseOf[u2]) % N, r, "direct", FALSE)

(* Digests above the order, u1 zero or a unit, final points whose x is above the
   order, equal addends, a final point at infinity. *)
UnitCases ==
    UNION {{Valid(u1, u2, d, path, FALSE) : path \in {"direct", "checked"}} :
              u1 \in {0, 1, N - 1}, u2 \in {1, 2, 700, N - 1}, d \in {9, 1200}}

Special ==
    UnitCases
    \cup {[i EXCEPT !.z = N] : i \in {j \in UnitCases : j.z = 0}}
    \cup {[OfDigest(z, u1, 500) EXCEPT !.z = @ + N] : z \in {1, 2}, u1 \in {40, 1000}}
    \cup {Valid((m - ((u2 * d) % N)) % N, u2, d, "direct", FALSE) :
             m \in {1, 2, N - 1, N - 2}, u2 \in {900, 31000}, d \in {9, 1200}}
    \cup {Valid((u2 * d) % N, u2, d, "direct", FALSE) : u2 \in Spread, d \in {2, 77}}
    \cup {WithR((N - ((u2 * d) % N)) % N, u2, d, 17, "direct", FALSE) :
             u2 \in Spread, d \in {1, 1201}}

(* An x below the order and r at x + W - N: the difference's word. *)
Wrapped ==
    {WithR(u1, u2, 11, XCoord[PointAt(u1, u2, 11)] + W - N, "checked", FALSE) :
        <<u1, u2>> \in {x \in {5, 600, 1900} \X Spread :
            /\ PointAt(x[1], x[2], 11) # 0
            /\ XCoord[PointAt(x[1], x[2], 11)] + W - N < N}}

AllInputs == Sweep \cup Checked \cup Changed \cup Special \cup Wrapped
=============================================================================
