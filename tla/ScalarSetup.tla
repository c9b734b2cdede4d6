----------------------------- MODULE ScalarSetup ----------------------------
(***************************************************************************)
(* How the constraints of stwo-p256 tie a signature's digest, r and s to   *)
(* the scalars u1 and u2, and one of these to the half scalars its chain   *)
(* consumes: the setup row, the two products s u1 = q1 n + z_red and       *)
(* s u2 = q2 n + r, the certificate rows, and for one certificate the      *)
(* hint row, the selector row and the product u s2 = q n + selected_s1.    *)
(*                                                                         *)
(* A behaviour fills the rows in this order, a product one digit at a      *)
(* time.  The honest prover writes what the code computes; the other       *)
(* prover writes anything that satisfies the row.  A lookup between rows   *)
(* is the equality it enforces: every relation here carries the id of its  *)
(* product, and the fixed schedule asks for each limb and digit as often   *)
(* as one complete set of rows offers it.  The two certificates share      *)
(* nothing but the setup row; "follow" names the one this behaviour fills. *)
(***************************************************************************)
EXTENDS LimbRows

CONSTANT Inputs  \* records of z, r, s and follow (0 when no certificate is followed)

ASSUME InputsAssumption ==
    LET Word == 0 .. Place[K] - 1
    IN  Inputs \subseteq [z : Word, r : Word, s : Word, follow : 0 .. 2]

VARIABLES
    input,
    prover,  \* "honest" or "any"
    phase,   \* "setup", "factor", "digits", "certs", "hint", "done", "refused"
    zred,    \* the reduced digest
    u,       \* u1 and u2
    job,     \* 1 and 2: the products of u1 and u2; 3: the one of the hint
    op,      \* the factors and the result of the current product
    q,       \* its quotient, known up to the current digit
    digit,   \* the current digit
    win,     \* sums already due to the current digit and the next, of ab and of qn
    carry,   \* the reduction's carry into the current digit
    hint     \* the values the selectors stand for, and the sign bit

vars == <<input, prover, phase, zred, u, job, op, q, digit, win, carry, hint>>
product == <<op, q, digit, win, carry>>

Z == LimbsOf(input.z)
R == LimbsOf(input.r)
S == LimbsOf(input.s)

Honest == prover = "honest"

(* What a row may hold, and what the honest prover writes there. *)
Choices(admitted, written) == IF Honest THEN admitted \cap {written} ELSE admitted

NoProduct == [a |-> ZeroLimbs, b |-> ZeroLimbs, result |-> ZeroLimbs]
NoWindow == [ab |-> <<0, 0>>, qn |-> <<0, 0>>]
NoRows == [s1 |-> 0, s2 |-> 0, bit |-> 0]

Init ==
    /\ input \in Inputs /\ prover \in {"honest", "any"}
    /\ phase = "setup" /\ zred = ZeroLimbs /\ u = <<ZeroLimbs, ZeroLimbs>> /\ job = 1
    /\ op = NoProduct /\ q = ZeroLimbs /\ digit = 0 /\ win = NoWindow /\ carry = 0
    /\ hint = NoRows

Usable(x) == x \in 1 .. N - 1

(* ScalarSetupWitness::new rejects r and s outside 1 .. n - 1. *)
Refuse ==
    /\ phase = "setup" /\ Honest /\ ~(Usable(input.r) /\ Usable(input.s))
    /\ phase' = "refused"
    /\ UNCHANGED <<input, prover, zred, u, job, product, hint>>

(* ScalarSetupAirEval: r and s canonical and nonzero, the digest reduced. *)
SetupRow ==
    /\ phase = "setup" /\ (Honest => Usable(input.r) /\ Usable(input.s))
    /\ R \in Canonical /\ NonzeroRow(R) /\ S \in Canonical /\ NonzeroRow(S)
    /\ zred' \in Choices({x \in Canonical : DigestRow(Z, x)},
                         LimbsOf(IF input.z < N THEN input.z ELSE input.z - N))
    /\ phase' = "factor"
    /\ UNCHANGED <<input, prover, u, job, product, hint>>

Start(a, b, result) ==
    /\ op' = [a |-> a, b |-> b, result |-> result]
    /\ q' = ZeroLimbs /\ digit' = 0 /\ win' = NoWindow /\ carry' = 0
    /\ phase' = "digits"

(* The solution of s x = v modulo n. *)
Quotient(v) == CHOOSE x \in 0 .. N - 1 : (input.s * x - v) % N = 0

(* The canonical rows of s and of u1 or u2; the result is a setup column. *)
StartProduct ==
    /\ phase = "factor"
    /\ LET result == IF job = 1 THEN zred ELSE R
       IN  \E b \in Choices(Canonical, LimbsOf(Quotient(ValueOf(result)))) :
              /\ u' = [u EXCEPT ![job] = b]
              /\ Start(S, b, result)
    /\ UNCHANGED <<input, prover, zred, job, hint>>

QuotientLimbs ==
    IF digit >= K \/ (job = 3 /\ digit >= KS) THEN {0}
    ELSE Choices(Limb, LimbsOf((ValueOf(op.a) * ValueOf(op.b)) \div N)[digit])

(* One product digit: its quotient limb, the chunks of its coefficient on both
   sides, the two accumulators and the reduction row. *)
ProductDigit ==
    /\ phase = "digits" /\ digit < 2 * K
    /\ \E ab \in CoefficientDigits(op.a, op.b, digit, Honest) :
          LET due == win.ab[1] + ab[1] - (IF digit < K THEN op.result[digit] ELSE 0) + carry
          IN  \E ql \in QuotientLimbs :
                 LET known == IF digit < K THEN [q EXCEPT ![digit] = ql] ELSE q
                 IN  \E qn \in CoefficientDigits(known, Order, digit, Honest) :
                        /\ \E out \in CarriesOut(due - win.qn[1] - qn[1]) :
                              /\ digit = 2 * K - 1 => out = 0
                              /\ carry' = out
                        /\ q' = known
                        /\ win' = [ab |-> <<win.ab[2] + ab[2], ab[3]>>,
                                   qn |-> <<win.qn[2] + qn[2], qn[3]>>]
    /\ digit' = digit + 1
    /\ UNCHANGED <<input, prover, phase, zred, u, job, op, hint>>

(* The canonical row of the quotient closes a product. *)
EndProduct ==
    /\ phase = "digits" /\ digit = 2 * K /\ q \in Canonical
    /\ phase' = IF job = 1 THEN "factor" ELSE IF job = 2 THEN "certs" ELSE "done"
    /\ job' = IF job = 1 THEN 2 ELSE job
    /\ op' = NoProduct /\ q' = ZeroLimbs /\ digit' = 0 /\ win' = NoWindow /\ carry' = 0
    /\ UNCHANGED <<input, prover, zred, u, hint>>

ZeroScalar(c) == u[c] = ZeroLimbs

(* constrain_cert_from_setup: a scalar is flagged zero or nonzero, u2 nonzero;
   the hint of a zero scalar is zero. *)
CertRows ==
    /\ phase = "certs"
    /\ ZeroScalar(1) \/ NonzeroRow(u[1])
    /\ NonzeroRow(u[2])
    /\ phase' = IF input.follow = 0 \/ ZeroScalar(input.follow) THEN "done" ELSE "hint"
    /\ UNCHANGED <<input, prover, zred, u, job, product, hint>>

HonestHint(h, k) ==
    LET quotient == (k * h.s2 - SelectedS1(h)) \div N
    IN  VerifiedHint(k, [s1 |-> h.s1, s2 |-> h.s2, bit |-> h.bit, q |-> quotient])

(* FakeGlvScalarAirEval and FakeGlvSelectorAirEval: s2 nonzero, selected_s1 from
   s1, both cut out of the selectors' bits; the half scalar s2 and selected_s1 go
   to canonical rows. *)
HintRows ==
    /\ phase = "hint"
    /\ \E bit \in Bits, r1 \in SelectorRows :
          \E sel \in SelectedRows(r1.limbs, bit) \cap Canonical :
             \E r2 \in {r \in SelectorRows : r.limbs \in Canonical /\ NonzeroRow(r.limbs)} :
                LET h == [s1 |-> r1.h, s2 |-> r2.h, bit |-> bit]
                IN  /\ Honest => /\ HonestHint(h, ValueOf(u[input.follow]))
                                 /\ r1.limbs = LimbsOf(h.s1) /\ r2.limbs = LimbsOf(h.s2)
                    /\ hint' = h
                    /\ Start(u[input.follow], r2.limbs, sel)
    /\ job' = 3
    /\ UNCHANGED <<input, prover, zred, u>>

Next == Refuse \/ SetupRow \/ StartProduct \/ ProductDigit \/ EndProduct \/ CertRows \/ HintRows

Spec == Init /\ [][Next]_vars

-----------------------------------------------------------------------------
(* Rows that are all filled are those of a signature: the digest is reduced
   fully, r and s lie in 1 .. n - 1, and u1 and u2 are the ECDSA scalars, though
   every equation holds only limb by limb in the field. *)
ScalarsAreEcdsa ==
    /\ Usable(input.r) /\ Usable(input.s)
    /\ ValueOf(zred) = input.z % N
    /\ \A c \in {1, 2} : ValueOf(u[c]) \in 0 .. N - 1
    /\ (input.s * ValueOf(u[1])) % N = input.z % N
    /\ (input.s * ValueOf(u[2])) % N = input.r

(* The half scalars the chain consumes relate as its scalar demands, s2 is not
   zero, and no certificate but that of u1 goes without one. *)
HintIsLattice ==
    LET k == ValueOf(u[input.follow])
    IN  IF k = 0 THEN input.follow = 1 /\ hint = NoRows
        ELSE /\ hint.s2 # 0
             /\ (k * hint.s2 - (IF hint.bit = 1 THEN hint.s1 ELSE -hint.s1)) % N = 0

(* What the rows accept, whoever fills them, is the ECDSA scalar setup and a
   lattice relation of the followed scalar: chunk digits, borrows and signed
   carries leave no other solution (scalar_mod_mul/component.rs, scalar_setup/air.rs,
   fake_glv/scalar/air.rs, fake_glv/selector/air.rs). *)
AcceptedScalarsAreBound ==
    phase = "done" => ScalarsAreEcdsa /\ (input.follow # 0 => HintIsLattice)

(* The values the code computes fill every row: an honest prover stops only
   when done or when it has refused r or s (scalar_setup/witness.rs,
   scalar_mod_mul/trace.rs, fake_glv/scalar/air.rs). *)
HonestSetupProves == Honest /\ phase \notin {"done", "refused"} => ENABLED Next
=============================================================================
